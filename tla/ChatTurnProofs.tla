--------------------------- MODULE ChatTurnProofs ---------------------------
(***************************************************************************)
(* Proofs about ChatTurn, for any keys, hosts and bounds.                  *)
(*                                                                         *)
(* The inductive invariant Inv says, besides the types and the transcript, *)
(* what makes a stale read harmless: while a transaction has the chat row, *)
(* all that can change under it are leases; a generation that is saving    *)
(* still holds the fence of its turn; and no turn that a stop is about to  *)
(* dispose of can be generating.                                           *)
(***************************************************************************)
EXTENDS ChatTurn, TLAPS

USE BoundsAssumption DEF Attempt

-----------------------------------------------------------------------------
(* Lemmas on rows and transcripts.                                         *)

LEMMA RowFacts ==
  ASSUME NEW r \in Row
  PROVE  /\ r = [status |-> r.status, attempt |-> r.attempt, lease |-> r.lease]
         /\ r.status = "NONE" <=> r = NoTurn
         /\ r.status = "GENERATING" <=> r.lease \in {"live", "expired"}
         /\ r.status # "NONE" => r.attempt \in Attempt
         /\ r.status \in Terminal => r.lease = "none"
         /\ r.status \in {"NONE", "GENERATING"} \cup Terminal
         /\ r.attempt \in 0 .. AttemptBound
BY DEF Row, NoTurn, Terminal, Outcome

LEMMA UserMessageFacts ==
  ASSUME NEW k \in Key
  PROVE  /\ UserMessage(k) \in Message
         /\ UserMessage(k).turn = k
         /\ UserMessage(k).role = "USER"
BY DEF UserMessage, Message

LEMMA ReplyMessageFacts ==
  ASSUME NEW k \in Key, NEW a \in Attempt, NEW s \in Terminal
  PROVE  /\ ReplyMessage(k, a, s) \in Message
         /\ ReplyMessage(k, a, s).turn = k
         /\ ReplyMessage(k, a, s).role = "ASSISTANT"
         /\ ReplyMessage(k, a, s).status = s
         /\ ReplyMessage(k, a, s).attempt = a
BY DEF ReplyMessage, Message

(* The prompt of a generating turn is the last message. *)
LEMMA OpenIsLast ==
  ASSUME NEW rows, NEW log \in Seq(Message), Transcript(rows, log),
         NEW k \in Key, rows[k].status = "GENERATING"
  PROVE  /\ Len(log) \in Nat \ {0}
         /\ Len(log) % 2 = 1
         /\ log[Len(log)] = UserMessage(k)
<1>1. PICK i \in 1 .. Len(log) : log[i] = UserMessage(k)
  BY DEF Transcript
<1>2. i % 2 = 1
  <2>1. log[i].role = "USER"
    BY <1>1, UserMessageFacts
  <2> QED BY <2>1 DEF Transcript
<1>3. i = Len(log)
  BY <1>1, <1>2, UserMessageFacts DEF Transcript
<1> QED BY <1>1, <1>2, <1>3

(* So at most one turn is generating. *)
LEMMA OneGenerating ==
  ASSUME NEW rows, NEW log \in Seq(Message), Transcript(rows, log),
         NEW k \in Key, rows[k].status = "GENERATING",
         NEW o \in Key, rows[o].status = "GENERATING"
  PROVE  k = o
BY OpenIsLast, UserMessageFacts

(* A generating turn has no reply yet. *)
LEMMA OpenHasNoReply ==
  ASSUME NEW rows, NEW log \in Seq(Message), Transcript(rows, log),
         NEW k \in Key, rows[k].status = "GENERATING",
         NEW i \in 1 .. Len(log), log[i].turn = k
  PROVE  i = Len(log)
<1> DEFINE n == Len(log)
<1>1. n \in Nat \ {0} /\ log[n] = UserMessage(k)
  BY OpenIsLast
<1>2. \A j \in 1 .. n : log[j].turn = k /\ log[j].role = "USER" => j = n
  BY <1>1, UserMessageFacts DEF Transcript
<1> SUFFICES ASSUME log[i].role # "USER" PROVE FALSE
  BY <1>2
<1>3. i % 2 # 1
  BY UserMessageFacts DEF Transcript, Message
<1>4. i > 1 /\ i - 1 \in 1 .. n /\ (i - 1) % 2 = 1
  BY <1>3, <1>1
<1>5. log[i - 1].turn = k /\ log[i - 1] = UserMessage(k)
  BY <1>3, <1>4 DEF Transcript
<1>6. i - 1 = n
  BY <1>4, <1>5, <1>2, UserMessageFacts
<1> QED BY <1>6

(* A turn that does not exist has no messages. *)
LEMMA NewHasNoMessage ==
  ASSUME NEW rows, NEW log \in Seq(Message), Transcript(rows, log),
         NEW k \in Key, rows[k].status = "NONE",
         NEW i \in 1 .. Len(log), log[i].turn = k
  PROVE  FALSE
<1>1. CASE i % 2 = 1
  <2>1. log[i] = UserMessage(k)
    BY <1>1 DEF Transcript
  <2> QED BY <2>1 DEF Transcript
<1>2. CASE i % 2 # 1
  <2>1. i - 1 \in 1 .. Len(log) /\ (i - 1) % 2 = 1
    BY <1>2
  <2>2. log[i - 1].turn = k /\ log[i - 1] = UserMessage(k)
    BY <1>2, <2>1 DEF Transcript
  <2> QED BY <2>1, <2>2 DEF Transcript
<1> QED BY <1>1, <1>2

(* The reply of a generating turn closes its exchange. *)
LEMMA ReplyKeepsTranscript ==
  ASSUME NEW rows \in [Key -> Row], NEW log \in Seq(Message), Transcript(rows, log),
         NEW k \in Key, rows[k].status = "GENERATING",
         NEW a \in Attempt, NEW s \in Terminal, NEW row, row.status = s
  PROVE  Transcript([rows EXCEPT ![k] = row], Append(log, ReplyMessage(k, a, s)))
<1> DEFINE new == [rows EXCEPT ![k] = row]
           msg == ReplyMessage(k, a, s)
           lg  == Append(log, msg)
           n   == Len(log)
<1>1. n \in Nat \ {0} /\ n % 2 = 1 /\ log[n] = UserMessage(k)
  BY OpenIsLast
<1>2. /\ Len(lg) = n + 1
      /\ \A i \in 1 .. n : lg[i] = log[i]
      /\ lg[n + 1] = msg
  BY <1>1, ReplyMessageFacts
<1>lst. lg[n + 1].turn = k /\ lg[n + 1].role = "ASSISTANT"
  BY <1>2, ReplyMessageFacts
<1>3. (n + 1) % 2 = 0
  BY <1>1
<1>4. s \notin {"GENERATING", "NONE"}
  BY DEF Terminal, Outcome
<1>5. \A i \in 1 .. n : log[i] \in Message /\ log[i].turn \in Key
  BY DEF Message
<1>7. \A i \in 1 .. n : log[i].turn = k => i = n
  BY OpenHasNoReply
<1>8. ASSUME NEW i \in 1 .. Len(lg)
      PROVE  LET q == lg[i].turn IN
             IF i % 2 = 1
             THEN /\ lg[i] = UserMessage(q)
                  /\ i = Len(lg) <=> new[q].status = "GENERATING"
             ELSE /\ lg[i].role = "ASSISTANT"
                  /\ q = lg[i - 1].turn
                  /\ lg[i].status = new[q].status
  <2>1. CASE i = n + 1
    <3>1. lg[i] = msg /\ lg[i - 1] = UserMessage(k) /\ i % 2 # 1
      BY <2>1, <1>1, <1>2, <1>3
    <3>2. new[k].status = s
      OBVIOUS
    <3> QED BY <3>1, <3>2, ReplyMessageFacts, UserMessageFacts
  <2>2. CASE i = n
    <3>1. lg[i] = UserMessage(k) /\ i % 2 = 1 /\ i # Len(lg)
      BY <2>2, <1>1, <1>2
    <3>2. new[k].status # "GENERATING"
      BY <1>4
    <3> QED BY <3>1, <3>2, UserMessageFacts
  <2>3. CASE i \in 1 .. n /\ i # n
    <3>1. lg[i] = log[i] /\ log[i].turn \in Key /\ log[i].turn # k
      BY <2>3, <1>2, <1>5, <1>7
    <3>2. new[log[i].turn] = rows[log[i].turn]
      BY <3>1
    <3>3. CASE i % 2 = 1
      <4>1. /\ log[i] = UserMessage(log[i].turn)
            /\ rows[log[i].turn].status # "GENERATING"
        BY <2>3, <3>3 DEF Transcript
      <4>2. i # Len(lg)
        BY <2>3, <1>1, <1>2
      <4> QED BY <3>1, <3>2, <3>3, <4>1, <4>2
    <3>4. CASE i % 2 # 1
      <4>1. i - 1 \in 1 .. n
        BY <2>3, <3>4
      <4>2. lg[i - 1] = log[i - 1]
        BY <4>1, <1>2
      <4> QED BY <2>3, <3>1, <3>2, <3>4, <4>2 DEF Transcript
    <3> QED BY <3>3, <3>4
  <2> QED BY <1>1, <1>2, <2>1, <2>2, <2>3
<1>9. ASSUME NEW q \in Key
      PROVE  new[q].status # "NONE" <=> \E i \in 1 .. Len(lg) : lg[i] = UserMessage(q)
  <2>0. lg[n + 1] # UserMessage(q)
    BY <1>lst, UserMessageFacts
  <2>1. (\E i \in 1 .. Len(lg) : lg[i] = UserMessage(q))
          <=> (\E i \in 1 .. n : log[i] = UserMessage(q))
    BY <1>1, <1>2, <2>0
  <2>2. rows[q].status # "NONE" <=> new[q].status # "NONE"
    BY <1>4
  <2> QED BY <2>1, <2>2 DEF Transcript
<1>10. ASSUME NEW i \in 1 .. Len(lg), NEW j \in 1 .. Len(lg),
              lg[i].turn = lg[j].turn, lg[i].role = lg[j].role
       PROVE  i = j
  <2>1. CASE i \in 1 .. n /\ j \in 1 .. n
    BY <2>1, <1>10, <1>2 DEF Transcript
  <2>2. CASE i = n + 1 /\ j = n + 1
    BY <2>2
  <2>3. CASE i = n + 1 /\ j \in 1 .. n
    <3>1. log[j].turn = k /\ log[j].role = "ASSISTANT"
      BY <2>3, <1>10, <1>2, <1>lst
    <3> QED BY <3>1, <2>3, <1>1, <1>7, UserMessageFacts
  <2>4. CASE j = n + 1 /\ i \in 1 .. n
    <3>1. log[i].turn = k /\ log[i].role = "ASSISTANT"
      BY <2>4, <1>10, <1>2, <1>lst
    <3> QED BY <3>1, <2>4, <1>1, <1>7, UserMessageFacts
  <2> QED BY <1>1, <1>2, <2>1, <2>2, <2>3, <2>4
<1> QED BY <1>8, <1>9, <1>10 DEF Transcript

(* A new prompt may follow once no turn is generating. *)
LEMMA PromptKeepsTranscript ==
  ASSUME NEW rows \in [Key -> Row], NEW log \in Seq(Message), Transcript(rows, log),
         NEW k \in Key, rows[k].status = "NONE",
         \A q \in Key : rows[q].status # "GENERATING",
         NEW row, row.status = "GENERATING"
  PROVE  Transcript([rows EXCEPT ![k] = row], Append(log, UserMessage(k)))
<1> DEFINE new == [rows EXCEPT ![k] = row]
           lg  == Append(log, UserMessage(k))
           n   == Len(log)
<1>1. n \in Nat
  OBVIOUS
<1>2. /\ Len(lg) = n + 1
      /\ \A i \in 1 .. n : lg[i] = log[i]
      /\ lg[n + 1] = UserMessage(k)
  BY UserMessageFacts
<1>3. lg[n + 1].turn = k /\ lg[n + 1].role = "USER"
  BY <1>2, UserMessageFacts
<1>4. \A i \in 1 .. n : log[i] \in Message /\ log[i].turn \in Key
  BY DEF Message
<1>5. n % 2 = 0
  <2> SUFFICES ASSUME n % 2 = 1 PROVE FALSE
    BY <1>1
  <2>1. n \in 1 .. n /\ log[n].turn \in Key
    BY <1>1, <1>4
  <2>2. rows[log[n].turn].status = "GENERATING"
    BY <2>1 DEF Transcript
  <2> QED BY <2>1, <2>2
<1>6. \A i \in 1 .. n : log[i].turn # k
  BY NewHasNoMessage
<1>8. ASSUME NEW i \in 1 .. Len(lg)
      PROVE  LET q == lg[i].turn IN
             IF i % 2 = 1
             THEN /\ lg[i] = UserMessage(q)
                  /\ i = Len(lg) <=> new[q].status = "GENERATING"
             ELSE /\ lg[i].role = "ASSISTANT"
                  /\ q = lg[i - 1].turn
                  /\ lg[i].status = new[q].status
  <2>1. CASE i = n + 1
    <3>1. i % 2 = 1 /\ i = Len(lg)
      BY <2>1, <1>1, <1>2, <1>5
    <3> QED BY <2>1, <3>1, <1>2, <1>3
  <2>3. CASE i \in 1 .. n
    <3>1. lg[i] = log[i] /\ log[i].turn \in Key /\ log[i].turn # k
      BY <2>3, <1>2, <1>4, <1>6
    <3>2. new[log[i].turn] = rows[log[i].turn]
      BY <3>1
    <3>3. CASE i % 2 = 1
      <4>1. log[i] = UserMessage(log[i].turn)
        BY <2>3, <3>3 DEF Transcript
      <4>2. i # Len(lg)
        BY <2>3, <1>1, <1>2
      <4> QED BY <3>1, <3>2, <3>3, <4>1, <4>2
    <3>4. CASE i % 2 # 1
      <4>1. i - 1 \in 1 .. n
        BY <2>3, <3>4
      <4>2. lg[i - 1] = log[i - 1]
        BY <4>1, <1>2
      <4> QED BY <2>3, <3>1, <3>2, <3>4, <4>2 DEF Transcript
    <3> QED BY <3>3, <3>4
  <2> QED BY <1>1, <1>2, <2>1, <2>3
<1>9. ASSUME NEW q \in Key
      PROVE  new[q].status # "NONE" <=> \E i \in 1 .. Len(lg) : lg[i] = UserMessage(q)
  <2>1. CASE q = k
    BY <2>1, <1>1, <1>2
  <2>2. CASE q # k
    <3>1. lg[n + 1] # UserMessage(q)
      BY <2>2, <1>3, UserMessageFacts
    <3>2. (\E i \in 1 .. Len(lg) : lg[i] = UserMessage(q))
            <=> (\E i \in 1 .. n : log[i] = UserMessage(q))
      BY <1>1, <1>2, <3>1
    <3> QED BY <2>2, <3>2 DEF Transcript
  <2> QED BY <2>1, <2>2
<1>10. ASSUME NEW i \in 1 .. Len(lg), NEW j \in 1 .. Len(lg),
              lg[i].turn = lg[j].turn, lg[i].role = lg[j].role
       PROVE  i = j
  <2>1. CASE i \in 1 .. n /\ j \in 1 .. n
    BY <2>1, <1>10, <1>2 DEF Transcript
  <2>2. CASE i = n + 1 /\ j = n + 1
    BY <2>2
  <2>3. CASE i = n + 1 /\ j \in 1 .. n
    BY <2>3, <1>10, <1>2, <1>3, <1>6
  <2>4. CASE j = n + 1 /\ i \in 1 .. n
    BY <2>4, <1>10, <1>2, <1>3, <1>6
  <2> QED BY <1>1, <1>2, <2>1, <2>2, <2>3, <2>4
<1> QED BY <1>8, <1>9, <1>10 DEF Transcript

EndsWithReply(log, k) ==
  log # <<>> /\ log[Len(log)].turn = k /\ log[Len(log)].role = "ASSISTANT"

(* Dropping the last reply leaves its prompt, the only message of the turn. *)
LEMMA LastReplyDropped ==
  ASSUME NEW rows, NEW log \in Seq(Message), Transcript(rows, log),
         NEW k \in Key, EndsWithReply(log, k)
  PROVE  /\ HistoryAfterDelete(log) \in Seq(Message)
         /\ Len(HistoryAfterDelete(log)) \in Nat \ {0}
         /\ Len(HistoryAfterDelete(log)) % 2 = 1
         /\ Len(log) = Len(HistoryAfterDelete(log)) + 1
         /\ HistoryAfterDelete(log)[Len(HistoryAfterDelete(log))] = UserMessage(k)
         /\ \A i \in 1 .. Len(HistoryAfterDelete(log)) :
              /\ HistoryAfterDelete(log)[i] = log[i]
              /\ log[i].turn = k => i = Len(HistoryAfterDelete(log))
<1> DEFINE lg == HistoryAfterDelete(log)
<1>0. log[Len(log)].turn = k /\ log[Len(log)].role = "ASSISTANT" /\ Len(log) \in Nat \ {0}
  BY DEF EndsWithReply
<1>1. PICK n \in Nat : Len(log) = n + 1
  <2>1. Len(log) = (Len(log) - 1) + 1 /\ Len(log) - 1 \in Nat
    BY <1>0
  <2> QED BY <2>1
<1>2. (n + 1) % 2 # 1 /\ n % 2 = 1 /\ n \in Nat \ {0}
  <2>1. n + 1 \in 1 .. Len(log) /\ log[n + 1].role # "USER"
    BY <1>0, <1>1
  <2>2. log[n + 1] # UserMessage(log[n + 1].turn)
    BY <2>1, <1>0, <1>1, UserMessageFacts
  <2>3. (n + 1) % 2 # 1
    BY <2>1, <2>2 DEF Transcript
  <2> QED BY <2>3
<1>3. lg \in Seq(Message) /\ Len(lg) = n /\ Len(log) - 1 = n /\ \A i \in 1 .. n : lg[i] = log[i]
  BY <1>1, <1>2 DEF HistoryAfterDelete
<1>4. log[n].turn = k /\ log[n] = UserMessage(k)
  <2>1. n + 1 \in 1 .. Len(log) /\ (n + 1) - 1 = n /\ n \in 1 .. Len(log)
    BY <1>1, <1>2
  <2>2. log[n + 1].turn = log[n].turn
    <3>1. \A j \in 1 .. Len(log) : j % 2 # 1 => log[j].turn = log[j - 1].turn
      BY DEF Transcript
    <3> QED BY <3>1, <2>1, <1>2
  <2>3. log[n].turn = k
    BY <2>2, <1>0, <1>1
  <2> QED BY <2>1, <2>3, <1>2 DEF Transcript
<1>5. \A i \in 1 .. n : log[i] \in Message /\ log[i].turn \in Key
                        /\ log[i].role \in {"USER", "ASSISTANT"}
  BY <1>1, <1>2 DEF Message
<1>6. \A i \in 1 .. n : log[i].turn = k => i = n
  <2> SUFFICES ASSUME NEW i \in 1 .. n, log[i].turn = k PROVE i = n
    OBVIOUS
  <2>1. CASE log[i].role = "ASSISTANT"
    <3>1. n + 1 \in 1 .. Len(log) /\ i \in 1 .. Len(log)
          /\ log[i].turn = log[n + 1].turn /\ log[i].role = log[n + 1].role
      BY <2>1, <1>0, <1>1
    <3>2. i = n + 1
      BY <3>1 DEF Transcript
    <3> QED BY <3>2
  <2>2. CASE log[i].role = "USER"
    <3>1. n \in 1 .. Len(log) /\ i \in 1 .. Len(log)
          /\ log[i].turn = log[n].turn /\ log[i].role = log[n].role
      BY <2>2, <1>1, <1>2, <1>4, UserMessageFacts
    <3> QED BY <3>1 DEF Transcript
  <2> QED BY <2>1, <2>2, <1>5
<1> QED BY <1>1, <1>2, <1>3, <1>4, <1>6

(* The reply of the last exchange may be dropped to be generated again. *)
LEMMA RetryKeepsTranscript ==
  ASSUME NEW rows \in [Key -> Row], NEW log \in Seq(Message), Transcript(rows, log),
         NEW k \in Key, EndsWithReply(log, k),
         NEW row, row.status = "GENERATING"
  PROVE  Transcript([rows EXCEPT ![k] = row], HistoryAfterDelete(log))
<1> DEFINE new == [rows EXCEPT ![k] = row]
           lg  == HistoryAfterDelete(log)
<1>1. PICK n \in Nat : n = Len(lg)
  BY LastReplyDropped
<1>2. n \in Nat \ {0} /\ n % 2 = 1 /\ Len(log) = n + 1
  BY <1>1, LastReplyDropped
<1>3. Len(lg) = n /\ \A i \in 1 .. n : lg[i] = log[i]
  BY <1>1, LastReplyDropped
<1>4. log[n] = UserMessage(k) /\ log[n].turn = k
  BY <1>1, <1>2, LastReplyDropped, UserMessageFacts
<1>5. \A i \in 1 .. n : log[i] \in Message /\ log[i].turn \in Key
  BY <1>2 DEF Message
<1>6. \A i \in 1 .. n : log[i].turn = k => i = n
  BY <1>1, LastReplyDropped
<1>7. log[n + 1].role = "ASSISTANT"
  BY <1>2 DEF EndsWithReply
<1>8. ASSUME NEW i \in 1 .. Len(lg)
      PROVE  LET q == lg[i].turn IN
             IF i % 2 = 1
             THEN /\ lg[i] = UserMessage(q)
                  /\ i = Len(lg) <=> new[q].status = "GENERATING"
             ELSE /\ lg[i].role = "ASSISTANT"
                  /\ q = lg[i - 1].turn
                  /\ lg[i].status = new[q].status
  <2>1. CASE i = n
    BY <2>1, <1>2, <1>3, <1>4
  <2>2. CASE i \in 1 .. n /\ i # n
    <3>1. lg[i] = log[i] /\ log[i].turn \in Key /\ log[i].turn # k
      BY <2>2, <1>3, <1>5, <1>6
    <3>2. new[log[i].turn] = rows[log[i].turn]
      BY <3>1
    <3>3. CASE i % 2 = 1
      <4>1. /\ log[i] = UserMessage(log[i].turn)
            /\ rows[log[i].turn].status # "GENERATING"
        <5>1. i \in 1 .. Len(log) /\ i # Len(log)
          BY <2>2, <1>2
        <5> QED BY <5>1, <3>3 DEF Transcript
      <4>2. i # Len(lg)
        BY <2>2, <1>3
      <4> QED BY <3>1, <3>2, <3>3, <4>1, <4>2
    <3>4. CASE i % 2 # 1
      <4>1. i - 1 \in 1 .. n
        BY <2>2, <3>4
      <4>2. lg[i - 1] = log[i - 1]
        BY <4>1, <1>3
      <4>3. i \in 1 .. Len(log)
        BY <2>2, <1>2
      <4> QED BY <4>3, <3>1, <3>2, <3>4, <4>2 DEF Transcript
    <3> QED BY <3>3, <3>4
  <2> QED BY <1>2, <1>3, <2>1, <2>2
<1>9. ASSUME NEW q \in Key
      PROVE  new[q].status # "NONE" <=> \E i \in 1 .. Len(lg) : lg[i] = UserMessage(q)
  <2>1. CASE q = k
    BY <2>1, <1>2, <1>3, <1>4
  <2>2. CASE q # k
    <3>1. log[n + 1] # UserMessage(q)
      BY <1>7, UserMessageFacts
    <3>2. (\E i \in 1 .. Len(lg) : lg[i] = UserMessage(q))
            <=> (\E i \in 1 .. Len(log) : log[i] = UserMessage(q))
      BY <1>1, <1>2, <1>3, <3>1
    <3> QED BY <2>2, <3>2 DEF Transcript
  <2> QED BY <2>1, <2>2
<1>10. \A i, j \in 1 .. Len(lg) :
         lg[i].turn = lg[j].turn /\ lg[i].role = lg[j].role => i = j
  <2>1. \A i, j \in 1 .. n :
         log[i].turn = log[j].turn /\ log[i].role = log[j].role => i = j
    BY <1>2 DEF Transcript
  <2> QED BY <2>1, <1>3
<1>11. Transcript(new, lg)
  <2> HIDE DEF lg, new
  <2> QED BY <1>8, <1>9, <1>10 DEF Transcript
<1> QED BY <1>11

(* A transcript only depends on the statuses of the rows, and a generating *)
(* turn, which has no reply, may begin another attempt.                    *)
LEMMA LogStays ==
  ASSUME NEW rows, NEW new, NEW log \in Seq(Message),
         Transcript(rows, log), RepliesOfLatestAttempt(rows, log),
         \A q \in Key :
           /\ new[q].status = rows[q].status
           /\ rows[q].status = "GENERATING" \/ new[q].attempt = rows[q].attempt
  PROVE  Transcript(new, log) /\ RepliesOfLatestAttempt(new, log)
<1>1. \A i \in 1 .. Len(log) : log[i].turn \in Key
  BY DEF Message
<1>2. Transcript(new, log)
  BY <1>1 DEF Transcript
<1>3. ASSUME NEW i \in 1 .. Len(log), log[i].role = "ASSISTANT"
      PROVE  rows[log[i].turn].status # "GENERATING"
  <2> SUFFICES ASSUME rows[log[i].turn].status = "GENERATING" PROVE FALSE
    OBVIOUS
  <2>1. i = Len(log) /\ log[Len(log)] = UserMessage(log[i].turn)
    BY <1>1, OpenHasNoReply, OpenIsLast
  <2> QED BY <2>1, <1>1, <1>3, UserMessageFacts
<1>4. RepliesOfLatestAttempt(new, log)
  BY <1>1, <1>3 DEF RepliesOfLatestAttempt
<1> QED BY <1>2, <1>4

LEMMA ReplyKeepsLog ==
  ASSUME NEW rows \in [Key -> Row], NEW log \in Seq(Message),
         Transcript(rows, log), RepliesOfLatestAttempt(rows, log),
         NEW k \in Key, rows[k].status = "GENERATING", NEW s \in Terminal,
         NEW row, row.status = s, row.attempt = rows[k].attempt
  PROVE  LET longer == Append(log, ReplyMessage(k, rows[k].attempt, s)) IN
         /\ longer \in Seq(Message)
         /\ Transcript([rows EXCEPT ![k] = row], longer)
         /\ RepliesOfLatestAttempt([rows EXCEPT ![k] = row], longer)
<1> DEFINE msg == ReplyMessage(k, rows[k].attempt, s)
           lg  == Append(log, msg)
           new == [rows EXCEPT ![k] = row]
<1>1. rows[k].attempt \in Attempt
  BY RowFacts
<1>2. Transcript(new, lg)
  BY <1>1, ReplyKeepsTranscript
<1>3. /\ lg \in Seq(Message) /\ Len(lg) = Len(log) + 1
      /\ lg[Len(log) + 1] = msg /\ msg.turn = k /\ msg.attempt = new[k].attempt
      /\ \A i \in 1 .. Len(log) : lg[i] = log[i] /\ log[i].turn \in Key
  BY <1>1, ReplyMessageFacts DEF Message
<1>4. ASSUME NEW i \in 1 .. Len(log), log[i].role = "ASSISTANT"
      PROVE  log[i].attempt = new[log[i].turn].attempt
  <2>1. log[i].attempt = rows[log[i].turn].attempt
    BY <1>4 DEF RepliesOfLatestAttempt
  <2> QED BY <2>1, <1>3
<1>5. RepliesOfLatestAttempt(new, lg)
  <2> SUFFICES ASSUME NEW i \in 1 .. Len(lg), lg[i].role = "ASSISTANT"
               PROVE  lg[i].attempt = new[lg[i].turn].attempt
    BY DEF RepliesOfLatestAttempt
  <2>1. CASE i = Len(log) + 1
    BY <2>1, <1>3
  <2>2. CASE i \in 1 .. Len(log)
    BY <2>2, <1>3, <1>4
  <2> QED BY <2>1, <2>2, <1>3
<1> QED BY <1>2, <1>3, <1>5

LEMMA PromptKeepsLog ==
  ASSUME NEW rows \in [Key -> Row], NEW log \in Seq(Message),
         Transcript(rows, log), RepliesOfLatestAttempt(rows, log),
         NEW k \in Key, rows[k].status = "NONE",
         \A q \in Key : rows[q].status # "GENERATING",
         NEW row, row.status = "GENERATING"
  PROVE  LET longer == Append(log, UserMessage(k)) IN
         /\ longer \in Seq(Message)
         /\ longer[Len(longer)] = UserMessage(k)
         /\ Transcript([rows EXCEPT ![k] = row], longer)
         /\ RepliesOfLatestAttempt([rows EXCEPT ![k] = row], longer)
<1> DEFINE lg  == Append(log, UserMessage(k))
           new == [rows EXCEPT ![k] = row]
<1>1. Transcript(new, lg)
  BY PromptKeepsTranscript
<1>2. /\ lg \in Seq(Message) /\ Len(lg) = Len(log) + 1
      /\ lg[Len(log) + 1] = UserMessage(k)
      /\ \A i \in 1 .. Len(log) : lg[i] = log[i] /\ log[i].turn \in Key
  BY UserMessageFacts DEF Message
<1>3. ASSUME NEW i \in 1 .. Len(lg), lg[i].role = "ASSISTANT"
      PROVE  lg[i].attempt = new[lg[i].turn].attempt
  <2>1. i \in 1 .. Len(log)
    BY <1>2, <1>3, UserMessageFacts
  <2>2. log[i].turn # k
    BY <2>1, NewHasNoMessage
  <2> QED BY <2>1, <2>2, <1>2, <1>3 DEF RepliesOfLatestAttempt
<1>4. RepliesOfLatestAttempt(new, lg)
  BY <1>3 DEF RepliesOfLatestAttempt
<1> QED BY <1>1, <1>2, <1>4

LEMMA RetryKeepsLog ==
  ASSUME NEW rows \in [Key -> Row], NEW log \in Seq(Message),
         Transcript(rows, log), RepliesOfLatestAttempt(rows, log),
         NEW k \in Key, EndsWithReply(log, k),
         NEW row, row.status = "GENERATING"
  PROVE  /\ HistoryAfterDelete(log) \in Seq(Message)
         /\ HistoryAfterDelete(log)[Len(HistoryAfterDelete(log))] = UserMessage(k)
         /\ Transcript([rows EXCEPT ![k] = row], HistoryAfterDelete(log))
         /\ RepliesOfLatestAttempt([rows EXCEPT ![k] = row], HistoryAfterDelete(log))
<1> DEFINE lg  == HistoryAfterDelete(log)
           new == [rows EXCEPT ![k] = row]
<1>1. Transcript(new, lg)
  BY RetryKeepsTranscript
<1>4. /\ lg \in Seq(Message) /\ Len(log) = Len(lg) + 1 /\ Len(lg) \in Nat
      /\ lg[Len(lg)] = UserMessage(k)
      /\ \A i \in 1 .. Len(lg) : lg[i] = log[i] /\ (log[i].turn = k => i = Len(lg))
  BY LastReplyDropped
<1>2. ASSUME NEW i \in 1 .. Len(lg), lg[i].role = "ASSISTANT"
      PROVE  lg[i].attempt = new[lg[i].turn].attempt
  <2>1. i \in 1 .. Len(log) /\ lg[i] = log[i] /\ log[i].turn \in Key
    BY <1>4 DEF Message
  <2>2. log[i].turn # k
    BY <1>4, <1>2, <2>1, UserMessageFacts
  <2>3. log[i].attempt = rows[log[i].turn].attempt
    BY <2>1, <1>2 DEF RepliesOfLatestAttempt
  <2> QED BY <2>1, <2>2, <2>3
<1>3. RepliesOfLatestAttempt(new, lg)
  BY <1>2 DEF RepliesOfLatestAttempt
<1> QED BY <1>1, <1>3, <1>4

-----------------------------------------------------------------------------
(* The inductive invariant.                                                *)

(* While a transaction has the chat row, its snapshot is out of date in the *)
(* leases at most.                                                         *)
SnapshotHolds ==
  tx # NoTx =>
    /\ chat
    /\ \A k \in Key :
         /\ turn[k].status = tx.seen[k].status
         /\ turn[k].attempt = tx.seen[k].attempt

(* Generations are of attempts their turn has reached, one of each, and    *)
(* one that is saving holds its fence.                                     *)
GenerationsHold ==
  /\ \A g \in gens : chat => g.attempt <= turn[g.key].attempt
  /\ \A g, h \in gens : g.key = h.key /\ g.attempt = h.attempt => g = h
  /\ \A g \in gens : g.phase = "saving" => HoldsFence(g) /\ g.outcome \in Outcome

DeletedIsEmpty == ~chat => \A k \in Key : turn[k] = NoTurn

(* A dispose that is still to come is of a turn that was stopped. *)
DoomedIsStopped ==
  \A h \in Host, k \in Key :
    <<h, k>> \in doomed => turn[k].status = "CANCELED" \/ ~chat

Inv ==
  /\ TypeOK
  /\ SnapshotHolds
  /\ GenerationsHold
  /\ DeletedIsEmpty
  /\ DoomedIsStopped
  /\ TranscriptMatchesTurns
  /\ ReplyIsOfLatestAttempt
  /\ NoCurrentAttemptStopped
  /\ HistoryEndsWithPrompt

-----------------------------------------------------------------------------
(* Steps of the generations.                                               *)

Fenced ==
  /\ gens \subseteq Generation
  /\ GenerationsHold
  /\ NoCurrentAttemptStopped
  /\ HistoryEndsWithPrompt

LEMMA GenerationFacts ==
  ASSUME Inv, NEW g \in gens
  PROVE  /\ g.key \in Key /\ g.host \in Host /\ g.attempt \in Attempt
         /\ turn[g.key] \in Row
         /\ g.phase = "saving" => HoldsFence(g) /\ g.outcome \in Outcome
         /\ g.phase = "stopping" => ~HoldsFence(g)
         /\ RowFree(g.key) => g.phase # "saving"
BY DEF Inv, TypeOK, Generation, GenerationsHold, NoCurrentAttemptStopped, RowFree

(* A step that begins no attempt: f[g] is what becomes of generation g. *)
KeepsGenerations(f) ==
  /\ f \in [gens -> Generation]
  /\ gens' \subseteq {f[g] : g \in gens}
  /\ \A g \in gens :
       /\ f[g].key = g.key /\ f[g].attempt = g.attempt /\ f[g].prompt = g.prompt
       /\ f[g] \in gens' /\ f[g].phase = "saving" =>
            /\ HoldsFence(g) /\ f[g].outcome \in Outcome
            /\ turn'[g.key].status = "GENERATING"
       /\ f[g].phase = "stopping" => ~HoldsFence(g)
  /\ chat' => chat
  /\ \A q \in Key :
       /\ turn'[q].attempt = turn[q].attempt
       /\ turn'[q].status = "GENERATING" => turn[q].status = "GENERATING"

LEMMA GenerationsKept ==
  ASSUME Inv, NEW f, KeepsGenerations(f)
  PROVE  Fenced'
<1> USE DEF KeepsGenerations
<1>1. \A g \in gens : g \in Generation /\ g.key \in Key
  BY DEF Inv, TypeOK, Generation
<1>2. \A e \in gens' : \E g \in gens : e = f[g]
  OBVIOUS
<1>3. gens' \subseteq Generation
  OBVIOUS
<1>4. GenerationsHold'
  <2>1. ASSUME NEW e \in gens', chat' PROVE e.attempt <= turn'[e.key].attempt
    BY <2>1, <1>1, <1>2 DEF Inv, GenerationsHold
  <2>2. ASSUME NEW e \in gens', NEW d \in gens', e.key = d.key, e.attempt = d.attempt
        PROVE  e = d
    <3>1. PICK g \in gens, h \in gens : e = f[g] /\ d = f[h]
      OBVIOUS
    <3>2. g = h
      BY <2>2, <3>1 DEF Inv, GenerationsHold
    <3> QED BY <3>1, <3>2
  <2>3. ASSUME NEW e \in gens', e.phase = "saving"
        PROVE  HoldsFence(e)' /\ e.outcome \in Outcome
    <3>1. PICK g \in gens : e = f[g]
      OBVIOUS
    <3> QED BY <2>3, <3>1, <1>1 DEF HoldsFence
  <2> QED BY <2>1, <2>2, <2>3 DEF GenerationsHold, HoldsFence
<1>5. NoCurrentAttemptStopped'
  <2> SUFFICES ASSUME NEW e \in gens', e.phase = "stopping" PROVE ~HoldsFence(e)'
    BY DEF NoCurrentAttemptStopped, HoldsFence
  <2>1. PICK g \in gens : e = f[g]
    OBVIOUS
  <2> QED BY <2>1, <1>1 DEF HoldsFence
<1>6. HistoryEndsWithPrompt'
  <2> SUFFICES ASSUME NEW e \in gens' PROVE e.prompt = UserMessage(e.key)
    BY DEF HistoryEndsWithPrompt
  <2>1. PICK g \in gens : e = f[g]
    OBVIOUS
  <2>2. g.prompt = UserMessage(g.key)
    BY DEF Inv, HistoryEndsWithPrompt
  <2> QED BY <2>1, <2>2
<1> QED BY <1>3, <1>4, <1>5, <1>6 DEF Fenced

(* A step that begins attempt a of turn k. *)
BeginsAttempt(k, a) ==
  /\ \E h \in Host :
       gens' = gens \cup
         {[key |-> k, attempt |-> a, host |-> h, calls |-> 0, phase |-> "pending",
           outcome |-> "none", prompt |-> UserMessage(k)]}
  /\ turn[k].attempt < a /\ RowFree(k) /\ turn'[k].attempt = a
  /\ chat
  /\ \A q \in Key \ {k} :
       /\ turn'[q].attempt = turn[q].attempt
       /\ \/ turn'[q].status = turn[q].status
          \/ RowFree(q) /\ turn'[q].status # "GENERATING"

LEMMA AttemptBegins ==
  ASSUME Inv, NEW k \in Key, NEW a \in Attempt, BeginsAttempt(k, a)
  PROVE  Fenced'
<1>0. PICK h \in Host :
        gens' = gens \cup
          {[key |-> k, attempt |-> a, host |-> h, calls |-> 0, phase |-> "pending",
            outcome |-> "none", prompt |-> UserMessage(k)]}
  BY DEF BeginsAttempt
<1> DEFINE new == [key |-> k, attempt |-> a, host |-> h, calls |-> 0, phase |-> "pending",
                   outcome |-> "none", prompt |-> UserMessage(k)]
<1>1. /\ gens' = gens \cup {new} /\ new \in Generation
      /\ new.key = k /\ new.attempt = a /\ new.phase = "pending"
      /\ new.prompt = UserMessage(k)
  BY <1>0, UserMessageFacts DEF Generation
<1> HIDE DEF new
<1>2. \A g \in gens : g \in Generation /\ g.key \in Key /\ g.attempt \in Nat
  BY DEF Inv, TypeOK, Generation
<1>3. \A g \in gens : g.attempt <= turn[g.key].attempt
  BY DEF Inv, GenerationsHold, BeginsAttempt
<1>4. \A q \in Key : turn[q].attempt \in Nat
  BY RowFacts DEF Inv, TypeOK
<1>5. \A g \in gens : g.key = k => g.attempt < a /\ g.phase # "saving"
  BY <1>2, <1>3, <1>4 DEF BeginsAttempt, RowFree
<1>6. GenerationsHold'
  <2>1. ASSUME NEW e \in gens' PROVE e.attempt <= turn'[e.key].attempt
    <3>1. CASE e = new
      BY <3>1, <1>1 DEF BeginsAttempt
    <3>2. CASE e \in gens
      BY <3>2, <1>2, <1>3, <1>5 DEF BeginsAttempt
    <3> QED BY <1>1, <3>1, <3>2
  <2>2. ASSUME NEW e \in gens', NEW d \in gens', e.key = d.key, e.attempt = d.attempt
        PROVE  e = d
    BY <2>2, <1>1, <1>2, <1>5 DEF Inv, GenerationsHold
  <2>3. ASSUME NEW e \in gens', e.phase = "saving"
        PROVE  HoldsFence(e)' /\ e.outcome \in Outcome
    <3>1. e \in gens /\ e.key \in Key \ {k}
      BY <2>3, <1>1, <1>2, <1>5
    <3>2. HoldsFence(e) /\ e.outcome \in Outcome /\ ~RowFree(e.key)
      BY <2>3, <3>1 DEF Inv, GenerationsHold, RowFree
    <3> QED BY <3>1, <3>2 DEF BeginsAttempt, HoldsFence
  <2> QED BY <2>1, <2>2, <2>3 DEF GenerationsHold, HoldsFence
<1>7. NoCurrentAttemptStopped'
  <2> SUFFICES ASSUME NEW e \in gens', e.phase = "stopping" PROVE ~HoldsFence(e)'
    BY DEF NoCurrentAttemptStopped, HoldsFence
  <2>1. e \in gens /\ ~HoldsFence(e)
    BY <1>1 DEF Inv, NoCurrentAttemptStopped
  <2>2. CASE e.key = k
    BY <2>1, <2>2, <1>2, <1>5 DEF BeginsAttempt, HoldsFence
  <2>3. CASE e.key # k
    BY <2>1, <2>3, <1>2 DEF BeginsAttempt, HoldsFence
  <2> QED BY <2>2, <2>3
<1>8. HistoryEndsWithPrompt'
  BY <1>1 DEF Inv, HistoryEndsWithPrompt
<1>9. gens' \subseteq Generation
  BY <1>1, <1>2
<1> QED BY <1>6, <1>7, <1>8, <1>9 DEF Fenced

-----------------------------------------------------------------------------
(* The invariant, step by step.                                            *)

LEMMA InitInv == Init => Inv
<1> SUFFICES ASSUME Init PROVE Inv
  OBVIOUS
<1> USE DEF Init
<1>1. TypeOK
  BY DEF TypeOK, Row
<1>2. SnapshotHolds /\ DeletedIsEmpty /\ DoomedIsStopped
  BY DEF SnapshotHolds, DeletedIsEmpty, DoomedIsStopped
<1>3. GenerationsHold /\ NoCurrentAttemptStopped /\ HistoryEndsWithPrompt
  BY DEF GenerationsHold, NoCurrentAttemptStopped, HistoryEndsWithPrompt
<1>4. TranscriptMatchesTurns /\ ReplyIsOfLatestAttempt
  BY DEF TranscriptMatchesTurns, Transcript, ReplyIsOfLatestAttempt,
         RepliesOfLatestAttempt, NoTurn
<1> QED BY <1>1, <1>2, <1>3, <1>4 DEF Inv

(* What is left to show once the generations are dealt with, when neither  *)
(* the rows nor the messages change.                                       *)
LEMMA RowsUnchanged ==
  ASSUME Inv, UNCHANGED <<chat, turn, msgs>>, Fenced',
         tx' \in {tx, NoTx} \/ (chat /\ tx' \in Transaction /\ tx'.seen = turn),
         active' \in [Host -> [Key -> 0 .. AttemptBound]],
         answer' \in {"none", "error"},
         doomed' \subseteq doomed \cup {d \in Host \X Key : turn[d[2]].status = "CANCELED"}
  PROVE  Inv'
<1>1. TypeOK'
  BY DEF Inv, TypeOK, Fenced
<1>2. SnapshotHolds'
  BY DEF Inv, SnapshotHolds
<1>3. DeletedIsEmpty' /\ DoomedIsStopped'
  BY DEF Inv, TypeOK, DeletedIsEmpty, DoomedIsStopped
<1>4. TranscriptMatchesTurns' /\ ReplyIsOfLatestAttempt'
  BY DEF Inv, TranscriptMatchesTurns, ReplyIsOfLatestAttempt,
         Transcript, RepliesOfLatestAttempt
<1> QED BY <1>1, <1>2, <1>3, <1>4 DEF Inv, Fenced

(* The generations as they are, or some of them. *)
LEMMA GenerationsLeft ==
  ASSUME Inv, gens' \subseteq gens, chat' => chat,
         \A q \in Key :
           /\ turn'[q].attempt = turn[q].attempt
           /\ \/ turn'[q].status = turn[q].status
              \/ /\ turn'[q].status # "GENERATING"
                 /\ \A g \in gens' : g.key = q => g.phase # "saving"
  PROVE  Fenced'
<1> DEFINE f == [g \in gens |-> g]
<1>1. \A g \in gens : g \in Generation /\ g.key \in Key
  BY DEF Inv, TypeOK, Generation
<1>2. \A g \in gens :
        /\ g.phase = "saving" => HoldsFence(g) /\ g.outcome \in Outcome
        /\ g.phase = "stopping" => ~HoldsFence(g)
  BY DEF Inv, GenerationsHold, NoCurrentAttemptStopped
<1>3. KeepsGenerations(f)
  BY <1>1, <1>2 DEF KeepsGenerations, HoldsFence
<1> QED BY <1>3, GenerationsKept

LEMMA RequestStep ==
  ASSUME Inv, Request
  PROVE  Inv'
<1>1. /\ chat /\ tx' \in Transaction /\ tx'.seen = turn /\ answer' = "none"
      /\ UNCHANGED <<chat, turn, msgs, gens, active, doomed>>
  <2>1. PICK h \in Host :
          \/ \E k \in Key : \/ BeginSend(k, h)
                            \/ \E m \in Attempt : BeginRetry(k, m, h)
                            \/ BeginCancel(k, h)
          \/ BeginDelete(h)
    BY DEF Request
  <2> USE DEF Inv, TypeOK, Begin, Transaction
  <2>2. ASSUME NEW k \in Key, BeginSend(k, h) PROVE <1>1!:
    BY <2>2 DEF BeginSend
  <2>3. ASSUME NEW k \in Key, NEW m \in Attempt, BeginRetry(k, m, h) PROVE <1>1!:
    BY <2>3 DEF BeginRetry
  <2>4. ASSUME NEW k \in Key, BeginCancel(k, h) PROVE <1>1!:
    BY <2>4 DEF BeginCancel
  <2>5. CASE BeginDelete(h)
    BY <2>5 DEF BeginDelete
  <2> QED BY <2>1, <2>2, <2>3, <2>4, <2>5
<1>2. Fenced'
  BY <1>1, GenerationsLeft
<1> QED BY <1>1, <1>2, RowsUnchanged DEF Inv, TypeOK

LEMMA SubscribeStep ==
  ASSUME Inv, NEW g \in gens, Subscribe(g)
  PROVE  Inv'
<1> DEFINE h == [g EXCEPT !.phase = "running"]
           f == [e \in gens |-> IF e = g THEN h ELSE e]
<1>0. \A e \in gens : e \in Generation
  BY DEF Inv, TypeOK
<1>1. h \in Generation /\ h.key = g.key /\ h.attempt = g.attempt
      /\ h.prompt = g.prompt /\ h.phase = "running"
  BY <1>0 DEF Generation
<1> HIDE DEF h
<1>5. gens' = (gens \ {g}) \cup {h} /\ UNCHANGED <<chat, turn>>
  BY DEF Subscribe, Replace, h
<1>2. KeepsGenerations(f)
  BY <1>0, <1>1, <1>5, GenerationFacts DEF KeepsGenerations, HoldsFence
<1>3. Fenced'
  BY <1>2, GenerationsKept
<1>4. active' \in [Host -> [Key -> 0 .. AttemptBound]]
  BY <1>0, GenerationFacts DEF Inv, TypeOK, Subscribe
<1> QED BY <1>3, <1>4, RowsUnchanged DEF Subscribe, Inv, TypeOK

(* A lease may come or go under a transaction, nothing else. *)
LEMMA LeaseChanges ==
  ASSUME Inv, NEW k \in Key, NEW l \in {"live", "expired"}, turn[k].status = "GENERATING",
         turn' = WithTurn(k, "GENERATING", turn[k].attempt, l),
         UNCHANGED <<chat, msgs, tx, active, doomed, answer>>, Fenced'
  PROVE  Inv'
<1>1. /\ turn' \in [Key -> Row]
      /\ \A q \in Key : turn'[q].status = turn[q].status /\ turn'[q].attempt = turn[q].attempt
  <2>1. turn \in [Key -> Row] /\ turn[k].attempt \in Attempt
    BY RowFacts DEF Inv, TypeOK
  <2> QED BY <2>1 DEF WithTurn, Row
<1>2. TypeOK'
  BY <1>1 DEF Inv, TypeOK, Fenced
<1>3. SnapshotHolds'
  BY <1>1 DEF Inv, SnapshotHolds
<1>4. DeletedIsEmpty' /\ DoomedIsStopped'
  BY <1>1 DEF Inv, DeletedIsEmpty, DoomedIsStopped, NoTurn
<1>5. TranscriptMatchesTurns' /\ ReplyIsOfLatestAttempt'
  <2> DEFINE new == turn'
  <2>2. \A q \in Key : new[q].status = turn[q].status /\ new[q].attempt = turn[q].attempt
    BY <1>1
  <2> HIDE DEF new
  <2>3. Transcript(new, msgs) /\ RepliesOfLatestAttempt(new, msgs)
    <3>1. /\ msgs \in Seq(Message) /\ Transcript(turn, msgs)
          /\ RepliesOfLatestAttempt(turn, msgs)
      BY DEF Inv, TypeOK, TranscriptMatchesTurns, ReplyIsOfLatestAttempt
    <3> QED BY <3>1, <2>2, LogStays
  <2>1. Transcript(turn', msgs) /\ RepliesOfLatestAttempt(turn', msgs)
    BY <2>3 DEF new
  <2> QED BY <2>1 DEF TranscriptMatchesTurns, ReplyIsOfLatestAttempt,
                      Transcript, RepliesOfLatestAttempt
<1> QED BY <1>2, <1>3, <1>4, <1>5 DEF Inv, Fenced

LEMMA SearchStep ==
  ASSUME Inv, NEW g \in gens, Search(g)
  PROVE  Inv'
<1>0. \A e \in gens : e \in Generation
  BY DEF Inv, TypeOK
<1>1. CASE HoldsFence(g)
  <2> DEFINE h == [g EXCEPT !.calls = @ + 1]
             f == [e \in gens |-> IF e = g THEN h ELSE e]
  <2>1. h \in Generation /\ h.key = g.key /\ h.attempt = g.attempt
        /\ h.prompt = g.prompt /\ h.phase = "running"
    BY <1>0 DEF Generation, Search
  <2> HIDE DEF h
  <2>2. gens' = (gens \ {g}) \cup {h} /\ turn' = WithTurn(g.key, "GENERATING", g.attempt, "live")
    BY <1>1 DEF Search, Replace, h
  <2>3. turn \in [Key -> Row] /\ g.key \in Key /\ turn[g.key].status = "GENERATING"
        /\ turn[g.key].attempt = g.attempt
    BY <1>1, GenerationFacts DEF HoldsFence, Inv, TypeOK
  <2>4. KeepsGenerations(f)
    BY <1>0, <2>1, <2>2, <2>3, GenerationFacts
       DEF KeepsGenerations, Search, WithTurn, HoldsFence
  <2>5. Fenced'
    BY <2>4, GenerationsKept
  <2> QED BY <2>2, <2>3, <2>5, LeaseChanges DEF Search
<1>2. CASE ~HoldsFence(g)
  <2> DEFINE h == [g EXCEPT !.phase = "stopping"]
             f == [e \in gens |-> IF e = g THEN h ELSE e]
  <2>1. h \in Generation /\ h.key = g.key /\ h.attempt = g.attempt
        /\ h.prompt = g.prompt /\ h.phase = "stopping"
    BY <1>0 DEF Generation
  <2> HIDE DEF h
  <2>2. gens' = (gens \ {g}) \cup {h} /\ turn' = turn
    BY <1>2 DEF Search, Replace, h
  <2>3. KeepsGenerations(f)
    BY <1>0, <1>2, <2>1, <2>2, GenerationFacts DEF KeepsGenerations, Search, HoldsFence
  <2>4. Fenced'
    BY <2>3, GenerationsKept
  <2> QED BY <2>2, <2>4, RowsUnchanged DEF Search, Inv, TypeOK
<1> QED BY <1>1, <1>2

LEMMA LeaveFacts ==
  ASSUME Inv, NEW g \in gens, Leave(g)
  PROVE  gens' = gens \ {g} /\ active' \in [Host -> [Key -> 0 .. AttemptBound]]
BY GenerationFacts DEF Leave, Inv, TypeOK

LEMMA FinishStep ==
  ASSUME Inv, NEW g \in gens, NEW s \in Outcome, Finish(g, s)
  PROVE  Inv'
<1>0. \A e \in gens : e \in Generation
  BY DEF Inv, TypeOK
<1>1. CASE HoldsFence(g)
  <2> DEFINE h == [g EXCEPT !.phase = "saving", !.outcome = s]
             f == [e \in gens |-> IF e = g THEN h ELSE e]
  <2>1. h \in Generation /\ h.key = g.key /\ h.attempt = g.attempt
        /\ h.prompt = g.prompt /\ h.phase = "saving" /\ h.outcome = s
    BY <1>0 DEF Generation
  <2> HIDE DEF h
  <2>2. gens' = (gens \ {g}) \cup {h} /\ UNCHANGED active
    BY <1>1 DEF Finish, Replace, h
  <2>3. KeepsGenerations(f)
    BY <1>0, <1>1, <2>1, <2>2, GenerationFacts DEF KeepsGenerations, Finish, HoldsFence
  <2>4. Fenced'
    BY <2>3, GenerationsKept
  <2> QED BY <2>2, <2>4, RowsUnchanged DEF Finish, Inv, TypeOK
<1>2. CASE ~HoldsFence(g)
  <2>1. Leave(g)
    BY <1>2 DEF Finish
  <2>2. Fenced'
    BY <2>1, LeaveFacts, GenerationsLeft DEF Finish
  <2> QED BY <2>1, <2>2, LeaveFacts, RowsUnchanged DEF Finish, Inv, TypeOK
<1> QED BY <1>1, <1>2

(* Closing the exchange of a generating turn, by a save, a stop or a       *)
(* request that found the attempts exhausted.                              *)
LEMMA TurnEnds ==
  ASSUME Inv, NEW k \in Key, NEW s \in Terminal, turn[k].status = "GENERATING",
         turn' = Ended(k, s), msgs' = WithReply(k, s),
         tx' = NoTx, UNCHANGED chat,
         gens' \subseteq gens, \A g \in gens' : g.key = k => g.phase # "saving",
         active' \in [Host -> [Key -> 0 .. AttemptBound]],
         answer' \in {"none", "error"},
         doomed' \subseteq doomed \cup {d \in Host \X {k} : s = "CANCELED"}
  PROVE  Inv'
<1>1. /\ turn' = [turn EXCEPT ![k] = turn'[k]] /\ turn' \in [Key -> Row]
      /\ turn'[k].status = s /\ turn'[k].attempt = turn[k].attempt
  <2>1. turn \in [Key -> Row] /\ turn[k].attempt \in Attempt
    BY RowFacts DEF Inv, TypeOK
  <2> QED BY <2>1 DEF Ended, WithTurn, Row
<1>2. s \notin {"GENERATING", "NONE"}
  BY DEF Terminal, Outcome
<1>3. msgs' \in Seq(Message) /\ Transcript(turn', msgs') /\ RepliesOfLatestAttempt(turn', msgs')
  <2> DEFINE row == turn'[k]
             new == [turn EXCEPT ![k] = row]
             longer == Append(msgs, ReplyMessage(k, turn[k].attempt, s))
  <2>1. row.status = s /\ row.attempt = turn[k].attempt
    BY <1>1
  <2> HIDE DEF row
  <2>2. /\ longer \in Seq(Message)
        /\ Transcript(new, longer) /\ RepliesOfLatestAttempt(new, longer)
    BY <2>1, ReplyKeepsLog DEF Inv, TypeOK, TranscriptMatchesTurns, ReplyIsOfLatestAttempt
  <2>3. turn' = new /\ msgs' = longer
    BY <1>1 DEF row, WithReply
  <2> QED BY <2>2, <2>3
<1>4. Fenced'
  <2>1. \A q \in Key : /\ turn'[q].attempt = turn[q].attempt
                       /\ turn'[q].status = turn[q].status \/ q = k
    BY <1>1
  <2>2. turn'[k].status # "GENERATING"
    BY <1>1, <1>2
  <2> QED BY <2>1, <2>2, GenerationsLeft
<1>5. TypeOK'
  BY <1>1, <1>3, <1>4 DEF Inv, TypeOK, Fenced
<1>6. SnapshotHolds'
  BY DEF SnapshotHolds
<1>7. DeletedIsEmpty'
  BY DEF Inv, DeletedIsEmpty, NoTurn
<1>8. DoomedIsStopped'
  <2> SUFFICES ASSUME NEW h \in Host, NEW q \in Key, <<h, q>> \in doomed', chat'
               PROVE  turn'[q].status = "CANCELED"
    BY DEF DoomedIsStopped
  <2>1. CASE q = k /\ s = "CANCELED"
    BY <2>1, <1>1
  <2>2. CASE <<h, q>> \in doomed
    <3>1. turn[q].status = "CANCELED" /\ q # k
      BY <2>2 DEF Inv, DoomedIsStopped
    <3> QED BY <3>1, <1>1
  <2> QED BY <2>1, <2>2
<1>9. TranscriptMatchesTurns' /\ ReplyIsOfLatestAttempt'
  BY <1>3 DEF TranscriptMatchesTurns, ReplyIsOfLatestAttempt, Transcript, RepliesOfLatestAttempt
<1> QED BY <1>4, <1>5, <1>6, <1>7, <1>8, <1>9 DEF Inv, Fenced

LEMMA SaveStep ==
  ASSUME Inv, NEW g \in gens, Save(g)
  PROVE  Inv'
<1>1. /\ g.key \in Key /\ turn[g.key].status = "GENERATING" /\ turn[g.key].attempt = g.attempt
      /\ g.outcome \in Outcome /\ g.outcome \in Terminal
  BY GenerationFacts DEF Save, HoldsFence, Terminal
<1>2. gens' = gens \ {g} /\ active' \in [Host -> [Key -> 0 .. AttemptBound]]
  BY LeaveFacts DEF Save
<1>3. ASSUME NEW e \in gens', e.key = g.key PROVE e.phase # "saving"
  <2>1. e \in gens /\ e # g
    BY <1>2
  <2> SUFFICES ASSUME e.phase = "saving" PROVE FALSE
    OBVIOUS
  <2>2. e.attempt = g.attempt
    BY <2>1, <1>1, <1>3, GenerationFacts DEF HoldsFence
  <2> QED BY <2>1, <2>2, <1>3 DEF Inv, GenerationsHold
<1>4. /\ turn' = Ended(g.key, g.outcome) /\ msgs' = WithReply(g.key, g.outcome)
      /\ tx' = NoTx /\ UNCHANGED <<chat, answer, doomed>>
  BY <1>1 DEF Save, WithReply
<1> QED BY <1>1, <1>2, <1>3, <1>4, TurnEnds DEF Inv, TypeOK

LEMMA DisposeStep ==
  ASSUME Inv, NEW h \in Host, NEW k \in Key, Dispose(h, k)
  PROVE  Inv'
<1> DEFINE f == [g \in gens |->
                   IF g.host = h /\ g.key = k /\ g.attempt = active[h][k] /\ g.phase = "running"
                   THEN [g EXCEPT !.phase = "stopping"] ELSE g]
<1>1. turn[k].status # "GENERATING"
  BY DEF Dispose, Inv, DoomedIsStopped, DeletedIsEmpty, NoTurn
<1>2. ASSUME NEW g \in gens
      PROVE  /\ f[g] \in Generation /\ f[g].key = g.key /\ f[g].attempt = g.attempt
             /\ f[g].prompt = g.prompt /\ f[g].outcome = g.outcome
             /\ \/ f[g].phase = g.phase
                \/ f[g].phase = "stopping" /\ g.key = k
  <2>1. g \in Generation
    BY DEF Inv, TypeOK
  <2>2. CASE g.host = h /\ g.key = k /\ g.attempt = active[h][k] /\ g.phase = "running"
    <3>1. f[g] = [g EXCEPT !.phase = "stopping"]
      BY <2>2
    <3> HIDE DEF f
    <3> QED BY <2>1, <2>2, <3>1 DEF Generation
  <2>3. CASE ~(g.host = h /\ g.key = k /\ g.attempt = active[h][k] /\ g.phase = "running")
    <3>1. f[g] = g
      BY <2>3
    <3> QED BY <2>1, <3>1
  <2> QED BY <2>2, <2>3
<1>3. f \in [gens -> Generation] /\ gens' = {f[g] : g \in gens}
  BY <1>2 DEF Dispose
<1> HIDE DEF f
<1>4. KeepsGenerations(f)
  BY <1>1, <1>2, <1>3, GenerationFacts DEF KeepsGenerations, Dispose, HoldsFence
<1>5. Fenced'
  BY <1>4, GenerationsKept
<1> QED BY <1>5, RowsUnchanged DEF Dispose, Inv, TypeOK

LEMMA LeaseExpiresStep ==
  ASSUME Inv, NEW k \in Key, LeaseExpires(k)
  PROVE  Inv'
<1>1. turn \in [Key -> Row] /\ turn[k] \in Row /\ turn[k].status = "GENERATING"
  BY RowFacts DEF Inv, TypeOK, LeaseExpires
<1>2. turn' = WithTurn(k, "GENERATING", turn[k].attempt, "expired")
  <2>1. turn[k] = [status |-> "GENERATING", attempt |-> turn[k].attempt, lease |-> turn[k].lease]
    BY <1>1, RowFacts
  <2>2. [turn[k] EXCEPT !.lease = "expired"]
          = [status |-> "GENERATING", attempt |-> turn[k].attempt, lease |-> "expired"]
    BY <2>1
  <2> QED BY <2>2 DEF LeaseExpires, WithTurn
<1>4. \A q \in Key : turn'[q].attempt = turn[q].attempt /\ turn'[q].status = turn[q].status
  BY <1>1, <1>2 DEF WithTurn
<1>3. Fenced'
  BY <1>4, GenerationsLeft DEF LeaseExpires
<1> QED BY <1>1, <1>2, <1>3, LeaseChanges DEF LeaseExpires

LEMMA AbortStep ==
  ASSUME Inv, NEW g \in gens, AbortRequest(g) \/ AbortGeneration(g)
  PROVE  Inv'
<1>1. /\ gens' \subseteq gens /\ active' \in [Host -> [Key -> 0 .. AttemptBound]]
      /\ tx' \in {tx, NoTx} /\ answer' \in {"none", "error"}
      /\ UNCHANGED <<chat, turn, msgs, doomed>>
  BY LeaveFacts DEF AbortRequest, AbortGeneration, Refuse, End, Inv, TypeOK
<1>2. Fenced'
  BY <1>1, GenerationsLeft
<1> QED BY <1>1, <1>2, RowsUnchanged

LEMMA CrashStep ==
  ASSUME Inv, NEW h \in Host, Crash(h)
  PROVE  Inv'
<1>1. /\ gens' \subseteq gens /\ active' \in [Host -> [Key -> 0 .. AttemptBound]]
      /\ tx' \in {tx, NoTx} /\ answer' \in {"none", "error"} /\ doomed' \subseteq doomed
      /\ UNCHANGED <<chat, turn, msgs>>
  BY DEF Crash, Inv, TypeOK
<1>2. Fenced'
  BY <1>1, GenerationsLeft
<1> QED BY <1>1, <1>2, RowsUnchanged

(* What the transaction knows when it commits. *)
LEMMA TxFacts ==
  ASSUME Inv, tx # NoTx
  PROVE  /\ chat /\ tx.host \in Host
         /\ tx.kind # "delete" =>
              /\ tx.key \in Key
              /\ turn[tx.key].status = Seen.status
              /\ turn[tx.key].attempt = Seen.attempt
         /\ \A q \in Key : q \in SeenGenerating <=> turn[q].status = "GENERATING"
<1>1. tx \in Transaction
  BY DEF Inv, TypeOK
<1>2. chat /\ \A q \in Key : turn[q].status = tx.seen[q].status
                          /\ turn[q].attempt = tx.seen[q].attempt
  BY DEF Inv, SnapshotHolds
<1>3. tx.host \in Host /\ (tx.kind # "delete" => tx.key \in Key)
  BY <1>1 DEF Transaction
<1> QED BY <1>2, <1>3 DEF Seen, SeenGenerating

(* A request that begins an attempt. *)
LEMMA AttemptStep ==
  ASSUME Inv, NEW k \in Key, NEW a \in Attempt, BeginsAttempt(k, a),
         turn' \in [Key -> Row], msgs' \in Seq(Message),
         Transcript(turn', msgs'), RepliesOfLatestAttempt(turn', msgs'),
         End, UNCHANGED <<chat, active, doomed>>,
         \A q \in Key : turn[q].status = "CANCELED" => turn'[q].status = "CANCELED"
  PROVE  Inv'
<1>1. Fenced'
  BY AttemptBegins
<1>2. TypeOK'
  BY <1>1 DEF Inv, TypeOK, Fenced, End
<1>3. SnapshotHolds'
  BY DEF SnapshotHolds, End
<1>4. DeletedIsEmpty' /\ DoomedIsStopped'
  BY DEF Inv, DeletedIsEmpty, DoomedIsStopped, BeginsAttempt
<1>5. TranscriptMatchesTurns' /\ ReplyIsOfLatestAttempt'
  BY DEF TranscriptMatchesTurns, ReplyIsOfLatestAttempt, Transcript, RepliesOfLatestAttempt
<1> QED BY <1>1, <1>2, <1>3, <1>4, <1>5 DEF Inv, Fenced

LEMMA Answered ==
  ASSUME Inv, UNCHANGED <<chat, turn, msgs, gens, active>>,
         tx' = NoTx, answer' \in {"none", "error"},
         doomed' \subseteq doomed \cup {d \in Host \X Key : turn[d[2]].status = "CANCELED"}
  PROVE  Inv'
<1>1. Fenced'
  BY GenerationsLeft
<1> QED BY <1>1, RowsUnchanged DEF Inv, TypeOK

LEMMA Refused == ASSUME Inv, Refuse PROVE Inv'
BY Answered DEF Refuse, End

LEMMA Replayed == ASSUME Inv, NEW s, Replay(s) PROVE Inv'
BY Answered DEF Replay

LEMMA ClaimStep ==
  ASSUME Inv, tx # NoTx, NEW k \in Key, NEW a, CanClaim(k, a), RowFree(k),
         turn' = WithTurn(k, "GENERATING", a + 1, "live"),
         StartGeneration(k, a + 1, msgs),
         End, UNCHANGED <<chat, msgs, active, doomed>>
  PROVE  Inv'
<1>1. /\ msgs \in Seq(Message) /\ Transcript(turn, msgs) /\ RepliesOfLatestAttempt(turn, msgs)
      /\ turn \in [Key -> Row]
  BY DEF Inv, TypeOK, TranscriptMatchesTurns, ReplyIsOfLatestAttempt
<1>2. /\ turn[k].status = "GENERATING" /\ turn[k].attempt = a /\ a \in Attempt
      /\ a + 1 \in Attempt /\ a < a + 1
  BY <1>1, RowFacts DEF CanClaim, IsExpired
<1>3. /\ turn' \in [Key -> Row] /\ turn'[k].status = "GENERATING" /\ turn'[k].attempt = a + 1
      /\ \A q \in Key \ {k} : turn'[q] = turn[q]
  BY <1>1, <1>2 DEF WithTurn, Row
<1>4. Transcript(turn', msgs') /\ RepliesOfLatestAttempt(turn', msgs')
  <2> DEFINE new == turn'
  <2>1. \A q \in Key :
           /\ new[q].status = turn[q].status
           /\ turn[q].status = "GENERATING" \/ new[q].attempt = turn[q].attempt
    BY <1>2, <1>3
  <2> HIDE DEF new
  <2>2. Transcript(new, msgs) /\ RepliesOfLatestAttempt(new, msgs)
    BY <1>1, <2>1, LogStays
  <2> QED BY <2>2 DEF new
<1>5. BeginsAttempt(k, a + 1)
  <2>1. msgs[Len(msgs)] = UserMessage(k)
    BY <1>1, <1>2, OpenIsLast
  <2> QED BY <2>1, <1>2, <1>3, TxFacts DEF BeginsAttempt, StartGeneration
<1> QED BY <1>1, <1>2, <1>3, <1>4, <1>5, AttemptStep

LEMMA StartStep ==
  ASSUME Inv, tx # NoTx, NEW k \in Key,
         NEW rows \in [Key -> Row], NEW log \in Seq(Message),
         Transcript(rows, log), RepliesOfLatestAttempt(rows, log),
         turn[k].status = "NONE", rows[k].status = "NONE",
         \A q \in Key :
           /\ rows[q].status # "GENERATING" /\ rows[q].attempt = turn[q].attempt
           /\ \/ rows[q].status = turn[q].status
              \/ RowFree(q) /\ turn[q].status = "GENERATING",
         StartTurn(k, rows, log)
  PROVE  Inv'
<1> DEFINE row == [status |-> "GENERATING", attempt |-> 1, lease |-> "live"]
           new == [rows EXCEPT ![k] = row]
           longer == Append(log, UserMessage(k))
<1>1. turn' = new /\ msgs' = longer /\ 1 \in Attempt /\ row \in Row
  BY DEF StartTurn, Row
<1>2. row.status = "GENERATING" /\ row.attempt = 1
  OBVIOUS
<1>3. turn[k].attempt = 0
  BY RowFacts DEF Inv, TypeOK, NoTurn
<1> HIDE DEF row
<1>4. /\ longer \in Seq(Message) /\ longer[Len(longer)] = UserMessage(k)
      /\ Transcript(new, longer) /\ RepliesOfLatestAttempt(new, longer)
  BY <1>2, PromptKeepsLog
<1>5. RowFree(k)
  BY GenerationFacts DEF RowFree, HoldsFence
<1>6. BeginsAttempt(k, 1)
  <2>1. \A q \in Key \ {k} : new[q] = rows[q]
    OBVIOUS
  <2>2. new[k] = row
    OBVIOUS
  <2> HIDE DEF longer, new
  <2>3. StartGeneration(k, 1, longer) /\ longer[Len(longer)] = UserMessage(k)
    BY <1>1, <1>4 DEF StartTurn
  <2>4. \E h \in Host :
          gens' = gens \cup
            {[key |-> k, attempt |-> 1, host |-> h, calls |-> 0, phase |-> "pending",
              outcome |-> "none", prompt |-> UserMessage(k)]}
    BY <2>3, TxFacts DEF StartGeneration
  <2> QED BY <2>1, <2>2, <2>4, <1>1, <1>2, <1>3, <1>5, TxFacts DEF BeginsAttempt
<1>7. /\ new \in [Key -> Row]
      /\ \A q \in Key : turn[q].status = "CANCELED" => new[q].status = "CANCELED"
  BY <1>1
<1> HIDE DEF new, longer
<1>8. End /\ UNCHANGED <<chat, active, doomed>>
  BY DEF StartTurn
<1> QED BY <1>1, <1>4, <1>6, <1>7, <1>8, AttemptStep

LEMMA ResolveStep ==
  ASSUME Inv, tx # NoTx, tx.kind # "delete", ResolveGenerating
  PROVE  Inv'
<1> DEFINE k == tx.key
           a == Seen.attempt
<1>1. k \in Key /\ turn[k].status = "GENERATING" /\ turn[k].attempt = a
  BY TxFacts DEF ResolveGenerating
<1>2. CASE Seen.lease = "live" /\ Refuse
  BY <1>2, Refused
<1>3. CASE /\ RowFree(k)
           /\ IF CanFail(k)
              THEN /\ turn' = Ended(k, "FAILED")
                   /\ msgs' = WithReply(k, "FAILED")
                   /\ End
                   /\ UNCHANGED <<chat, gens, active, doomed>>
              ELSE Replay(turn[k].status)
  <2>1. CASE CanFail(k)
    <3>1. "FAILED" \in Terminal
      BY DEF Terminal, Outcome
    <3>2. \A g \in gens' : g.key = k => g.phase # "saving"
      BY <1>3, <2>1 DEF RowFree
    <3> QED BY <1>1, <1>3, <2>1, <3>1, <3>2, TurnEnds DEF End, Inv, TypeOK
  <2> QED BY <1>3, <2>1, Replayed
<1>4. CASE /\ RowFree(k)
           /\ IF CanClaim(k, a)
              THEN /\ turn' = WithTurn(k, "GENERATING", a + 1, "live")
                   /\ StartGeneration(k, a + 1, msgs)
                   /\ End
                   /\ UNCHANGED <<chat, msgs, active, doomed>>
              ELSE ReplayCurrent
  <2>1. CASE CanClaim(k, a)
    BY <1>1, <1>4, <2>1, ClaimStep
  <2> QED BY <1>4, <2>1, Refused, Replayed DEF ReplayCurrent
<1> QED BY <1>2, <1>3, <1>4 DEF ResolveGenerating

LEMMA SendNewStep ==
  ASSUME Inv, tx # NoTx, tx.kind # "delete", SendNew
  PROVE  Inv'
<1>1. tx.key \in Key /\ turn[tx.key].status = "NONE"
  BY TxFacts DEF SendNew
<1>2. /\ msgs \in Seq(Message) /\ Transcript(turn, msgs) /\ RepliesOfLatestAttempt(turn, msgs)
      /\ turn \in [Key -> Row]
  BY DEF Inv, TypeOK, TranscriptMatchesTurns, ReplyIsOfLatestAttempt
<1>3. CASE SeenGenerating = {} /\ StartTurn(tx.key, turn, msgs)
  <2>1. \A q \in Key : turn[q].status # "GENERATING"
    BY <1>3, TxFacts
  <2> QED BY <1>1, <1>2, <1>3, <2>1, StartStep
<1>4. ASSUME NEW o \in SeenGenerating, RowFree(o), CanFail(o),
             StartTurn(tx.key, Ended(o, "FAILED"), WithReply(o, "FAILED"))
      PROVE  Inv'
  <2>1. o \in Key /\ turn[o].status = "GENERATING" /\ turn[o].attempt \in Attempt
    BY <1>2, RowFacts, TxFacts DEF SeenGenerating
  <2> DEFINE row == [status |-> "FAILED", attempt |-> turn[o].attempt, lease |-> "none"]
             rows == [turn EXCEPT ![o] = row]
             log == Append(msgs, ReplyMessage(o, turn[o].attempt, "FAILED"))
  <2>2. row.status = "FAILED" /\ row.attempt = turn[o].attempt /\ "FAILED" \in Terminal
        /\ row \in Row
    BY <2>1 DEF Terminal, Outcome, Row
  <2>3. rows = Ended(o, "FAILED") /\ log = WithReply(o, "FAILED")
    BY DEF Ended, WithTurn, WithReply
  <2> HIDE DEF row
  <2>4. log \in Seq(Message) /\ Transcript(rows, log) /\ RepliesOfLatestAttempt(rows, log)
    BY <1>2, <2>1, <2>2, ReplyKeepsLog
  <2>5. rows \in [Key -> Row] /\ rows[o] = row /\ \A q \in Key \ {o} : rows[q] = turn[q]
    BY <1>2, <2>1, <2>2
  <2>6. \A q \in Key : turn[q].status = "GENERATING" => q = o
    BY <1>2, <2>1, OneGenerating
  <2> HIDE DEF rows, log
  <2>7. \A q \in Key :
           /\ rows[q].status # "GENERATING" /\ rows[q].attempt = turn[q].attempt
           /\ \/ rows[q].status = turn[q].status
              \/ RowFree(q) /\ turn[q].status = "GENERATING"
    BY <1>4, <2>1, <2>2, <2>5, <2>6
  <2>8. rows[tx.key].status = "NONE"
    BY <1>1, <2>1, <2>5
  <2> QED BY <1>1, <1>4, <2>3, <2>4, <2>5, <2>7, <2>8, StartStep
<1> QED BY <1>3, <1>4, Refused DEF SendNew

LEMMA SendStep ==
  ASSUME Inv, tx # NoTx, Send
  PROVE  Inv'
BY SendNewStep, ResolveStep, Replayed, Refused DEF Send

LEMMA RetryStep ==
  ASSUME Inv, tx # NoTx, Retry
  PROVE  Inv'
<1> DEFINE k == tx.key
           a == turn[k].attempt + 1
<1>1. k \in Key /\ turn[k].status = Seen.status /\ tx.kind # "delete"
  BY TxFacts DEF Retry
<1>2. CASE ResolveGenerating
  BY <1>1, <1>2, ResolveStep
<1>3. CASE Replay(Seen.status) \/ Refuse
  BY <1>3, Replayed, Refused
<1>4. CASE /\ Seen.status \in Terminal
           /\ \E i \in 1 .. Len(msgs) : msgs[i] = ReplyMessage(k, tx.reply, Seen.status)
           /\ IsRetryable(Seen.status)
           /\ msgs[Len(msgs)].turn = k /\ msgs[Len(msgs)].role = "ASSISTANT"
           /\ SeenGenerating = {}
           /\ turn[k].attempt < AttemptBound
           /\ turn' = WithTurn(k, "GENERATING", a, "live")
           /\ msgs' = SubSeq(msgs, 1, Len(msgs) - 1)
           /\ StartGeneration(k, a, HistoryAfterDelete(msgs))
           /\ End
           /\ UNCHANGED <<chat, active, doomed>>
  <2>1. /\ msgs \in Seq(Message) /\ turn \in [Key -> Row]
        /\ Transcript(turn, msgs) /\ RepliesOfLatestAttempt(turn, msgs)
    BY DEF Inv, TypeOK, TranscriptMatchesTurns, ReplyIsOfLatestAttempt
  <2>2. a \in Attempt /\ turn[k].attempt < a
    BY <1>1, <1>4, <2>1, RowFacts DEF Terminal, Outcome
  <2> DEFINE row == [status |-> "GENERATING", attempt |-> a, lease |-> "live"]
             new == [turn EXCEPT ![k] = row]
  <2>3. row \in Row /\ row.status = "GENERATING" /\ row.attempt = a
    BY <2>2 DEF Row
  <2>4. turn' = new
    BY <1>4 DEF WithTurn
  <2> HIDE DEF row
  <2>5. EndsWithReply(msgs, k)
    BY <1>4, <2>1 DEF EndsWithReply
  <2>6. /\ HistoryAfterDelete(msgs) \in Seq(Message)
        /\ HistoryAfterDelete(msgs)[Len(HistoryAfterDelete(msgs))] = UserMessage(k)
        /\ Transcript(new, HistoryAfterDelete(msgs))
        /\ RepliesOfLatestAttempt(new, HistoryAfterDelete(msgs))
    BY <1>1, <2>1, <2>3, <2>5, RetryKeepsLog
  <2>7. new \in [Key -> Row] /\ new[k] = row /\ \A q \in Key \ {k} : new[q] = turn[q]
    BY <1>1, <2>1, <2>3
  <2>8. msgs' = HistoryAfterDelete(msgs)
    BY <1>4 DEF HistoryAfterDelete
  <2> HIDE DEF new, a
  <2>9. RowFree(k)
    BY <1>1, <1>4, GenerationFacts DEF RowFree, HoldsFence, Terminal, Outcome
  <2>10. BeginsAttempt(k, a)
    <3>1. \E h \in Host :
            gens' = gens \cup
              {[key |-> k, attempt |-> a, host |-> h, calls |-> 0, phase |-> "pending",
                outcome |-> "none", prompt |-> UserMessage(k)]}
      BY <1>4, <2>6, TxFacts DEF StartGeneration
    <3> QED BY <3>1, <2>2, <2>3, <2>4, <2>7, <2>9, TxFacts DEF BeginsAttempt
  <2>11. \A q \in Key : turn[q].status = "CANCELED" => new[q].status = "CANCELED"
    BY <1>1, <1>4, <2>7 DEF IsRetryable, Retryable
  <2> QED BY <1>1, <1>4, <2>2, <2>4, <2>6, <2>7, <2>8, <2>10, <2>11, AttemptStep
<1> QED BY <1>2, <1>3, <1>4 DEF Retry

LEMMA CancelStep ==
  ASSUME Inv, tx # NoTx, Cancel
  PROVE  Inv'
<1> DEFINE k == tx.key
<1>1. k \in Key /\ turn[k].status = Seen.status /\ tx.host \in Host /\ End
  BY TxFacts DEF Cancel
<1>2. CASE /\ Seen.status \in Terminal
           /\ doomed' = IF Disposes(Seen.status) THEN doomed \cup {<<tx.host, k>>} ELSE doomed
           /\ UNCHANGED <<chat, turn, msgs, gens, active>>
  BY <1>1, <1>2, Answered DEF Disposes, End
<1>3. CASE /\ Seen.status = "GENERATING" /\ RowFree(k)
           /\ turn' = Ended(k, "CANCELED") /\ msgs' = WithReply(k, "CANCELED")
           /\ doomed' = IF Disposes(turn'[k].status) THEN doomed \cup {<<tx.host, k>>} ELSE doomed
           /\ UNCHANGED <<chat, gens, active>>
  <2>1. "CANCELED" \in Terminal /\ \A g \in gens' : g.key = k => g.phase # "saving"
    BY <1>3 DEF Terminal, RowFree
  <2>2. doomed' \subseteq doomed \cup {d \in Host \X {k} : "CANCELED" = "CANCELED"}
    BY <1>1, <1>3
  <2>3. tx' = NoTx /\ answer' \in {"none", "error"} /\ UNCHANGED <<chat, gens, active>>
        /\ active \in [Host -> [Key -> 0 .. AttemptBound]]
    BY <1>1, <1>3 DEF End, Inv, TypeOK
  <2> QED BY <1>1, <1>3, <2>1, <2>2, <2>3, TurnEnds
<1> QED BY <1>1, <1>2, <1>3 DEF Cancel

LEMMA DeleteStep ==
  ASSUME Inv, tx # NoTx, Delete
  PROVE  Inv'
<1> SUFFICES ASSUME /\ \A k \in Key : RowFree(k)
                    /\ chat' = FALSE /\ turn' = [k \in Key |-> NoTurn] /\ msgs' = <<>>
                    /\ End /\ UNCHANGED <<gens, active, doomed>>
             PROVE  Inv'
  BY Refused DEF Delete
<1>1. TypeOK'
  <2>1. NoTurn \in Row /\ <<>> \in Seq(Message)
    BY DEF Row
  <2>2. turn' \in [Key -> Row]
    BY <2>1
  <2> QED BY <2>1, <2>2 DEF Inv, TypeOK, End
<1>2. GenerationsHold'
  BY GenerationFacts DEF GenerationsHold, Inv
<1>3. NoCurrentAttemptStopped' /\ HistoryEndsWithPrompt'
  BY GenerationFacts DEF Inv, NoCurrentAttemptStopped, HistoryEndsWithPrompt, HoldsFence, NoTurn
<1>4. SnapshotHolds' /\ DeletedIsEmpty' /\ DoomedIsStopped'
  BY DEF SnapshotHolds, DeletedIsEmpty, DoomedIsStopped, End
<1>5. TranscriptMatchesTurns' /\ ReplyIsOfLatestAttempt'
  BY DEF TranscriptMatchesTurns, Transcript, ReplyIsOfLatestAttempt, RepliesOfLatestAttempt, NoTurn
<1> QED BY <1>1, <1>2, <1>3, <1>4, <1>5 DEF Inv

LEMMA StutterStep == ASSUME Inv, UNCHANGED vars PROVE Inv'
BY DEF vars, Inv, TypeOK, SnapshotHolds, GenerationsHold, HoldsFence, DeletedIsEmpty,
       DoomedIsStopped, TranscriptMatchesTurns, Transcript, ReplyIsOfLatestAttempt,
       RepliesOfLatestAttempt, NoCurrentAttemptStopped, HistoryEndsWithPrompt

(* Every step of the specification keeps the invariant. *)
LEMMA NextInv == Inv /\ [Next]_vars => Inv'
<1> SUFFICES ASSUME Inv, [Next]_vars PROVE Inv'
  OBVIOUS
<1>1. CASE Request
  BY <1>1, RequestStep
<1>2. CASE Commit
  BY <1>2, SendStep, RetryStep, CancelStep, DeleteStep DEF Commit
<1>3. CASE Generate
  BY <1>3, SubscribeStep, SearchStep, FinishStep, SaveStep DEF Generate
<1>4. ASSUME NEW h \in Host, NEW k \in Key, Dispose(h, k) PROVE Inv'
  BY <1>4, DisposeStep
<1>5. ASSUME NEW k \in Key, LeaseExpires(k) PROVE Inv'
  BY <1>5, LeaseExpiresStep
<1>6. CASE Abort
  BY <1>6, AbortStep DEF Abort
<1>7. ASSUME NEW h \in Host, Crash(h) PROVE Inv'
  BY <1>7, CrashStep
<1>8. CASE UNCHANGED vars
  BY <1>8, StutterStep
<1> QED BY <1>1, <1>2, <1>3, <1>4, <1>5, <1>6, <1>7, <1>8 DEF Next

-----------------------------------------------------------------------------
(* The theorems.                                                           *)

THEOREM Invariance == Spec => []Inv
BY InitInv, NextInv, PTL DEF Spec

(* The variables keep their types. *)
THEOREM TypeCorrect == Spec => []TypeOK
<1>1. Inv => TypeOK
  BY DEF Inv
<1> QED BY <1>1, Invariance, PTL

(* No interleaving of sends, retries, stops, late generations and crashes  *)
(* duplicates, loses or misplaces a message.                               *)
THEOREM TranscriptAlwaysMatches == Spec => []TranscriptMatchesTurns
<1>1. Inv => TranscriptMatchesTurns
  BY DEF Inv
<1> QED BY <1>1, Invariance, PTL

(* Whatever a superseded attempt produces is never in the chat. *)
THEOREM RepliesAreCurrent == Spec => []ReplyIsOfLatestAttempt
<1>1. Inv => ReplyIsOfLatestAttempt
  BY DEF Inv
<1> QED BY <1>1, Invariance, PTL

(* A late stop never cuts short an attempt that may still save its reply. *)
THEOREM StopsAreHarmless == Spec => []NoCurrentAttemptStopped
<1>1. Inv => NoCurrentAttemptStopped
  BY DEF Inv
<1> QED BY <1>1, Invariance, PTL

(* The provider is always asked about the prompt of the turn. *)
THEOREM HistoryIsRight == Spec => []HistoryEndsWithPrompt
<1>1. Inv => HistoryEndsWithPrompt
  BY DEF Inv
<1> QED BY <1>1, Invariance, PTL

LEMMA LiveLeaseStep ==
  ASSUME Inv, [Next]_vars, NEW k \in Key, turn[k].lease = "live"
  PROVE  \/ turn'[k].status = "GENERATING" /\ turn'[k].attempt = turn[k].attempt
         \/ \E g \in gens : g.key = k /\ g.attempt = turn[k].attempt /\ Save(g)
         \/ turn'[k].status = "CANCELED" \/ ~chat'
<1>1. turn \in [Key -> Row] /\ turn[k].status = "GENERATING"
  BY RowFacts DEF Inv, TypeOK
<1> SUFFICES ASSUME turn'[k] # turn[k], chat', turn'[k].status # "CANCELED"
             PROVE  \/ turn'[k].status = "GENERATING" /\ turn'[k].attempt = turn[k].attempt
                    \/ \E g \in gens : g.key = k /\ g.attempt = turn[k].attempt /\ Save(g)
  BY <1>1
<1>2. ~Request
  BY DEF Request, BeginSend, BeginRetry, BeginCancel, BeginDelete, Begin
<1>3. CASE Commit
  <2>1. tx # NoTx
    BY <1>3 DEF Commit
  <2>2. ~CanClaim(k, Seen.attempt) /\ ~CanFail(k)
    BY DEF CanClaim, CanFail, IsExpired
  <2>3. ~ResolveGenerating \/ tx.kind = "delete"
    <3> SUFFICES ASSUME tx.kind # "delete", ResolveGenerating PROVE FALSE
      OBVIOUS
    <3>1. tx.key \in Key
      BY <2>1, TxFacts
    <3>2. CASE tx.key = k
      BY <2>2, <3>2 DEF ResolveGenerating, ReplayCurrent, Refuse, Replay
    <3>3. CASE tx.key # k
      BY <1>1, <3>1, <3>3 DEF ResolveGenerating, ReplayCurrent, Refuse, Replay, Ended, WithTurn
    <3> QED BY <3>2, <3>3
  <2>4. CASE Send
    <3>1. tx.kind # "delete" /\ tx.key \in Key
      BY <2>1, <2>4, TxFacts DEF Send
    <3>2. SendNew
      BY <2>3, <2>4, <3>1 DEF Send, Replay, Refuse
    <3>3. turn[tx.key].status = "NONE" /\ tx.key # k
      BY <1>1, <2>1, <3>1, <3>2, TxFacts DEF SendNew
    <3>4. k \in SeenGenerating
      BY <1>1, <2>1, TxFacts
    <3>5. PICK o \in SeenGenerating :
            CanFail(o) /\ StartTurn(tx.key, Ended(o, "FAILED"), WithReply(o, "FAILED"))
      BY <3>2, <3>4 DEF SendNew, Refuse
    <3>6. o \in Key /\ o # k
      BY <2>2, <3>5 DEF SeenGenerating
    <3> QED BY <1>1, <3>1, <3>3, <3>5, <3>6 DEF StartTurn, Ended, WithTurn
  <2>5. CASE Retry
    <3>1. tx.kind # "delete" /\ tx.key \in Key /\ turn[tx.key].status = Seen.status
      BY <2>1, <2>5, TxFacts DEF Retry
    <3>2. Seen.status \in Terminal /\ turn' = WithTurn(tx.key, "GENERATING", turn[tx.key].attempt + 1, "live")
      BY <2>3, <2>5, <3>1 DEF Retry, Replay, Refuse
    <3>3. tx.key # k
      BY <1>1, <3>1, <3>2 DEF Terminal, Outcome
    <3> QED BY <1>1, <3>1, <3>2, <3>3 DEF WithTurn
  <2>6. CASE Cancel
    <3>1. tx.key \in Key
      BY <2>1, <2>6, TxFacts DEF Cancel
    <3>2. UNCHANGED turn \/ turn' = Ended(tx.key, "CANCELED")
      BY <2>6 DEF Cancel
    <3> QED BY <1>1, <3>1, <3>2 DEF Ended, WithTurn
  <2>7. ~Delete
    BY DEF Delete, Refuse
  <2> QED BY <1>3, <2>4, <2>5, <2>6, <2>7 DEF Commit
<1>4. ASSUME NEW g \in gens,
             Subscribe(g) \/ Search(g) \/ (\E s \in Outcome : Finish(g, s)) \/ Save(g)
      PROVE  \/ turn'[k].status = "GENERATING" /\ turn'[k].attempt = turn[k].attempt
             \/ \E e \in gens : e.key = k /\ e.attempt = turn[k].attempt /\ Save(e)
  <2>1. g.key \in Key /\ ~Subscribe(g) /\ ~(\E s \in Outcome : Finish(g, s))
    BY GenerationFacts DEF Subscribe, Finish
  <2>2. CASE Search(g)
    <3>1. HoldsFence(g) /\ turn' = WithTurn(g.key, "GENERATING", g.attempt, "live")
      BY <2>2 DEF Search
    <3>2. g.key = k
      BY <1>1, <2>1, <3>1 DEF WithTurn
    <3> QED BY <1>1, <3>1, <3>2 DEF WithTurn, HoldsFence
  <2>3. CASE Save(g)
    <3>1. HoldsFence(g) /\ turn' = Ended(g.key, g.outcome)
      BY <2>3, GenerationFacts DEF Save
    <3>2. g.key = k
      BY <1>1, <2>1, <3>1 DEF Ended, WithTurn
    <3> QED BY <2>3, <3>1, <3>2 DEF HoldsFence
  <2> QED BY <1>4, <2>1, <2>2, <2>3
<1>5. CASE Generate
  BY <1>4, <1>5 DEF Generate
<1>6. ASSUME NEW o \in Key, LeaseExpires(o)
      PROVE  turn'[k].status = "GENERATING" /\ turn'[k].attempt = turn[k].attempt
  BY <1>1, <1>6 DEF LeaseExpires, Row
<1>7. /\ ~(\E h \in Host, o \in Key : Dispose(h, o))
      /\ ~Abort /\ ~(\E h \in Host : Crash(h)) /\ ~UNCHANGED vars
  BY DEF Dispose, Abort, AbortRequest, AbortGeneration, Refuse, Crash, vars
<1> QED BY <1>2, <1>3, <1>5, <1>6, <1>7 DEF Next

(* A live lease keeps the turn for its attempt, however stale what a       *)
(* request had read.                                                       *)
THEOREM LiveLeaseAlwaysHolds == Spec => LiveLeaseHolds
<1>1. Inv /\ [Next]_vars =>
        \A k \in Key :
          turn[k].lease = "live" =>
            \/ turn'[k].status = "GENERATING" /\ turn'[k].attempt = turn[k].attempt
            \/ \E g \in gens : g.key = k /\ g.attempt = turn[k].attempt /\ Save(g)
            \/ turn'[k].status = "CANCELED" \/ ~chat'
  BY LiveLeaseStep
<1> QED BY <1>1, Invariance, PTL DEF LiveLeaseHolds, Spec

=============================================================================
