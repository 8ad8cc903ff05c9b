------------------------- MODULE ChatTurnRefinement -------------------------
(***************************************************************************)
(* The turns of ChatTurn implement the conversation of Conversation: every *)
(* step adds a prompt, answers the last one, asks for its reply again or   *)
(* drops the chat, or changes nothing a user sees.                         *)
(***************************************************************************)
EXTENDS ChatTurnProofs, SequenceTheorems

USE BoundsAssumption DEF Attempt

-----------------------------------------------------------------------------
(* What a user reads in a list of messages.                                *)

TalkOf(log) ==
  [i \in 1 .. (Len(log) + 1) \div 2 |->
     [prompt |-> log[2 * i - 1].turn,
      reply  |-> IF 2 * i <= Len(log) THEN log[2 * i].status ELSE "PENDING"]]

Said == [prompt : Key, reply : Terminal \cup {"COMPLETE", "PENDING"}]

LEMMA TalkFacts ==
  ASSUME NEW log \in Seq(Message)
  PROVE  /\ TalkOf(log) \in Seq(Said)
         /\ Len(TalkOf(log)) = (Len(log) + 1) \div 2
         /\ \A i \in 1 .. (Len(log) + 1) \div 2 :
              /\ 2 * i - 1 \in 1 .. Len(log)
              /\ 2 * i <= Len(log) => 2 * i \in 1 .. Len(log)
              /\ TalkOf(log)[i].prompt = log[2 * i - 1].turn
              /\ TalkOf(log)[i].reply =
                   IF 2 * i <= Len(log) THEN log[2 * i].status ELSE "PENDING"
<1> DEFINE n == (Len(log) + 1) \div 2
<1>1. n \in Nat /\ Len(log) \in Nat
  OBVIOUS
<1>2. ASSUME NEW i \in 1 .. n
      PROVE  /\ 2 * i - 1 \in 1 .. Len(log)
             /\ 2 * i <= Len(log) => 2 * i \in 1 .. Len(log)
  BY <1>1
<1>3. \A j \in 1 .. Len(log) : log[j].turn \in Key /\ log[j].status \in Terminal \cup {"COMPLETE"}
  BY DEF Message
<1>4. TalkOf(log) \in [1 .. n -> Said]
  <2>1. ASSUME NEW i \in 1 .. n
        PROVE  [prompt |-> log[2 * i - 1].turn,
                reply  |-> IF 2 * i <= Len(log) THEN log[2 * i].status ELSE "PENDING"] \in Said
    BY <1>2, <1>3 DEF Said
  <2> HIDE DEF n
  <2> QED BY <2>1 DEF TalkOf, n
<1>5. TalkOf(log) \in Seq(Said) /\ Len(TalkOf(log)) = n
  BY <1>1, <1>4
<1>6. \A i \in 1 .. n :
        /\ TalkOf(log)[i].prompt = log[2 * i - 1].turn
        /\ TalkOf(log)[i].reply =
             IF 2 * i <= Len(log) THEN log[2 * i].status ELSE "PENDING"
  BY DEF TalkOf
<1> QED BY <1>2, <1>5, <1>6

LEMMA SaidEqual ==
  ASSUME NEW s \in Seq(Said), NEW t \in Seq(Said), Len(s) = Len(t),
         \A i \in 1 .. Len(s) : s[i].prompt = t[i].prompt /\ s[i].reply = t[i].reply
  PROVE  s = t
<1>1. ASSUME NEW i \in 1 .. Len(s) PROVE s[i] = t[i]
  <2>1. s[i] \in Said /\ t[i] \in Said
    OBVIOUS
  <2> QED BY <2>1 DEF Said
<1> QED BY <1>1, SeqEqual

(* The prompt of a generating turn is an odd message, the last; between    *)
(* exchanges their number is even.                                         *)
LEMMA ClosedIsEven ==
  ASSUME NEW rows, NEW log \in Seq(Message), Transcript(rows, log),
         \A q \in Key : rows[q].status # "GENERATING"
  PROVE  Len(log) % 2 = 0
<1> SUFFICES ASSUME Len(log) % 2 = 1 PROVE FALSE
  OBVIOUS
<1>1. Len(log) \in 1 .. Len(log) /\ log[Len(log)].turn \in Key
  BY DEF Message
<1>2. rows[log[Len(log)].turn].status = "GENERATING"
  BY <1>1 DEF Transcript
<1> QED BY <1>1, <1>2

(* A talk is known by its exchanges. *)
LEMMA TalkIs ==
  ASSUME NEW log \in Seq(Message), NEW n \in Nat, Len(log) \in {2 * n, 2 * n - 1},
         NEW t \in Seq(Said), Len(t) = n,
         \A i \in 1 .. n :
           /\ t[i].prompt = log[2 * i - 1].turn
           /\ t[i].reply = IF 2 * i <= Len(log) THEN log[2 * i].status ELSE "PENDING"
  PROVE  TalkOf(log) = t
<1>1. (Len(log) + 1) \div 2 = n
  OBVIOUS
<1>2. TalkOf(log) \in Seq(Said) /\ Len(TalkOf(log)) = n
  BY <1>1, TalkFacts
<1>3. ASSUME NEW i \in 1 .. n
      PROVE  TalkOf(log)[i].prompt = t[i].prompt /\ TalkOf(log)[i].reply = t[i].reply
  BY <1>1, TalkFacts
<1> QED BY <1>2, <1>3, SaidEqual

(* The exchanges of a talk, by its number of messages. *)
LEMMA Exchanges ==
  ASSUME NEW log \in Seq(Message), NEW n \in Nat, Len(log) \in {2 * n, 2 * n - 1}
  PROVE  /\ TalkOf(log) \in Seq(Said) /\ Len(TalkOf(log)) = n
         /\ \A i \in 1 .. n :
              /\ TalkOf(log)[i] \in Said
              /\ TalkOf(log)[i].prompt = log[2 * i - 1].turn
              /\ TalkOf(log)[i].reply =
                   IF 2 * i <= Len(log) THEN log[2 * i].status ELSE "PENDING"
<1>1. (Len(log) + 1) \div 2 = n
  OBVIOUS
<1>2. TalkOf(log) \in Seq(Said) /\ Len(TalkOf(log)) = n
  BY <1>1, TalkFacts
<1>3. ASSUME NEW i \in 1 .. n
      PROVE  /\ TalkOf(log)[i].prompt = log[2 * i - 1].turn
             /\ TalkOf(log)[i].reply =
                  IF 2 * i <= Len(log) THEN log[2 * i].status ELSE "PENDING"
  BY <1>1, TalkFacts
<1>4. \A i \in 1 .. n : TalkOf(log)[i] \in Said
  <2> DEFINE t == TalkOf(log)
  <2> HIDE DEF t
  <2>1. \A i \in 1 .. n : t[i] \in Said
    BY <1>2 DEF t
  <2> QED BY <2>1 DEF t
<1> QED BY <1>2, <1>3, <1>4

LEMMA NothingSaid ==
  ASSUME NEW log \in Seq(Message), Len(log) = 0
  PROVE  TalkOf(log) = <<>>
<1>1. TalkOf(log) \in Seq(Said) /\ Len(TalkOf(log)) = 0
  <2>1. (Len(log) + 1) \div 2 = 0
    OBVIOUS
  <2>2. Len(TalkOf(log)) = (Len(log) + 1) \div 2 /\ TalkOf(log) \in Seq(Said)
    BY TalkFacts
  <2> QED BY <2>1, <2>2
<1> DEFINE t == TalkOf(log)
<1> HIDE DEF t
<1>2. t = <<>>
  BY <1>1 DEF t
<1> QED BY <1>2 DEF t

LEMMA PromptIsAsked ==
  ASSUME NEW log \in Seq(Message), NEW k \in Key, Len(log) % 2 = 0
  PROVE  TalkOf(Append(log, UserMessage(k))) = C!Ask(TalkOf(log), k)
<1> DEFINE longer == Append(log, UserMessage(k))
           old == TalkOf(log)
           ask == [prompt |-> k, reply |-> "PENDING"]
           new == Append(old, ask)
<1>1. PICK n \in Nat : Len(log) = 2 * n
  <2>1. Len(log) \in Nat /\ Len(log) = 2 * (Len(log) \div 2) /\ Len(log) \div 2 \in Nat
    OBVIOUS
  <2> QED BY <2>1
<1>2. /\ longer \in Seq(Message) /\ Len(longer) = 2 * n + 1
      /\ \A i \in 1 .. 2 * n : longer[i] = log[i]
      /\ longer[2 * n + 1].turn = k
  BY <1>1, UserMessageFacts
<1>3. /\ old \in Seq(Said) /\ Len(old) = n
      /\ \A i \in 1 .. n : old[i].prompt = log[2 * i - 1].turn /\ old[i].reply = log[2 * i].status
  <2>1. \A i \in 1 .. n : 2 * i <= Len(log)
    BY <1>1
  <2> QED BY <1>1, <2>1, Exchanges
<1>4. ask \in Said /\ ask.prompt = k /\ ask.reply = "PENDING"
  BY DEF Said
<1> HIDE DEF longer, old, ask
<1>5. /\ new \in Seq(Said) /\ Len(new) = n + 1
      /\ \A i \in 1 .. n : new[i] = old[i]
      /\ new[n + 1] = ask
  BY <1>3, <1>4
<1> HIDE DEF new
<1>6. ASSUME NEW i \in 1 .. n + 1
      PROVE  /\ new[i].prompt = longer[2 * i - 1].turn
             /\ new[i].reply = IF 2 * i <= Len(longer) THEN longer[2 * i].status ELSE "PENDING"
  <2>1. CASE i = n + 1
    <3>1. 2 * i - 1 = 2 * n + 1 /\ ~(2 * i <= 2 * n + 1)
      BY <2>1
    <3> QED BY <2>1, <3>1, <1>2, <1>4, <1>5
  <2>2. CASE i \in 1 .. n
    <3>1. 2 * i - 1 \in 1 .. 2 * n /\ 2 * i \in 1 .. 2 * n /\ 2 * i <= 2 * n + 1
      BY <2>2
    <3> QED BY <2>2, <3>1, <1>2, <1>3, <1>5
  <2> QED BY <2>1, <2>2
<1>7. PICK m \in Nat : m = n + 1
  OBVIOUS
<1>8. TalkOf(longer) = new
  <2>1. Len(longer) \in {2 * m, 2 * m - 1} /\ Len(new) = m
    BY <1>2, <1>5, <1>7
  <2>2. \A i \in 1 .. m :
           /\ new[i].prompt = longer[2 * i - 1].turn
           /\ new[i].reply = IF 2 * i <= Len(longer) THEN longer[2 * i].status ELSE "PENDING"
    BY <1>6, <1>7
  <2> QED BY <1>2, <1>5, <2>1, <2>2, TalkIs
<1> QED BY <1>8 DEF C!Ask, longer, new, old, ask

(* What a message list of odd length says: its last prompt is waiting. *)
LEMMA ReplyIsAnswer ==
  ASSUME NEW log \in Seq(Message), Len(log) % 2 = 1,
         NEW k \in Key, NEW a \in Attempt, NEW s \in Terminal
  PROVE  /\ C!Waiting(TalkOf(log))
         /\ TalkOf(Append(log, ReplyMessage(k, a, s))) = C!Reply(TalkOf(log), s)
<1> DEFINE longer == Append(log, ReplyMessage(k, a, s))
           old == TalkOf(log)
           new == [old EXCEPT ![Len(old)].reply = s]
<1>1. PICK n \in Nat \ {0} : Len(log) = 2 * n - 1
  <2>1. Len(log) \in Nat /\ Len(log) = 2 * ((Len(log) + 1) \div 2) - 1
        /\ (Len(log) + 1) \div 2 \in Nat \ {0}
    OBVIOUS
  <2> QED BY <2>1
<1>2. /\ longer \in Seq(Message) /\ Len(longer) = 2 * n
      /\ \A i \in 1 .. 2 * n - 1 : longer[i] = log[i]
      /\ longer[2 * n].status = s
  BY <1>1, ReplyMessageFacts
<1>3. /\ old \in Seq(Said) /\ Len(old) = n
      /\ \A i \in 1 .. n :
           /\ old[i] \in Said
           /\ old[i].prompt = log[2 * i - 1].turn
           /\ old[i].reply = IF 2 * i <= Len(log) THEN log[2 * i].status ELSE "PENDING"
  BY <1>1, Exchanges
<1> HIDE DEF longer, old
<1>4. old # <<>> /\ old[n].reply = "PENDING"
  <2>1. n \in 1 .. n /\ ~(2 * n <= Len(log))
    BY <1>1
  <2> QED BY <1>3, <2>1
<1>5. /\ new \in Seq(Said) /\ Len(new) = n
      /\ \A i \in 1 .. n :
           /\ new[i].prompt = old[i].prompt
           /\ new[i].reply = IF i = n THEN s ELSE old[i].reply
  <2> DEFINE e == [old[n] EXCEPT !.reply = s]
  <2>1. n \in 1 .. Len(old) /\ old[n] \in Said
    BY <1>3
  <2>2. e \in Said /\ e.prompt = old[n].prompt /\ e.reply = s
    BY <2>1 DEF Said
  <2>3. new = [old EXCEPT ![n] = e]
    BY <1>3
  <2> HIDE DEF e, new
  <2>4. /\ new \in Seq(Said) /\ Len(new) = n
        /\ \A j \in 1 .. n : new[j] = IF j = n THEN e ELSE old[j]
    BY <2>1, <2>2, <2>3, <1>3, ExceptSeq
  <2> QED BY <2>2, <2>4
<1> HIDE DEF new
<1>6. ASSUME NEW i \in 1 .. n
      PROVE  /\ new[i].prompt = longer[2 * i - 1].turn
             /\ new[i].reply = IF 2 * i <= Len(longer) THEN longer[2 * i].status ELSE "PENDING"
  <2>1. 2 * i - 1 \in 1 .. 2 * n - 1 /\ 2 * i <= 2 * n
    OBVIOUS
  <2>2. CASE i = n
    BY <2>1, <2>2, <1>2, <1>3, <1>5
  <2>3. CASE i # n
    <3>1. 2 * i \in 1 .. 2 * n - 1 /\ 2 * i <= 2 * n - 1
      BY <2>3
    <3> QED BY <2>1, <2>3, <3>1, <1>1, <1>2, <1>3, <1>5
  <2> QED BY <2>2, <2>3
<1>8. TalkOf(longer) = new
  BY <1>2, <1>5, <1>6, TalkIs
<1> QED BY <1>3, <1>4, <1>8 DEF C!Waiting, C!Reply, longer, new, old

(* A retry asks for the last reply again. *)
LEMMA RetryIsAskAgain ==
  ASSUME NEW rows, NEW log \in Seq(Message), Transcript(rows, log),
         NEW k \in Key, EndsWithReply(log, k), rows[k].status \in Retryable
  PROVE  /\ TalkOf(log) # <<>>
         /\ TalkOf(log)[Len(TalkOf(log))].reply \in {"FAILED", "PARTIAL"}
         /\ TalkOf(HistoryAfterDelete(log)) = C!Reply(TalkOf(log), "PENDING")
<1> DEFINE shorter == HistoryAfterDelete(log)
           old == TalkOf(log)
           new == [old EXCEPT ![Len(old)].reply = "PENDING"]
<1>1. PICK n \in Nat \ {0} : Len(shorter) = 2 * n - 1 /\ Len(log) = 2 * n
  <2> DEFINE l == Len(shorter)
  <2>1. l \in Nat /\ l % 2 = 1 /\ Len(log) = l + 1
    BY LastReplyDropped
  <2> HIDE DEF l
  <2>2. l = 2 * ((l + 1) \div 2) - 1 /\ (l + 1) \div 2 \in Nat \ {0}
    BY <2>1
  <2>3. PICK n \in Nat \ {0} : l = 2 * n - 1
    BY <2>2
  <2>4. Len(log) = 2 * n
    BY <2>1, <2>3
  <2> QED BY <2>3, <2>4 DEF l
<1>2. shorter \in Seq(Message) /\ \A i \in 1 .. 2 * n - 1 : shorter[i] = log[i]
  BY <1>1, LastReplyDropped
<1>3. /\ old \in Seq(Said) /\ Len(old) = n
      /\ \A i \in 1 .. n :
           old[i] \in Said /\ old[i].prompt = log[2 * i - 1].turn /\ old[i].reply = log[2 * i].status
  <2>1. \A i \in 1 .. n : 2 * i <= Len(log)
    BY <1>1
  <2> QED BY <1>1, <2>1, Exchanges
<1>4. log[2 * n].status \in {"FAILED", "PARTIAL"}
  <2>1. 2 * n \in 1 .. Len(log) /\ (2 * n) % 2 # 1 /\ log[2 * n].turn = k
    BY <1>1 DEF EndsWithReply
  <2>2. log[2 * n].status = rows[k].status
    BY <2>1 DEF Transcript
  <2> QED BY <2>2 DEF Retryable
<1> HIDE DEF shorter, old
<1>5. /\ new \in Seq(Said) /\ Len(new) = n
      /\ \A i \in 1 .. n :
           /\ new[i].prompt = old[i].prompt
           /\ new[i].reply = IF i = n THEN "PENDING" ELSE old[i].reply
  <2> DEFINE e == [old[n] EXCEPT !.reply = "PENDING"]
  <2>1. n \in 1 .. Len(old) /\ old[n] \in Said
    BY <1>3
  <2>2. e \in Said /\ e.prompt = old[n].prompt /\ e.reply = "PENDING"
    BY <2>1 DEF Said
  <2>3. new = [old EXCEPT ![n] = e]
    BY <1>3
  <2> HIDE DEF e, new
  <2>4. /\ new \in Seq(Said) /\ Len(new) = n
        /\ \A j \in 1 .. n : new[j] = IF j = n THEN e ELSE old[j]
    BY <2>1, <2>2, <2>3, <1>3, ExceptSeq
  <2> QED BY <2>2, <2>4
<1> HIDE DEF new
<1>6. ASSUME NEW i \in 1 .. n
      PROVE  /\ new[i].prompt = shorter[2 * i - 1].turn
             /\ new[i].reply = IF 2 * i <= Len(shorter) THEN shorter[2 * i].status ELSE "PENDING"
  <2>1. 2 * i - 1 \in 1 .. 2 * n - 1
    OBVIOUS
  <2>2. CASE i = n
    <3>1. ~(2 * i <= 2 * n - 1)
      BY <2>2
    <3> QED BY <2>1, <2>2, <3>1, <1>1, <1>2, <1>3, <1>5
  <2>3. CASE i # n
    <3>1. 2 * i \in 1 .. 2 * n - 1 /\ 2 * i <= 2 * n - 1
      BY <2>3
    <3> QED BY <2>1, <2>3, <3>1, <1>1, <1>2, <1>3, <1>5
  <2> QED BY <2>2, <2>3
<1>7. TalkOf(shorter) = new
  BY <1>1, <1>2, <1>5, <1>6, TalkIs
<1>8. old # <<>> /\ old[Len(old)].reply \in {"FAILED", "PARTIAL"}
  BY <1>3, <1>4
<1> QED BY <1>7, <1>8 DEF C!Reply, shorter, new, old

-----------------------------------------------------------------------------
(* The steps.                                                              *)

LEMMA TalkIsTalkOf == Talk = TalkOf(msgs) /\ Talk' = TalkOf(msgs')
BY DEF Talk, TalkOf

LEMMA LogFacts ==
  ASSUME Inv
  PROVE  /\ msgs \in Seq(Message) /\ turn \in [Key -> Row]
         /\ Transcript(turn, msgs)
         /\ \A k \in Key : turn[k].status = "GENERATING" =>
              chat /\ turn[k].attempt \in Attempt /\ Len(msgs) % 2 = 1
BY RowFacts, OpenIsLast DEF Inv, TypeOK, TranscriptMatchesTurns, DeletedIsEmpty, NoTurn

LEMMA AnswerMaps ==
  ASSUME Inv, NEW k \in Key, turn[k].status = "GENERATING", NEW s \in Terminal,
         msgs' = WithReply(k, s), UNCHANGED chat
  PROVE  C!Next
<1>1. C!Waiting(Talk) /\ Talk' = C!Reply(Talk, s)
  BY LogFacts, ReplyIsAnswer, TalkIsTalkOf DEF WithReply
<1>2. s \in C!Answers
  BY DEF C!Answers, Terminal, Outcome
<1> QED BY <1>1, <1>2, LogFacts DEF C!Next, C!Answer

LEMMA NewIsNew ==
  ASSUME Inv, NEW k \in Key, turn[k].status = "NONE"
  PROVE  C!IsNew(k)
<1> SUFFICES ASSUME NEW i \in 1 .. Len(Talk), Talk[i].prompt = k PROVE FALSE
  BY DEF C!IsNew
<1>1. i \in 1 .. (Len(msgs) + 1) \div 2
  BY LogFacts, TalkFacts, TalkIsTalkOf
<1>2. 2 * i - 1 \in 1 .. Len(msgs) /\ msgs[2 * i - 1].turn = k
  BY <1>1, LogFacts, TalkFacts, TalkIsTalkOf
<1> QED BY <1>2, LogFacts, NewHasNoMessage

LEMMA AskNextMaps ==
  ASSUME Inv, tx # NoTx, NEW k \in Key, turn[k].status = "NONE",
         \A q \in Key : turn[q].status # "GENERATING",
         msgs' = Append(msgs, UserMessage(k)), UNCHANGED chat
  PROVE  C!Next
<1>1. Len(msgs) % 2 = 0
  BY LogFacts, ClosedIsEven
<1>2. Talk' = C!Ask(Talk, k)
  BY <1>1, LogFacts, PromptIsAsked, TalkIsTalkOf
<1>3. ~C!Waiting(Talk)
  <2> SUFFICES ASSUME TalkOf(msgs) # <<>> PROVE TalkOf(msgs)[Len(TalkOf(msgs))].reply # "PENDING"
    BY TalkIsTalkOf DEF C!Waiting
  <2>1. PICK n \in Nat : Len(msgs) = 2 * n
    <3>1. Len(msgs) \in Nat /\ Len(msgs) = 2 * (Len(msgs) \div 2) /\ Len(msgs) \div 2 \in Nat
      BY <1>1, LogFacts
    <3> QED BY <3>1
  <2>2. TalkOf(msgs) \in Seq(Said) /\ Len(TalkOf(msgs)) = n
    BY <2>1, LogFacts, Exchanges
  <2>3. n \in 1 .. n
    BY <2>2
  <2>4. TalkOf(msgs)[n].reply = msgs[2 * n].status
    <3>1. \A i \in 1 .. n :
            TalkOf(msgs)[i].reply = IF 2 * i <= Len(msgs) THEN msgs[2 * i].status ELSE "PENDING"
      BY <2>1, LogFacts, Exchanges
    <3>2. 2 * n <= Len(msgs)
      BY <2>1
    <3> QED BY <2>3, <3>1, <3>2
  <2>5. msgs[2 * n] \in Message
    BY <2>1, <2>3, LogFacts
  <2> QED BY <2>2, <2>4, <2>5 DEF Message, Terminal, Outcome
<1> QED BY <1>2, <1>3, NewIsNew, TxFacts DEF C!Next, C!AskNext

LEMMA AskOverMaps ==
  ASSUME Inv, tx # NoTx, NEW k \in Key, turn[k].status = "NONE",
         NEW o \in Key, turn[o].status = "GENERATING",
         msgs' = Append(WithReply(o, "FAILED"), UserMessage(k)), UNCHANGED chat
  PROVE  C!Next
<1> DEFINE log == Append(msgs, ReplyMessage(o, turn[o].attempt, "FAILED"))
<1>1. "FAILED" \in Terminal /\ turn[o].attempt \in Attempt /\ Len(msgs) % 2 = 1
  BY LogFacts DEF Terminal, Outcome
<1>2. C!Waiting(Talk) /\ TalkOf(log) = C!Reply(Talk, "FAILED")
  BY <1>1, LogFacts, ReplyIsAnswer, TalkIsTalkOf
<1>3. log \in Seq(Message) /\ Len(log) % 2 = 0
  <2>1. msgs \in Seq(Message) /\ ReplyMessage(o, turn[o].attempt, "FAILED") \in Message
    BY <1>1, LogFacts, ReplyMessageFacts
  <2>2. log \in Seq(Message) /\ Len(log) = Len(msgs) + 1 /\ Len(msgs) \in Nat
    BY <2>1
  <2> QED BY <1>1, <2>2
<1>4. msgs' = Append(log, UserMessage(k))
  BY DEF WithReply
<1> HIDE DEF log
<1>5. Talk' = C!Ask(C!Reply(Talk, "FAILED"), k)
  BY <1>2, <1>3, <1>4, PromptIsAsked, TalkIsTalkOf
<1> QED BY <1>2, <1>5, NewIsNew, TxFacts DEF C!Next, C!AskOver

LEMMA ResolveMaps ==
  ASSUME Inv, tx # NoTx, tx.kind # "delete", ResolveGenerating
  PROVE  C!Next \/ UNCHANGED <<chat, msgs>>
<1>1. tx.key \in Key /\ turn[tx.key].status = "GENERATING" /\ "FAILED" \in Terminal
  BY TxFacts DEF ResolveGenerating, Terminal, Outcome
<1> SUFFICES ASSUME ~UNCHANGED <<chat, msgs>> PROVE C!Next
  OBVIOUS
<1>2. msgs' = WithReply(tx.key, "FAILED") /\ UNCHANGED chat
  BY DEF ResolveGenerating, ReplayCurrent, Refuse, Replay
<1> QED BY <1>1, <1>2, AnswerMaps

LEMMA SendMaps ==
  ASSUME Inv, tx # NoTx, Send
  PROVE  C!Next \/ UNCHANGED <<chat, msgs>>
<1> SUFFICES ASSUME ~UNCHANGED <<chat, msgs>>, ~ResolveGenerating PROVE C!Next
  BY ResolveMaps DEF Send
<1>1. tx.kind # "delete" /\ SendNew
  BY DEF Send, Replay, Refuse
<1>2. tx.key \in Key /\ turn[tx.key].status = "NONE"
  BY <1>1, TxFacts DEF SendNew
<1>3. CASE SeenGenerating = {} /\ StartTurn(tx.key, turn, msgs)
  <2>1. \A q \in Key : turn[q].status # "GENERATING"
    BY <1>3, TxFacts
  <2>2. msgs' = Append(msgs, UserMessage(tx.key)) /\ UNCHANGED chat
    BY <1>3 DEF StartTurn
  <2> QED BY <1>2, <2>1, <2>2, AskNextMaps
<1>4. ASSUME NEW o \in SeenGenerating, CanFail(o),
             StartTurn(tx.key, Ended(o, "FAILED"), WithReply(o, "FAILED"))
      PROVE  C!Next
  <2>1. o \in Key /\ turn[o].status = "GENERATING"
    BY TxFacts DEF SeenGenerating
  <2>2. msgs' = Append(WithReply(o, "FAILED"), UserMessage(tx.key)) /\ UNCHANGED chat
    BY <1>4 DEF StartTurn
  <2> QED BY <1>2, <2>1, <2>2, AskOverMaps
<1> QED BY <1>1, <1>3, <1>4 DEF SendNew, Refuse

LEMMA RetryMaps ==
  ASSUME Inv, tx # NoTx, Retry
  PROVE  C!Next \/ UNCHANGED <<chat, msgs>>
<1>1. tx.key \in Key /\ turn[tx.key].status = Seen.status /\ tx.kind # "delete" /\ chat
  BY TxFacts DEF Retry
<1> SUFFICES ASSUME ~UNCHANGED <<chat, msgs>>, ~ResolveGenerating PROVE C!Next
  BY <1>1, ResolveMaps
<1>2. /\ Seen.status \in Retryable /\ UNCHANGED chat
      /\ Len(msgs) # 0
      /\ msgs[Len(msgs)].turn = tx.key /\ msgs[Len(msgs)].role = "ASSISTANT"
      /\ msgs' = HistoryAfterDelete(msgs)
  BY LogFacts DEF Retry, Replay, Refuse, IsRetryable, HistoryAfterDelete
<1>3. EndsWithReply(msgs, tx.key)
  BY <1>2, LogFacts DEF EndsWithReply
<1>4. /\ Talk # <<>> /\ Talk[Len(Talk)].reply \in {"FAILED", "PARTIAL"}
      /\ Talk' = C!Reply(Talk, "PENDING")
  BY <1>1, <1>2, <1>3, LogFacts, RetryIsAskAgain, TalkIsTalkOf
<1> QED BY <1>1, <1>2, <1>4 DEF C!Next, C!AskAgain

LEMMA CancelMaps ==
  ASSUME Inv, tx # NoTx, Cancel
  PROVE  C!Next \/ UNCHANGED <<chat, msgs>>
<1>1. tx.key \in Key /\ "CANCELED" \in Terminal
  BY TxFacts DEF Cancel, Terminal
<1> SUFFICES ASSUME ~UNCHANGED <<chat, msgs>> PROVE C!Next
  OBVIOUS
<1>2. /\ turn[tx.key].status = "GENERATING" /\ UNCHANGED chat
      /\ msgs' = WithReply(tx.key, "CANCELED")
  BY DEF Cancel
<1> QED BY <1>1, <1>2, AnswerMaps

LEMMA DeleteMaps ==
  ASSUME Inv, tx # NoTx, Delete
  PROVE  C!Next \/ UNCHANGED <<chat, msgs>>
<1> SUFFICES ASSUME chat' = FALSE, msgs' = <<>> PROVE C!Next
  BY DEF Delete, Refuse
<1>1. Talk' = <<>>
  <2>1. msgs' \in Seq(Message) /\ Len(msgs') = 0
    OBVIOUS
  <2>2. TalkOf(msgs') = <<>>
    BY <2>1, NothingSaid
  <2> QED BY <2>2, TalkIsTalkOf
<1> QED BY <1>1, TxFacts DEF C!Next, C!Drop

LEMMA StepMaps ==
  ASSUME Inv, [Next]_vars
  PROVE  [C!Next]_(C!vars)
<1> SUFFICES ASSUME ~UNCHANGED <<chat, msgs>> PROVE C!Next
  BY TalkIsTalkOf DEF C!vars
<1>1. CASE Commit
  BY <1>1, SendMaps, RetryMaps, CancelMaps, DeleteMaps DEF Commit
<1>2. ASSUME NEW g \in gens, Save(g) PROVE C!Next
  <2>1. /\ g.key \in Key /\ turn[g.key].status = "GENERATING" /\ turn[g.key].attempt = g.attempt
        /\ g.outcome \in Terminal
    BY <1>2, GenerationFacts DEF Save, HoldsFence, Terminal
  <2>2. msgs' = WithReply(g.key, g.outcome) /\ UNCHANGED chat
    BY <1>2, <2>1 DEF Save, WithReply
  <2> QED BY <2>1, <2>2, AnswerMaps
<1>3. CASE Generate
  BY <1>2, <1>3 DEF Generate, Subscribe, Search, Finish
<1>4. ~Request /\ ~Abort /\ ~UNCHANGED vars
  BY DEF Request, BeginSend, BeginRetry, BeginCancel, BeginDelete, Begin,
         Abort, AbortRequest, AbortGeneration, Refuse, vars
<1>5. /\ ~(\E h \in Host, k \in Key : Dispose(h, k))
      /\ ~(\E k \in Key : LeaseExpires(k)) /\ ~(\E h \in Host : Crash(h))
  BY DEF Dispose, LeaseExpires, Crash
<1> QED BY <1>1, <1>3, <1>4, <1>5 DEF Next

LEMMA InitMaps == Init => C!Init
<1> SUFFICES ASSUME Init PROVE C!Init
  OBVIOUS
<1>1. TalkOf(msgs) = <<>>
  <2>1. msgs \in Seq(Message) /\ Len(msgs) = 0
    BY DEF Init
  <2> QED BY <2>1, NothingSaid
<1> QED BY <1>1, TalkIsTalkOf DEF Init, C!Init

(* The turns implement the conversation of Conversation: every prompt is   *)
(* asked once, only the last waits, and a complete or stopped reply never  *)
(* changes again, through any races, crashes and late generations.         *)
THEOREM TurnsImplementConversation == Spec => ConversationSpec
<1>1. Init => C!Init
  BY InitMaps
<1>2. Inv /\ [Next]_vars => [C!Next]_(C!vars)
  BY StepMaps
<1> QED BY <1>1, <1>2, Invariance, PTL DEF Spec, ConversationSpec, C!Spec

=============================================================================
