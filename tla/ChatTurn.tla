------------------------------ MODULE ChatTurn ------------------------------
(***************************************************************************)
(* The turns of one chat of note-service: what POST /messages, a retry of  *)
(* a reply, a stop and a deletion of the chat do to the rows of            *)
(* note.chat_turn and note.chat_message, while the generations they start  *)
(* run detached, on any instance, and end whenever the provider does.      *)
(*                                                                         *)
(* A turn is one prompt, named by the client's idempotency key, and its    *)
(* eventual reply.  A generation is one attempt at that reply, fenced by   *)
(* the turn's attempt number and covered by a lease.                       *)
(*                                                                         *)
(* Concurrency is that of PostgreSQL at READ COMMITTED.  Every request     *)
(* first locks the chat row FOR UPDATE, so at most one is past its reads   *)
(* (tx); what it read may be stale when it writes, because a generation    *)
(* renews its lease and saves its outcome without that lock.  Saving is    *)
(* two statements: the UPDATE of the turn (which keeps the row locked) and *)
(* the INSERT of the reply, whose foreign key needs the chat row.          *)
(* CURRENT_TIMESTAMP is the start of the transaction, so a lease that a    *)
(* transaction read as expired stays so unless its row is changed.         *)
(***************************************************************************)
EXTENDS Naturals, Sequences

CONSTANTS
  Key,          \* idempotency keys clients use for prompts to this chat
  Host,         \* running instances of note-service
  MaxAttempts,  \* note.chat-turn.max-attempts: attempts a reclaim may reach
  AttemptBound, \* bound of the model on a turn's attempt (retries are endless)
  MaxSearches   \* notes searches that renew the lease of one attempt

ASSUME BoundsAssumption ==
  /\ MaxAttempts \in Nat \ {0}
  /\ AttemptBound \in Nat /\ AttemptBound >= MaxAttempts
  /\ MaxSearches \in Nat

VARIABLES
  chat,    \* the chat row exists
  turn,    \* rows of note.chat_turn, by idempotency key
  msgs,    \* rows of note.chat_message in created_at order
  tx,      \* the transaction that holds the chat row lock
  gens,    \* generations that were started and have not ended
  active,  \* AssistantService.activeGenerations: attempt by host and turn, 0 if none
  doomed,  \* cancels that committed and still have to dispose, as <<host, key>>
  answer   \* "error" when the last request broke on an assertion of the code

vars == <<chat, turn, msgs, tx, gens, active, doomed, answer>>

Attempt == 1 .. AttemptBound
Retryable == {"FAILED", "PARTIAL"}
Outcome == {"COMPLETE", "PARTIAL", "FAILED"}
Terminal == Outcome \cup {"CANCELED"}

NoTurn == [status |-> "NONE", attempt |-> 0, lease |-> "none"]
NoTx == [kind |-> "none"]

Row ==
  {NoTurn}
    \cup [status : {"GENERATING"}, attempt : Attempt, lease : {"live", "expired"}]
    \cup [status : Terminal, attempt : Attempt, lease : {"none"}]

(* The attempt stands for the id of a reply: an attempt saves at most one. *)
UserMessage(k) == [turn |-> k, role |-> "USER", status |-> "COMPLETE", attempt |-> 0]
ReplyMessage(k, a, s) == [turn |-> k, role |-> "ASSISTANT", status |-> s, attempt |-> a]

Message ==
  [turn : Key, role : {"USER"}, status : {"COMPLETE"}, attempt : {0}]
    \cup [turn : Key, role : {"ASSISTANT"}, status : Terminal, attempt : Attempt]

Generation ==
  [key : Key, attempt : Attempt, host : Host, calls : 0 .. MaxSearches,
   phase : {"pending", "running", "stopping", "saving"},
   outcome : Outcome \cup {"none"}, prompt : Message]

Transaction ==
  [kind : {"send", "retry", "cancel"}, key : Key, reply : Attempt \cup {0},
   host : Host, seen : [Key -> Row]]
    \cup [kind : {"delete"}, host : Host, seen : [Key -> Row]]

TypeOK ==
  /\ chat \in BOOLEAN
  /\ turn \in [Key -> Row]
  /\ msgs \in Seq(Message)
  /\ tx \in {NoTx} \cup Transaction
  /\ gens \subseteq Generation
  /\ active \in [Host -> [Key -> 0 .. AttemptBound]]
  /\ doomed \subseteq Host \X Key
  /\ answer \in {"none", "error"}

Init ==
  /\ chat = TRUE
  /\ turn = [k \in Key |-> NoTurn]
  /\ msgs = <<>>
  /\ tx = NoTx
  /\ gens = {}
  /\ active = [h \in Host |-> [k \in Key |-> 0]]
  /\ doomed = {}
  /\ answer = "none"

-----------------------------------------------------------------------------
(* The statements of ChatTurnStore: the WHERE of each conditional UPDATE.  *)

(* No uncommitted UPDATE holds the turn's row. *)
RowFree(k) == \A g \in gens : g.key = k => g.phase # "saving"

IsExpired(k) == turn[k].status = "GENERATING" /\ turn[k].lease = "expired"

\* Faulty: the claim trusts the expiry it read before.
CanClaimAsRead(k, a) == turn[k].status = "GENERATING" /\ turn[k].attempt = a
CanClaim(k, a) == IsExpired(k) /\ turn[k].attempt = a /\ a < MaxAttempts

\* Faulty: an expired turn is failed although its generation came back.
CanFailAsRead(k) == turn[k].status = "GENERATING"
\* Faulty: only its own key may end an abandoned turn, by reclaiming it.
CanFailNever(k) == FALSE
CanFail(k) == IsExpired(k)

\* Faulty: any generation of a generating turn may save its outcome.
HoldsFenceByStatus(g) == turn[g.key].status = "GENERATING"
\* Faulty: the turn's latest attempt may save, even after the turn ended.
HoldsFenceByAttempt(g) == turn[g.key].attempt = g.attempt
HoldsFence(g) == turn[g.key].status = "GENERATING" /\ turn[g.key].attempt = g.attempt

WithTurn(k, s, a, l) == [turn EXCEPT ![k] = [status |-> s, attempt |-> a, lease |-> l]]
Ended(k, s) == WithTurn(k, s, turn[k].attempt, "none")
WithReply(k, s) == Append(msgs, ReplyMessage(k, turn[k].attempt, s))

-----------------------------------------------------------------------------
(* A request: lock the chat row and read the turns ...                     *)

Begin(t) ==
  /\ chat
  /\ tx = NoTx
  /\ tx' = t
  /\ answer' = "none"
  /\ UNCHANGED <<chat, turn, msgs, gens, active, doomed>>

BeginSend(k, h) ==
  Begin([kind |-> "send", key |-> k, reply |-> 0, host |-> h, seen |-> turn])

\* Of a turn, clients know its id, and the ids of the replies it has had.
BeginRetry(k, m, h) ==
  /\ m <= turn[k].attempt
  /\ Begin([kind |-> "retry", key |-> k, reply |-> m, host |-> h, seen |-> turn])

BeginCancel(k, h) ==
  /\ turn[k] # NoTurn
  /\ Begin([kind |-> "cancel", key |-> k, reply |-> 0, host |-> h, seen |-> turn])

BeginDelete(h) == Begin([kind |-> "delete", host |-> h, seen |-> turn])

Seen == tx.seen[tx.key]
SeenGenerating == {k \in Key : tx.seen[k].status = "GENERATING"}

(* ... then answer it and commit.                                          *)
End == tx' = NoTx /\ answer' = "none"
Refuse == End /\ UNCHANGED <<chat, turn, msgs, gens, active, doomed>>

(* AlreadyFinished: the reply stream is the event of status s. *)
Replay(s) ==
  /\ tx' = NoTx
  /\ answer' = IF s \in Terminal THEN "none" ELSE "error"
  /\ UNCHANGED <<chat, turn, msgs, gens, active, doomed>>

(* StartGeneration: the caller subscribes after the commit.  Of the        *)
(* history handed to the provider, prompt is the message it ends with.     *)
StartGeneration(k, a, log) ==
  gens' = gens \cup
    {[key |-> k, attempt |-> a, host |-> tx.host, calls |-> 0, phase |-> "pending",
      outcome |-> "none", prompt |-> log[Len(log)]]}

(* resolveGeneratingTurn.  After a claim that hit no row the turn is read  *)
(* again: it is live once more, or terminal.                               *)
ReplayCurrent ==
  IF turn[tx.key].status = "GENERATING" THEN Refuse ELSE Replay(turn[tx.key].status)

ResolveGenerating ==
  LET k == tx.key
      a == Seen.attempt
  IN /\ Seen.status = "GENERATING"
     /\ \/ Seen.lease = "live" /\ Refuse
        \/ /\ Seen.lease = "expired" /\ a >= MaxAttempts
           /\ RowFree(k)
           /\ IF CanFail(k)
              THEN /\ turn' = Ended(k, "FAILED")
                   /\ msgs' = WithReply(k, "FAILED")
                   /\ End
                   /\ UNCHANGED <<chat, gens, active, doomed>>
              ELSE Replay(turn[k].status)
        \/ /\ Seen.lease = "expired" /\ a < MaxAttempts
           /\ RowFree(k)
           /\ IF CanClaim(k, a)
              THEN /\ turn' = WithTurn(k, "GENERATING", a + 1, "live")
                   /\ StartGeneration(k, a + 1, msgs)
                   /\ End
                   /\ UNCHANGED <<chat, msgs, active, doomed>>
              ELSE ReplayCurrent

(* startNewTurn, over the rows and messages ensureNoOtherTurnIsGenerating  *)
(* leaves.                                                                 *)
StartTurn(k, rows, log) ==
  /\ turn' = [rows EXCEPT ![k] = [status |-> "GENERATING", attempt |-> 1, lease |-> "live"]]
  /\ msgs' = Append(log, UserMessage(k))
  /\ StartGeneration(k, 1, msgs')
  /\ End
  /\ UNCHANGED <<chat, active, doomed>>

(* resolveTurnRequest, for a prompt nobody sent before. *)
SendNew ==
  /\ Seen.status = "NONE"
  /\ \/ SeenGenerating = {} /\ StartTurn(tx.key, turn, msgs)
     \/ \E o \in SeenGenerating :
          \/ tx.seen[o].lease = "live" /\ Refuse
          \/ /\ tx.seen[o].lease = "expired"
             /\ RowFree(o)
             /\ IF CanFail(o)
                THEN StartTurn(tx.key, Ended(o, "FAILED"), WithReply(o, "FAILED"))
                ELSE Refuse

(* resolveTurnRequest.  A key bound to another prompt is refused. *)
Send ==
  /\ tx.kind = "send"
  /\ \/ SendNew
     \/ ResolveGenerating
     \/ Seen.status \in Terminal /\ Replay(Seen.status)
     \/ Seen.status # "NONE" /\ Refuse

\* Faulty: a reply the user stopped can be generated again.
IsRetryableAlsoStopped(s) == s # "COMPLETE"
IsRetryable(s) == s \in Retryable

\* Faulty: the history for the provider is loaded before the reply is deleted.
HistoryBeforeDelete(log) == log
HistoryAfterDelete(log) == SubSeq(log, 1, Len(log) - 1)

(* resolveRetryRequest: restart the turn of a failed or partial reply that *)
(* is the chat's latest message.  A summary request that covers the reply  *)
(* may refuse it (the callback beforeReplace).  A turn generating besides  *)
(* would have a later message: ensureNoOtherTurnIsGenerating finds none.   *)
Retry ==
  LET k == tx.key
      last == msgs[Len(msgs)]
      \* the turn's reply, whose id the client must name
      current == \E i \in 1 .. Len(msgs) :
                   msgs[i] = ReplyMessage(k, tx.reply, Seen.status)
      replaceable == IsRetryable(Seen.status) /\ last.turn = k /\ last.role = "ASSISTANT"
  IN /\ tx.kind = "retry"
     /\ \/ ResolveGenerating
        \/ Seen.status \in Terminal /\ ~current /\ Replay(Seen.status)
        \/ Seen.status \in Terminal /\ current /\ Refuse
        \/ /\ Seen.status \in Terminal /\ current /\ replaceable /\ SeenGenerating = {}
           /\ turn[k].attempt < AttemptBound
           /\ turn' = WithTurn(k, "GENERATING", turn[k].attempt + 1, "live")
           /\ msgs' = SubSeq(msgs, 1, Len(msgs) - 1)
           /\ StartGeneration(k, turn[k].attempt + 1, HistoryAfterDelete(msgs))
           /\ End
           /\ UNCHANGED <<chat, active, doomed>>

\* Faulty: the local generation is stopped whatever the turn's status is.
DisposeAlways(s) == TRUE
Disposes(s) == s = "CANCELED"

(* cancelTurn; the generation on this host is disposed of after the commit *)
(* if the turn is CANCELED.                                                *)
Cancel ==
  LET k == tx.key
      Dispose(s) == doomed' = IF Disposes(s) THEN doomed \cup {<<tx.host, k>>} ELSE doomed
  IN /\ tx.kind = "cancel"
     /\ \/ /\ Seen.status \in Terminal
           /\ Dispose(Seen.status)
           /\ End
           /\ UNCHANGED <<chat, turn, msgs, gens, active>>
        \/ /\ Seen.status = "GENERATING"
           /\ RowFree(k)
           /\ IF turn[k].status = "GENERATING"
              THEN /\ turn' = Ended(k, "CANCELED")
                   /\ msgs' = WithReply(k, "CANCELED")
              ELSE UNCHANGED <<turn, msgs>>
           /\ Dispose(turn'[k].status)
           /\ End
           /\ UNCHANGED <<chat, gens, active>>

(* deleteChat: a turn with a live lease refuses it; the rows of the chat's *)
(* turns and messages go with the chat.                                    *)
Delete ==
  /\ tx.kind = "delete"
  /\ IF \E k \in SeenGenerating : tx.seen[k].lease = "live"
     THEN Refuse
     ELSE /\ \A k \in Key : RowFree(k)
          /\ chat' = FALSE
          /\ turn' = [k \in Key |-> NoTurn]
          /\ msgs' = <<>>
          /\ End
          /\ UNCHANGED <<gens, active, doomed>>

Commit == tx # NoTx /\ (Send \/ Retry \/ Cancel \/ Delete)

-----------------------------------------------------------------------------
(* Generations.                                                            *)

Replace(g, h) == gens' = (gens \ {g}) \cup {h}

(* The end of a generation's stream: doFinally removes its own entry only. *)
Leave(g) ==
  /\ gens' = gens \ {g}
  /\ active' = IF active[g.host][g.key] = g.attempt
               THEN [active EXCEPT ![g.host][g.key] = 0] ELSE active

(* The first subscription starts the provider call and registers it. *)
Subscribe(g) ==
  /\ g.phase = "pending"
  /\ Replace(g, [g EXCEPT !.phase = "running"])
  /\ active' = [active EXCEPT ![g.host][g.key] = g.attempt]
  /\ UNCHANGED <<chat, turn, msgs, tx, doomed, answer>>

(* searchNotes renews the lease of a generation that holds its fence, even *)
(* one that had expired; a lost fence aborts the provider stream.          *)
Search(g) ==
  /\ g.phase = "running" /\ g.calls < MaxSearches
  /\ RowFree(g.key)
  /\ IF HoldsFence(g)
     THEN /\ turn' = WithTurn(g.key, "GENERATING", g.attempt, "live")
          /\ Replace(g, [g EXCEPT !.calls = @ + 1])
     ELSE /\ Replace(g, [g EXCEPT !.phase = "stopping"])
          /\ UNCHANGED turn
  /\ UNCHANGED <<chat, msgs, tx, active, doomed, answer>>

(* finishGenerationAttempt, its UPDATE: the stream ended COMPLETE, or was  *)
(* interrupted with (PARTIAL) or without (FAILED) text.  A generation that *)
(* lost its fence drops its result.                                        *)
Finish(g, s) ==
  /\ \/ g.phase = "running"
     \/ g.phase = "stopping" /\ s # "COMPLETE"
  /\ RowFree(g.key)
  /\ IF HoldsFence(g)
     THEN /\ Replace(g, [g EXCEPT !.phase = "saving", !.outcome = s])
          /\ UNCHANGED active
     ELSE Leave(g)
  /\ UNCHANGED <<chat, turn, msgs, tx, doomed, answer>>

(* finishGenerationAttempt, its INSERT and commit.  The foreign key of the *)
(* message waits for a transaction that has the chat row FOR UPDATE.       *)
Save(g) ==
  /\ g.phase = "saving"
  /\ tx = NoTx
  /\ turn' = Ended(g.key, g.outcome)
  /\ msgs' = Append(msgs, ReplyMessage(g.key, g.attempt, g.outcome))
  /\ Leave(g)
  /\ UNCHANGED <<chat, tx, doomed, answer>>

(* The dispose of a canceled turn's generation on this host; the stream's  *)
(* cancel handler still tries to save.                                     *)
Dispose(h, k) ==
  /\ <<h, k>> \in doomed
  /\ doomed' = doomed \ {<<h, k>>}
  /\ gens' = {IF g.host = h /\ g.key = k /\ g.attempt = active[h][k] /\ g.phase = "running"
              THEN [g EXCEPT !.phase = "stopping"] ELSE g : g \in gens}
  /\ UNCHANGED <<chat, turn, msgs, tx, active, answer>>

-----------------------------------------------------------------------------
(* The environment.                                                        *)

LeaseExpires(k) ==
  /\ turn[k].lease = "live"
  /\ turn' = [turn EXCEPT ![k].lease = "expired"]
  /\ UNCHANGED <<chat, msgs, tx, gens, active, doomed, answer>>

(* The rows the transaction is about to write. *)
TxNeeds(k) ==
  \/ tx.kind = "send" /\ tx.seen[k].lease = "expired" /\ (k = tx.key \/ Seen.status = "NONE")
  \/ tx.kind = "retry" /\ tx.seen[k].lease = "expired" /\ k = tx.key
  \/ tx.kind = "cancel" /\ tx.seen[k].status = "GENERATING" /\ k = tx.key
  \/ tx.kind = "delete" /\ \A o \in SeenGenerating : tx.seen[o].lease = "expired"

(* A generation has the turn's row and waits for the chat's, the request   *)
(* has the chat's and waits for the turn's.  PostgreSQL aborts either.     *)
Deadlocked(g) == tx # NoTx /\ g.phase = "saving" /\ TxNeeds(g.key)

AbortRequest(g) == Deadlocked(g) /\ Refuse

AbortGeneration(g) ==
  /\ Deadlocked(g)
  /\ Leave(g)
  /\ UNCHANGED <<chat, turn, msgs, tx, doomed, answer>>

(* An instance stops: its generations and its open transaction are gone. *)
Crash(h) ==
  /\ gens' = {g \in gens : g.host # h}
  /\ active' = [active EXCEPT ![h] = [k \in Key |-> 0]]
  /\ doomed' = {d \in doomed : d[1] # h}
  /\ tx' = IF tx # NoTx /\ tx.host = h THEN NoTx ELSE tx
  /\ UNCHANGED <<chat, turn, msgs, answer>>

-----------------------------------------------------------------------------
Request ==
  \E h \in Host :
    \/ \E k \in Key :
         \/ BeginSend(k, h)
         \/ \E m \in Attempt : BeginRetry(k, m, h)
         \/ BeginCancel(k, h)
    \/ BeginDelete(h)

Generate ==
  \E g \in gens :
    \/ Subscribe(g)
    \/ Search(g)
    \/ \E s \in Outcome : Finish(g, s)
    \/ Save(g)

Abort == \E g \in gens : AbortRequest(g) \/ AbortGeneration(g)

Next ==
  \/ Request
  \/ Commit
  \/ Generate
  \/ \E h \in Host, k \in Key : Dispose(h, k)
  \/ \E k \in Key : LeaseExpires(k)
  \/ Abort
  \/ \E h \in Host : Crash(h)

Spec == Init /\ [][Next]_vars

(* Statements and commits go on once their locks are free (PostgreSQL      *)
(* queues the waiters of a row and breaks lock cycles), time passes, and a *)
(* client whose prompt was refused sends it again until it is carried out. *)
(* Nothing is assumed of generations: they may hang, or die with a host.   *)
Fairness ==
  /\ WF_vars(Commit) /\ WF_vars(Abort)
  /\ SF_vars(\E g \in gens : Save(g))
  /\ \A k \in Key :
       /\ WF_vars(LeaseExpires(k))
       /\ SF_vars(\E h \in Host : BeginSend(k, h))
       /\ SF_vars(tx # NoTx /\ Send /\ tx.key = k)

FairSpec == Spec /\ Fairness

-----------------------------------------------------------------------------
(* Properties.                                                             *)

(* The transcript and the turns agree: messages are prompt and reply in    *)
(* alternation, each reply directly after its own prompt and with its      *)
(* turn's status, and only the last prompt can lack one, exactly while its *)
(* turn is generating.  So no interleaving of sends, retries, stops and    *)
(* late generations duplicates, loses or misplaces a message.              *)
Transcript(rows, log) ==
  /\ \A i \in 1 .. Len(log) :
       LET k == log[i].turn IN
       IF i % 2 = 1
       THEN /\ log[i] = UserMessage(k)
            /\ i = Len(log) <=> rows[k].status = "GENERATING"
       ELSE /\ log[i].role = "ASSISTANT"
            /\ k = log[i - 1].turn
            /\ log[i].status = rows[k].status
  /\ \A k \in Key :
       rows[k].status # "NONE" <=> \E i \in 1 .. Len(log) : log[i] = UserMessage(k)
  /\ \A i, j \in 1 .. Len(log) :
       log[i].turn = log[j].turn /\ log[i].role = log[j].role => i = j

TranscriptMatchesTurns == Transcript(turn, msgs)

(* A reply always comes from the turn's latest attempt: what an earlier    *)
(* attempt produced after it lost the turn is discarded.                   *)
RepliesOfLatestAttempt(rows, log) ==
  \A i \in 1 .. Len(log) :
    log[i].role = "ASSISTANT" => log[i].attempt = rows[log[i].turn].attempt

ReplyIsOfLatestAttempt == RepliesOfLatestAttempt(turn, msgs)

(* A live lease keeps the turn for its attempt: nobody starts another      *)
(* attempt, and only the attempt itself, a stop or the deletion of the     *)
(* chat ends it, however stale what a request had read.                    *)
LiveLeaseHolds ==
  [][\A k \in Key :
       turn[k].lease = "live" =>
         \/ turn'[k].status = "GENERATING" /\ turn'[k].attempt = turn[k].attempt
         \/ \E g \in gens : g.key = k /\ g.attempt = turn[k].attempt /\ Save(g)
         \/ turn'[k].status = "CANCELED" \/ ~chat']_vars

(* Only a generation that can no longer save anything is disposed of: a    *)
(* late stop never cuts short an attempt that a retry started since.       *)
NoCurrentAttemptStopped ==
  \A g \in gens : g.phase = "stopping" => ~HoldsFence(g)

(* The history given to the provider ends with the prompt of the turn, not *)
(* with the reply that is being replaced or with a later message.          *)
HistoryEndsWithPrompt == \A g \in gens : g.prompt = UserMessage(g.key)

(* A prompt that its client keeps sending is eventually accepted, unless   *)
(* the chat is deleted: a turn whose generation hung or died with its host *)
(* never blocks the chat for good.                                         *)
PromptAccepted == \A k \in Key : <>(turn[k] # NoTurn \/ ~chat)

(* The chat as its user sees it: the i-th prompt and its reply. *)
Talk ==
  [i \in 1 .. (Len(msgs) + 1) \div 2 |->
     [prompt |-> msgs[2 * i - 1].turn,
      reply  |-> IF 2 * i <= Len(msgs) THEN msgs[2 * i].status ELSE "PENDING"]]

C == INSTANCE Conversation WITH Prompt <- Key, open <- chat, talk <- Talk

(* The turns implement a conversation: every prompt is asked once, answers *)
(* come in order, and a complete or stopped reply never changes again.     *)
ConversationSpec == C!Spec
=============================================================================
