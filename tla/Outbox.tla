------------------------------- MODULE Outbox -------------------------------
(***************************************************************************)
(* The transactional outbox of note-service: events published with the     *)
(* change they are about, claimed in batches by the poller of any          *)
(* instance, handled outside of every transaction, and completed, retried  *)
(* or failed in short transactions of their own.                           *)
(*                                                                         *)
(* A claim is fenced by a fresh lease id; it counts as an attempt, so the  *)
(* attempt number stands for the lease id.  While an event is PROCESSING   *)
(* its next_attempt_at is the end of the lease; due says that the time has *)
(* come, whichever it is.  complete and recordFailure read the event and   *)
(* write it at commit under the optimistic lock of its version: nothing    *)
(* but a claim or another outcome moves the version of a PROCESSING event, *)
(* so the version is unchanged exactly while the lease is.                 *)
(*                                                                         *)
(* Under a dedup key, changed counts the changes published, covers says    *)
(* which of them was the latest when an event was claimed last, and done   *)
(* up to which of them a handler has seen and finished.                    *)
(***************************************************************************)
EXTENDS Naturals, FiniteSets

CONSTANTS
  Event,       \* rows of note.outbox_event that get published, in created_at order
  Key,         \* dedup keys
  NoKey,
  Host,        \* running instances of note-service
  Concurrency, \* note.outbox.concurrency
  MaxAttempts, \* note.outbox.max-attempts
  MaxChanges   \* bound of the model on the changes published under a key

ASSUME OutboxAssumption ==
  /\ Event \subseteq Nat /\ IsFiniteSet(Event)
  /\ NoKey \notin Key
  /\ Concurrency \in Nat \ {0}
  /\ MaxAttempts \in Nat \ {0}
  /\ MaxChanges \in Nat

VARIABLES
  row,      \* the events
  tasks,    \* claimed events an instance is working on
  permits,  \* OutboxPoller.permits of each instance
  batch,    \* permits the poll of an instance has drained and not given back
  failures, \* times the terminal failure handler ran for an event, and committed
  changed,  \* changes published under a key
  covers,   \* the latest of them when an event was claimed last
  done      \* the latest of them that a handler has finished

vars == <<row, tasks, permits, batch, failures, changed, covers, done>>
work == <<changed, covers, done>>

Ended == {"COMPLETED", "FAILED"}
Status == {"NONE", "PENDING", "PROCESSING"} \cup Ended

NoEvent == [status |-> "NONE", key |-> NoKey, attempts |-> 0, due |-> FALSE]

Row == [status : Status, key : Key \cup {NoKey}, attempts : 0 .. MaxAttempts, due : BOOLEAN]

Task ==
  [event : Event, lease : 1 .. MaxAttempts, host : Host,
   step : {"queued", "running", "completing", "committing", "failing", "recording"},
   saw : 0 .. MaxChanges, fatal : BOOLEAN, superseded : BOOLEAN]

TypeOK ==
  /\ row \in [Event -> Row]
  /\ tasks \subseteq Task
  /\ permits \in [Host -> 0 .. Concurrency]
  /\ batch \in [Host -> 0 .. Concurrency]
  /\ failures \in [Event -> Nat]
  /\ changed \in [Key -> 0 .. MaxChanges]
  /\ covers \in [Event -> 0 .. MaxChanges]
  /\ done \in [Key -> 0 .. MaxChanges]

Init ==
  /\ row = [e \in Event |-> NoEvent]
  /\ tasks = {}
  /\ permits = [h \in Host |-> Concurrency]
  /\ batch = [h \in Host |-> 0]
  /\ failures = [e \in Event |-> 0]
  /\ changed = [k \in Key |-> 0]
  /\ covers = [e \in Event |-> 0]
  /\ done = [k \in Key |-> 0]

-----------------------------------------------------------------------------
(* Publishing.  The event is there when the caller's transaction commits.  *)

IsNext(e) == row[e].status = "NONE" /\ \A d \in Event : d < e => row[d].status # "NONE"

Publish(e) ==
  /\ IsNext(e)
  /\ row' = [row EXCEPT ![e] = [NoEvent EXCEPT !.status = "PENDING", !.due = TRUE]]
  /\ UNCHANGED <<tasks, permits, batch, failures, work>>

(* The events are PENDING for the change to come. *)
Move(events, k) ==
  row' = [e \in Event |->
            IF e \in events
            THEN [row[e] EXCEPT !.status = "PENDING", !.key = k, !.due = FALSE] ELSE row[e]]

\* Faulty: an event that is being processed holds its key, too.
HoldsKeyWhileLive(e, k) == row[e].key = k /\ row[e].status \in {"PENDING", "PROCESSING"}
\* An event holds its dedup key: the partial unique index.
HoldsKey(e, k) == row[e].key = k /\ row[e].status = "PENDING"

(* An event that holds the key is moved; without one a new event gets it. *)
PublishDebounced(k) ==
  LET holders == {e \in Event : HoldsKey(e, k)}
  IN /\ changed[k] < MaxChanges
     /\ changed' = [changed EXCEPT ![k] = @ + 1]
     /\ \/ /\ holders # {}
           /\ Move({e \in holders : row[e].status = "PENDING"}, k)
        \/ /\ holders = {}
           /\ \E e \in Event : IsNext(e) /\ Move({e}, k)
     /\ UNCHANGED <<tasks, permits, batch, failures, covers, done>>

-----------------------------------------------------------------------------
(* Polling.                                                                *)

Drain(h) ==
  /\ batch[h] = 0 /\ permits[h] > 0
  /\ batch' = [batch EXCEPT ![h] = permits[h]]
  /\ permits' = [permits EXCEPT ![h] = 0]
  /\ UNCHANGED <<row, tasks, failures, work>>

\* Faulty: an event whose worker is gone is not looked for.
IsClaimableWhenPending(e) == row[e].status = "PENDING" /\ row[e].due
IsClaimable(e) == row[e].status \in {"PENDING", "PROCESSING"} /\ row[e].due

(* The first n claimable events by age. *)
Found(n) ==
  {e \in Event :
     IsClaimable(e) /\ Cardinality({d \in Event : IsClaimable(d) /\ d <= e}) <= n}

IsExhausted(e) == row[e].attempts >= MaxAttempts

\* Faulty: the permits of events that were not found are not given back.
UnusedForgotten(n, claimed) == 0
Unused(n, claimed) == n - Cardinality(claimed)

(* claim: an expired event that used its last attempt is failed together   *)
(* with its domain consequence, the others are handed out.                 *)
Claim(h) ==
  LET found == Found(batch[h])
      exhausted == {e \in found : IsExhausted(e)}
      claimed == found \ exhausted
  IN /\ batch[h] > 0
     /\ row' = [e \in Event |->
                  IF e \in exhausted THEN [row[e] EXCEPT !.status = "FAILED", !.due = FALSE]
                  ELSE IF e \in claimed
                       THEN [row[e] EXCEPT !.status = "PROCESSING", !.attempts = @ + 1,
                                           !.due = FALSE]
                       ELSE row[e]]
     /\ tasks' = tasks \cup
          {[event |-> e, lease |-> row[e].attempts + 1, host |-> h, step |-> "queued",
            saw |-> 0, fatal |-> FALSE, superseded |-> FALSE] : e \in claimed}
     /\ failures' = [e \in Event |-> IF e \in exhausted THEN failures[e] + 1 ELSE failures[e]]
     /\ permits' = [permits EXCEPT ![h] = @ + Unused(batch[h], claimed)]
     /\ batch' = [batch EXCEPT ![h] = 0]
     /\ covers' = [e \in Event |->
                     IF e \in claimed /\ row[e].key \in Key THEN changed[row[e].key] ELSE covers[e]]
     /\ UNCHANGED <<changed, done>>

(* The claim, or a terminal failure handler in it, throws. *)
ClaimFails(h) ==
  /\ batch[h] > 0
  /\ permits' = [permits EXCEPT ![h] = @ + batch[h]]
  /\ batch' = [batch EXCEPT ![h] = 0]
  /\ UNCHANGED <<row, tasks, failures, work>>

-----------------------------------------------------------------------------
(* Processing.                                                             *)

Continue(t, u) == tasks' = (tasks \ {t}) \cup {u} /\ UNCHANGED permits

EndTask(t) ==
  /\ tasks' = tasks \ {t}
  /\ permits' = [permits EXCEPT ![t.host] = @ + 1]

(* The executor refuses the task. *)
Reject(t) ==
  /\ t.step = "queued"
  /\ EndTask(t)
  /\ UNCHANGED <<row, batch, failures, work>>

(* The handler reads what the event is about ... *)
Handle(t) ==
  LET k == row[t.event].key
  IN /\ t.step = "queued"
     /\ Continue(t, [t EXCEPT !.step = "running", !.saw = IF k \in Key THEN changed[k] ELSE 0])
     /\ UNCHANGED <<row, batch, failures, work>>

(* ... and finishes its work ... *)
Handled(t) ==
  LET k == row[t.event].key
  IN /\ t.step = "running"
     /\ Continue(t, [t EXCEPT !.step = "completing"])
     /\ done' = IF k \in Key /\ done[k] < t.saw THEN [done EXCEPT ![k] = t.saw] ELSE done
     /\ UNCHANGED <<row, batch, failures, changed, covers>>

(* ... or throws; a NonRetryableOutboxException is fatal. *)
Throws(t, fatal) ==
  /\ t.step = "running"
  /\ Continue(t, [t EXCEPT !.step = "failing", !.fatal = fatal])
  /\ UNCHANGED <<row, batch, failures, work>>

\* Faulty: whoever processes the event owns it.
OwnsAnyLease(t) == row[t.event].status = "PROCESSING"
(* findLeased. *)
OwnsLease(t) == row[t.event].status = "PROCESSING" /\ row[t.event].attempts = t.lease

\* Faulty: what was read is written back, whatever happened since.
SameVersionAssumed(t) == TRUE
SameVersion(t) == OwnsLease(t)

ReadToComplete(t) ==
  /\ t.step = "completing"
  /\ IF OwnsLease(t) THEN Continue(t, [t EXCEPT !.step = "committing"]) ELSE EndTask(t)
  /\ UNCHANGED <<row, batch, failures, work>>

Complete(t) ==
  /\ t.step = "committing"
  /\ IF SameVersion(t)
     THEN /\ row' = [row EXCEPT ![t.event].status = "COMPLETED", ![t.event].due = FALSE]
          /\ EndTask(t)
     ELSE /\ Continue(t, [t EXCEPT !.step = "failing"])
          /\ UNCHANGED row
  /\ UNCHANGED <<batch, failures, work>>

IsSuperseded(e) == \E d \in Event \ {e} : row[e].key \in Key /\ HoldsKey(d, row[e].key)

ReadToRecord(t) ==
  /\ t.step = "failing"
  /\ IF OwnsLease(t)
     THEN Continue(t, [t EXCEPT !.step = "recording", !.superseded = IsSuperseded(t.event)])
     ELSE EndTask(t)
  /\ UNCHANGED <<row, batch, failures, work>>

IsLast(t) == t.fatal \/ row[t.event].attempts >= MaxAttempts

(* recordFailure.  An event that became PENDING under the key since it was *)
(* looked for makes the retry hit the unique index: it is rolled back.     *)
RecordFailure(t) ==
  LET e == t.event
      fails == IsLast(t) \/ t.superseded
  IN /\ t.step = "recording"
     /\ EndTask(t)
     /\ IF ~SameVersion(t) \/ (~fails /\ IsSuperseded(e))
        THEN UNCHANGED <<row, failures>>
        ELSE /\ row' = [row EXCEPT ![e].status = IF fails THEN "FAILED" ELSE "PENDING",
                                   ![e].due = FALSE]
             /\ failures' = IF IsLast(t) THEN [failures EXCEPT ![e] = @ + 1] ELSE failures
     /\ UNCHANGED <<batch, work>>

(* A transaction of a task is rolled back: what should complete the event  *)
(* records a failure, what should record a failure gives up, as does a     *)
(* handler that throws an Error.                                           *)
Breaks(t) ==
  /\ \/ /\ t.step \in {"completing", "committing"}
        /\ Continue(t, [t EXCEPT !.step = "failing"])
     \/ t.step \in {"running", "failing", "recording"} /\ EndTask(t)
  /\ UNCHANGED <<row, batch, failures, work>>

-----------------------------------------------------------------------------
(* The environment.                                                        *)

ComesDue(e) ==
  /\ row[e].status \in {"PENDING", "PROCESSING"} /\ ~row[e].due
  /\ row' = [row EXCEPT ![e].due = TRUE]
  /\ UNCHANGED <<tasks, permits, batch, failures, work>>

Crash(h) ==
  /\ tasks' = {t \in tasks : t.host # h}
  /\ permits' = [permits EXCEPT ![h] = Concurrency]
  /\ batch' = [batch EXCEPT ![h] = 0]
  /\ UNCHANGED <<row, failures, work>>

-----------------------------------------------------------------------------
Process(t) ==
  \/ Reject(t)
  \/ Handle(t)
  \/ Handled(t)
  \/ \E fatal \in BOOLEAN : Throws(t, fatal)
  \/ ReadToComplete(t)
  \/ Complete(t)
  \/ ReadToRecord(t)
  \/ RecordFailure(t)
  \/ Breaks(t)

Next ==
  \/ \E e \in Event : Publish(e)
  \/ \E k \in Key : PublishDebounced(k)
  \/ \E h \in Host : Drain(h) \/ Claim(h) \/ ClaimFails(h)
  \/ \E t \in tasks : Process(t)
  \/ \E e \in Event : ComesDue(e)
  \/ \E h \in Host : Crash(h)

Spec == Init /\ [][Next]_vars

(* Time passes, the scheduler polls on and a claim that is retried for     *)
(* ever succeeds in the end; provider calls have timeouts and the executor *)
(* runs what it accepted, so every task goes on.                           *)
Fairness ==
  /\ \A e \in Event : WF_vars(ComesDue(e))
  /\ \A h \in Host : WF_vars(Drain(h)) /\ SF_vars(Claim(h))
  /\ WF_vars(\E t \in tasks : Process(t))

FairSpec == Spec /\ Fairness

-----------------------------------------------------------------------------
(* Properties.                                                             *)

(* Every permit of an instance is free, drained by its poll or held by a   *)
(* task: no rejected task, failed claim or lost lease leaks one, and the   *)
(* instance never works on more than Concurrency events.                   *)
PermitsConserved ==
  \A h \in Host :
    permits[h] + batch[h] + Cardinality({t \in tasks : t.host = h}) = Concurrency

(* While the lease of an event runs, only the task that was given it ends  *)
(* the event or returns it: a worker that outlived its lease is mute.      *)
EndedByHolder ==
  [][\A e \in Event :
       row[e].status = "PROCESSING" /\ ~row[e].due /\ row'[e].status # "PROCESSING" =>
         \E t \in tasks :
           /\ t.event = e /\ t.lease = row[e].attempts
           /\ Complete(t) \/ RecordFailure(t)]_vars

(* The latest change published under a key is never lost: it is done, or   *)
(* an event of the key waits and will see it, or the event that was        *)
(* claimed after it is in process or has failed for good.                  *)
NoChangeLost ==
  \A k \in Key :
    \/ done[k] = changed[k]
    \/ \E e \in Event :
         /\ row[e].key = k
         /\ \/ row[e].status = "PENDING"
            \/ /\ covers[e] = changed[k]
               /\ \/ row[e].status = "PROCESSING"
                  \/ row[e].status = "FAILED" /\ failures[e] > 0

(* Every event that is published ends, whatever crashes on the way. *)
EveryEventEnds == \A e \in Event : row[e].status = "PENDING" ~> row[e].status \in Ended

State(e) ==
  CASE row[e].status = "NONE" -> "none"
    [] row[e].status \in {"PENDING", "PROCESSING"} -> "waiting"
    [] row[e].status = "COMPLETED" -> "done"
    [] row[e].status = "FAILED" -> IF failures[e] > 0 THEN "failed" ELSE "superseded"

J == INSTANCE DurableJobs
       WITH Job <- Event, Subject <- Key, NoSubject <- NoKey, MaxTries <- MaxAttempts,
            state <- [e \in Event |-> State(e)],
            subject <- [e \in Event |-> row[e].key],
            tries <- [e \in Event |-> row[e].attempts],
            drawn <- failures

(* The events implement durable jobs: attempts are bounded by MaxAttempts, *)
(* an event that ended stays as it is, and its domain consequence is drawn *)
(* exactly when it failed for good, in the same transaction.               *)
JobsSpec == J!Spec
=============================================================================
