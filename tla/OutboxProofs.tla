---------------------------- MODULE OutboxProofs ----------------------------
(***************************************************************************)
(* Proofs about Outbox, for any events, keys, instances and bounds.        *)
(*                                                                         *)
(* The inductive invariant Inv adds to the checked ones what a claim       *)
(* leaves behind: leases are unique and never ahead of their event, a task *)
(* that has read saw every change its event covers, and an event that is   *)
(* about to be failed as superseded (in limbo) is never the one that the   *)
(* latest change depends on.                                               *)
(***************************************************************************)
EXTENDS Outbox, FiniteSetTheorems, TLAPS

USE OutboxAssumption

-----------------------------------------------------------------------------
(* The inductive invariant.                                                *)

RowsHold ==
  \A e \in Event :
    /\ row[e].status = "NONE" => row[e] = NoEvent /\ covers[e] = 0
    /\ row[e].status = "PENDING" => row[e].attempts < MaxAttempts
    /\ row[e].status = "PROCESSING" => row[e].attempts > 0
    /\ row[e].status # "FAILED" => failures[e] = 0
    /\ row[e].key \in Key => covers[e] <= changed[row[e].key]

ReadInTime(t) ==
  LET k == row[t.event].key
  IN k \in Key =>
       /\ t.saw <= changed[k]
       /\ t.step # "queued" /\ t.lease = row[t.event].attempts => covers[t.event] <= t.saw
       /\ t.step \in {"completing", "committing"} => t.saw <= done[k]

HasSuccessor(e) ==
  \E d \in Event \ {e} :
    row[e].key \in Key /\ row[d].key = row[e].key /\ row[d].status # "NONE"

TasksHold ==
  \A t \in tasks :
    /\ row[t.event].status # "NONE"
    /\ t.lease <= row[t.event].attempts
    /\ t.superseded => HasSuccessor(t.event)
    /\ ReadInTime(t)

LeasesDiffer ==
  \A t, u \in tasks : t.event = u.event /\ t.lease = u.lease => t = u

(* The holder of the event is about to fail it in favour of another one. *)
Limbo(e) ==
  \E t \in tasks : t.event = e /\ OwnsLease(t) /\ t.step = "recording" /\ t.superseded

(* What the latest change depends on, unless it is done. *)
Carries(e, k) ==
  /\ row[e].key = k
  /\ ~Limbo(e)
  /\ \/ row[e].status = "PENDING"
     \/ /\ covers[e] = changed[k]
        /\ \/ row[e].status = "PROCESSING"
           \/ row[e].status = "FAILED" /\ failures[e] > 0

ChangesCarried ==
  \A k \in Key :
    /\ done[k] <= changed[k]
    /\ done[k] = changed[k] \/ \E e \in Event : Carries(e, k)

TasksFinite == IsFiniteSet(tasks)

Inv ==
  /\ TypeOK
  /\ RowsHold
  /\ TasksHold
  /\ LeasesDiffer
  /\ ChangesCarried
  /\ TasksFinite
  /\ PermitsConserved

LEMMA InitInv == Init => Inv
  <1> SUFFICES ASSUME Init PROVE Inv
    OBVIOUS
  <1>1. TypeOK
    BY DEF Init, TypeOK, Row, Status, Ended, NoEvent
  <1>2. RowsHold /\ TasksHold /\ LeasesDiffer /\ ChangesCarried
    BY DEF Init, RowsHold, TasksHold, LeasesDiffer, ChangesCarried, NoEvent
  <1>3. TasksFinite /\ PermitsConserved
    <2>1. \A h \in Host : {t \in {} : t.host = h} = {}
      OBVIOUS
    <2> QED
      BY <2>1, FS_EmptySet DEF Init, TasksFinite, PermitsConserved
  <1> QED
    BY <1>1, <1>2, <1>3 DEF Inv

-----------------------------------------------------------------------------
(* The tasks of an instance.                                               *)

LEMMA SwapElement ==
  ASSUME NEW S, IsFiniteSet(S), NEW x \in S, NEW y, y \notin S \ {x}
  PROVE  /\ IsFiniteSet((S \ {x}) \cup {y})
         /\ Cardinality((S \ {x}) \cup {y}) = Cardinality(S)
  <1>1. /\ IsFiniteSet(S \ {x})
        /\ Cardinality(S \ {x}) = Cardinality(S) - 1
    BY FS_RemoveElement
  <1>2. Cardinality(S) \in Nat
    BY FS_CardinalityType
  <1>3. /\ IsFiniteSet((S \ {x}) \cup {y})
        /\ Cardinality((S \ {x}) \cup {y}) = Cardinality(S \ {x}) + 1
    BY <1>1, FS_AddElement
  <1> QED
    BY <1>1, <1>2, <1>3

TasksOf(h) == {t \in tasks : t.host = h}

LEMMA TasksOfFacts ==
  ASSUME TasksFinite, NEW h
  PROVE  IsFiniteSet(TasksOf(h)) /\ Cardinality(TasksOf(h)) \in Nat
  BY FS_Subset, FS_CardinalityType DEF TasksFinite, TasksOf

(* A task goes on: leases stay distinct and permits conserved. *)
LEMMA ContinueKeeps ==
  ASSUME Inv, NEW t \in tasks, NEW u \in Task,
         u.event = t.event, u.lease = t.lease, u.host = t.host,
         Continue(t, u), UNCHANGED batch
  PROVE  /\ tasks' \subseteq Task
         /\ LeasesDiffer'
         /\ TasksFinite'
         /\ PermitsConserved'
  <1>1. u \notin tasks \ {t}
    BY DEF Inv, LeasesDiffer
  <1>2. tasks' \subseteq Task
    BY DEF Inv, TypeOK, Continue
  <1>3. LeasesDiffer'
    BY DEF Inv, LeasesDiffer, Continue
  <1>4. TasksFinite'
    BY <1>1, SwapElement DEF Inv, TasksFinite, Continue
  <1>5. ASSUME NEW h \in Host PROVE Cardinality(TasksOf(h)') = Cardinality(TasksOf(h))
    <2>1. CASE t.host = h
      <3>1. TasksOf(h)' = (TasksOf(h) \ {t}) \cup {u}
        BY <2>1 DEF Continue, TasksOf
      <3>2. t \in TasksOf(h) /\ u \notin TasksOf(h) \ {t}
        BY <1>1, <2>1 DEF TasksOf
      <3>3. IsFiniteSet(TasksOf(h))
        BY TasksOfFacts DEF Inv
      <3> QED
        BY <3>1, <3>2, <3>3, SwapElement
    <2>2. CASE t.host # h
      BY <2>2 DEF Continue, TasksOf
    <2> QED
      BY <2>1, <2>2
  <1>6. PermitsConserved'
    BY <1>5 DEF Inv, PermitsConserved, TasksOf, Continue
  <1> QED
    BY <1>2, <1>3, <1>4, <1>6

(* A task ends and its permit is free again. *)
LEMMA EndTaskKeeps ==
  ASSUME Inv, NEW t \in tasks, EndTask(t), UNCHANGED batch
  PROVE  /\ tasks' \subseteq Task
         /\ permits' \in [Host -> 0 .. Concurrency]
         /\ LeasesDiffer'
         /\ TasksFinite'
         /\ PermitsConserved'
  <1>1. tasks' \subseteq Task /\ t.host \in Host
    BY DEF Inv, TypeOK, EndTask, Task
  <1>2. LeasesDiffer'
    BY DEF Inv, LeasesDiffer, EndTask
  <1>3. TasksFinite'
    BY FS_RemoveElement DEF Inv, TasksFinite, EndTask
  <1>4. ASSUME NEW h \in Host
        PROVE  /\ permits'[h] \in 0 .. Concurrency
               /\ permits'[h] + batch'[h] + Cardinality(TasksOf(h)') = Concurrency
    <2>0. /\ permits \in [Host -> 0 .. Concurrency] /\ batch \in [Host -> 0 .. Concurrency]
          /\ permits' = [permits EXCEPT ![t.host] = @ + 1]
          /\ batch' = batch
          /\ permits[h] + batch[h] + Cardinality(TasksOf(h)) = Concurrency
          /\ IsFiniteSet(TasksOf(h)) /\ Cardinality(TasksOf(h)) \in Nat
      BY TasksOfFacts DEF Inv, TypeOK, PermitsConserved, TasksOf, EndTask
    <2>1. CASE t.host = h
      <3>1. TasksOf(h)' = TasksOf(h) \ {t} /\ t \in TasksOf(h)
        BY <2>1 DEF EndTask, TasksOf
      <3>2. Cardinality(TasksOf(h)') = Cardinality(TasksOf(h)) - 1 /\ Cardinality(TasksOf(h)') \in Nat
        BY <2>0, <3>1, FS_RemoveElement, FS_CardinalityType
      <3> QED
        BY <2>0, <2>1, <3>2
    <2>2. CASE t.host # h
      <3>1. TasksOf(h)' = TasksOf(h)
        BY <2>2 DEF EndTask, TasksOf
      <3> QED
        BY <2>0, <2>2, <3>1
    <2> QED
      BY <2>1, <2>2
  <1>5. permits' \in [Host -> 0 .. Concurrency]
    <2>1. permits' = [h \in Host |-> permits'[h]]
      BY DEF Inv, TypeOK, EndTask
    <2> QED
      BY <2>1, <1>4
  <1> QED
    BY <1>1, <1>2, <1>3, <1>4, <1>5 DEF PermitsConserved, TasksOf

-----------------------------------------------------------------------------
(* Steps of a task that leave the events alone.                            *)

LEMMA RowsUntouched ==
  ASSUME Inv, UNCHANGED <<row, failures, changed, covers>>
  PROVE  RowsHold'
  BY DEF Inv, RowsHold

LEMMA TypesOfTask ==
  ASSUME Inv, NEW t \in tasks
  PROVE  /\ t \in Task
         /\ t.event \in Event /\ t.host \in Host /\ t.lease \in 1 .. MaxAttempts
         /\ t.saw \in 0 .. MaxChanges
         /\ row[t.event] \in Row
  BY DEF Inv, TypeOK, Task

(* A task goes on; a handler that finishes moves done forward.  Who enters *)
(* the limbo has seen an event that waits under the key.                   *)
LEMMA TaskGoesOn ==
  ASSUME Inv, NEW t \in tasks, NEW u \in Task,
         u.event = t.event, u.lease = t.lease, u.host = t.host,
         Continue(t, u), UNCHANGED <<row, batch, failures, changed, covers>>,
         done' \in [Key -> 0 .. MaxChanges],
         \A k \in Key : done[k] <= done'[k] /\ done'[k] <= changed[k],
         ReadInTime(u)',
         u.superseded => HasSuccessor(u.event),
         u.step = "recording" /\ u.superseded =>
           (t.step = "recording" /\ t.superseded) \/ IsSuperseded(u.event)
  PROVE  Inv'
  <1>1. tasks' \subseteq Task /\ LeasesDiffer' /\ TasksFinite' /\ PermitsConserved'
    BY ContinueKeeps
  <1>2. TypeOK'
    BY <1>1 DEF Inv, TypeOK, Continue
  <1>3. TasksHold'
    <2> SUFFICES ASSUME NEW s \in tasks'
                 PROVE  /\ row[s.event].status # "NONE"
                        /\ s.lease <= row[s.event].attempts
                        /\ s.superseded => HasSuccessor(s.event)
                        /\ ReadInTime(s)'
      BY DEF TasksHold, HasSuccessor
    <2>1. CASE s = u
      BY <2>1 DEF Inv, TasksHold
    <2>2. CASE s \in tasks
      <3>1. ReadInTime(s)
        BY <2>2 DEF Inv, TasksHold
      <3>2. s.saw \in Nat
        BY <2>2, TypesOfTask
      <3>3. ASSUME row[s.event].key \in Key
            PROVE  /\ done[row[s.event].key] \in Nat
                   /\ done'[row[s.event].key] \in Nat
                   /\ done[row[s.event].key] <= done'[row[s.event].key]
        BY <3>3 DEF Inv, TypeOK
      <3>4. ReadInTime(s)'
        BY <3>1, <3>2, <3>3 DEF ReadInTime
      <3> QED
        BY <2>2, <3>4 DEF Inv, TasksHold
    <2> QED
      BY <2>1, <2>2 DEF Continue
  <1>4. ChangesCarried'
    <2> SUFFICES ASSUME NEW k \in Key, done'[k] # changed[k]
                 PROVE  \E e \in Event : Carries(e, k)'
      BY DEF ChangesCarried
    <2>1. done[k] # changed[k]
      BY DEF Inv, TypeOK
    <2>2. PICK e \in Event : Carries(e, k)
      BY <2>1 DEF Inv, ChangesCarried
    <2>3. CASE ~Limbo(e)'
      BY <2>2, <2>3 DEF Carries
    <2>4. CASE Limbo(e)'
      <3>1. PICK s \in tasks' : s.event = e /\ OwnsLease(s)' /\ s.step = "recording" /\ s.superseded
        BY <2>4 DEF Limbo
      <3>2. s \notin tasks
        BY <2>2, <3>1 DEF Carries, Limbo, OwnsLease
      <3>3. s = u /\ ~(t.step = "recording" /\ t.superseded)
        <4>1. s = u
          BY <3>2 DEF Continue
        <4>2. OwnsLease(t)
          BY <3>1, <4>1 DEF OwnsLease
        <4> QED
          BY <2>2, <3>1, <4>1, <4>2 DEF Carries, Limbo
      <3>4. IsSuperseded(e)
        BY <3>1, <3>3
      <3>5. PICK d \in Event : row[d].key = row[e].key /\ row[d].status = "PENDING"
        BY <3>4 DEF IsSuperseded, HoldsKey
      <3>6. ~Limbo(d)'
        BY <3>5 DEF Limbo, OwnsLease
      <3> QED
        BY <2>2, <3>5, <3>6 DEF Carries
    <2> QED
      BY <2>3, <2>4
  <1> QED
    BY <1>1, <1>2, <1>3, <1>4, RowsUntouched DEF Inv

LEMMA TaskEnds ==
  ASSUME Inv, NEW t \in tasks, EndTask(t), UNCHANGED <<row, batch, failures, work>>
  PROVE  Inv'
  <1>1. /\ tasks' \subseteq Task /\ LeasesDiffer' /\ TasksFinite' /\ PermitsConserved'
        /\ permits' \in [Host -> 0 .. Concurrency]
    BY EndTaskKeeps DEF work
  <1>2. TypeOK'
    BY <1>1 DEF Inv, TypeOK, work
  <1>3. TasksHold'
    BY DEF Inv, TasksHold, ReadInTime, HasSuccessor, EndTask, work
  <1>4. ASSUME NEW e \in Event, NEW k \in Key, Carries(e, k) PROVE Carries(e, k)'
    BY <1>4 DEF Carries, Limbo, OwnsLease, EndTask, work
  <1>5. ChangesCarried'
    BY <1>4 DEF Inv, ChangesCarried, work
  <1> QED
    BY <1>1, <1>2, <1>3, <1>5, RowsUntouched DEF Inv, work

LEMMA HandleStep ==
  ASSUME Inv, NEW t \in tasks, Handle(t)
  PROVE  Inv'
  <1> DEFINE k == row[t.event].key
  <1>0. PICK n \in 0 .. MaxChanges : n = IF k \in Key THEN changed[k] ELSE 0
    BY DEF Inv, TypeOK
  <1> DEFINE u == [t EXCEPT !.step = "running", !.saw = n]
  <1>1. Continue(t, u) /\ UNCHANGED <<row, batch, failures, changed, covers, done>>
    BY <1>0 DEF Handle, work
  <1>2. /\ u \in Task /\ u.event = t.event /\ u.lease = t.lease /\ u.host = t.host
        /\ u.step = "running" /\ u.superseded = t.superseded /\ u.saw = n
    BY TypesOfTask DEF Task
  <1> HIDE DEF u
  <1>3. ReadInTime(u)'
    <2>1. ASSUME k \in Key PROVE n = changed[k] /\ covers[t.event] <= n
      BY <1>0, <2>1, TypesOfTask DEF Inv, RowsHold
    <2> QED
      BY <1>1, <1>2, <2>1 DEF ReadInTime
  <1>4. u.superseded => HasSuccessor(u.event)
    BY <1>2 DEF Inv, TasksHold
  <1>5. \A j \in Key : done[j] <= done'[j] /\ done'[j] <= changed[j]
    BY <1>1 DEF Inv, ChangesCarried, TypeOK
  <1>6. done' \in [Key -> 0 .. MaxChanges]
    BY <1>1 DEF Inv, TypeOK
  <1> QED
    BY <1>1, <1>2, <1>3, <1>4, <1>5, <1>6, TaskGoesOn

LEMMA HandledStep ==
  ASSUME Inv, NEW t \in tasks, Handled(t)
  PROVE  Inv'
  <1> DEFINE k == row[t.event].key
             u == [t EXCEPT !.step = "completing"]
  <1>1. Continue(t, u) /\ UNCHANGED <<row, batch, failures, changed, covers>>
    BY DEF Handled
  <1>2. u \in Task /\ u.event = t.event /\ u.lease = t.lease /\ u.host = t.host
    BY TypesOfTask DEF Task
  <1>3. u.step = "completing" /\ u.superseded = t.superseded /\ u.saw = t.saw /\ t.step = "running"
    BY TypesOfTask DEF Task, Handled
  <1>4. ReadInTime(t)
    BY DEF Inv, TasksHold
  <1>5. /\ done' \in [Key -> 0 .. MaxChanges]
        /\ k \in Key => t.saw <= done'[k]
        /\ \A j \in Key : done[j] <= done'[j] /\ done'[j] <= changed[j]
    <2>1. done \in [Key -> 0 .. MaxChanges] /\ changed \in [Key -> 0 .. MaxChanges]
      BY DEF Inv, TypeOK
    <2>2. \A j \in Key : done[j] <= changed[j]
      BY DEF Inv, ChangesCarried
    <2>3. t.saw \in 0 .. MaxChanges /\ (k \in Key => t.saw <= changed[k])
      BY <1>4, TypesOfTask DEF ReadInTime
    <2>4. done' = IF k \in Key /\ done[k] < t.saw THEN [done EXCEPT ![k] = t.saw] ELSE done
      BY DEF Handled
    <2> HIDE DEF k
    <2>5. CASE k \in Key /\ done[k] < t.saw
      BY <2>1, <2>2, <2>3, <2>4, <2>5
    <2>6. CASE ~(k \in Key /\ done[k] < t.saw)
      BY <2>1, <2>2, <2>3, <2>4, <2>6
    <2> QED
      BY <2>5, <2>6
  <1>6. ReadInTime(u)'
    BY <1>1, <1>2, <1>3, <1>4, <1>5 DEF ReadInTime
  <1>7. u.superseded => HasSuccessor(u.event)
    BY <1>2, <1>3 DEF Inv, TasksHold
  <1> HIDE DEF u, k
  <1> QED
    BY <1>1, <1>2, <1>3, <1>5, <1>6, <1>7, TaskGoesOn

(* A task turns to one of the later steps without having read anew. *)
LEMMA LaterStep ==
  ASSUME Inv, NEW t \in tasks, NEW u \in Task,
         u.event = t.event, u.lease = t.lease, u.host = t.host, u.saw = t.saw,
         t.step # "queued",
         u.step \in {"completing", "committing"} => t.step \in {"completing", "committing"},
         u.superseded => t.superseded \/ IsSuperseded(u.event),
         u.step = "recording" => t.step # "recording" /\ (u.superseded => IsSuperseded(u.event)),
         Continue(t, u), UNCHANGED <<row, batch, failures, work>>
  PROVE  Inv'
  <1>1. ReadInTime(u)'
    BY DEF Inv, TasksHold, ReadInTime, work
  <1>2. u.superseded => HasSuccessor(u.event)
    BY DEF Inv, TasksHold, HasSuccessor, IsSuperseded, HoldsKey
  <1>3. \A j \in Key : done[j] <= done'[j] /\ done'[j] <= changed[j]
    BY DEF Inv, ChangesCarried, TypeOK, work
  <1>4. done' \in [Key -> 0 .. MaxChanges]
    BY DEF Inv, TypeOK, work
  <1> QED
    BY <1>1, <1>2, <1>3, <1>4, TaskGoesOn DEF work

LEMMA TurnsTo ==
  ASSUME Inv, NEW t \in tasks, NEW s \in {"completing", "committing", "failing"},
         t.step # "queued",
         s \in {"completing", "committing"} => t.step \in {"completing", "committing"},
         Continue(t, [t EXCEPT !.step = s]), UNCHANGED <<row, batch, failures, work>>
  PROVE  Inv'
  <1> DEFINE u == [t EXCEPT !.step = s]
  <1>1. /\ u \in Task /\ u.event = t.event /\ u.lease = t.lease /\ u.host = t.host
        /\ u.saw = t.saw /\ u.step = s /\ u.superseded = t.superseded
    BY TypesOfTask DEF Task
  <1>2. Continue(t, u)
    OBVIOUS
  <1> HIDE DEF u
  <1> QED
    BY <1>1, <1>2, LaterStep

LEMMA ThrowsStep ==
  ASSUME Inv, NEW t \in tasks, NEW fatal \in BOOLEAN, Throws(t, fatal)
  PROVE  Inv'
  <1> DEFINE u == [t EXCEPT !.step = "failing", !.fatal = fatal]
  <1>1. /\ u \in Task /\ u.event = t.event /\ u.lease = t.lease /\ u.host = t.host
        /\ u.saw = t.saw /\ u.step = "failing" /\ u.superseded = t.superseded
    BY TypesOfTask DEF Task
  <1>2. Continue(t, u) /\ UNCHANGED <<row, batch, failures, work>> /\ t.step # "queued"
    BY DEF Throws
  <1> HIDE DEF u
  <1> QED
    BY <1>1, <1>2, LaterStep

LEMMA ReadToCompleteStep ==
  ASSUME Inv, NEW t \in tasks, ReadToComplete(t)
  PROVE  Inv'
  BY TurnsTo, TaskEnds DEF ReadToComplete

LEMMA ReadToRecordStep ==
  ASSUME Inv, NEW t \in tasks, ReadToRecord(t)
  PROVE  Inv'
  <1>1. CASE OwnsLease(t)
    <2> DEFINE u == [t EXCEPT !.step = "recording", !.superseded = IsSuperseded(t.event)]
    <2>1. IsSuperseded(t.event) \in BOOLEAN
      BY DEF IsSuperseded
    <2>2. /\ u \in Task /\ u.event = t.event /\ u.lease = t.lease /\ u.host = t.host
          /\ u.saw = t.saw /\ u.step = "recording" /\ u.superseded = IsSuperseded(t.event)
      BY <2>1, TypesOfTask DEF Task
    <2>3. Continue(t, u) /\ UNCHANGED <<row, batch, failures, work>> /\ t.step = "failing"
      BY <1>1 DEF ReadToRecord
    <2> HIDE DEF u
    <2> QED
      BY <2>2, <2>3, LaterStep
  <1>2. CASE ~OwnsLease(t)
    BY <1>2, TaskEnds DEF ReadToRecord
  <1> QED
    BY <1>1, <1>2

LEMMA BreaksStep ==
  ASSUME Inv, NEW t \in tasks, Breaks(t)
  PROVE  Inv'
  BY TurnsTo, TaskEnds DEF Breaks

LEMMA RejectStep ==
  ASSUME Inv, NEW t \in tasks, Reject(t)
  PROVE  Inv'
  BY TaskEnds DEF Reject

-----------------------------------------------------------------------------
(* Outcomes of an event.                                                   *)

(* The holder of the event gives it status s, for good or for a retry. *)
Returns(t, s) ==
  /\ OwnsLease(t) /\ EndTask(t)
  /\ row' = [row EXCEPT ![t.event].status = s, ![t.event].due = FALSE]
  /\ failures' \in [Event -> Nat]
  /\ \A e \in Event \ {t.event} : failures'[e] = failures[e]
  /\ s # "FAILED" => failures'[t.event] = failures[t.event]
  /\ s = "PENDING" => row[t.event].attempts < MaxAttempts
  /\ s = "COMPLETED" => t.step \in {"completing", "committing"}
  /\ s = "FAILED" => failures'[t.event] > 0 \/ Limbo(t.event)
  /\ UNCHANGED <<batch, work>>

(* If the latest change depends on the event, it is done now, or the event *)
(* carries it on.                                                          *)
LEMMA OutcomeStep ==
  ASSUME Inv, NEW t \in tasks, NEW s \in {"COMPLETED", "FAILED", "PENDING"}, Returns(t, s)
  PROVE  Inv'
  <1> USE DEF Returns
  <1> DEFINE e == t.event
  <1>1. /\ tasks' \subseteq Task /\ LeasesDiffer' /\ TasksFinite' /\ PermitsConserved'
        /\ permits' \in [Host -> 0 .. Concurrency]
    BY EndTaskKeeps
  <1>2. /\ e \in Event /\ row \in [Event -> Row] /\ row[e].status = "PROCESSING"
        /\ failures \in [Event -> Nat]
    BY TypesOfTask DEF Inv, TypeOK, OwnsLease
  <1>3. /\ row' \in [Event -> Row]
        /\ row'[e].status = s
        /\ row'[e].key = row[e].key /\ row'[e].attempts = row[e].attempts
        /\ \A d \in Event \ {e} : row'[d] = row[d]
    BY <1>2 DEF Row, Status, Ended
  <1> HIDE DEF e
  <1>4. TypeOK'
    BY <1>1, <1>3 DEF Inv, TypeOK, work
  <1>5. RowsHold'
    <2> SUFFICES ASSUME NEW d \in Event
                 PROVE  /\ row'[d].status = "NONE" => row'[d] = NoEvent /\ covers[d] = 0
                        /\ row'[d].status = "PENDING" => row'[d].attempts < MaxAttempts
                        /\ row'[d].status = "PROCESSING" => row'[d].attempts > 0
                        /\ row'[d].status # "FAILED" => failures'[d] = 0
                        /\ row'[d].key \in Key => covers[d] <= changed[row'[d].key]
      BY DEF RowsHold, work
    <2>1. CASE d = e
      BY <1>2, <1>3, <2>1 DEF Inv, RowsHold, e
    <2>2. CASE d # e
      BY <1>2, <1>3, <2>2 DEF Inv, RowsHold, e
    <2> QED
      BY <2>1, <2>2
  <1>6. TasksHold'
    <2> SUFFICES ASSUME NEW u \in tasks'
                 PROVE  /\ row'[u.event].status # "NONE"
                        /\ u.lease <= row'[u.event].attempts
                        /\ u.superseded => HasSuccessor(u.event)'
                        /\ ReadInTime(u)'
      BY DEF TasksHold
    <2>1. u \in tasks /\ u.event \in Event
      BY TypesOfTask DEF EndTask
    <2>2. \A d \in Event : /\ row'[d].key = row[d].key
                           /\ row'[d].attempts = row[d].attempts
                           /\ row[d].status # "NONE" => row'[d].status # "NONE"
      BY <1>2, <1>3
    <2>3. ReadInTime(u)'
      BY <2>1, <2>2 DEF Inv, TasksHold, ReadInTime, work
    <2>4. HasSuccessor(u.event) => HasSuccessor(u.event)'
      BY <2>1, <2>2 DEF HasSuccessor
    <2> QED
      BY <2>1, <2>2, <2>3, <2>4 DEF Inv, TasksHold
  <1>7. ChangesCarried'
    <2> SUFFICES ASSUME NEW k \in Key
                 PROVE  /\ done[k] <= changed[k]
                        /\ done[k] = changed[k] \/ \E d \in Event : Carries(d, k)'
      BY DEF ChangesCarried, work
    <2>0. done[k] \in Nat /\ changed[k] \in Nat /\ done[k] <= changed[k]
      BY DEF Inv, TypeOK, ChangesCarried
    <2>1. CASE done[k] = changed[k]
      BY <2>0, <2>1
    <2>2. CASE done[k] # changed[k]
      <3>1. PICK d \in Event : Carries(d, k)
        BY <2>2 DEF Inv, ChangesCarried
      <3>2. CASE d # e
        <4>1. Limbo(d)' => Limbo(d)
          BY <1>3, <3>2 DEF Limbo, OwnsLease, EndTask
        <4> QED
          BY <1>3, <3>1, <3>2, <4>1, <2>0 DEF Carries, work, e
      <3>3. CASE d = e
        <4>1. ~Limbo(e) /\ row[e].key = k /\ covers[e] = changed[k]
          BY <1>2, <3>1, <3>3 DEF Carries
        <4>2. ~Limbo(e)'
          BY <1>3 DEF Limbo, OwnsLease
        <4>3. CASE s = "COMPLETED"
          <5>1. covers[e] <= t.saw /\ t.saw <= done[k] /\ t.saw \in Nat
            BY <4>1, <4>3, TypesOfTask DEF Inv, TasksHold, ReadInTime, OwnsLease, e
          <5> QED
            BY <2>0, <2>2, <4>1, <5>1
        <4>4. CASE s = "FAILED"
          BY <1>3, <2>0, <3>3, <4>1, <4>2, <4>4 DEF Carries, work, e
        <4>5. CASE s = "PENDING"
          BY <1>3, <2>0, <3>3, <4>1, <4>2, <4>5 DEF Carries, work
        <4> QED
          BY <4>3, <4>4, <4>5
      <3> QED
        BY <2>0, <3>2, <3>3
    <2> QED
      BY <2>1, <2>2
  <1> QED
    BY <1>1, <1>4, <1>5, <1>6, <1>7 DEF Inv

LEMMA CompleteStep ==
  ASSUME Inv, NEW t \in tasks, Complete(t)
  PROVE  Inv'
  <1>1. CASE SameVersion(t)
    <2>1. failures' = failures /\ failures \in [Event -> Nat] /\ t.event \in Event
      BY TypesOfTask DEF Complete, Inv, TypeOK
    <2>2. Returns(t, "COMPLETED")
      BY <1>1, <2>1 DEF Returns, Complete, SameVersion
    <2> QED
      BY <2>2, OutcomeStep
  <1>2. CASE ~SameVersion(t)
    BY <1>2, TurnsTo DEF Complete
  <1> QED
    BY <1>1, <1>2

LEMMA RecordFailureStep ==
  ASSUME Inv, NEW t \in tasks, RecordFailure(t)
  PROVE  Inv'
  <1> DEFINE e == t.event
             fails == IsLast(t) \/ t.superseded
  <1>1. CASE ~SameVersion(t) \/ (~fails /\ IsSuperseded(e))
    BY <1>1, TaskEnds DEF RecordFailure
  <1>2. CASE ~(~SameVersion(t) \/ (~fails /\ IsSuperseded(e)))
    <2>1. /\ OwnsLease(t) /\ EndTask(t) /\ t.step = "recording"
          /\ row' = [row EXCEPT ![e].status = IF fails THEN "FAILED" ELSE "PENDING",
                                ![e].due = FALSE]
          /\ failures' = IF IsLast(t) THEN [failures EXCEPT ![e] = @ + 1] ELSE failures
          /\ UNCHANGED <<batch, work>>
      BY <1>2 DEF RecordFailure, SameVersion
    <2>2. e \in Event /\ row[e] \in Row /\ failures \in [Event -> Nat]
      BY TypesOfTask DEF Inv, TypeOK
    <2>3. CASE IsLast(t)
      <3>1. Returns(t, "FAILED")
        BY <2>1, <2>2, <2>3 DEF Returns
      <3> QED
        BY <3>1, OutcomeStep
    <2>4. CASE ~IsLast(t) /\ t.superseded
      <3>1. Limbo(e)
        BY <2>1, <2>4 DEF Limbo
      <3>2. Returns(t, "FAILED")
        BY <2>1, <2>2, <2>4, <3>1 DEF Returns
      <3> QED
        BY <3>2, OutcomeStep
    <2>5. CASE ~IsLast(t) /\ ~t.superseded
      <3>1. row[e].attempts < MaxAttempts
        BY <2>2, <2>5 DEF IsLast, Row
      <3>2. Returns(t, "PENDING")
        BY <2>1, <2>2, <2>5, <3>1 DEF Returns
      <3> QED
        BY <3>2, OutcomeStep
    <2> QED
      BY <2>3, <2>4, <2>5
  <1> QED
    BY <1>1, <1>2

LEMMA ProcessStep ==
  ASSUME Inv, NEW t \in tasks, Process(t)
  PROVE  Inv'
  BY RejectStep, HandleStep, HandledStep, ThrowsStep, ReadToCompleteStep, CompleteStep,
     ReadToRecordStep, RecordFailureStep, BreaksStep DEF Process

-----------------------------------------------------------------------------
(* Publishing.                                                             *)

LEMMA NewHasNoTask ==
  ASSUME Inv, NEW e \in Event, row[e].status = "NONE", NEW t \in tasks
  PROVE  t.event # e
  BY DEF Inv, TasksHold

LEMMA PublishStep ==
  ASSUME Inv, NEW e \in Event, Publish(e)
  PROVE  Inv'
  <1> DEFINE new == [NoEvent EXCEPT !.status = "PENDING", !.due = TRUE]
  <1>1. /\ row[e].status = "NONE" /\ row[e] = NoEvent /\ row \in [Event -> Row]
        /\ row' = [row EXCEPT ![e] = new]
        /\ UNCHANGED <<tasks, permits, batch, failures, changed, covers, done>>
    BY DEF Publish, IsNext, Inv, TypeOK, RowsHold, work
  <1>2. /\ new \in Row
        /\ new.status = "PENDING" /\ new.key = NoKey /\ new.attempts = 0
    <2>1. NoEvent \in Row /\ NoEvent.key = NoKey /\ NoEvent.attempts = 0
      BY DEF NoEvent, Row, Status
    <2> QED
      BY <2>1 DEF Row, Status
  <1> HIDE DEF new
  <1>3. TypeOK'
    BY <1>1, <1>2 DEF Inv, TypeOK
  <1>4. RowsHold'
    <2> SUFFICES ASSUME NEW d \in Event
                 PROVE  /\ row'[d].status = "NONE" => row'[d] = NoEvent /\ covers[d] = 0
                        /\ row'[d].status = "PENDING" => row'[d].attempts < MaxAttempts
                        /\ row'[d].status = "PROCESSING" => row'[d].attempts > 0
                        /\ row'[d].status # "FAILED" => failures[d] = 0
                        /\ row'[d].key \in Key => covers[d] <= changed[row'[d].key]
      BY <1>1 DEF RowsHold
    <2>1. CASE d = e
      <3>1. row'[d] = new
        BY <1>1, <2>1
      <3>2. failures[d] = 0
        BY <1>1, <2>1 DEF Inv, RowsHold
      <3> QED
        BY <1>2, <3>1, <3>2
    <2>2. CASE d # e
      <3>1. row'[d] = row[d]
        BY <1>1, <2>2
      <3> QED
        BY <3>1 DEF Inv, RowsHold
    <2> QED
      BY <2>1, <2>2
  <1>5. \A t \in tasks : t.event # e /\ t.event \in Event
    BY <1>1, NewHasNoTask, TypesOfTask
  <1>6. TasksHold'
    <2>1. ASSUME NEW t \in tasks PROVE ReadInTime(t)'
      BY <1>1, <1>5 DEF Inv, TasksHold, ReadInTime
    <2>2. ASSUME NEW t \in tasks, HasSuccessor(t.event) PROVE HasSuccessor(t.event)'
      BY <1>1, <1>2, <1>5, <2>2 DEF HasSuccessor
    <2> QED
      BY <1>1, <1>5, <2>1, <2>2 DEF Inv, TasksHold
  <1>7. ASSUME NEW d \in Event, NEW k \in Key, Carries(d, k) PROVE Carries(d, k)'
    <2>1. d # e
      BY <1>1, <1>7 DEF Carries
    <2> QED
      BY <1>1, <1>7, <2>1 DEF Carries, Limbo, OwnsLease
  <1>8. ChangesCarried'
    BY <1>1, <1>7 DEF Inv, ChangesCarried
  <1> QED
    BY <1>1, <1>3, <1>4, <1>6, <1>8 DEF Inv, LeasesDiffer, TasksFinite, PermitsConserved

Moved(r, k) == [r EXCEPT !.status = "PENDING", !.key = k, !.due = FALSE]

LEMMA MovedRow ==
  ASSUME NEW r \in Row, NEW k \in Key
  PROVE  /\ Moved(r, k) \in Row
         /\ Moved(r, k).status = "PENDING" /\ Moved(r, k).key = k
         /\ Moved(r, k).attempts = r.attempts
  BY DEF Row, Status, Moved

LEMMA MovedStep ==
  ASSUME Inv, NEW k \in Key, changed[k] < MaxChanges, changed' = [changed EXCEPT ![k] = @ + 1],
         NEW moved \in SUBSET Event, moved # {}, Move(moved, k),
         \A e \in moved : row[e].status = "NONE" \/ HoldsKey(e, k),
         UNCHANGED <<tasks, permits, batch, failures, covers, done>>
  PROVE  Inv'
  <1>1. /\ row \in [Event -> Row] /\ changed \in [Key -> 0 .. MaxChanges]
        /\ covers \in [Event -> 0 .. MaxChanges] /\ done \in [Key -> 0 .. MaxChanges]
    BY DEF Inv, TypeOK
  <1>2. /\ row' \in [Event -> Row]
        /\ \A e \in moved : /\ row'[e].status = "PENDING" /\ row'[e].key = k
                            /\ row'[e].attempts = row[e].attempts
        /\ \A e \in Event \ moved : row'[e] = row[e]
    <2>1. ASSUME NEW e \in moved
          PROVE  row'[e] = Moved(row[e], k)
      BY Zenon DEF Move, Moved
    <2>2. \A e \in Event \ moved : row'[e] = row[e]
      BY Zenon DEF Move
    <2>3. row' = [e \in Event |-> row'[e]]
      BY Zenon DEF Move
    <2>4. ASSUME NEW e \in moved
          PROVE  /\ row'[e] \in Row
                 /\ row'[e].status = "PENDING" /\ row'[e].key = k
                 /\ row'[e].attempts = row[e].attempts
      BY <1>1, <2>1, MovedRow
    <2> QED
      BY <1>1, <2>2, <2>3, <2>4
  <1>3. changed' \in [Key -> 0 .. MaxChanges] /\ \A j \in Key : changed[j] <= changed'[j]
    BY <1>1
  <1>4. TypeOK'
    BY <1>2, <1>3 DEF Inv, TypeOK
  <1>5. RowsHold'
    <2> SUFFICES ASSUME NEW e \in Event
                 PROVE  /\ row'[e].status = "NONE" => row'[e] = NoEvent /\ covers[e] = 0
                        /\ row'[e].status = "PENDING" => row'[e].attempts < MaxAttempts
                        /\ row'[e].status = "PROCESSING" => row'[e].attempts > 0
                        /\ row'[e].status # "FAILED" => failures[e] = 0
                        /\ row'[e].key \in Key => covers[e] <= changed'[row'[e].key]
      BY DEF RowsHold
    <2>1. CASE e \in moved
      <3>1. row[e].status = "NONE" \/ (row[e].status = "PENDING" /\ row[e].key = k)
        BY <2>1 DEF HoldsKey
      <3>2. row[e].attempts < MaxAttempts /\ failures[e] = 0
        BY <3>1 DEF Inv, RowsHold, NoEvent
      <3>3. covers[e] <= changed[k]
        BY <1>1, <3>1 DEF Inv, RowsHold
      <3> QED
        BY <1>1, <1>2, <1>3, <2>1, <3>2, <3>3
    <2>2. CASE e \notin moved
      <3>1. row[e].key \in Key => covers[e] <= changed[row[e].key]
        BY DEF Inv, RowsHold
      <3>2. row[e].key \in Key => covers[e] <= changed'[row[e].key]
        BY <1>1, <1>3, <3>1
      <3> QED
        BY <1>2, <2>2, <3>2 DEF Inv, RowsHold
    <2> QED
      BY <2>1, <2>2
  <1>6. ASSUME NEW t \in tasks
        PROVE  /\ t.event \in Event
               /\ row'[t.event].key = row[t.event].key
               /\ row'[t.event].attempts = row[t.event].attempts
    BY <1>2, NewHasNoTask, TypesOfTask DEF HoldsKey
  <1>7. TasksHold'
    <2> SUFFICES ASSUME NEW t \in tasks
                 PROVE  /\ row'[t.event].status # "NONE"
                        /\ t.lease <= row'[t.event].attempts
                        /\ t.superseded => HasSuccessor(t.event)'
                        /\ ReadInTime(t)'
      BY DEF TasksHold
    <2>1. row'[t.event].status # "NONE"
      BY <1>2, <1>6 DEF Inv, TasksHold
    <2>2. HasSuccessor(t.event) => HasSuccessor(t.event)'
      <3> SUFFICES ASSUME NEW d \in Event \ {t.event}, row[t.event].key \in Key,
                          row[d].key = row[t.event].key, row[d].status # "NONE"
                   PROVE  row'[d].key = row[d].key /\ row'[d].status # "NONE"
        BY <1>6 DEF HasSuccessor
      <3> QED
        BY <1>2 DEF HoldsKey
    <2>3. ReadInTime(t)'
      <3>1. ReadInTime(t) /\ t.saw \in Nat
        BY TypesOfTask DEF Inv, TasksHold
      <3>2. row[t.event].key \in Key /\ t.saw <= changed[row[t.event].key] =>
              t.saw <= changed'[row[t.event].key]
        BY <1>1, <1>3, <3>1
      <3> QED
        BY <1>6, <3>1, <3>2 DEF ReadInTime
    <2> QED
      BY <1>6, <2>1, <2>2, <2>3 DEF Inv, TasksHold
  <1>8. ChangesCarried'
    <2> SUFFICES ASSUME NEW j \in Key
                 PROVE  /\ done[j] <= changed'[j]
                        /\ done[j] = changed'[j] \/ \E d \in Event : Carries(d, j)'
      BY DEF ChangesCarried
    <2>1. done[j] <= changed'[j]
      BY <1>1, <1>3 DEF Inv, ChangesCarried
    <2>2. CASE j = k
      <3>1. PICK d \in moved : TRUE
        OBVIOUS
      <3>2. Carries(d, k)'
        BY <1>2 DEF Carries, Limbo, OwnsLease
      <3> QED
        BY <2>1, <2>2, <3>2
    <2>3. CASE j # k
      <3>1. changed'[j] = changed[j]
        BY <1>1, <2>3
      <3>2. ASSUME NEW d \in Event, Carries(d, j) PROVE Carries(d, j)'
        <4>1. d \notin moved
          <5>1. row[d].key = j /\ row[d].status # "NONE"
            BY <3>2 DEF Carries
          <5> QED
            BY <2>3, <5>1 DEF HoldsKey
        <4>2. row'[d] = row[d]
          BY <1>2, <4>1
        <4>3. Limbo(d)' => Limbo(d)
          BY <4>2 DEF Limbo, OwnsLease
        <4> QED
          BY <3>1, <3>2, <4>2, <4>3 DEF Carries
      <3> QED
        BY <2>1, <3>1, <3>2 DEF Inv, ChangesCarried
    <2> QED
      BY <2>2, <2>3
  <1> QED
    BY <1>4, <1>5, <1>7, <1>8 DEF Inv, LeasesDiffer, TasksFinite, PermitsConserved

LEMMA PublishDebouncedStep ==
  ASSUME Inv, NEW k \in Key, PublishDebounced(k)
  PROVE  Inv'
  <1> DEFINE holders == {e \in Event : HoldsKey(e, k)}
  <1>1. CASE holders # {} /\ Move({e \in holders : row[e].status = "PENDING"}, k)
    <2>1. {e \in holders : row[e].status = "PENDING"} = holders
      BY DEF HoldsKey
    <2>2. Move(holders, k) /\ holders # {} /\ holders \in SUBSET Event
      BY <1>1, <2>1
    <2> QED
      BY <2>2, MovedStep DEF PublishDebounced
  <1>2. ASSUME NEW e \in Event, IsNext(e), Move({e}, k)
        PROVE  Inv'
    <2>1. PICK moved \in SUBSET Event : moved = {e}
      OBVIOUS
    <2>2. Move(moved, k)
      BY <1>2, <2>1
    <2>3. moved # {} /\ \A d \in moved : row[d].status = "NONE" \/ HoldsKey(d, k)
      BY <1>2, <2>1 DEF IsNext
    <2> QED
      BY <2>2, <2>3, MovedStep DEF PublishDebounced
  <1> QED
    BY <1>1, <1>2 DEF PublishDebounced

-----------------------------------------------------------------------------
(* Permits that change hands, leases that end, instances that crash.       *)

LEMMA DrainStep ==
  ASSUME Inv, NEW h \in Host, Drain(h)
  PROVE  Inv'
  <1>1. TypeOK'
    BY DEF Drain, Inv, TypeOK, work
  <1>2. PermitsConserved'
    BY DEF Drain, Inv, TypeOK, PermitsConserved
  <1>3. RowsHold' /\ TasksHold' /\ LeasesDiffer' /\ ChangesCarried' /\ TasksFinite'
    BY DEF Drain, Inv, RowsHold, TasksHold, ReadInTime, HasSuccessor, LeasesDiffer,
           ChangesCarried, Carries, Limbo, OwnsLease, TasksFinite, work
  <1> QED
    BY <1>1, <1>2, <1>3 DEF Inv

LEMMA ClaimFailsStep ==
  ASSUME Inv, NEW h \in Host, ClaimFails(h)
  PROVE  Inv'
  <1>1. ASSUME NEW g \in Host
        PROVE  /\ permits'[g] \in 0 .. Concurrency /\ batch'[g] \in 0 .. Concurrency
               /\ permits'[g] + batch'[g] = permits[g] + batch[g]
    <2>1. /\ permits[g] \in 0 .. Concurrency /\ batch[g] \in 0 .. Concurrency
          /\ Cardinality(TasksOf(g)) \in Nat
          /\ permits[g] + batch[g] + Cardinality(TasksOf(g)) = Concurrency
      BY TasksOfFacts DEF Inv, TypeOK, PermitsConserved, TasksOf
    <2>2. /\ permits'[g] = IF g = h THEN permits[g] + batch[g] ELSE permits[g]
          /\ batch'[g] = IF g = h THEN 0 ELSE batch[g]
      BY DEF ClaimFails, Inv, TypeOK
    <2> QED
      BY <2>1, <2>2
  <1>2. permits' = [g \in Host |-> permits'[g]] /\ batch' = [g \in Host |-> batch'[g]]
    BY DEF ClaimFails, Inv, TypeOK
  <1>3. TypeOK'
    BY <1>1, <1>2 DEF ClaimFails, Inv, TypeOK, work
  <1>4. PermitsConserved'
    BY <1>1 DEF ClaimFails, Inv, PermitsConserved
  <1>5. RowsHold' /\ TasksHold' /\ LeasesDiffer' /\ ChangesCarried' /\ TasksFinite'
    BY DEF ClaimFails, Inv, RowsHold, TasksHold, ReadInTime, HasSuccessor, LeasesDiffer,
           ChangesCarried, Carries, Limbo, OwnsLease, TasksFinite, work
  <1> QED
    BY <1>3, <1>4, <1>5 DEF Inv

Expired(r) == [r EXCEPT !.due = TRUE]

LEMMA ComesDueStep ==
  ASSUME Inv, NEW e \in Event, ComesDue(e)
  PROVE  Inv'
  <1>1. /\ row' \in [Event -> Row]
        /\ \A d \in Event : /\ row'[d].status = row[d].status
                            /\ row'[d].key = row[d].key
                            /\ row'[d].attempts = row[d].attempts
        /\ \A d \in Event : row[d].status = "NONE" => row'[d] = row[d]
    <2>1. row \in [Event -> Row] /\ row' = [row EXCEPT ![e] = Expired(row[e])]
      BY DEF ComesDue, Inv, TypeOK, Expired
    <2>2. Expired(row[e]) \in Row /\ Expired(row[e]).status = row[e].status /\
          Expired(row[e]).key = row[e].key /\ Expired(row[e]).attempts = row[e].attempts
      BY <2>1 DEF Row, Expired
    <2>3. row[e].status # "NONE"
      BY DEF ComesDue
    <2> QED
      BY <2>1, <2>2, <2>3
  <1>2. UNCHANGED <<tasks, permits, batch, failures, changed, covers, done>>
    BY DEF ComesDue, work
  <1>3. TypeOK' /\ LeasesDiffer' /\ TasksFinite' /\ PermitsConserved'
    BY <1>1, <1>2 DEF Inv, TypeOK, LeasesDiffer, TasksFinite, PermitsConserved
  <1>4. RowsHold'
    BY <1>1, <1>2 DEF Inv, RowsHold
  <1>5. TasksHold'
    <2> SUFFICES ASSUME NEW t \in tasks
                 PROVE  /\ row'[t.event].status # "NONE"
                        /\ t.lease <= row'[t.event].attempts
                        /\ t.superseded => HasSuccessor(t.event)'
                        /\ ReadInTime(t)'
      BY <1>2 DEF TasksHold
    <2>1. t.event \in Event
      BY TypesOfTask
    <2>2. HasSuccessor(t.event) => HasSuccessor(t.event)'
      BY <1>1, <2>1 DEF HasSuccessor
    <2>3. ReadInTime(t) => ReadInTime(t)'
      BY <1>1, <1>2, <2>1 DEF ReadInTime
    <2> QED
      BY <1>1, <2>1, <2>2, <2>3 DEF Inv, TasksHold
  <1>6. ASSUME NEW d \in Event, NEW k \in Key, Carries(d, k) PROVE Carries(d, k)'
    BY <1>1, <1>2, <1>6 DEF Carries, Limbo, OwnsLease
  <1>7. ChangesCarried'
    BY <1>2, <1>6 DEF Inv, ChangesCarried
  <1> QED
    BY <1>3, <1>4, <1>5, <1>7 DEF Inv

LEMMA CrashStep ==
  ASSUME Inv, NEW h \in Host, Crash(h)
  PROVE  Inv'
  <1>1. tasks' \subseteq tasks /\ UNCHANGED <<row, failures, changed, covers, done>>
    BY DEF Crash, work
  <1>2. TypeOK'
    BY <1>1 DEF Crash, Inv, TypeOK
  <1>3. TasksFinite' /\ LeasesDiffer'
    BY <1>1, FS_Subset DEF Inv, TasksFinite, LeasesDiffer
  <1>4. ASSUME NEW g \in Host
        PROVE  permits'[g] + batch'[g] + Cardinality(TasksOf(g)') = Concurrency
    <2>1. CASE g = h
      <3>1. TasksOf(g)' = {}
        BY <2>1 DEF TasksOf, Crash
      <3>2. permits'[g] = Concurrency /\ batch'[g] = 0
        BY <2>1 DEF Crash, Inv, TypeOK
      <3> QED
        BY <3>1, <3>2, FS_EmptySet
    <2>2. CASE g # h
      <3>1. TasksOf(g)' = TasksOf(g)
        BY <2>2 DEF TasksOf, Crash
      <3>2. permits'[g] = permits[g] /\ batch'[g] = batch[g]
        BY <2>2 DEF Crash, Inv, TypeOK
      <3> QED
        BY <3>1, <3>2 DEF Inv, PermitsConserved, TasksOf
    <2> QED
      BY <2>1, <2>2
  <1>5. PermitsConserved'
    BY <1>4 DEF PermitsConserved, TasksOf
  <1>6. TasksHold'
    BY <1>1 DEF Inv, TasksHold, ReadInTime, HasSuccessor
  <1>7. ASSUME NEW e \in Event, NEW k \in Key, Carries(e, k) PROVE Carries(e, k)'
    BY <1>1, <1>7 DEF Carries, Limbo, OwnsLease
  <1>8. ChangesCarried'
    BY <1>1, <1>7 DEF Inv, ChangesCarried
  <1> QED
    BY <1>1, <1>2, <1>3, <1>5, <1>6, <1>8, RowsUntouched DEF Inv

-----------------------------------------------------------------------------
(* Claims.  A poll is never given more events than it has permits for: the *)
(* claimable events it finds are numbered by age, from 1 to n.             *)

LEMMA FoundAtMost ==
  ASSUME NEW n \in Nat
  PROVE  IsFiniteSet(Found(n)) /\ Cardinality(Found(n)) <= n
  <1> DEFINE R(e) == {d \in Event : IsClaimable(d) /\ d <= e}
             f == [e \in Found(n) |-> Cardinality(R(e))]
  <1>1. ASSUME NEW e \in Event
        PROVE  IsFiniteSet(R(e)) /\ Cardinality(R(e)) \in Nat
    BY FS_Subset, FS_CardinalityType
  <1>2. ASSUME NEW e \in Found(n)
        PROVE  e \in Event /\ IsClaimable(e) /\ Cardinality(R(e)) \in 1 .. n
    <2>1. e \in Event /\ IsClaimable(e) /\ Cardinality(R(e)) <= n
      BY DEF Found
    <2>2. R(e) # {}
      BY <2>1
    <2> QED
      BY <1>1, <2>1, <2>2, FS_EmptySet
  <1>3. ASSUME NEW d \in Found(n), NEW e \in Found(n), d < e
        PROVE  Cardinality(R(d)) # Cardinality(R(e))
    <2>0. d \in Nat /\ e \in Nat /\ e \in Event /\ IsClaimable(e)
      BY <1>2
    <2>1. R(d) \subseteq R(e) /\ e \in R(e) /\ e \notin R(d)
      <3>1. ASSUME NEW c \in R(d) PROVE c \in R(e)
        BY <1>3, <2>0
      <3>2. e \in R(e)
        BY <2>0
      <3>3. e \notin R(d)
        BY <1>3, <2>0
      <3> HIDE DEF R
      <3> QED
        BY <3>1, <3>2, <3>3
    <2>2. IsFiniteSet(R(e))
      BY <1>1, <1>2
    <2> HIDE DEF R
    <2> QED
      BY <2>1, <2>2, FS_Subset
  <1> HIDE DEF R
  <1>4. ASSUME NEW d \in Found(n), NEW e \in Found(n), f[d] = f[e]
        PROVE  d = e
    <2>1. d \in Nat /\ e \in Nat
      BY <1>2
    <2>2. ~(d < e) /\ ~(e < d)
      BY <1>3, <1>4
    <2> QED
      BY <2>1, <2>2
  <1>5. f \in [Found(n) -> 1 .. n]
    BY <1>2
  <1> HIDE DEF f
  <1>6. f \in Injection(Found(n), 1 .. n)
    BY <1>4, <1>5 DEF Injection, IsInjective
  <1>7. IsFiniteSet(1 .. n) /\ Cardinality(1 .. n) = n
    BY FS_Interval
  <1> QED
    BY <1>6, <1>7, FS_Injection

LEMMA AttemptsAreNat ==
  ASSUME Inv, NEW e \in Event
  PROVE  row[e].attempts \in Nat
  BY DEF Inv, TypeOK, Row

NewTask(e, h) ==
  [event |-> e, lease |-> row[e].attempts + 1, host |-> h, step |-> "queued",
   saw |-> 0, fatal |-> FALSE, superseded |-> FALSE]

NewTasks(C, h) == {NewTask(e, h) : e \in C}

(* Every claim hands out a lease that the event never had. *)
LEMMA NewTasksAreNew ==
  ASSUME Inv, NEW h \in Host, NEW C \in SUBSET Event,
         \A e \in C : row[e].attempts < MaxAttempts
  PROVE  /\ NewTasks(C, h) \subseteq Task
         /\ IsFiniteSet(NewTasks(C, h))
         /\ Cardinality(NewTasks(C, h)) = Cardinality(C)
         /\ \A t \in NewTasks(C, h) :
              /\ t.event \in C /\ t = NewTask(t.event, h)
              /\ t.host = h /\ t.lease = row[t.event].attempts + 1
              /\ t.step = "queued" /\ t.saw = 0 /\ ~t.superseded
         /\ \A u \in tasks, t \in NewTasks(C, h) : u.event = t.event => u.lease # t.lease
         /\ NewTasks(C, h) \cap tasks = {}
  <1>1. \A e \in Event : row[e].attempts \in 0 .. MaxAttempts
    BY DEF Inv, TypeOK, Row
  <1>2. ASSUME NEW e \in C
        PROVE  /\ NewTask(e, h) \in Task /\ NewTask(e, h).event = e
               /\ NewTask(e, h).host = h /\ NewTask(e, h).lease = row[e].attempts + 1
               /\ NewTask(e, h).step = "queued" /\ NewTask(e, h).saw = 0
               /\ ~NewTask(e, h).superseded
    <2>1. row[e].attempts + 1 \in 1 .. MaxAttempts
      BY <1>1
    <2> QED
      BY <2>1 DEF NewTask, Task
  <1>3. ASSUME NEW t \in NewTasks(C, h)
        PROVE  /\ t \in Task /\ t.event \in C /\ t = NewTask(t.event, h)
               /\ t.host = h /\ t.lease = row[t.event].attempts + 1
               /\ t.step = "queued" /\ t.saw = 0 /\ ~t.superseded
    <2>1. PICK e \in C : t = NewTask(e, h)
      BY DEF NewTasks
    <2> QED
      BY <1>2, <2>1
  <1>4. ASSUME NEW u \in tasks, NEW t \in NewTasks(C, h), u.event = t.event
        PROVE  u.lease # t.lease
    <2>1. u.lease <= row[u.event].attempts
      BY DEF Inv, TasksHold
    <2>2. u.event \in Event /\ u.lease \in Nat
      BY TypesOfTask
    <2>3. t.lease = row[t.event].attempts + 1
      BY <1>3
    <2>4. row[u.event].attempts \in Nat
      BY <2>2, AttemptsAreNat
    <2> QED
      BY <1>4, <2>1, <2>2, <2>3, <2>4
  <1>5. IsFiniteSet(NewTasks(C, h)) /\ Cardinality(NewTasks(C, h)) = Cardinality(C)
    <2> DEFINE g == [e \in C |-> NewTask(e, h)]
    <2>1. g \in [C -> NewTasks(C, h)]
      BY DEF NewTasks
    <2>2. \A d, e \in C : g[d] = g[e] => d = e
      BY <1>2
    <2>3. \A t \in NewTasks(C, h) : \E e \in C : g[e] = t
      BY DEF NewTasks
    <2> HIDE DEF g
    <2>4. g \in Bijection(C, NewTasks(C, h))
      BY <2>1, <2>2, <2>3 DEF Bijection, Injection, IsInjective, Surjection
    <2>5. IsFiniteSet(C) /\ ExistsBijection(C, NewTasks(C, h))
      BY <2>4, FS_Subset DEF ExistsBijection
    <2> QED
      BY <2>5, FS_Bijection
  <1> QED
    BY <1>3, <1>4, <1>5

(* What a claim does, event by event: it fails those of X, their attempts  *)
(* being used up, and hands out those of C.                                *)
Claims(h, X, C) ==
  /\ \A e \in X : row[e].status = "PROCESSING"
  /\ \A e \in C : row[e].status \in {"PENDING", "PROCESSING"} /\ row[e].attempts < MaxAttempts
  /\ X \cap C = {}
  /\ IsFiniteSet(C) /\ Cardinality(C) <= batch[h]
  /\ row' \in [Event -> Row]
  /\ \A e \in Event : row'[e].key = row[e].key
  /\ \A e \in X : row'[e].status = "FAILED" /\ row'[e].attempts = row[e].attempts
  /\ \A e \in C : row'[e].status = "PROCESSING" /\ row'[e].attempts = row[e].attempts + 1
  /\ \A e \in Event \ (X \cup C) : row'[e] = row[e]
  /\ tasks' = tasks \cup NewTasks(C, h)
  /\ failures' \in [Event -> Nat]
  /\ \A e \in X : failures'[e] = failures[e] + 1
  /\ \A e \in Event \ X : failures'[e] = failures[e]
  /\ permits' = [permits EXCEPT ![h] = @ + (batch[h] - Cardinality(C))]
  /\ batch' = [batch EXCEPT ![h] = 0]
  /\ covers' \in [Event -> 0 .. MaxChanges]
  /\ \A e \in C : row[e].key \in Key => covers'[e] = changed[row[e].key]
  /\ \A e \in Event : covers'[e] = covers[e] \/ (e \in C /\ row[e].key \in Key)
  /\ UNCHANGED <<changed, done>>

FailedRow(r) == [r EXCEPT !.status = "FAILED", !.due = FALSE]
ClaimedRow(r) == [r EXCEPT !.status = "PROCESSING", !.attempts = @ + 1, !.due = FALSE]

LEMMA RowsOfClaim ==
  ASSUME NEW r \in Row
  PROVE  /\ FailedRow(r) \in Row /\ FailedRow(r).status = "FAILED"
         /\ FailedRow(r).key = r.key /\ FailedRow(r).attempts = r.attempts
         /\ ClaimedRow(r).status = "PROCESSING"
         /\ ClaimedRow(r).key = r.key /\ ClaimedRow(r).attempts = r.attempts + 1
         /\ r.attempts < MaxAttempts => ClaimedRow(r) \in Row
  <1>1. FailedRow(r) \in Row /\ FailedRow(r).status = "FAILED"
        /\ FailedRow(r).key = r.key /\ FailedRow(r).attempts = r.attempts
    BY DEF Row, Status, Ended, FailedRow
  <1>2. /\ ClaimedRow(r).status = "PROCESSING"
        /\ ClaimedRow(r).key = r.key /\ ClaimedRow(r).attempts = r.attempts + 1
    BY DEF Row, ClaimedRow
  <1>3. ASSUME r.attempts < MaxAttempts PROVE ClaimedRow(r) \in Row
    <2>1. r.attempts + 1 \in 0 .. MaxAttempts
      BY <1>3 DEF Row
    <2> QED
      BY <2>1 DEF Row, Status, ClaimedRow
  <1> QED
    BY <1>1, <1>2, <1>3

LEMMA ClaimClaims ==
  ASSUME Inv, NEW h \in Host, Claim(h)
  PROVE  \E X, C \in SUBSET Event : Claims(h, X, C)
  <1> DEFINE found == Found(batch[h])
  <1>1. PICK X \in SUBSET Event : X = {e \in found : IsExhausted(e)}
    BY DEF Found
  <1>2. PICK C \in SUBSET Event : C = found \ {e \in found : IsExhausted(e)}
    BY DEF Found
  <1>3. /\ row \in [Event -> Row] /\ failures \in [Event -> Nat]
        /\ changed \in [Key -> 0 .. MaxChanges] /\ covers \in [Event -> 0 .. MaxChanges]
        /\ batch[h] \in Nat
    BY DEF Inv, TypeOK
  <1>4. /\ \A e \in X : row[e].status \in {"PENDING", "PROCESSING"} /\ row[e].attempts >= MaxAttempts
        /\ \A e \in C : /\ row[e].status \in {"PENDING", "PROCESSING"}
                       /\ ~(row[e].attempts >= MaxAttempts)
        /\ X \cap C = {}
    BY <1>1, <1>2 DEF Found, IsClaimable, IsExhausted
  <1>5. \A e \in Event : row[e].attempts \in 0 .. MaxAttempts
    BY <1>3 DEF Row
  <1>6. ASSUME NEW e \in X PROVE row[e].status = "PROCESSING"
    <2>1. row[e].status = "PENDING" => row[e].attempts < MaxAttempts
      BY DEF Inv, RowsHold
    <2>2. row[e].attempts \in Nat /\ row[e].attempts >= MaxAttempts
      BY <1>4, <1>5
    <2> QED
      BY <1>4, <2>1, <2>2
  <1>7. \A e \in C : row[e].attempts < MaxAttempts
    BY <1>4, <1>5
  <1>8. IsFiniteSet(C) /\ Cardinality(C) <= batch[h]
    <2>1. IsFiniteSet(found) /\ Cardinality(found) <= batch[h] /\ C \subseteq found
      BY <1>2, <1>3, FoundAtMost
    <2>2. IsFiniteSet(C) /\ Cardinality(C) <= Cardinality(found)
      BY <2>1, FS_Subset
    <2>3. Cardinality(C) \in Nat /\ Cardinality(found) \in Nat
      BY <2>1, <2>2, FS_CardinalityType
    <2> QED
      BY <1>3, <2>1, <2>2, <2>3
  <1>9. row' = [e \in Event |-> IF e \in X THEN FailedRow(row[e])
                               ELSE IF e \in C THEN ClaimedRow(row[e]) ELSE row[e]]
    BY <1>1, <1>2, Zenon DEF Claim, FailedRow, ClaimedRow
  <1>10. /\ tasks' = tasks \cup NewTasks(C, h)
         /\ failures' = [e \in Event |-> IF e \in X THEN failures[e] + 1 ELSE failures[e]]
         /\ permits' = [permits EXCEPT ![h] = @ + (batch[h] - Cardinality(C))]
         /\ batch' = [batch EXCEPT ![h] = 0]
         /\ covers' = [e \in Event |->
                        IF e \in C /\ row[e].key \in Key THEN changed[row[e].key] ELSE covers[e]]
         /\ UNCHANGED <<changed, done>>
    BY <1>1, <1>2, Zenon DEF Claim, NewTasks, NewTask, Unused
  <1>11. /\ \A e \in Event : row'[e] \in Row /\ row'[e].key = row[e].key
         /\ \A e \in X : row'[e].status = "FAILED" /\ row'[e].attempts = row[e].attempts
         /\ \A e \in C : row'[e].status = "PROCESSING" /\ row'[e].attempts = row[e].attempts + 1
         /\ \A e \in Event \ (X \cup C) : row'[e] = row[e]
    BY <1>3, <1>4, <1>7, <1>9, RowsOfClaim
  <1>12. row' \in [Event -> Row]
    <2>1. row' = [e \in Event |-> row'[e]]
      BY <1>9
    <2> QED
      BY <1>11, <2>1
  <1>13. /\ failures' \in [Event -> Nat]
         /\ \A e \in X : failures'[e] = failures[e] + 1
         /\ \A e \in Event \ X : failures'[e] = failures[e]
    BY <1>3, <1>10
  <1>14. /\ covers' \in [Event -> 0 .. MaxChanges]
         /\ \A e \in C : row[e].key \in Key => covers'[e] = changed[row[e].key]
         /\ \A e \in Event : covers'[e] = covers[e] \/ (e \in C /\ row[e].key \in Key)
    BY <1>3, <1>10
  <1> HIDE DEF found
  <1>15. Claims(h, X, C)
    BY <1>4, <1>6, <1>7, <1>8, <1>10, <1>11, <1>12, <1>13, <1>14 DEF Claims
  <1> QED
    BY <1>15

LEMMA ClaimKeepsRows ==
  ASSUME Inv, NEW h \in Host, NEW X \in SUBSET Event, NEW C \in SUBSET Event, Claims(h, X, C)
  PROVE  RowsHold'
  <1> SUFFICES ASSUME NEW e \in Event
               PROVE  /\ row'[e].status = "NONE" => row'[e] = NoEvent /\ covers'[e] = 0
                      /\ row'[e].status = "PENDING" => row'[e].attempts < MaxAttempts
                      /\ row'[e].status = "PROCESSING" => row'[e].attempts > 0
                      /\ row'[e].status # "FAILED" => failures'[e] = 0
                      /\ row'[e].key \in Key => covers'[e] <= changed'[row'[e].key]
    BY DEF RowsHold
  <1>1. /\ row[e].status = "NONE" => row[e] = NoEvent /\ covers[e] = 0
        /\ row[e].status = "PENDING" => row[e].attempts < MaxAttempts
        /\ row[e].status = "PROCESSING" => row[e].attempts > 0
        /\ row[e].status # "FAILED" => failures[e] = 0
        /\ row[e].key \in Key => covers[e] <= changed[row[e].key]
    BY DEF Inv, RowsHold
  <1>2. row'[e].key \in Key => covers'[e] <= changed'[row'[e].key]
    <2>1. \A k \in Key : changed[k] \in Nat
      BY DEF Inv, TypeOK
    <2>2. CASE covers'[e] = covers[e]
      BY <1>1, <2>2 DEF Claims
    <2>3. CASE covers'[e] # covers[e]
      <3>1. e \in C /\ row[e].key \in Key /\ covers'[e] = changed[row[e].key]
        BY <2>3 DEF Claims
      <3>2. changed' = changed /\ row'[e].key = row[e].key
        BY DEF Claims
      <3>3. PICK n \in Nat : n = changed[row[e].key]
        BY <2>1, <3>1
      <3> QED
        BY <3>1, <3>2, <3>3
    <2> QED
      BY <2>2, <2>3
  <1>3. CASE e \in X
    BY <1>2, <1>3 DEF Claims
  <1>4. CASE e \in C
    <2>1. row[e].attempts \in Nat
      BY DEF Inv, TypeOK, Row
    <2>2. row[e].status # "FAILED" /\ e \notin X
      BY <1>4 DEF Claims
    <2>3. row'[e].attempts > 0 /\ row'[e].status = "PROCESSING" /\ failures'[e] = 0
      BY <1>1, <1>4, <2>1, <2>2 DEF Claims
    <2> QED
      BY <1>2, <2>3
  <1>5. CASE e \notin X /\ e \notin C
    BY <1>1, <1>2, <1>5 DEF Claims
  <1> QED
    BY <1>3, <1>4, <1>5

LEMMA ClaimKeepsTasks ==
  ASSUME Inv, NEW h \in Host, NEW X \in SUBSET Event, NEW C \in SUBSET Event, Claims(h, X, C)
  PROVE  tasks' \subseteq Task /\ TasksHold' /\ LeasesDiffer' /\ TasksFinite'
  <1>1. /\ NewTasks(C, h) \subseteq Task
        /\ IsFiniteSet(NewTasks(C, h))
        /\ \A t \in NewTasks(C, h) :
             /\ t.event \in C /\ t = NewTask(t.event, h)
             /\ t.lease = row[t.event].attempts + 1
             /\ t.step = "queued" /\ t.saw = 0 /\ ~t.superseded
        /\ \A u \in tasks, t \in NewTasks(C, h) : u.event = t.event => u.lease # t.lease
    BY NewTasksAreNew DEF Claims
  <1>2. tasks' \subseteq Task
    BY <1>1 DEF Claims, Inv, TypeOK
  <1>3. TasksFinite'
    BY <1>1, FS_Union DEF Claims, Inv, TasksFinite
  <1>4. LeasesDiffer'
    <2> SUFFICES ASSUME NEW t \in tasks', NEW u \in tasks', t.event = u.event, t.lease = u.lease
                 PROVE  t = u
      BY DEF LeasesDiffer
    <2>1. CASE t \in tasks /\ u \in tasks
      BY <2>1 DEF Inv, LeasesDiffer
    <2>2. CASE t \in NewTasks(C, h) /\ u \in NewTasks(C, h)
      BY <1>1, <2>2
    <2>3. CASE (t \in tasks /\ u \in NewTasks(C, h)) \/ (u \in tasks /\ t \in NewTasks(C, h))
      BY <1>1, <2>3
    <2> QED
      BY <2>1, <2>2, <2>3 DEF Claims
  <1>5. TasksHold'
    <2> SUFFICES ASSUME NEW t \in tasks'
                 PROVE  /\ row'[t.event].status # "NONE"
                        /\ t.lease <= row'[t.event].attempts
                        /\ t.superseded => HasSuccessor(t.event)'
                        /\ ReadInTime(t)'
      BY DEF TasksHold
    <2>1. CASE t \in tasks
      <3>1. t.event \in Event /\ t.lease \in Nat
        BY <2>1, TypesOfTask
      <3>2. /\ row[t.event].status # "NONE" /\ t.lease <= row[t.event].attempts
            /\ t.superseded => HasSuccessor(t.event)
            /\ ReadInTime(t)
        BY <2>1 DEF Inv, TasksHold
      <3>3. row[t.event].attempts \in Nat
        BY <3>1, AttemptsAreNat
      <3>4. \A e \in Event : row[e].status # "NONE" => row'[e].status # "NONE"
        BY DEF Claims
      <3>5. HasSuccessor(t.event) => HasSuccessor(t.event)'
        BY <3>1, <3>4 DEF HasSuccessor, Claims
      <3>6. CASE t.event \in C
        <4>1. t.lease <= row'[t.event].attempts /\ t.lease # row'[t.event].attempts
          <5>1. row'[t.event].attempts = row[t.event].attempts + 1
            BY <3>6 DEF Claims
          <5> QED
            BY <3>1, <3>2, <3>3, <5>1
        <4>2. ReadInTime(t)'
          BY <3>1, <3>2, <4>1 DEF ReadInTime, Claims
        <4> QED
          BY <3>1, <3>2, <3>4, <3>5, <4>1, <4>2
      <3>7. CASE t.event \notin C
        <4>1. row'[t.event].attempts = row[t.event].attempts /\ covers'[t.event] = covers[t.event]
          BY <3>1, <3>7 DEF Claims
        <4>2. ReadInTime(t)'
          BY <3>1, <3>2, <4>1 DEF ReadInTime, Claims
        <4> QED
          BY <3>1, <3>2, <3>4, <3>5, <4>1, <4>2
      <3> QED
        BY <3>6, <3>7
    <2>2. CASE t \in NewTasks(C, h)
      <3>1. /\ t.event \in C /\ t.lease = row[t.event].attempts + 1
            /\ t.step = "queued" /\ t.saw = 0 /\ ~t.superseded
        BY <1>1, <2>2
      <3>2. row'[t.event].status = "PROCESSING" /\ row'[t.event].attempts = row[t.event].attempts + 1
        BY <3>1 DEF Claims
      <3>3. row[t.event].attempts \in Nat
        BY <3>1, AttemptsAreNat
      <3>4. \A k \in Key : 0 <= changed'[k]
        BY DEF Claims, Inv, TypeOK
      <3>5. ReadInTime(t)'
        BY <3>1, <3>4 DEF ReadInTime
      <3> QED
        BY <3>1, <3>2, <3>3, <3>5
    <2> QED
      BY <2>1, <2>2 DEF Claims
  <1> QED
    BY <1>2, <1>3, <1>4, <1>5

LEMMA ClaimKeepsChanges ==
  ASSUME Inv, NEW h \in Host, NEW X \in SUBSET Event, NEW C \in SUBSET Event, Claims(h, X, C)
  PROVE  ChangesCarried'
  <1>1. ASSUME NEW e \in Event, ~Limbo(e) PROVE ~Limbo(e)'
    <2> SUFFICES ASSUME NEW t \in tasks', t.event = e, OwnsLease(t)',
                        t.step = "recording", t.superseded
                 PROVE  FALSE
      BY DEF Limbo
    <2>1. t \in tasks
      BY NewTasksAreNew DEF Claims
    <2>2. t.lease <= row[e].attempts /\ t.lease \in Nat /\ row[e].attempts \in Nat
      <3>1. t.lease <= row[e].attempts
        BY <2>1 DEF Inv, TasksHold
      <3>2. t.lease \in Nat
        BY <2>1, TypesOfTask
      <3> QED
        BY <3>1, <3>2, AttemptsAreNat
    <2>3. e \notin C /\ e \notin X
      <3>1. row'[e].status = "PROCESSING" /\ row'[e].attempts = t.lease
        BY DEF OwnsLease
      <3>2. e \in C => row'[e].attempts = row[e].attempts + 1
        BY DEF Claims
      <3>3. e \in X => row'[e].status = "FAILED"
        BY DEF Claims
      <3> QED
        BY <2>2, <3>1, <3>2, <3>3
    <2>4. row'[e] = row[e]
      BY <2>3 DEF Claims
    <2> QED
      BY <1>1, <2>1, <2>4 DEF Limbo, OwnsLease
  <1>2. ASSUME NEW e \in Event, NEW k \in Key, Carries(e, k) PROVE Carries(e, k)'
    <2>1. ~Limbo(e)' /\ row'[e].key = k /\ changed' = changed
      BY <1>1, <1>2 DEF Carries, Claims
    <2>2. CASE e \in X
      <3>1. failures'[e] > 0
        BY <2>2 DEF Claims, Inv, TypeOK
      <3> QED
        BY <1>2, <2>1, <2>2, <3>1 DEF Carries, Claims
    <2>3. CASE e \in C
      BY <1>2, <2>1, <2>3 DEF Carries, Claims
    <2>4. CASE e \notin X /\ e \notin C
      BY <1>2, <2>1, <2>4 DEF Carries, Claims
    <2> QED
      BY <2>2, <2>3, <2>4
  <1> QED
    BY <1>2 DEF Claims, Inv, ChangesCarried

LEMMA ClaimKeepsPermits ==
  ASSUME Inv, NEW h \in Host, NEW X \in SUBSET Event, NEW C \in SUBSET Event, Claims(h, X, C)
  PROVE  /\ permits' \in [Host -> 0 .. Concurrency] /\ batch' \in [Host -> 0 .. Concurrency]
         /\ PermitsConserved'
  <1>1. /\ IsFiniteSet(NewTasks(C, h)) /\ Cardinality(NewTasks(C, h)) = Cardinality(C)
        /\ \A t \in NewTasks(C, h) : t.host = h
        /\ NewTasks(C, h) \cap tasks = {}
    <2>1. \A e \in C : row[e].attempts < MaxAttempts
      BY DEF Claims
    <2> QED
      BY <2>1, NewTasksAreNew
  <1>2. Cardinality(C) \in Nat /\ Cardinality(C) <= batch[h]
    BY FS_CardinalityType DEF Claims
  <1>3. ASSUME NEW g \in Host
        PROVE  /\ permits'[g] \in 0 .. Concurrency /\ batch'[g] \in 0 .. Concurrency
               /\ permits'[g] + batch'[g] + Cardinality(TasksOf(g)') = Concurrency
    <2>1. /\ permits[g] \in 0 .. Concurrency /\ batch[g] \in 0 .. Concurrency
          /\ IsFiniteSet(TasksOf(g)) /\ Cardinality(TasksOf(g)) \in Nat
          /\ permits[g] + batch[g] + Cardinality(TasksOf(g)) = Concurrency
      BY TasksOfFacts DEF Inv, TypeOK, PermitsConserved, TasksOf
    <2>2. CASE g = h
      <3>1. TasksOf(g)' = TasksOf(g) \cup NewTasks(C, h)
        BY <1>1, <2>2 DEF TasksOf, Claims
      <3>2. TasksOf(g) \cap NewTasks(C, h) = {}
        BY <1>1 DEF TasksOf
      <3>3. Cardinality(TasksOf(g)') = Cardinality(TasksOf(g)) + Cardinality(C)
        <4>1. Cardinality(TasksOf(g) \cup NewTasks(C, h)) =
                Cardinality(TasksOf(g)) + Cardinality(NewTasks(C, h)) - Cardinality({})
          BY <1>1, <2>1, <3>2, FS_Union
        <4> QED
          BY <1>1, <1>2, <2>1, <3>1, <4>1, FS_EmptySet
      <3>4. permits'[g] = permits[g] + (batch[g] - Cardinality(C)) /\ batch'[g] = 0
        BY <2>2 DEF Claims, Inv, TypeOK
      <3> QED
        BY <1>2, <2>1, <2>2, <3>3, <3>4
    <2>3. CASE g # h
      <3>1. TasksOf(g)' = TasksOf(g)
        BY <1>1, <2>3 DEF TasksOf, Claims
      <3>2. permits'[g] = permits[g] /\ batch'[g] = batch[g]
        BY <2>3 DEF Claims, Inv, TypeOK
      <3> QED
        BY <2>1, <3>1, <3>2
    <2> QED
      BY <2>2, <2>3
  <1>4. permits' = [g \in Host |-> permits'[g]] /\ batch' = [g \in Host |-> batch'[g]]
    BY DEF Claims, Inv, TypeOK
  <1> QED
    BY <1>3, <1>4 DEF PermitsConserved, TasksOf

LEMMA ClaimStep ==
  ASSUME Inv, NEW h \in Host, Claim(h)
  PROVE  Inv'
  <1>1. PICK X \in SUBSET Event, C \in SUBSET Event : Claims(h, X, C)
    BY ClaimClaims
  <1>2. tasks' \subseteq Task /\ TasksHold' /\ LeasesDiffer' /\ TasksFinite'
    BY <1>1, ClaimKeepsTasks
  <1>3. /\ permits' \in [Host -> 0 .. Concurrency] /\ batch' \in [Host -> 0 .. Concurrency]
        /\ PermitsConserved'
    BY <1>1, ClaimKeepsPermits
  <1>4. RowsHold' /\ ChangesCarried'
    BY <1>1, ClaimKeepsRows, ClaimKeepsChanges
  <1>5. TypeOK'
    BY <1>1, <1>2, <1>3 DEF Claims, Inv, TypeOK
  <1> QED
    BY <1>2, <1>3, <1>4, <1>5 DEF Inv

-----------------------------------------------------------------------------
(* The invariance.                                                         *)

LEMMA NextInv == Inv /\ [Next]_vars => Inv'
  <1> SUFFICES ASSUME Inv, [Next]_vars PROVE Inv'
    OBVIOUS
  <1>1. ASSUME NEW e \in Event, Publish(e) PROVE Inv'
    BY <1>1, PublishStep
  <1>2. ASSUME NEW k \in Key, PublishDebounced(k) PROVE Inv'
    BY <1>2, PublishDebouncedStep
  <1>3. ASSUME NEW h \in Host, Drain(h) PROVE Inv'
    BY <1>3, DrainStep
  <1>4. ASSUME NEW h \in Host, Claim(h) PROVE Inv'
    BY <1>4, ClaimStep
  <1>5. ASSUME NEW h \in Host, ClaimFails(h) PROVE Inv'
    BY <1>5, ClaimFailsStep
  <1>6. ASSUME NEW t \in tasks, Process(t) PROVE Inv'
    BY <1>6, ProcessStep
  <1>7. ASSUME NEW e \in Event, ComesDue(e) PROVE Inv'
    BY <1>7, ComesDueStep
  <1>8. ASSUME NEW h \in Host, Crash(h) PROVE Inv'
    BY <1>8, CrashStep
  <1>9. CASE UNCHANGED vars
    BY <1>9 DEF vars, Inv, TypeOK, RowsHold, TasksHold, ReadInTime, HasSuccessor, LeasesDiffer,
                ChangesCarried, Carries, Limbo, OwnsLease, TasksFinite, PermitsConserved
  <1> QED
    BY <1>1, <1>2, <1>3, <1>4, <1>5, <1>6, <1>7, <1>8, <1>9 DEF Next

(* The inductive invariant holds: claims, retries, late workers and crashes *)
(* of any number of instances in any order keep it.                         *)
THEOREM Invariance == Spec => []Inv
  BY InitInv, NextInv, PTL DEF Spec

(* The state of the outbox is well typed: attempts stay within MaxAttempts, *)
(* an instance never has more permits than Concurrency.                     *)
THEOREM TypeCorrect == Spec => []TypeOK
  <1>1. Inv => TypeOK
    BY DEF Inv
  <1> QED
    BY <1>1, Invariance, PTL

(* OutboxPoller never leaks a permit and never has more tasks than permits, *)
(* whatever is rejected, breaks or loses its lease.                         *)
THEOREM PermitsAlwaysConserved == Spec => []PermitsConserved
  <1>1. Inv => PermitsConserved
    BY DEF Inv
  <1> QED
    BY <1>1, Invariance, PTL

(* Debouncing loses no change: the latest change published under a key is  *)
(* done, waits, is in process or has failed with its consequence drawn.    *)
THEOREM NoChangeEverLost == Spec => []NoChangeLost
  <1>1. Inv => NoChangeLost
    BY DEF Inv, ChangesCarried, NoChangeLost, Carries
  <1> QED
    BY <1>1, Invariance, PTL

-----------------------------------------------------------------------------
(* Who ends an event.                                                      *)

(* A row that keeps its status while it is being processed. *)
LEMMA ProcessingStays ==
  ASSUME Inv, [Next]_vars, NEW e \in Event,
         row[e].status = "PROCESSING", ~row[e].due, row'[e].status # "PROCESSING"
  PROVE  \E t \in tasks : t.event = e /\ t.lease = row[e].attempts /\ (Complete(t) \/ RecordFailure(t))
  <1>0. row \in [Event -> Row]
    BY DEF Inv, TypeOK
  <1>1. row' # row
    OBVIOUS
  <1>2. ASSUME NEW d \in Event, Publish(d) PROVE FALSE
    <2>1. row[d].status = "NONE" /\ row' = [row EXCEPT ![d] = row'[d]]
      BY <1>0, <1>2 DEF Publish, IsNext
    <2> QED
      BY <1>0, <2>1
  <1>3. ASSUME NEW k \in Key, PublishDebounced(k) PROVE FALSE
    <2>1. ASSUME NEW moved, Move(moved, k), e \notin moved PROVE row'[e] = row[e]
      BY <2>1, Zenon DEF Move
    <2>2. e \notin {d \in {d \in Event : HoldsKey(d, k)} : row[d].status = "PENDING"}
      OBVIOUS
    <2>3. \A d \in Event : IsNext(d) => e \notin {d}
      BY DEF IsNext
    <2> QED
      BY <1>3, <2>1, <2>2, <2>3 DEF PublishDebounced
  <1>4. ASSUME NEW h \in Host, Claim(h) PROVE FALSE
    <2>1. e \notin Found(batch[h])
      BY DEF Found, IsClaimable
    <2>2. row'[e] = row[e]
      BY <1>4, <2>1, Zenon DEF Claim
    <2> QED
      BY <2>2
  <1>5. ASSUME NEW h \in Host, Drain(h) \/ ClaimFails(h) \/ Crash(h) PROVE FALSE
    BY <1>1, <1>5 DEF Drain, ClaimFails, Crash
  <1>6. ASSUME NEW d \in Event, ComesDue(d) PROVE FALSE
    BY <1>0, <1>6 DEF ComesDue, Row
  <1>7. ASSUME NEW t \in tasks, Process(t)
        PROVE  t.event = e /\ t.lease = row[e].attempts /\ (Complete(t) \/ RecordFailure(t))
    <2>1. Complete(t) \/ RecordFailure(t)
      BY <1>1, <1>7 DEF Process, Reject, Handle, Handled, Throws, ReadToComplete, ReadToRecord, Breaks
    <2>2. SameVersion(t)
      BY <1>1, <2>1 DEF Complete, RecordFailure
    <2>3. \E s : row' = [row EXCEPT ![t.event].status = s, ![t.event].due = FALSE]
      BY <1>1, <2>1 DEF Complete, RecordFailure
    <2>4. t.event = e
      BY <1>0, <2>3, TypesOfTask
    <2> QED
      BY <2>1, <2>2, <2>4 DEF SameVersion, OwnsLease
  <1> QED
    BY <1>1, <1>2, <1>3, <1>4, <1>5, <1>6, <1>7 DEF Next, vars

(* A live lease is fenced: only its holder ends or returns the event. *)
THEOREM OnlyHoldersEnd == Spec => EndedByHolder
  <1>1. Inv /\ [Next]_vars =>
          [\A e \in Event :
             row[e].status = "PROCESSING" /\ ~row[e].due /\ row'[e].status # "PROCESSING" =>
               \E t \in tasks :
                 /\ t.event = e /\ t.lease = row[e].attempts
                 /\ Complete(t) \/ RecordFailure(t)]_vars
    BY ProcessingStays
  <1> QED
    BY <1>1, Invariance, PTL DEF EndedByHolder, Spec

-----------------------------------------------------------------------------
(* The events implement durable jobs.                                      *)

StateOf(s, n) ==
  CASE s = "NONE" -> "none"
    [] s \in {"PENDING", "PROCESSING"} -> "waiting"
    [] s = "COMPLETED" -> "done"
    [] s = "FAILED" -> IF n > 0 THEN "failed" ELSE "superseded"

LEMMA StateOfFacts ==
  ASSUME NEW n
  PROVE  /\ StateOf("NONE", n) = "none"
         /\ StateOf("PENDING", n) = "waiting"
         /\ StateOf("PROCESSING", n) = "waiting"
         /\ StateOf("COMPLETED", n) = "done"
         /\ n > 0 => StateOf("FAILED", n) = "failed"
         /\ ~(n > 0) => StateOf("FAILED", n) = "superseded"
  BY DEF StateOf

LEMMA StateIs ==
  ASSUME NEW e
  PROVE  /\ State(e) = StateOf(row[e].status, failures[e])
         /\ State(e)' = StateOf(row'[e].status, failures'[e])
  BY DEF State, StateOf

LEMMA InitMaps == Init => J!Init
  <1> SUFFICES ASSUME Init PROVE J!Init
    OBVIOUS
  <1>1. \A e \in Event : State(e) = "none"
    BY StateIs, StateOfFacts DEF Init, NoEvent
  <1> QED
    BY <1>1 DEF J!Init, Init, NoEvent

(* Nothing a publisher could see changes. *)
LEMMA NothingChanges ==
  ASSUME \A e \in Event : /\ State(e)' = State(e)
                          /\ row'[e].key = row[e].key
                          /\ row'[e].attempts = row[e].attempts,
         failures' = failures
  PROVE  UNCHANGED J!vars
  BY DEF J!vars

LEMMA RowsStay ==
  ASSUME row' = row, failures' = failures
  PROVE  UNCHANGED J!vars
  BY NothingChanges, StateIs

(* One event ends; it was tried before. *)
LEMMA OneEnds ==
  ASSUME NEW e \in Event, State(e) = "waiting", row[e].attempts > 0,
         NEW s, State(e)' = s,
         \A d \in Event \ {e} : State(d)' = State(d),
         \A d \in Event : row'[d].key = row[d].key /\ row'[d].attempts = row[d].attempts
  PROVE  J!Ends(e, s)
  BY DEF J!Ends

LEMMA RequestMaps ==
  ASSUME Inv, NEW e \in Event, row[e].status = "NONE", NEW k \in Key \cup {NoKey},
         row'[e].status = "PENDING", row'[e].key = k, row'[e].attempts = 0,
         \A d \in Event \ {e} : row'[d] = row[d], failures' = failures
  PROVE  J!Request(e, k)
  <1>1. row[e].attempts = 0 /\ State(e) = "none" /\ State(e)' = "waiting"
    BY StateIs, StateOfFacts DEF Inv, RowsHold, NoEvent
  <1>2. \A d \in Event \ {e} : State(d)' = State(d)
    BY StateIs
  <1>3. [d \in Event |-> State(d)]' = [[d \in Event |-> State(d)] EXCEPT ![e] = "waiting"]
    BY <1>1, <1>2
  <1>4. [d \in Event |-> row[d].key]' = [[d \in Event |-> row[d].key] EXCEPT ![e] = k]
    OBVIOUS
  <1>5. [d \in Event |-> row[d].attempts]' = [d \in Event |-> row[d].attempts]
    BY <1>1
  <1> QED
    BY <1>1, <1>3, <1>4, <1>5 DEF J!Request

LEMMA ClaimMaps ==
  ASSUME Inv, NEW h \in Host, Claim(h)
  PROVE  J!Next
  <1>1. PICK X \in SUBSET Event, C \in SUBSET Event : Claims(h, X, C)
    BY ClaimClaims
  <1>2. \A e \in C : State(e) = "waiting" /\ State(e)' = "waiting" /\ row[e].attempts < MaxAttempts
    BY <1>1, StateIs, StateOfFacts DEF Claims
  <1>3. ASSUME NEW e \in X
        PROVE  State(e) = "waiting" /\ State(e)' = "failed" /\ row[e].attempts > 0
    <2>1. row[e].status = "PROCESSING" /\ row'[e].status = "FAILED" /\ failures'[e] > 0
      BY <1>1 DEF Claims, Inv, TypeOK
    <2> QED
      BY <2>1, StateIs, StateOfFacts DEF Inv, RowsHold
  <1>4. ASSUME NEW e \in Event \ (X \cup C)
        PROVE  State(e)' = State(e) /\ row'[e] = row[e] /\ failures'[e] = failures[e]
    BY <1>1, StateIs DEF Claims
  <1>5. /\ X \cap C = {}
        /\ \A e \in Event : row'[e].key = row[e].key
        /\ \A e \in X : row'[e].attempts = row[e].attempts /\ failures'[e] = failures[e] + 1
        /\ \A e \in C : row'[e].attempts = row[e].attempts + 1 /\ failures'[e] = failures[e]
        /\ failures' \in [Event -> Nat]
    BY <1>1 DEF Claims
  <1>6. [e \in Event |-> row[e].attempts]' =
          [e \in Event |-> IF e \in C THEN row[e].attempts + 1 ELSE row[e].attempts]
    BY <1>4, <1>5
  <1>7. [e \in Event |-> State(e)]' =
          [e \in Event |-> IF e \in X THEN "failed" ELSE State(e)]
    BY <1>2, <1>3, <1>4
  <1>8. failures' = [e \in Event |-> IF e \in X THEN failures[e] + 1 ELSE failures[e]]
    BY <1>4, <1>5
  <1>9. [e \in Event |-> row[e].key]' = [e \in Event |-> row[e].key]
    BY <1>5
  <1>10. J!Poll(C, X)
    BY <1>2, <1>3, <1>6, <1>7, <1>8, <1>9 DEF J!Poll
  <1> QED
    BY <1>5, <1>10 DEF J!Next

(* The holder returns event e or ends it with status s. *)
LEMMA OutcomeMaps ==
  ASSUME Inv, NEW e \in Event, row[e].status = "PROCESSING",
         NEW s \in {"COMPLETED", "FAILED", "PENDING"},
         row' = [row EXCEPT ![e].status = s, ![e].due = FALSE],
         \/ s # "FAILED" /\ failures' = failures
         \/ s = "FAILED" /\ failures' = [failures EXCEPT ![e] = @ + 1]
         \/ s = "FAILED" /\ failures' = failures /\ HasSuccessor(e)
  PROVE  [J!Next]_(J!vars)
  <1>1. /\ row \in [Event -> Row] /\ failures \in [Event -> Nat]
        /\ failures[e] = 0 /\ row[e].attempts > 0 /\ State(e) = "waiting"
    BY StateIs, StateOfFacts DEF Inv, TypeOK, RowsHold
  <1>2. /\ row'[e].status = s /\ row'[e].key = row[e].key /\ row'[e].attempts = row[e].attempts
        /\ \A d \in Event \ {e} : row'[d] = row[d]
    BY <1>1 DEF Row
  <1>3. \A d \in Event \ {e} : State(d)' = State(d)
    BY <1>1, <1>2, StateIs
  <1>3a. State(e)' = StateOf(s, failures'[e])
    BY <1>2, StateIs
  <1>4. \A d \in Event : row'[d].key = row[d].key /\ row'[d].attempts = row[d].attempts
    BY <1>2
  <1>5. CASE s = "PENDING"
    <2>1. State(e)' = State(e) /\ failures' = failures
      BY <1>1, <1>5, <1>3a, StateOfFacts
    <2>2. \A d \in Event : State(d)' = State(d)
      BY <1>3, <2>1
    <2> QED
      BY <1>4, <2>1, <2>2, NothingChanges
  <1>6. CASE s = "COMPLETED"
    <2>1. State(e)' = "done" /\ failures' = failures
      BY <1>6, <1>3a, StateOfFacts
    <2>2. J!Ends(e, "done")
      BY <1>1, <1>3, <1>4, <2>1, OneEnds
    <2> QED
      BY <2>1, <2>2 DEF J!Next, J!Finish
  <1>7. CASE s = "FAILED" /\ failures' = [failures EXCEPT ![e] = @ + 1]
    <2>1. failures'[e] > 0
      BY <1>1, <1>7
    <2>2. State(e)' = "failed"
      BY <1>7, <1>3a, <2>1, StateOfFacts
    <2>3. J!Ends(e, "failed")
      BY <1>1, <1>3, <1>4, <2>2, OneEnds
    <2> QED
      BY <1>7, <2>3 DEF J!Next, J!GiveUp
  <1>8. CASE s = "FAILED" /\ failures' = failures /\ HasSuccessor(e)
    <2>1. ~(failures'[e] > 0)
      BY <1>1, <1>8
    <2>2. State(e)' = "superseded"
      BY <1>8, <1>3a, <2>1, StateOfFacts
    <2>3. J!Ends(e, "superseded")
      BY <1>1, <1>3, <1>4, <2>2, OneEnds
    <2>4. PICK d \in Event \ {e} :
            row[e].key \in Key /\ row[d].key = row[e].key /\ row[d].status # "NONE"
      BY <1>8 DEF HasSuccessor
    <2>5. State(d) # "none" /\ row[e].key # NoKey
      <3>1. row[d].status \in Status
        BY <1>1 DEF Row
      <3> QED
        BY <2>4, <3>1, StateIs DEF StateOf, Status, Ended
    <2> QED
      BY <1>8, <2>3, <2>4, <2>5 DEF J!Next, J!Supersede
  <1> QED
    BY <1>5, <1>6, <1>7, <1>8

LEMMA ProcessMaps ==
  ASSUME Inv, NEW t \in tasks, Process(t)
  PROVE  [J!Next]_(J!vars)
  <1> DEFINE e == t.event
             fails == IsLast(t) \/ t.superseded
  <1>0. e \in Event /\ row[e] \in Row
    BY TypesOfTask
  <1>1. CASE row' = row /\ failures' = failures
    BY <1>1, RowsStay
  <1>2. CASE Complete(t) /\ SameVersion(t)
    <2>1. /\ row[e].status = "PROCESSING" /\ failures' = failures
          /\ row' = [row EXCEPT ![e].status = "COMPLETED", ![e].due = FALSE]
      BY <1>2 DEF Complete, SameVersion, OwnsLease
    <2> QED
      BY <1>0, <2>1, OutcomeMaps
  <1>3. CASE RecordFailure(t) /\ SameVersion(t) /\ ~(~fails /\ IsSuperseded(e))
    <2>1. /\ row[e].status = "PROCESSING"
          /\ row' = [row EXCEPT ![e].status = IF fails THEN "FAILED" ELSE "PENDING", ![e].due = FALSE]
          /\ failures' = IF IsLast(t) THEN [failures EXCEPT ![e] = @ + 1] ELSE failures
      BY <1>3 DEF RecordFailure, SameVersion, OwnsLease
    <2>2. CASE IsLast(t)
      <3>1. row' = [row EXCEPT ![e].status = "FAILED", ![e].due = FALSE]
        BY <2>1, <2>2
      <3> QED
        BY <1>0, <2>1, <2>2, <3>1, OutcomeMaps
    <2>3. CASE ~IsLast(t) /\ t.superseded
      <3>1. row' = [row EXCEPT ![e].status = "FAILED", ![e].due = FALSE]
        BY <2>1, <2>3
      <3>2. HasSuccessor(e)
        BY <2>3 DEF Inv, TasksHold
      <3> QED
        BY <1>0, <2>1, <2>3, <3>1, <3>2, OutcomeMaps
    <2>4. CASE ~IsLast(t) /\ ~t.superseded
      <3>1. row' = [row EXCEPT ![e].status = "PENDING", ![e].due = FALSE]
        BY <2>1, <2>4
      <3> QED
        BY <1>0, <2>1, <2>4, <3>1, OutcomeMaps
    <2> QED
      BY <2>2, <2>3, <2>4
  <1> QED
    BY <1>1, <1>2, <1>3 DEF Process, Reject, Handle, Handled, Throws, ReadToComplete, ReadToRecord,
       Breaks, Complete, RecordFailure

LEMMA PublishMaps ==
  ASSUME Inv, NEW e \in Event, Publish(e)
  PROVE  J!Next
  <1>1. row \in [Event -> Row] /\ row[e].status = "NONE" /\ failures' = failures
    BY DEF Inv, TypeOK, Publish, IsNext
  <1>2. row' = [row EXCEPT ![e] = [NoEvent EXCEPT !.status = "PENDING", !.due = TRUE]]
    BY DEF Publish
  <1>3. /\ row'[e].status = "PENDING" /\ row'[e].key = NoKey /\ row'[e].attempts = 0
        /\ \A d \in Event \ {e} : row'[d] = row[d]
    BY <1>1, <1>2 DEF NoEvent
  <1>4. J!Request(e, NoKey)
    BY <1>1, <1>3, RequestMaps
  <1> QED
    BY <1>4 DEF J!Next

LEMMA PublishDebouncedMaps ==
  ASSUME Inv, NEW k \in Key, PublishDebounced(k)
  PROVE  [J!Next]_(J!vars)
  <1>1. row \in [Event -> Row] /\ failures' = failures
    BY DEF Inv, TypeOK, PublishDebounced
  <1>2. ASSUME NEW moved \in SUBSET Event, Move(moved, k)
        PROVE  /\ \A e \in moved : /\ row'[e].status = "PENDING" /\ row'[e].key = k
                                   /\ row'[e].attempts = row[e].attempts
               /\ \A e \in Event \ moved : row'[e] = row[e]
    <2>1. ASSUME NEW e \in moved PROVE row'[e] = Moved(row[e], k)
      BY <1>2, Zenon DEF Move, Moved
    <2>2. \A e \in Event \ moved : row'[e] = row[e]
      BY <1>2, Zenon DEF Move
    <2>3. ASSUME NEW e \in moved
          PROVE  /\ row'[e].status = "PENDING" /\ row'[e].key = k
                 /\ row'[e].attempts = row[e].attempts
      <3>1. row[e] \in Row
        BY <1>1
      <3> QED
        BY <2>1, <3>1, MovedRow
    <2> QED
      BY <2>2, <2>3
  <1>3. CASE Move({e \in {e \in Event : HoldsKey(e, k)} : row[e].status = "PENDING"}, k)
    <2>1. PICK moved \in SUBSET Event :
            moved = {e \in {e \in Event : HoldsKey(e, k)} : row[e].status = "PENDING"}
      OBVIOUS
    <2>2. \A e \in moved : row[e].status = "PENDING" /\ row[e].key = k
      BY <2>1 DEF HoldsKey
    <2>3. Move(moved, k)
      BY <1>3, <2>1
    <2>4. \A e \in Event : /\ row'[e].status = row[e].status /\ row'[e].key = row[e].key
                          /\ row'[e].attempts = row[e].attempts
      BY <1>2, <2>2, <2>3
    <2>5. \A e \in Event : State(e)' = State(e)
      BY <1>1, <2>4, StateIs
    <2> QED
      BY <1>1, <2>4, <2>5, NothingChanges
  <1>4. ASSUME NEW e \in Event, IsNext(e), Move({e}, k)
        PROVE  J!Next
    <2>1. PICK moved \in SUBSET Event : moved = {e}
      OBVIOUS
    <2>2. /\ row'[e].status = "PENDING" /\ row'[e].key = k /\ row'[e].attempts = row[e].attempts
          /\ \A d \in Event \ {e} : row'[d] = row[d]
      BY <1>2, <1>4, <2>1
    <2>3. row[e].status = "NONE" /\ row[e].attempts = 0
      BY <1>4 DEF IsNext, Inv, RowsHold, NoEvent
    <2>4. J!Request(e, k)
      BY <1>1, <2>2, <2>3, RequestMaps
    <2> QED
      BY <2>4 DEF J!Next
  <1> QED
    BY <1>3, <1>4 DEF PublishDebounced

LEMMA StepMaps == Inv /\ [Next]_vars => [J!Next]_(J!vars)
  <1> SUFFICES ASSUME Inv, [Next]_vars PROVE [J!Next]_(J!vars)
    OBVIOUS
  <1>1. ASSUME NEW e \in Event, Publish(e) PROVE [J!Next]_(J!vars)
    BY <1>1, PublishMaps
  <1>2. ASSUME NEW k \in Key, PublishDebounced(k) PROVE [J!Next]_(J!vars)
    BY <1>2, PublishDebouncedMaps
  <1>3. ASSUME NEW h \in Host, Claim(h) PROVE [J!Next]_(J!vars)
    BY <1>3, ClaimMaps
  <1>4. ASSUME NEW h \in Host, Drain(h) \/ ClaimFails(h) \/ Crash(h) PROVE [J!Next]_(J!vars)
    <2>1. row' = row /\ failures' = failures
      BY <1>4 DEF Drain, ClaimFails, Crash
    <2> QED
      BY <2>1, RowsStay
  <1>5. ASSUME NEW t \in tasks, Process(t) PROVE [J!Next]_(J!vars)
    BY <1>5, ProcessMaps
  <1>6. ASSUME NEW e \in Event, ComesDue(e) PROVE [J!Next]_(J!vars)
    <2>1. row \in [Event -> Row] /\ failures' = failures /\ row' = [row EXCEPT ![e].due = TRUE]
      BY <1>6 DEF ComesDue, Inv, TypeOK
    <2>2. \A d \in Event : /\ row'[d].status = row[d].status /\ row'[d].key = row[d].key
                          /\ row'[d].attempts = row[d].attempts
      BY <2>1 DEF Row
    <2>3. \A d \in Event : State(d)' = State(d)
      BY <2>1, <2>2, StateIs
    <2> QED
      BY <2>1, <2>2, <2>3, NothingChanges
  <1>7. CASE UNCHANGED vars
    BY <1>7, RowsStay DEF vars
  <1> QED
    BY <1>1, <1>2, <1>3, <1>4, <1>5, <1>6, <1>7 DEF Next

(* Whatever the leases, retries and crashes, publishers see durable jobs:  *)
(* tried at most MaxAttempts times, ended once, the consequence of a       *)
(* failure drawn exactly with it.                                          *)
THEOREM EventsImplementJobs == Spec => JobsSpec
  BY InitMaps, StepMaps, Invariance, PTL DEF Spec, JobsSpec, J!Spec

=============================================================================
