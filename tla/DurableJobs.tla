---------------------------- MODULE DurableJobs ----------------------------
(***************************************************************************)
(* What the outbox promises whoever publishes an event, without rows,      *)
(* leases, pollers or permits: the job is tried at least once and at most  *)
(* MaxTries times and then ends for good, done, failed or superseded by a  *)
(* later job for the same subject.  The consequence of a failure is drawn  *)
(* once, together with it, and a superseded job has none.                  *)
(***************************************************************************)
EXTENDS Naturals

CONSTANTS Job, Subject, NoSubject, MaxTries

VARIABLES
  state,   \* of each job: none, waiting, done, failed or superseded
  subject, \* what the job is about, or NoSubject
  tries,   \* times the job was handed to a worker
  drawn    \* times the consequence of the job's failure was drawn

vars == <<state, subject, tries, drawn>>

Init ==
  /\ state = [j \in Job |-> "none"]
  /\ subject = [j \in Job |-> NoSubject]
  /\ tries = [j \in Job |-> 0]
  /\ drawn = [j \in Job |-> 0]

Request(j, s) ==
  /\ state[j] = "none"
  /\ state' = [state EXCEPT ![j] = "waiting"]
  /\ subject' = [subject EXCEPT ![j] = s]
  /\ UNCHANGED <<tries, drawn>>

(* One poll tries several jobs and gives up those that were tried enough. *)
Poll(tried, failed) ==
  /\ \A j \in tried : state[j] = "waiting" /\ tries[j] < MaxTries
  /\ \A j \in failed : state[j] = "waiting" /\ tries[j] > 0
  /\ tries' = [j \in Job |-> IF j \in tried THEN tries[j] + 1 ELSE tries[j]]
  /\ state' = [j \in Job |-> IF j \in failed THEN "failed" ELSE state[j]]
  /\ drawn' = [j \in Job |-> IF j \in failed THEN drawn[j] + 1 ELSE drawn[j]]
  /\ UNCHANGED subject

Ends(j, s) ==
  /\ state[j] = "waiting" /\ tries[j] > 0
  /\ state' = [state EXCEPT ![j] = s]
  /\ UNCHANGED <<subject, tries>>

Finish(j) == Ends(j, "done") /\ UNCHANGED drawn

GiveUp(j) == Ends(j, "failed") /\ drawn' = [drawn EXCEPT ![j] = @ + 1]

Supersede(j) ==
  /\ Ends(j, "superseded")
  /\ UNCHANGED drawn
  /\ \E o \in Job \ {j} :
       subject[j] # NoSubject /\ subject[o] = subject[j] /\ state[o] # "none"

Next ==
  \/ \E j \in Job, s \in Subject \cup {NoSubject} : Request(j, s)
  \/ \E tried \in SUBSET Job, failed \in SUBSET Job :
       tried \cap failed = {} /\ Poll(tried, failed)
  \/ \E j \in Job : Finish(j) \/ GiveUp(j) \/ Supersede(j)

Spec == Init /\ [][Next]_vars
=============================================================================
