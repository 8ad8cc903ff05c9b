---------------------------- MODULE Conversation ----------------------------
(***************************************************************************)
(* What a chat promises its user, without turns, leases, attempts or       *)
(* transactions: a list of prompts, each asked once and answered in order. *)
(* Only the last prompt may be waiting for its reply.  A failed or partial *)
(* last reply may be asked for again; a complete or stopped one is final.  *)
(***************************************************************************)
EXTENDS Naturals, Sequences

CONSTANT Prompt \* prompts the user may ask

VARIABLES
  open, \* the chat has not been deleted
  talk  \* the prompts asked so far, each with its reply or PENDING

vars == <<open, talk>>

Answers == {"COMPLETE", "PARTIAL", "FAILED", "CANCELED"}

Waiting(t) == t # <<>> /\ t[Len(t)].reply = "PENDING"
Ask(t, p) == Append(t, [prompt |-> p, reply |-> "PENDING"])
Reply(t, r) == [t EXCEPT ![Len(t)].reply = r]
IsNew(p) == \A i \in 1 .. Len(talk) : talk[i].prompt # p

Init == open = TRUE /\ talk = <<>>

AskNext(p) ==
  /\ open /\ IsNew(p) /\ ~Waiting(talk)
  /\ talk' = Ask(talk, p)
  /\ UNCHANGED open

(* A prompt that nobody will answer any more fails when the next is asked. *)
AskOver(p) ==
  /\ open /\ IsNew(p) /\ Waiting(talk)
  /\ talk' = Ask(Reply(talk, "FAILED"), p)
  /\ UNCHANGED open

Answer(r) ==
  /\ open /\ Waiting(talk)
  /\ talk' = Reply(talk, r)
  /\ UNCHANGED open

AskAgain ==
  /\ open /\ talk # <<>> /\ talk[Len(talk)].reply \in {"FAILED", "PARTIAL"}
  /\ talk' = Reply(talk, "PENDING")
  /\ UNCHANGED open

Drop ==
  /\ open
  /\ open' = FALSE
  /\ talk' = <<>>

Next ==
  \/ \E p \in Prompt : AskNext(p) \/ AskOver(p)
  \/ \E r \in Answers : Answer(r)
  \/ AskAgain
  \/ Drop

Spec == Init /\ [][Next]_vars
=============================================================================
