----------------------------- MODULE MCNotePage -----------------------------
(* Small instances of NotePage for TLC. *)
EXTENDS NotePage

CONSTANTS a, b, s1

MCTwoNotes == {a, b}

\* A second summary request is looked at only while the user stays at the first note.
SecondKeyOnFirstNote == used < 2 \/ opened < 2
=============================================================================
