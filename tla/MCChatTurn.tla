----------------------------- MODULE MCChatTurn -----------------------------
(* Instances of ChatTurn for TLC. *)
EXTENDS ChatTurn, TLC

CONSTANTS k1, k2, h1, h2

TwoKeys == {k1, k2}
OneHost == {h1}
TwoHosts == {h1, h2}

(* Sound for the safety runs: no definition of theirs tells keys or hosts apart. *)
Symmetry == Permutations(Key) \cup Permutations(Host)
=============================================================================
