----------------------------- MODULE MCChatPage -----------------------------
(* ChatPage for TLC.                                                       *)
EXTENDS ChatPage, TLC

CONSTANTS s1, s2

MCTwoCalls == {s1, s2}

\* Calls are alike.
CallSymmetry == Permutations(Call)
=============================================================================
