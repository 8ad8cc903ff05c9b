--------------------------- MODULE MCChatPageTalk ---------------------------
(* ChatPageTalk for TLC.                                                   *)
EXTENDS ChatPageTalk

CONSTANTS s1, s2

MCTwoCalls == {s1, s2}
=============================================================================
