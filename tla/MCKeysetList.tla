---------------------------- MODULE MCKeysetList ----------------------------
(* KeysetList for TLC.                                                     *)
EXTENDS KeysetList

CONSTANTS a, b, all, some

MCTwoItems == {a, b}
MCKey == {all, some}
MCHoldsTwo == [k \in MCKey |-> IF k = all THEN MCTwoItems ELSE {a}]
=============================================================================
