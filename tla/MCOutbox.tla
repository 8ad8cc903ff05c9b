------------------------------ MODULE MCOutbox ------------------------------
(* Small instances of Outbox for TLC. *)
EXTENDS Outbox

CONSTANTS k1, h1, h2

TwoEvents == 1 .. 2
OneKey == {k1}
TwoHosts == {h1, h2}
=============================================================================
