------------------------------ MODULE MCPlaces ------------------------------
(* Places for TLC.                                                         *)
EXTENDS Places

CONSTANTS a, b, c, n, p, q

MCConstellation == {a, b, c}
MCNote == {n, p, q}

\* a is above b, and c is a root, or not there yet.
MCTree(last) == [x \in MCConstellation |-> IF x = b THEN a ELSE IF x = c THEN last ELSE None]
MCStart(open, last, in) == [
  tabs |-> open, parent |-> MCTree(last),
  over |-> [x \in MCNote |-> IF x = q THEN p ELSE None],
  added |-> [x \in MCNote |-> [y \in MCConstellation |-> IF y \in in[x] THEN 1 ELSE 0]],
  main |-> [x \in MCNote |-> IF in[x] = {} THEN None ELSE CHOOSE y \in in[x] : TRUE]]

\* n is in b and c, p in a with q under it.
MCPlaced(open) == MCStart(open, None, [x \in MCNote |-> IF x = n THEN {b, c} ELSE IF x = p THEN {a} ELSE {}])
\* n is in b, p nowhere, with q under it.
MCFew(open) == MCStart(open, Later, [x \in MCNote |-> IF x = n THEN {b} ELSE {}])

MCStarts == {MCPlaced({"section"}), MCFew({"section"}), MCPlaced({"page"}), MCFew({"page"}),
              MCFew({"menu"})}
=============================================================================
