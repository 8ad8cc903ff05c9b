---------------------------- MODULE PlacesProofs ----------------------------
(***************************************************************************)
(* Proofs about Places, for any constellations, notes and bounds.          *)
(*                                                                         *)
(* What lies above a node is the least set closed under parents, so the    *)
(* lemmas on trees compare closed sets; no induction is needed.  The       *)
(* invariant of the service is that both trees are forests and that the    *)
(* places keep their rules; each change of the service keeps it, whichever *)
(* tab asks for it and however stale what the tab shows.                   *)
(***************************************************************************)
EXTENDS Places, TLAPS

USE NamesAssumption, BoundsAssumption

-----------------------------------------------------------------------------
(* What lies above a node.                                                 *)

\* The node itself, nodes of the tree only, and nothing but what any closed
\* set with the node has.
LEMMA UpFacts ==
  ASSUME NEW D, NEW V, NEW p \in [D -> V], NEW x \in D
  PROVE  /\ x \in Up(p, x) /\ Up(p, x) \subseteq D
         /\ Closed(p, Up(p, x))
         /\ \A S \in SUBSET D : x \in S /\ Closed(p, S) => Up(p, x) \subseteq S
<1>1. x \in Up(p, x) /\ Up(p, x) \subseteq D
  BY DEF Up
<1>2. ASSUME NEW S \in SUBSET D, x \in S, Closed(p, S)
      PROVE  Up(p, x) \subseteq S
  BY <1>2 DEF Up
<1>3. ASSUME NEW z \in Up(p, x), p[z] \in D
      PROVE  p[z] \in Up(p, x)
  <2>1. ASSUME NEW S \in SUBSET D, x \in S, Closed(p, S)
        PROVE  p[z] \in S
    BY <1>2, <1>3, <2>1 DEF Closed
  <2> QED BY <1>3, <2>1 DEF Up
<1>4. Closed(p, Up(p, x))
  BY <1>3 DEF Closed
<1> QED BY <1>1, <1>2, <1>4

LEMMA UpLeast ==
  ASSUME NEW D, NEW V, NEW p \in [D -> V], NEW x \in D, NEW S \in SUBSET D, x \in S, Closed(p, S)
  PROVE  Up(p, x) \subseteq S
BY UpFacts

LEMMA UpTrans ==
  ASSUME NEW D, NEW V, NEW p \in [D -> V], NEW x \in D, NEW y \in Up(p, x)
  PROVE  Up(p, y) \subseteq Up(p, x)
<1>1. y \in D /\ Up(p, x) \subseteq D /\ Closed(p, Up(p, x))
  BY UpFacts
<1> QED BY <1>1, UpLeast

\* One step up: the node and what lies above its parent.
LEMMA UpStep ==
  ASSUME NEW D, NEW V, NEW p \in [D -> V], NEW x \in D, p[x] \in D
  PROVE  Up(p, x) = {x} \cup Up(p, p[x])
<1> DEFINE S == {x} \cup Up(p, p[x])
<1>1. /\ p[x] \in Up(p, p[x]) /\ Up(p, p[x]) \subseteq D /\ Closed(p, Up(p, p[x]))
      /\ x \in Up(p, x) /\ Closed(p, Up(p, x)) /\ Up(p, x) \subseteq D
  BY UpFacts
<1>2. S \in SUBSET D /\ x \in S /\ Closed(p, S)
  BY <1>1 DEF Closed
<1>3. Up(p, x) \subseteq S
  BY <1>2, UpLeast
<1>4. p[x] \in Up(p, x)
  BY <1>1 DEF Closed
<1>5. Up(p, p[x]) \subseteq Up(p, x)
  BY <1>4, UpTrans
<1> QED BY <1>1, <1>3, <1>5

LEMMA UpTop ==
  ASSUME NEW D, NEW V, NEW p \in [D -> V], NEW x \in D, p[x] \notin D
  PROVE  Up(p, x) = {x}
<1>1. {x} \in SUBSET D /\ Closed(p, {x})
  BY DEF Closed
<1>2. Up(p, x) \subseteq {x}
  BY <1>1, UpLeast
<1> QED BY <1>2, UpFacts

\* Two trees that agree on all there is above x have the same above x.
LEMMA UpSame ==
  ASSUME NEW D, NEW V, NEW p \in [D -> V], NEW q \in [D -> V], NEW x \in D,
         \A z \in Up(p, x) : q[z] = p[z]
  PROVE  Up(q, x) = Up(p, x)
<1>1. /\ x \in Up(p, x) /\ Up(p, x) \subseteq D /\ Closed(p, Up(p, x))
      /\ x \in Up(q, x) /\ Up(q, x) \subseteq D /\ Closed(q, Up(q, x))
  BY UpFacts
<1>2. Closed(q, Up(p, x))
  BY <1>1 DEF Closed
<1>3. Up(q, x) \subseteq Up(p, x)
  BY <1>1, <1>2, UpLeast
<1>4. Closed(p, Up(q, x))
  BY <1>1, <1>3 DEF Closed
<1>5. Up(p, x) \subseteq Up(q, x)
  BY <1>1, <1>4, UpLeast
<1> QED BY <1>3, <1>5

-----------------------------------------------------------------------------
(* Changes of a forest.                                                    *)

\* A node c that hangs elsewhere, not under itself: what was above it may
\* no longer be above what is below it, and what is above its new parent is.
Hangs(p, q, D, c) ==
  /\ \A z \in D \ {c} : q[z] = p[z]
  /\ q[c] \in D => c \notin Up(p, q[c])

NewAbove(p, q, D, c) == IF q[c] \in D THEN Up(p, q[c]) ELSE {}

LEMMA MoveUp ==
  ASSUME NEW D, NEW V, NEW p \in [D -> V], NEW q \in [D -> V], NEW c \in D, Hangs(p, q, D, c), NEW x \in D
  PROVE  /\ c \notin Up(p, x) => Up(q, x) = Up(p, x)
         /\ c \in Up(p, x) => Up(q, x) \subseteq {z \in Up(p, x) : c \in Up(p, z)} \cup NewAbove(p, q, D, c)
<1> DEFINE T == {z \in Up(p, x) : c \in Up(p, z)}
           R == NewAbove(p, q, D, c)
<1>1. x \in Up(p, x) /\ Up(p, x) \subseteq D /\ Closed(p, Up(p, x))
  BY UpFacts
<1>2. ASSUME c \notin Up(p, x)
      PROVE  Up(q, x) = Up(p, x)
  <2>1. \A z \in Up(p, x) : q[z] = p[z]
    BY <1>1, <1>2 DEF Hangs
  <2> QED BY <2>1, UpSame
<1>3. ASSUME c \in Up(p, x)
      PROVE  Up(q, x) \subseteq T \cup R
  <2>1. R \subseteq D /\ c \notin R /\ Closed(p, R) /\ (q[c] \in D => q[c] \in R)
    <3>1. CASE q[c] \in D
      <4>1. q[c] \in Up(p, q[c]) /\ Up(p, q[c]) \subseteq D /\ Closed(p, Up(p, q[c]))
        BY <3>1, UpFacts
      <4> QED BY <3>1, <4>1 DEF Hangs, NewAbove
    <3>2. CASE q[c] \notin D
      BY <3>2 DEF NewAbove, Closed
    <3> QED BY <3>1, <3>2
  <2>2. ASSUME NEW z \in T, q[z] \in D
        PROVE  q[z] \in T \cup R
    <3>1. CASE z = c
      BY <2>1, <2>2, <3>1
    <3>2. CASE z # c
      <4>1. z \in D /\ q[z] = p[z] /\ p[z] \in Up(p, x)
        BY <1>1, <2>2, <3>2 DEF Closed, Hangs
      <4>2. Up(p, z) = {z} \cup Up(p, p[z])
        BY <2>2, <4>1, UpStep
      <4> QED BY <2>2, <3>2, <4>1, <4>2
    <3> QED BY <3>1, <3>2
  <2>3. ASSUME NEW z \in R, q[z] \in D
        PROVE  q[z] \in R
    BY <2>1, <2>3 DEF Closed, Hangs
  <2>4. T \cup R \in SUBSET D /\ x \in T \cup R
    BY <1>1, <1>3, <2>1
  <2> HIDE DEF T, R
  <2>5. Closed(q, T \cup R)
    BY <2>2, <2>3 DEF Closed
  <2> QED BY <2>4, <2>5, UpLeast
<1> QED BY <1>2, <1>3

\* In a forest each node with a parent has a live one it is not above.
LEMMA ForestStep ==
  ASSUME NEW D, NEW V, NEW p \in [D -> V], Forest(p), NEW x \in D, p[x] \in D
  PROVE  x \notin Up(p, p[x]) /\ p[p[x]] \in D \cup {None}
BY DEF Forest, Alive

\* A forest stays one when a node hangs elsewhere, under a live one; a new
\* node may come, but none goes that others hang under.
LEMMA MoveForest ==
  ASSUME NEW D, NEW V, NEW p \in [D -> V], NEW q \in [D -> V], NEW c \in D, Hangs(p, q, D, c), Forest(p),
         q[c] \in D => p[q[c]] \in D \cup {None},
         q[c] \in D \cup {None}
  PROVE  Forest(q)
<1> SUFFICES ASSUME NEW x \in D, q[x] \in D
             PROVE  x \notin Up(q, q[x]) /\ q[q[x]] \in D \cup {None}
  BY DEF Forest, Alive
<1> DEFINE w == q[x]
<1>0. \A y \in D : /\ c \notin Up(p, y) => Up(q, y) = Up(p, y)
                   /\ c \in Up(p, y) => Up(q, y) \subseteq Up(p, y) \cup NewAbove(p, q, D, c)
  BY MoveUp
<1>1. CASE x = c
  <2>1. w \in D /\ w \in Up(p, w) /\ c # w /\ c \notin Up(p, w)
    BY <1>1, UpFacts DEF Hangs
  <2>2. Up(q, w) = Up(p, w)
    BY <1>0, <2>1
  <2>3. q[w] = p[w] /\ p[w] \in D \cup {None}
    BY <1>1, <2>1 DEF Hangs
  <2> QED BY <1>1, <2>1, <2>2, <2>3
<1>2. CASE x # c
  <2>1. w \in D /\ w = p[x]
    BY <1>2 DEF Hangs
  <2>2. x \notin Up(p, w) /\ p[w] \in D \cup {None}
    BY <2>1, ForestStep
  <2>3. q[w] \in D \cup {None}
    BY <2>1, <2>2 DEF Hangs
  <2>4. CASE c \notin Up(p, w)
    <3>1. Up(q, w) = Up(p, w)
      BY <1>0, <2>1, <2>4
    <3> QED BY <2>2, <2>3, <3>1
  <2>5. CASE c \in Up(p, w)
    <3>1. Up(q, w) \subseteq Up(p, w) \cup NewAbove(p, q, D, c)
      BY <1>0, <2>1, <2>5
    <3>2. Up(p, x) = {x} \cup Up(p, w)
      BY <2>1, UpStep
    <3>3. ASSUME q[c] \in D, x \in Up(p, q[c])
          PROVE  FALSE
      <4>1. Up(p, x) \subseteq Up(p, q[c])
        BY <3>3, UpTrans
      <4> QED BY <2>5, <3>2, <3>3, <4>1 DEF Hangs
    <3> QED BY <2>2, <2>3, <3>1, <3>3 DEF NewAbove
  <2> QED BY <2>4, <2>5
<1> QED BY <1>1, <1>2

\* A forest without one of its branches: what stays has what it had above.
LEMMA CutAbove ==
  ASSUME NEW D, NEW V, NEW p \in [D -> V], NEW c \in D, NEW x \in D, c \notin Up(p, x)
  PROVE  Up(p, x) \cap Branch(p, c) = {}
<1>1. ASSUME NEW z \in Up(p, x), z \in Branch(p, c)
      PROVE  FALSE
  <2>1. c \in Up(p, z) /\ Up(p, z) \subseteq Up(p, x)
    BY <1>1, UpTrans DEF Branch
  <2> QED BY <2>1
<1> QED BY <1>1

LEMMA CutUp ==
  ASSUME NEW D, NEW V, NEW p \in [D -> V], NEW c \in D, NEW q \in [D -> V],
         \A z \in D \ Branch(p, c) : q[z] = p[z],
         NEW x \in D, x \notin Branch(p, c)
  PROVE  Up(p, x) \cap Branch(p, c) = {} /\ Up(q, x) = Up(p, x)
<1>1. x \in Up(p, x) /\ Up(p, x) \subseteq D
  BY UpFacts
<1>2. Up(p, x) \cap Branch(p, c) = {}
  BY CutAbove DEF Branch
<1>3. \A z \in Up(p, x) : q[z] = p[z]
  BY <1>1, <1>2
<1>4. Up(q, x) = Up(p, x)
  BY <1>3, UpSame, SMTT(30)
<1> QED BY <1>2, <1>4

LEMMA CutForest ==
  ASSUME NEW D, NEW V, NEW p \in [D -> V], NEW c \in D, NEW q \in [D -> V], Forest(p),
         \A z \in D \ Branch(p, c) : q[z] = p[z],
         \A z \in Branch(p, c) : q[z] \notin D
  PROVE  Forest(q)
<1> SUFFICES ASSUME NEW x \in D, q[x] \in D
             PROVE  x \notin Up(q, q[x]) /\ q[q[x]] \in D \cup {None}
  BY DEF Forest, Alive
<1>1. x \notin Branch(p, c) /\ q[x] = p[x]
  OBVIOUS
<1>2. x \notin Up(p, p[x]) /\ p[p[x]] \in D \cup {None} /\ Up(p, x) = {x} \cup Up(p, p[x]) /\ p[x] \in Up(p, p[x])
  BY <1>1, ForestStep, UpStep, UpFacts
<1>3. p[x] \notin Branch(p, c)
  BY <1>1, <1>2, CutUp
<1>4. Up(q, p[x]) = Up(p, p[x])
  BY <1>1, <1>3, CutUp
<1> QED BY <1>1, <1>2, <1>3, <1>4

\* Nothing hangs under a node nobody names as parent.
LEMMA LeafBranch ==
  ASSUME NEW D, NEW V, NEW p \in [D -> V], NEW c \in D, \A z \in D : p[z] # c
  PROVE  Branch(p, c) = {c}
<1>1. ASSUME NEW x \in D \ {c}
      PROVE  c \notin Up(p, x)
  <2>1. D \ {c} \in SUBSET D /\ x \in D \ {c} /\ Closed(p, D \ {c})
    BY DEF Closed
  <2>2. Up(p, x) \subseteq D \ {c}
    BY <2>1, UpLeast
  <2> QED BY <2>2
<1>2. c \in Up(p, c)
  BY UpFacts
<1> QED BY <1>1, <1>2 DEF Branch

\* A node n that goes, and what hung under it hangs under its parent: n is
\* no longer above anything, and nothing else changes.
Lifts(p, q, D, n) ==
  /\ q[n] \notin D
  /\ \A z \in D \ {n} : q[z] = IF p[z] = n THEN p[n] ELSE p[z]

LEMMA LiftUp ==
  ASSUME NEW D, NEW V, NEW p \in [D -> V], NEW q \in [D -> V], NEW n \in D, Lifts(p, q, D, n), Forest(p),
         NEW x \in D \ {n}
  PROVE  /\ Up(q, x) = Up(p, x) \ {n}
         /\ n \in Up(p, x) => \E z \in Up(q, x) : p[z] = n
<1>0. p[n] # n
  <2>1. n \in Up(p, n)
    BY UpFacts
  <2>2. p[n] \in D => n \notin Up(p, p[n])
    BY ForestStep
  <2> QED BY <2>1, <2>2
<1>1. /\ x \in Up(p, x) /\ Up(p, x) \subseteq D /\ Closed(p, Up(p, x))
      /\ x \in Up(q, x) /\ Up(q, x) \subseteq D /\ Closed(q, Up(q, x))
  BY UpFacts
<1>2. Up(q, x) \subseteq Up(p, x) \ {n}
  <2> DEFINE T == Up(p, x) \ {n}
  <2>1. T \in SUBSET D /\ x \in T
    BY <1>1
  <2>2. ASSUME NEW z \in T, q[z] \in D
        PROVE  q[z] \in T
    <3>1. CASE p[z] = n
      <4>1. q[z] = p[n]
        BY <1>1, <3>1 DEF Lifts
      <4>2. n \in Up(p, x)
        BY <1>1, <3>1 DEF Closed
      <4> QED BY <1>0, <1>1, <2>2, <4>1, <4>2 DEF Closed
    <3>2. CASE p[z] # n
      <4>1. q[z] = p[z]
        BY <1>1, <3>2 DEF Lifts
      <4> QED BY <1>1, <2>2, <3>2, <4>1 DEF Closed
    <3> QED BY <3>1, <3>2
  <2>3. Closed(q, T)
    BY <2>2 DEF Closed
  <2> QED BY <2>1, <2>3, UpLeast
<1> DEFINE Met == \E z \in Up(q, x) : p[z] = n
           S == Up(q, x) \cup (IF Met THEN {n} ELSE {})
<1>3. Up(p, x) \subseteq S
  <2>1. ASSUME NEW z \in Up(q, x), p[z] \in D
        PROVE  p[z] \in S
    <3>1. CASE p[z] = n
      BY <3>1
    <3>2. CASE p[z] # n
      <4>1. q[z] = p[z]
        BY <1>1, <1>2, <3>2 DEF Lifts
      <4> QED BY <1>1, <2>1, <4>1 DEF Closed
    <3> QED BY <3>1, <3>2
  <2>2. ASSUME Met, p[n] \in D
        PROVE  p[n] \in S
    <3>1. PICK z \in Up(q, x) : p[z] = n
      BY <2>2
    <3>2. q[z] = p[n]
      BY <1>1, <1>2, <3>1 DEF Lifts
    <3> QED BY <1>1, <2>2, <3>2 DEF Closed
  <2>3. S \in SUBSET D /\ x \in S
    BY <1>1
  <2>4. Closed(p, S)
    BY <2>1, <2>2 DEF Closed
  <2> HIDE DEF S
  <2> QED BY <2>3, <2>4, UpLeast
<1> QED BY <1>2, <1>3

LEMMA LiftForest ==
  ASSUME NEW D, NEW V, NEW p \in [D -> V], NEW q \in [D -> V], NEW n \in D, Lifts(p, q, D, n), Forest(p),
         p[n] \in D \cup {None}, None \notin D
  PROVE  Forest(q)
<1> SUFFICES ASSUME NEW x \in D, q[x] \in D
             PROVE  x \notin Up(q, q[x]) /\ q[q[x]] \in D \cup {None}
  BY DEF Forest, Alive
<1>1. x # n
  BY DEF Lifts
<1>2. p[x] \in D /\ x \notin Up(p, p[x]) /\ p[p[x]] \in D \cup {None}
  <2>1. p[x] \in D
    BY <1>1 DEF Lifts
  <2> QED BY <2>1, ForestStep
<1>3. Up(p, x) = {x} \cup Up(p, p[x]) /\ p[x] \in Up(p, p[x])
  BY <1>2, UpStep, UpFacts
<1> DEFINE w == q[x]
<1>4. w # n /\ x \notin Up(p, w) /\ p[w] \in D \cup {None}
  <2>1. CASE p[x] = n
    <3>1. w = p[n]
      BY <1>1, <2>1 DEF Lifts
    <3>2. n \notin Up(p, w) /\ p[w] \in D \cup {None} /\ w \in Up(p, w)
      BY <3>1, ForestStep, UpFacts
    <3>3. x \in Up(p, w) => Up(p, x) \subseteq Up(p, w)
      BY UpTrans
    <3> QED BY <1>3, <2>1, <3>2, <3>3
  <2>2. CASE p[x] # n
    BY <1>1, <1>2, <2>2 DEF Lifts
  <2> QED BY <2>1, <2>2
<1>5. Up(q, w) = Up(p, w) \ {n}
  BY <1>4, LiftUp
<1>6. q[w] \in D \cup {None}
  BY <1>4 DEF Lifts
<1> QED BY <1>4, <1>5, <1>6

-----------------------------------------------------------------------------
(* What the service holds.                                                 *)

Parent == Constellation \cup {None, Gone, Later}
Over == Note \cup {None, Gone}
Joined == [Constellation -> Nat]

\* What the places a of one note keep, m the main one, o the note above.
Placed(p, o, a, m) ==
  /\ \A c, d \in In(a) : ~OneLine(p, c, d)
  /\ m \in In(a) \/ (In(a) = {} /\ m = None)
  /\ \A c \in In(a) : Alive(p, c) /\ o = None

ServiceOK ==
  /\ parent \in [Constellation -> Parent] /\ over \in [Note -> Over]
  /\ added \in [Note -> Joined] /\ main \in [Note -> Constellation \cup {None}]
  /\ Forest(parent) /\ Forest(over)
  /\ \A n \in Note : Placed(parent, over[n], added[n], main[n])

LEMMA ServiceFacts ==
  ASSUME ServiceOK
  PROVE  NoCycle /\ OnePlacePerLine /\ OneMainPlace
BY DEF ServiceOK, Placed, NoCycle, OnePlacePerLine, OneMainPlace, OnePlace, OneMain

\* The places that are left, and the one that is joined.
LEMMA OnlyFacts ==
  ASSUME NEW a \in Joined, NEW S \in SUBSET In(a)
  PROVE  Only(a, S) \in Joined /\ In(Only(a, S)) = S
<1>1. Only(a, S) \in Joined /\ \A d \in Constellation : Only(a, S)[d] = IF d \in S THEN a[d] ELSE 0
  BY DEF Only, Joined
<1> QED BY <1>1 DEF In, Joined

LEMMA JoinFacts ==
  ASSUME NEW o \in Joined, NEW c \in Constellation, NEW k \in Nat \ {0}
  PROVE  [o EXCEPT ![c] = k] \in Joined /\ In([o EXCEPT ![c] = k]) = In(o) \cup {c}
BY DEF In, Joined

LEMMA NothingFacts == Nothing \in Joined /\ In(Nothing) = {}
BY DEF Nothing, In, Joined

LEMMA OnlyHere ==
  ASSUME NEW c \in Constellation, NEW k \in Nat \ {0}
  PROVE  [Nothing EXCEPT ![c] = k] \in Joined /\ In([Nothing EXCEPT ![c] = k]) = {c}
<1>1. [Nothing EXCEPT ![c] = k] \in Joined /\ In([Nothing EXCEPT ![c] = k]) = In(Nothing) \cup {c}
  BY NothingFacts, JoinFacts
<1> QED BY <1>1, NothingFacts

\* A change of the places of one note, in trees that stay.
LEMMA OneNoteKeeps ==
  ASSUME ServiceOK, NEW n \in Note, NEW a \in Joined, NEW m \in Constellation \cup {None},
         Placed(parent, over[n], a, m),
         UNCHANGED <<parent, over>>, added' = [added EXCEPT ![n] = a], main' = [main EXCEPT ![n] = m]
  PROVE  ServiceOK'
<1>1. added' \in [Note -> Joined] /\ main' \in [Note -> Constellation \cup {None}]
  BY DEF ServiceOK
<1>2. \A k \in Note : Placed(parent', over'[k], added'[k], main'[k])
  BY DEF ServiceOK
<1>3. parent' \in [Constellation -> Parent] /\ over' \in [Note -> Over] /\ Forest(parent') /\ Forest(over')
  BY DEF ServiceOK
<1> QED BY <1>1, <1>2, <1>3 DEF ServiceOK

LEMMA SameKeeps ==
  ASSUME ServiceOK, UNCHANGED service
  PROVE  ServiceOK'
BY DEF ServiceOK, service

LEMMA HeirFacts ==
  ASSUME NEW a, NEW m, NEW S, NEW h \in Heir(a, m, S)
  PROVE  /\ h \in S \/ (S = {} /\ h = None)
         /\ m \in S => h = m
         /\ m \notin S /\ S # {} => h \in Oldest(a, S)
BY DEF Heir, Oldest

LEMMA AddKeeps ==
  ASSUME ServiceOK, requests \in Nat, NEW n \in Note, NEW c \in Constellation, AddNote(n, c)
  PROVE  ServiceOK'
<1>1. CASE c \in In(added[n])
  <2>1. UNCHANGED service
    BY <1>1 DEF AddNote, service
  <2> QED BY <2>1, SameKeeps
<1>2. CASE c \notin In(added[n])
  <2> DEFINE rest == Rest(parent, added[n], c)
             a == [Only(added[n], rest) EXCEPT ![c] = Now]
             m == IF rest = {} \/ main[n] \notin rest THEN c ELSE main[n]
  <2>1. added[n] \in Joined /\ main[n] \in Constellation \cup {None} /\ Now \in Nat \ {0}
        /\ Placed(parent, over[n], added[n], main[n])
    BY DEF ServiceOK, Now
  <2>2. rest \subseteq In(added[n]) /\ \A d \in rest : ~OneLine(parent, c, d)
    BY DEF Rest
  <2>3. a \in Joined /\ In(a) = rest \cup {c}
    <3> DEFINE o == Only(added[n], rest)
    <3> HIDE DEF rest
    <3>1. o \in Joined /\ In(o) = rest
      BY <2>1, <2>2, OnlyFacts
    <3> HIDE DEF o
    <3> QED BY <2>1, <3>1, JoinFacts DEF o
  <2>4. m \in Constellation \cup {None} /\ m \in In(a)
    BY <2>1, <2>3
  <2>5. \A d, e \in In(a) : ~OneLine(parent, d, e)
    <3> HIDE DEF rest, a, m
    <3> QED BY <2>1, <2>2, <2>3 DEF Placed, OneLine
  <2>6. \A d \in In(a) : Alive(parent, d) /\ over[n] = None
    <3>1. Alive(parent, c) /\ over[n] = None
      BY DEF AddNote, Top, Exists
    <3> HIDE DEF rest, a, m
    <3> QED BY <2>1, <2>2, <2>3, <3>1 DEF Placed
  <2>7. Placed(parent, over[n], a, m)
    BY <2>4, <2>5, <2>6 DEF Placed
  <2>8. added' = [added EXCEPT ![n] = a] /\ main' = [main EXCEPT ![n] = m] /\ UNCHANGED <<parent, over>>
    BY <1>2 DEF AddNote
  <2> HIDE DEF a, m
  <2> QED BY <2>3, <2>4, <2>7, <2>8, OneNoteKeeps
<1> QED BY <1>1, <1>2

LEMMA MakeMainKeeps ==
  ASSUME ServiceOK, requests \in Nat, NEW n \in Note, NEW c \in Constellation, MakeMain(n, c)
  PROVE  ServiceOK'
<1>1. CASE main[n] = c
  <2>1. UNCHANGED service
    BY <1>1 DEF MakeMain, service
  <2> QED BY <2>1, SameKeeps
<1>2. CASE main[n] # c
  <2> DEFINE rest == Rest(parent, added[n], c)
             o == Only(added[n], rest)
             k == IF o[c] > 0 THEN o[c] ELSE Now
             a == [o EXCEPT ![c] = k]
  <2>1. added[n] \in Joined /\ Now \in Nat \ {0} /\ Placed(parent, over[n], added[n], main[n])
    BY DEF ServiceOK, Now
  <2>2. rest \subseteq In(added[n]) /\ \A d \in rest : ~OneLine(parent, c, d)
    BY DEF Rest
  <2>3. o \in Joined /\ k \in Nat \ {0}
    <3>1. o \in Joined
      <4> HIDE DEF rest
      <4> QED BY <2>1, <2>2, OnlyFacts
    <3> HIDE DEF o
    <3> QED BY <2>1, <3>1 DEF Joined
  <2>4. a \in Joined /\ In(a) = rest \cup {c}
    <3> HIDE DEF k, rest
    <3>1. In(o) = rest
      BY <2>1, <2>2, OnlyFacts
    <3> HIDE DEF o
    <3> QED BY <2>3, <3>1, JoinFacts DEF a
  <2>5. added' = [added EXCEPT ![n] = a] /\ main' = [main EXCEPT ![n] = c] /\ UNCHANGED <<parent, over>>
    BY <1>2 DEF MakeMain
  <2> HIDE DEF a
  <2>6. \A d, e \in In(a) : ~OneLine(parent, d, e)
    <3> HIDE DEF rest
    <3> QED BY <2>1, <2>2, <2>4 DEF Placed, OneLine
  <2>7. \A d \in In(a) : Alive(parent, d) /\ over[n] = None
    <3>1. Alive(parent, c) /\ over[n] = None
      BY DEF MakeMain, Top, Exists
    <3> HIDE DEF rest
    <3> QED BY <2>1, <2>2, <2>4, <3>1 DEF Placed
  <2>8. Placed(parent, over[n], a, c)
    BY <2>4, <2>6, <2>7 DEF Placed
  <2> QED BY <2>4, <2>5, <2>8, OneNoteKeeps
<1> QED BY <1>1, <1>2

LEMMA RemoveKeeps ==
  ASSUME ServiceOK, NEW n \in Note, NEW c, RemoveNote(n, c)
  PROVE  ServiceOK'
<1> DEFINE S == In(added[n]) \ {c}
           a == Only(added[n], S)
<1>1. added[n] \in Joined /\ main[n] \in Constellation \cup {None} /\ Placed(parent, over[n], added[n], main[n])
  BY DEF ServiceOK
<1>2. PICK h \in Heir(added[n], main[n], S) : main' = [main EXCEPT ![n] = h]
  BY DEF RemoveNote
<1>4. a \in Joined /\ In(a) = S
  <2>1. S \subseteq In(added[n])
    OBVIOUS
  <2> HIDE DEF S
  <2> QED BY <1>1, <2>1, OnlyFacts
<1>5. h \in S \/ (S = {} /\ h = None)
  BY <1>2, HeirFacts
<1>6. h \in Constellation \cup {None}
  BY <1>5 DEF In
<1>7. Placed(parent, over[n], a, h)
  <2> HIDE DEF a
  <2> QED BY <1>1, <1>4, <1>5 DEF Placed
<1>8. added' = [added EXCEPT ![n] = a] /\ UNCHANGED <<parent, over>>
  BY DEF RemoveNote
<1> HIDE DEF a
<1> QED BY <1>2, <1>4, <1>6, <1>7, <1>8, OneNoteKeeps

\* What is left to show when notes change in a tree of constellations that stays.
LEMMA NotesKeep ==
  ASSUME ServiceOK, parent' = parent, over' \in [Note -> Over], Forest(over'),
         added' \in [Note -> Joined], main' \in [Note -> Constellation \cup {None}],
         \A k \in Note : Placed(parent, over'[k], added'[k], main'[k])
  PROVE  ServiceOK'
BY DEF ServiceOK

\* A note without a place keeps the rules anywhere.
LEMMA NowhereKeeps ==
  ASSUME NEW p, NEW o, NEW a, NEW m, In(a) = {}, m = None
  PROVE  Placed(p, o, a, m)
BY DEF Placed

LEMMA MoveUnderKeeps ==
  ASSUME ServiceOK, NEW n \in Note, NEW p \in Note, MoveUnder(n, p)
  PROVE  ServiceOK'
<1>1. CASE over[n] = p
  <2>1. UNCHANGED service
    BY <1>1 DEF MoveUnder, service
  <2> QED BY <2>1, SameKeeps
<1>2. CASE over[n] # p
  <2>1. /\ over' = [over EXCEPT ![n] = p] /\ added' = [added EXCEPT ![n] = Nothing]
        /\ main' = [main EXCEPT ![n] = None] /\ parent' = parent
        /\ n \notin Up(over, p)
    BY <1>2 DEF MoveUnder
  <2>2. over \in [Note -> Over] /\ Forest(over) /\ over[p] \in Note \cup {None}
    BY DEF ServiceOK, MoveUnder, Here, Alive
  <2>3. over' \in [Note -> Over] /\ added' \in [Note -> Joined] /\ main' \in [Note -> Constellation \cup {None}]
    BY <2>1, NothingFacts DEF ServiceOK, Over
  <2>4. Hangs(over, over', Note, n) /\ over'[n] = p
    BY <2>1, <2>2 DEF Hangs
  <2>5. Forest(over')
    BY <2>2, <2>3, <2>4, MoveForest
  <2>6. ASSUME NEW k \in Note
        PROVE  Placed(parent, over'[k], added'[k], main'[k])
    <3>1. CASE k = n
      <4>1. added'[k] = Nothing /\ main'[k] = None
        BY <2>1, <3>1 DEF ServiceOK
      <4> QED BY <4>1, NothingFacts, NowhereKeeps
    <3>2. CASE k # n
      BY <2>1, <3>2 DEF ServiceOK
    <3> QED BY <3>1, <3>2
  <2> QED BY <2>1, <2>3, <2>5, <2>6, NotesKeep
<1> QED BY <1>1, <1>2

LEMMA MoveOutKeeps ==
  ASSUME ServiceOK, requests \in Nat, NEW n \in Note, NEW c, MoveOut(n, c)
  PROVE  ServiceOK'
<1>1. over' = [over EXCEPT ![n] = None] /\ parent' = parent
  BY DEF MoveOut
<1>2. over \in [Note -> Over] /\ Forest(over) /\ Now \in Nat \ {0} /\ over' \in [Note -> Over]
  BY <1>1 DEF ServiceOK, Over, Now
<1>3. Hangs(over, over', Note, n) /\ over'[n] = None
  BY <1>1, <1>2 DEF Hangs
<1>4. Forest(over')
  BY <1>2, <1>3, MoveForest
<1>5. CASE Top(n) \/ c = None
  <2>1. UNCHANGED <<added, main>>
    BY <1>5 DEF MoveOut
  <2>2. ASSUME NEW k \in Note
        PROVE  Placed(parent, over'[k], added'[k], main'[k])
    BY <1>1, <2>1 DEF ServiceOK, Placed
  <2> QED BY <1>1, <1>2, <1>4, <2>1, <2>2, NotesKeep DEF ServiceOK
<1>6. CASE ~Top(n) /\ c # None
  <2> DEFINE a == [Nothing EXCEPT ![c] = Now]
  <2>1. added' = [added EXCEPT ![n] = a] /\ main' = [main EXCEPT ![n] = c] /\ Alive(parent, c)
    BY <1>6 DEF MoveOut, Exists
  <2>2. a \in Joined /\ In(a) = {c} /\ c \in Constellation
    <3>1. c \in Constellation
      BY <2>1 DEF Alive, ServiceOK
    <3> QED BY <1>2, <3>1, OnlyHere
  <2> HIDE DEF a
  <2>3. added' \in [Note -> Joined] /\ main' \in [Note -> Constellation \cup {None}]
    BY <2>1, <2>2 DEF ServiceOK
  <2>4. ASSUME NEW k \in Note
        PROVE  Placed(parent, over'[k], added'[k], main'[k])
    <3>1. CASE k = n
      <4>1. added'[k] = a /\ main'[k] = c /\ over'[k] = None
        BY <1>3, <2>1, <3>1 DEF ServiceOK
      <4> QED BY <2>1, <2>2, <4>1 DEF Placed, OneLine
    <3>2. CASE k # n
      BY <1>1, <2>1, <3>2 DEF ServiceOK
    <3> QED BY <3>1, <3>2
  <2> QED BY <1>1, <1>2, <1>4, <2>3, <2>4, NotesKeep
<1> QED BY <1>5, <1>6

LEMMA RemovedKeeps ==
  ASSUME ServiceOK, NEW n \in Note, Removed(Branch(over, n)), UNCHANGED parent
  PROVE  ServiceOK'
<1> DEFINE S == Branch(over, n)
<1>1. over \in [Note -> Over] /\ Forest(over) /\ Gone \notin Note
  BY DEF ServiceOK
<1>2. /\ over' \in [Note -> Over] /\ added' \in [Note -> Joined] /\ main' \in [Note -> Constellation \cup {None}]
      /\ \A k \in S : k \in Note => over'[k] = Gone /\ added'[k] = Nothing /\ main'[k] = None
      /\ \A k \in Note \ S : over'[k] = over[k] /\ added'[k] = added[k] /\ main'[k] = main[k]
  <2> HIDE DEF S
  <2>1. Removed(S)
    BY DEF S
  <2> QED BY <2>1, NothingFacts DEF Removed, ServiceOK, Over
<1>3. S \subseteq Note
  BY <1>1 DEF Branch
<1>4. Forest(over')
  BY <1>1, <1>2, <1>3, CutForest
<1>5. ASSUME NEW k \in Note
      PROVE  Placed(parent, over'[k], added'[k], main'[k])
  <2> HIDE DEF S
  <2>1. CASE k \in S
    BY <1>2, <2>1, NothingFacts, NowhereKeeps
  <2>2. CASE k \notin S
    BY <1>2, <2>2 DEF ServiceOK
  <2> QED BY <2>1, <2>2
<1> HIDE DEF S
<1> QED BY <1>2, <1>4, <1>5, NotesKeep

\* A note that goes without its sub-notes lifts them, and a top note leaves
\* them its places.
LEMMA DeleteNoteCases ==
  ASSUME ServiceOK, NEW n \in Note, NEW fate, DeleteNote(n, fate)
  PROVE  \/ Removed(Branch(over, n))
         \/ /\ Lifts(over, over', Note, n) /\ over'[n] = Gone
            /\ over[n] \in Note \cup {None}
            /\ \A k \in Note : /\ added'[k] = IF k = n THEN Nothing
                                              ELSE IF over[n] = None /\ over[k] = n THEN added[n] ELSE added[k]
                               /\ main'[k] = IF k = n THEN None
                                             ELSE IF over[n] = None /\ over[k] = n THEN main[n] ELSE main[k]
            /\ over' \in [Note -> Over] /\ added' \in [Note -> Joined] /\ main' \in [Note -> Constellation \cup {None}]
<1>1. over \in [Note -> Over] /\ over[n] \in Note \cup {None} /\ Gone \notin Note
  BY DEF ServiceOK, DeleteNote, Here, Alive
<1>2. CASE Under(n) = {}
  <2>1. Branch(over, n) = {n}
    BY <1>1, <1>2, LeafBranch DEF Under
  <2>2. Removed({n})
    BY <1>2 DEF DeleteNote
  <2> QED BY <2>1, <2>2
<1>3. CASE Under(n) # {} /\ fate = "delete"
  BY <1>3 DEF DeleteNote
<1>4. CASE Under(n) # {} /\ fate # "delete"
  <2> DEFINE heirs == IF Top(n) THEN Under(n) ELSE {}
  <2>1. /\ over' = [k \in Note |-> IF k = n THEN Gone ELSE IF over[k] = n THEN over[n] ELSE over[k]]
        /\ added' = [k \in Note |-> IF k = n THEN Nothing ELSE IF k \in heirs THEN added[n] ELSE added[k]]
        /\ main' = [k \in Note |-> IF k = n THEN None ELSE IF k \in heirs THEN main[n] ELSE main[k]]
    BY <1>4 DEF DeleteNote
  <2>2. \A k \in Note : k \in heirs <=> over[n] = None /\ over[k] = n
    BY DEF Top, Under
  <2> HIDE DEF heirs
  <2>3. Lifts(over, over', Note, n) /\ over'[n] = Gone
    BY <1>1, <2>1 DEF Lifts
  <2>4. over' \in [Note -> Over] /\ added' \in [Note -> Joined] /\ main' \in [Note -> Constellation \cup {None}]
    BY <1>1, <2>1, NothingFacts DEF ServiceOK, Over
  <2>5. \A k \in Note : /\ added'[k] = IF k = n THEN Nothing
                                       ELSE IF over[n] = None /\ over[k] = n THEN added[n] ELSE added[k]
                        /\ main'[k] = IF k = n THEN None
                                      ELSE IF over[n] = None /\ over[k] = n THEN main[n] ELSE main[k]
    BY <2>1, <2>2
  <2> QED BY <1>1, <2>3, <2>4, <2>5
<1> QED BY <1>2, <1>3, <1>4

LEMMA DeleteNoteKeeps ==
  ASSUME ServiceOK, NEW n \in Note, NEW fate, DeleteNote(n, fate)
  PROVE  ServiceOK'
<1>1. parent' = parent /\ over \in [Note -> Over] /\ Forest(over)
  BY DEF DeleteNote, ServiceOK
<1>2. CASE Removed(Branch(over, n))
  BY <1>1, <1>2, RemovedKeeps
<1>3. CASE ~Removed(Branch(over, n))
  <2>1. /\ Lifts(over, over', Note, n) /\ over'[n] = Gone /\ over[n] \in Note \cup {None}
        /\ over' \in [Note -> Over] /\ added' \in [Note -> Joined] /\ main' \in [Note -> Constellation \cup {None}]
    BY <1>3, DeleteNoteCases
  <2>2. Forest(over')
    BY <1>1, <2>1, LiftForest
  <2>3. ASSUME NEW k \in Note
        PROVE  Placed(parent, over'[k], added'[k], main'[k])
    <3>1. /\ added'[k] = IF k = n THEN Nothing ELSE IF over[n] = None /\ over[k] = n THEN added[n] ELSE added[k]
          /\ main'[k] = IF k = n THEN None ELSE IF over[n] = None /\ over[k] = n THEN main[n] ELSE main[k]
      BY <1>3, DeleteNoteCases
    <3>2. k # n => over'[k] = IF over[k] = n THEN over[n] ELSE over[k]
      BY <2>1 DEF Lifts
    <3>3. Placed(parent, over[k], added[k], main[k]) /\ Placed(parent, over[n], added[n], main[n])
      BY DEF ServiceOK
    <3>4. CASE k = n
      BY <3>1, <3>4, NothingFacts, NowhereKeeps
    <3>5. CASE k # n /\ over[k] = n
      BY <3>1, <3>2, <3>3, <3>5 DEF Placed
    <3>6. CASE k # n /\ over[k] # n
      BY <3>1, <3>2, <3>3, <3>6
    <3> QED BY <3>4, <3>5, <3>6
  <2> QED BY <1>1, <2>1, <2>2, <2>3, NotesKeep
<1> QED BY <1>2, <1>3

-----------------------------------------------------------------------------
(* Changes of the tree of constellations.                                  *)

\* Where the line above two constellations did not grow, no new pair is on
\* one line.
LEMMA LineShrinks ==
  ASSUME NEW p, NEW q, NEW c, NEW d, ~OneLine(p, c, d), Up(q, c) \subseteq Up(p, c), Up(q, d) \subseteq Up(p, d)
  PROVE  ~OneLine(q, c, d)
BY DEF OneLine

LEMMA CreateKeeps ==
  ASSUME ServiceOK, NEW c \in Constellation, NEW t \in Constellation \cup {None}, Create(c, t)
  PROVE  ServiceOK'
<1>1. /\ parent' = [parent EXCEPT ![c] = t] /\ UNCHANGED <<over, added, main>> /\ parent[c] = Later
      /\ t # None => parent[t] \in Constellation \cup {None}
  BY DEF Create, Exists, Alive, ServiceOK
<1>2. parent \in [Constellation -> Parent] /\ Forest(parent) /\ Later \notin Constellation \cup {None}
  BY DEF ServiceOK
<1>3. parent' \in [Constellation -> Parent] /\ parent'[c] = t
  BY <1>1, <1>2 DEF Parent
<1>4. ASSUME NEW x \in Constellation \ {c}
      PROVE  c \notin Up(parent, x)
  <2>1. \A z \in Constellation : parent[z] # c
    BY <1>1, <1>2, ForestStep
  <2>2. Branch(parent, c) = {c}
    BY <1>2, <2>1, LeafBranch, ZenonT(40)
  <2> QED BY <1>2, <2>2 DEF Branch
<1>5. Hangs(parent, parent', Constellation, c)
  <2>1. t # c
    BY <1>1, <1>2
  <2> QED BY <1>1, <1>2, <1>4, <2>1 DEF Hangs
<1>6. Forest(parent')
  BY <1>1, <1>2, <1>3, <1>5, MoveForest
<1>7. ASSUME NEW k \in Note
      PROVE  Placed(parent', over[k], added[k], main[k])
  <2>1. Placed(parent, over[k], added[k], main[k])
    BY DEF ServiceOK
  <2>2. ASSUME NEW d \in In(added[k])
        PROVE  Alive(parent', d) /\ Up(parent', d) = Up(parent, d)
    <3>1. d \in Constellation /\ Alive(parent, d) /\ d # c
      BY <1>1, <1>2, <2>1 DEF Placed, In, Alive
    <3>2. Alive(parent', d)
      BY <1>1, <1>2, <1>3, <3>1 DEF Alive
    <3> QED BY <1>2, <1>3, <1>4, <1>5, <3>1, <3>2, MoveUp, SMTT(30)
  <2> QED BY <2>1, <2>2 DEF Placed, OneLine
<1> QED BY <1>1, <1>3, <1>6, <1>7 DEF ServiceOK

\* Each note is left a place where it had one, and the main one among them.
LEMMA DeepestGives ==
  ASSUME ServiceOK, NEW p, NEW c, Deepest(p, c), NEW n \in Note
  PROVE  /\ added'[n] \in Joined /\ In(added'[n]) = In(added[n]) \ GivesWay(p, c, n)
         /\ main'[n] \in Constellation \cup {None}
         /\ main'[n] \in In(added'[n]) \/ (In(added'[n]) = {} /\ main'[n] = None)
<1> DEFINE S == In(added[n]) \ GivesWay(p, c, n)
           heirs == [k \in Note |-> IF main[k] \in GivesWay(p, c, k) THEN Oldest(added[k], Below(p, added[k], main[k]))
                                                                      ELSE {main[k]}]
<1>1. added[n] \in Joined /\ Placed(parent, over[n], added[n], main[n]) /\ main[n] \in Constellation \cup {None}
  BY DEF ServiceOK
<1>2. added'[n] \in Joined /\ In(added'[n]) = S
  <2>1. added'[n] = Only(added[n], S)
    BY DEF Deepest
  <2> HIDE DEF S
  <2>2. S \in SUBSET In(added[n])
    BY DEF S
  <2> QED BY <1>1, <2>1, <2>2, OnlyFacts
<1>3. main'[n] \in heirs[n]
  <2>1. Inherit(heirs)
    BY DEF Deepest
  <2> HIDE DEF heirs
  <2> QED BY <2>1 DEF Inherit
<1>4. GivesWay(p, c, n) \subseteq Above(p, added[n])
  BY DEF GivesWay
<1>5. CASE main[n] \in GivesWay(p, c, n)
  <2>1. main'[n] \in Oldest(added[n], Below(p, added[n], main[n]))
    BY <1>3, <1>5
  <2>2. main'[n] \in In(added[n]) \ Above(p, added[n])
    BY <2>1 DEF Oldest, Below
  <2> QED BY <1>2, <1>4, <2>2 DEF In
<1>6. CASE main[n] \notin GivesWay(p, c, n)
  <2>1. main'[n] = main[n]
    BY <1>3, <1>6
  <2> QED BY <1>1, <1>2, <1>6, <2>1 DEF Placed
<1> QED BY <1>2, <1>5, <1>6

LEMMA MoveBranchKeeps ==
  ASSUME ServiceOK, NEW c \in Constellation, NEW t \in Constellation \cup {None}, MoveBranch(c, t)
  PROVE  ServiceOK'
<1>1. /\ parent' = [parent EXCEPT ![c] = t] /\ over' = over
      /\ t # None => parent[t] \in Constellation \cup {None} /\ c \notin Up(parent, t)
  BY DEF MoveBranch, Exists, Alive, ServiceOK
<1>2. parent \in [Constellation -> Parent] /\ Forest(parent)
  BY DEF ServiceOK
<1>3. parent' \in [Constellation -> Parent] /\ parent'[c] = t
  BY <1>1, <1>2 DEF Parent
<1>4. Hangs(parent, parent', Constellation, c)
  BY <1>1, <1>2 DEF Hangs
<1>5. Forest(parent')
  BY <1>1, <1>2, <1>3, <1>4, MoveForest
<1>6. ASSUME NEW d, Alive(parent, d)
      PROVE  Alive(parent', d)
  BY <1>1, <1>2, <1>3, <1>6 DEF Alive
<1>7. CASE t = parent[c]
  <2>1. UNCHANGED service
    BY <1>1, <1>2, <1>7 DEF MoveBranch, service
  <2> QED BY <2>1, SameKeeps
<1>8. CASE t = None
  <2>1. UNCHANGED <<added, main>>
    BY <1>8 DEF MoveBranch
  <2>2. \A d \in Constellation : Up(parent', d) \subseteq Up(parent, d)
    <3>1. NewAbove(parent, parent', Constellation, c) = {}
      BY <1>3, <1>8 DEF NewAbove
    <3> QED BY <1>2, <1>3, <1>4, <3>1, MoveUp
  <2>3. ASSUME NEW k \in Note
        PROVE  Placed(parent', over[k], added[k], main[k])
    <3>1. Placed(parent, over[k], added[k], main[k]) /\ In(added[k]) \subseteq Constellation
      BY DEF ServiceOK, In
    <3> QED BY <1>6, <2>2, <3>1, LineShrinks DEF Placed
  <2> QED BY <1>1, <1>3, <1>5, <2>1, <2>3 DEF ServiceOK
<1>9. CASE t # None /\ t # parent[c]
  <2>1. Deepest(parent', c)
    BY <1>9 DEF MoveBranch
  <2>2. added' \in [Note -> Joined] /\ main' \in [Note -> Constellation \cup {None}]
    <3>1. \A n \in Note : added'[n] \in Joined /\ main'[n] \in Constellation \cup {None}
      BY <2>1, DeepestGives
    <3> QED BY <2>1, <3>1 DEF Deepest, Inherit
  <2>3. ASSUME NEW k \in Note
        PROVE  Placed(parent', over[k], added'[k], main'[k])
    <3>1. /\ In(added'[k]) = In(added[k]) \ GivesWay(parent', c, k)
          /\ main'[k] \in In(added'[k]) \/ (In(added'[k]) = {} /\ main'[k] = None)
      BY <2>1, DeepestGives
    <3>2. Placed(parent, over[k], added[k], main[k]) /\ In(added[k]) \subseteq Constellation
      BY DEF ServiceOK, In
    <3>3. ASSUME NEW d \in In(added'[k]), NEW e \in In(added'[k])
          PROVE  ~OneLine(parent', d, e)
      <4>1. CASE In(added[k]) \cap Branch(parent', c) # {}
        <5>1. In(added'[k]) = In(added[k]) \ Above(parent', added[k])
          BY <3>1, <4>1 DEF GivesWay
        <5> QED BY <3>3, <5>1 DEF Above, OneLine
      <4>2. CASE In(added[k]) \cap Branch(parent', c) = {}
        <5>1. ASSUME NEW x \in In(added[k])
              PROVE  Up(parent, x) = Up(parent', x)
          <6>1. x \in Constellation /\ c \notin Up(parent', x)
            BY <1>3, <3>2, <4>2 DEF Branch
          <6>2. \A z \in Up(parent', x) : parent[z] = parent'[z]
            <7>1. Up(parent', x) \subseteq Constellation
              BY <1>3, <6>1, UpFacts
            <7> QED BY <1>1, <1>2, <6>1, <7>1
          <6> QED BY <1>2, <1>3, <6>1, <6>2, UpSame
        <5>2. d \in In(added[k]) /\ e \in In(added[k])
          BY <3>1, <3>3
        <5>3. ~OneLine(parent, d, e)
          BY <3>2, <5>2 DEF Placed
        <5> QED BY <5>1, <5>2, <5>3 DEF OneLine
      <4> QED BY <4>1, <4>2
    <3>4. \A d \in In(added'[k]) : Alive(parent', d) /\ over[k] = None
      BY <1>6, <3>1, <3>2 DEF Placed
    <3> QED BY <3>1, <3>3, <3>4 DEF Placed
  <2> QED BY <1>1, <1>3, <1>5, <2>2, <2>3 DEF ServiceOK
<1> QED BY <1>7, <1>8, <1>9

\* What a deleted branch leaves each note.
LEMMA BranchGives ==
  ASSUME ServiceOK, requests \in Nat, NEW c \in Constellation, NEW t \in Constellation \cup {None},
         DeleteBranch(c, t), NEW n \in Note
  PROVE  LET rest == In(added[n]) \ Branch(parent, c) IN
         /\ added'[n] \in Joined
         /\ \/ /\ In(added'[n]) = rest /\ main'[n] \in Heir(added[n], main[n], rest)
               /\ In(added[n]) # {} => rest # {}
            \/ /\ rest = {} /\ In(added[n]) # {} /\ t # None
               /\ In(added'[n]) = {t} /\ main'[n] = t
            \/ rest = {} /\ In(added[n]) # {} /\ t = None /\ In(added'[n]) = {} /\ main'[n] = None
<1> DEFINE gone == Branch(parent, c)
           rest == [k \in Note |-> In(added[k]) \ gone]
           moved == {k \in Note : In(added[k]) # {} /\ rest[k] = {}}
           heirs == [k \in Note |-> IF k \in moved THEN {t} ELSE Heir(added[k], main[k], rest[k])]
<1>1. /\ added'[n] = IF n \in moved /\ t # None THEN [Nothing EXCEPT ![t] = Now] ELSE Only(added[n], rest[n])
      /\ Inherit(heirs)
  BY DEF DeleteBranch
<1>2. main'[n] \in heirs[n]
  <2> HIDE DEF heirs
  <2> QED BY <1>1 DEF Inherit
<1>3. added[n] \in Joined /\ Now \in Nat \ {0}
  BY DEF ServiceOK, Now
<1>4. rest[n] = In(added[n]) \ gone /\ (n \in moved <=> In(added[n]) # {} /\ rest[n] = {})
  OBVIOUS
<1>5. heirs[n] = IF n \in moved THEN {t} ELSE Heir(added[n], main[n], rest[n])
  OBVIOUS
<1> HIDE DEF gone, rest, moved, heirs
<1>6. rest[n] \in SUBSET In(added[n])
  BY <1>4
<1>7. CASE n \in moved /\ t # None
  <2>1. added'[n] = [Nothing EXCEPT ![t] = Now] /\ t \in Constellation
    BY <1>1, <1>7
  <2>2. added'[n] \in Joined /\ In(added'[n]) = {t}
    BY <1>3, <2>1, OnlyHere, ZenonT(40)
  <2> QED BY <1>2, <1>4, <1>5, <1>7, <2>2 DEF gone
<1>8. CASE ~(n \in moved /\ t # None)
  <2>1. added'[n] \in Joined /\ In(added'[n]) = rest[n]
    BY <1>1, <1>3, <1>6, <1>8, OnlyFacts
  <2> QED BY <1>2, <1>4, <1>5, <1>8, <2>1 DEF gone
<1> QED BY <1>7, <1>8

LEMMA DeleteBranchKeeps ==
  ASSUME ServiceOK, requests \in Nat, NEW c \in Constellation, NEW t \in Constellation \cup {None},
         DeleteBranch(c, t)
  PROVE  ServiceOK'
<1> DEFINE gone == Branch(parent, c)
<1>1. parent \in [Constellation -> Parent] /\ Forest(parent) /\ Gone \notin Constellation
  BY DEF ServiceOK
<1>2. /\ parent' = [d \in Constellation |-> IF d \in gone THEN Gone ELSE parent[d]] /\ over' = over
      /\ t # None => Alive(parent, t) /\ t \notin gone
  BY DEF DeleteBranch, Exists
<1>3. gone \subseteq Constellation
  BY <1>1 DEF Branch
<1>4. /\ parent' \in [Constellation -> Parent]
      /\ \A d \in Constellation \ gone : parent'[d] = parent[d]
      /\ \A d \in gone : parent'[d] \notin Constellation
  <2> HIDE DEF gone
  <2> QED BY <1>1, <1>2, <1>3 DEF Parent
<1>5. Forest(parent')
  BY <1>1, <1>4, CutForest
<1>6. ASSUME NEW d \in Constellation \ gone
      PROVE  Up(parent', d) = Up(parent, d) /\ (Alive(parent, d) => Alive(parent', d))
  <2>1. Up(parent', d) = Up(parent, d)
    <3>1. parent \in [Constellation -> Parent] /\ parent' \in [Constellation -> Parent]
      BY <1>1, <1>4
    <3>2. \A z \in Constellation \ Branch(parent, c) : parent'[z] = parent[z]
      BY <1>4
    <3>3. d \in Constellation \ Branch(parent, c)
      OBVIOUS
    <3>4. Up(parent, d) \cap Branch(parent, c) = {} /\ Up(parent, d) \subseteq Constellation
      <4>1. c \notin Up(parent, d) /\ d \in Constellation
        BY <3>1, <3>3 DEF Branch
      <4> QED BY <3>1, <4>1, CutAbove, UpFacts
    <3>5. \A z \in Up(parent, d) : parent'[z] = parent[z]
      BY <3>2, <3>4
    <3> QED BY <3>1, <3>3, <3>5, UpSame
  <2> QED BY <1>1, <1>4, <2>1 DEF Alive
<1>7. ASSUME NEW k \in Note
      PROVE  /\ added'[k] \in Joined /\ main'[k] \in Constellation \cup {None}
             /\ Placed(parent', over[k], added'[k], main'[k])
  <2> DEFINE rest == In(added[k]) \ gone
  <2>1. Placed(parent, over[k], added[k], main[k]) /\ In(added[k]) \subseteq Constellation
    BY DEF ServiceOK, In
  <2>2. /\ added'[k] \in Joined
        /\ \/ /\ In(added'[k]) = rest /\ main'[k] \in Heir(added[k], main[k], rest)
              /\ In(added[k]) # {} => rest # {}
           \/ /\ rest = {} /\ In(added[k]) # {} /\ t # None
              /\ In(added'[k]) = {t} /\ main'[k] = t
           \/ rest = {} /\ In(added[k]) # {} /\ t = None /\ In(added'[k]) = {} /\ main'[k] = None
    BY BranchGives
  <2>3. CASE In(added'[k]) = rest /\ main'[k] \in Heir(added[k], main[k], rest)
    <3>1. main'[k] \in rest \/ (rest = {} /\ main'[k] = None)
      BY <2>3, HeirFacts
    <3>2. \A d, e \in rest : ~OneLine(parent', d, e)
      BY <1>6, <2>1 DEF Placed, OneLine
    <3>3. \A d \in rest : Alive(parent', d) /\ over[k] = None
      BY <1>6, <2>1 DEF Placed
    <3> HIDE DEF rest
    <3>4. rest \subseteq Constellation
      BY <2>1 DEF rest
    <3> QED BY <2>2, <2>3, <3>1, <3>2, <3>3, <3>4 DEF Placed
  <2>4. CASE In(added[k]) # {} /\ t # None /\ In(added'[k]) = {t} /\ main'[k] = t
    <3>1. Alive(parent', t) /\ over[k] = None
      BY <1>2, <1>6, <2>1, <2>4 DEF Placed
    <3> QED BY <2>2, <2>4, <3>1 DEF Placed, OneLine
  <2>5. CASE In(added'[k]) = {} /\ main'[k] = None
    BY <2>2, <2>5, NowhereKeeps
  <2> QED BY <2>2, <2>3, <2>4, <2>5
<1>8. added' \in [Note -> Joined] /\ main' \in [Note -> Constellation \cup {None}]
  BY <1>7 DEF DeleteBranch, Inherit
<1> QED BY <1>2, <1>4, <1>5, <1>7, <1>8 DEF ServiceOK

-----------------------------------------------------------------------------
(* Every step of every tab keeps what the service holds in order.          *)

NoteChange(n, x) == \/ AddNote(n, x) \/ MakeMain(n, x) \/ RemoveNote(n, x)
                    \/ MoveUnder(n, x) \/ MoveOut(n, x) \/ DeleteNote(n, x)
TreeChange(c, t) == Create(c, t) \/ MoveBranch(c, t) \/ DeleteBranch(c, t)

\* Whatever a stale tab names, the service looks it up.
LEMMA NoteChangeKeeps ==
  ASSUME ServiceOK, requests \in Nat, NEW n \in Note, NEW x, NoteChange(n, x)
  PROVE  ServiceOK'
<1>1. DOMAIN parent = Constellation /\ DOMAIN over = Note
  BY DEF ServiceOK
<1>2. CASE AddNote(n, x)
  <2>1. x \in Constellation
    BY <1>1, <1>2 DEF AddNote, Exists, Alive
  <2> QED BY <1>2, <2>1, AddKeeps
<1>3. CASE MakeMain(n, x)
  <2>1. x \in Constellation
    BY <1>1, <1>3 DEF MakeMain, Exists, Alive
  <2> QED BY <1>3, <2>1, MakeMainKeeps
<1>4. CASE RemoveNote(n, x)
  BY <1>4, RemoveKeeps
<1>5. CASE MoveUnder(n, x)
  <2>1. x \in Note
    BY <1>1, <1>5 DEF MoveUnder, Here, Alive
  <2> QED BY <1>5, <2>1, MoveUnderKeeps
<1>6. CASE MoveOut(n, x)
  BY <1>6, MoveOutKeeps
<1>7. CASE DeleteNote(n, x)
  BY <1>7, DeleteNoteKeeps
<1> QED BY <1>2, <1>3, <1>4, <1>5, <1>6, <1>7 DEF NoteChange

LEMMA TreeChangeKeeps ==
  ASSUME ServiceOK, requests \in Nat, NEW c \in Constellation, NEW t \in Constellation \cup {None}, TreeChange(c, t)
  PROVE  ServiceOK'
BY CreateKeeps, MoveBranchKeeps, DeleteBranchKeeps DEF TreeChange

\* A step leaves the service alone, or it is one change that the service
\* decides, and no dialog that was drawn before it is up to date after it.
LEMMA DoesChanges ==
  ASSUME NEW op, NEW at, Does(op, at)
  PROVE  NoteChange(Shown, at)
BY DEF Does, NoteChange

ServiceChange == \/ \E n \in Note : \E x : NoteChange(n, x)
                 \/ \E c \in Constellation : \E t \in Constellation \cup {None} : TreeChange(c, t)

LEMMA StepChanges ==
  ASSUME ServiceOK, [Next]_vars
  PROVE  UNCHANGED <<service, requests>> \/ (ServiceChange /\ Sends)
<1>0. DOMAIN parent = Constellation /\ DOMAIN over = Note
  BY DEF ServiceOK
<1>1. Shown \in Note
  OBVIOUS
<1>2. CASE UNCHANGED vars
  BY <1>2 DEF vars, counts
<1>3. CASE SectionNext
  <2>1. CASE Confirm
    <3>1. NoteChange(Shown, asks.at) /\ Sends
      BY <2>1, DoesChanges DEF Confirm
    <3> QED BY <1>1, <3>1 DEF ServiceChange
  <2>2. CASE PicksAtOnce
    <3>1. PICK c \in Constellation : Does("add", c) \/ Does("main", c)
      BY <2>2 DEF PicksAtOnce, Places, In
    <3>2. NoteChange(Shown, c) /\ Sends
      BY <2>2, <3>1, DoesChanges DEF PicksAtOnce
    <3> QED BY <1>1, <3>2 DEF ServiceChange
  <2>3. ASSUME NEW c \in Constellation, NEW t \in Constellation \cup {None}, SectionCreates(c, t)
        PROVE  ServiceChange /\ Sends
    BY <2>3 DEF SectionCreates, TreeChange, ServiceChange
  <2>4. CASE \/ Asks \/ Cancel \/ Answered \/ AnswerLost
             \/ ReadTree \/ ReadPlace \/ ReadFails \/ ReadAgain \/ SectionLists
    <3>1. UNCHANGED <<service, requests>>
      BY <2>4 DEF Asks, Cancel, Answered, AnswerLost, ReadTree, ReadPlace, ReadFails, ReadAgain, SectionLists, counts
    <3> QED BY <3>1
  <2> QED BY <1>3, <2>1, <2>2, <2>3, <2>4 DEF SectionNext
<1>4. CASE PageNext
  <2>1. CASE PageDeletes
    <3> DEFINE t == IF delete.to = Nowhere THEN None ELSE delete.to
    <3>1. DeleteBranch(delete.on, t) /\ Sends
      BY <2>1 DEF PageDeletes
    <3> HIDE DEF t
    <3>2. delete.on \in Constellation /\ t \in Constellation \cup {None}
      BY <1>0, <3>1 DEF DeleteBranch, Exists, Alive
    <3> QED BY <3>1, <3>2 DEF TreeChange, ServiceChange
  <2>2. ASSUME NEW c \in Constellation, NEW t \in Constellation \cup {None}, PageMoves(c, t) \/ PageCreates(c, t)
        PROVE  ServiceChange /\ Sends
    BY <2>2 DEF PageMoves, PageCreates, TreeChange, ServiceChange
  <2>3. CASE \/ PageReads \/ PageRetries \/ Counts \/ CloseDelete \/ PageRefreshes
             \/ \E c \in Constellation : OpenDelete(c)
             \/ \E t \in Constellation \cup {Nowhere} : ChooseTo(t)
    <3>1. UNCHANGED <<service, requests>>
      BY <2>3 DEF PageReads, PageRetries, Counts, CloseDelete, PageRefreshes, OpenDelete, ChooseTo, counts
    <3> QED BY <3>1
  <2> QED BY <1>4, <2>1, <2>2, <2>3 DEF PageNext
<1>5. CASE MenuNext
  <2>1. CASE MenuDeletes
    <3>1. DeleteNote(menu.on, Fate) /\ Sends /\ menu.on \in Note
      BY <1>0, <2>1 DEF MenuDeletes, DeleteNote, Here, Alive
    <3> QED BY <3>1 DEF NoteChange, ServiceChange
  <2>2. CASE MenuCounts \/ PickFate \/ CloseMenu \/ MenuRefused \/ \E n \in Note : OpenMenu(n)
    <3>1. UNCHANGED <<service, requests>>
      BY <2>2 DEF MenuCounts, PickFate, CloseMenu, MenuRefused, OpenMenu, counts
    <3> QED BY <3>1
  <2> QED BY <1>5, <2>1, <2>2 DEF MenuNext
<1>6. CASE OtherChanges
  <2>1. ASSUME NEW n \in Note, ChangesNote(n)
        PROVE  ServiceChange
    <3>1. \/ \E c \in Constellation : NoteChange(n, c)
          \/ \E p \in Note : NoteChange(n, p)
          \/ \E c \in Constellation \cup {None} : NoteChange(n, c)
          \/ \E fate \in {"ask", "keep", "delete"} : NoteChange(n, fate)
      BY <2>1 DEF ChangesNote, NoteChange
    <3> QED BY <3>1 DEF ServiceChange
  <2>2. ASSUME NEW c \in Constellation, ChangesTree(c)
        PROVE  ServiceChange
    BY <2>2 DEF ChangesTree, TreeChange, ServiceChange
  <2> QED BY <1>6, <2>1, <2>2 DEF OtherChanges
<1> QED BY <1>2, <1>3, <1>4, <1>5, <1>6 DEF Next

LEMMA StepKeeps ==
  ASSUME ServiceOK, requests \in Nat, [Next]_vars
  PROVE  ServiceOK' /\ requests' \in Nat
<1>1. CASE UNCHANGED <<service, requests>>
  BY <1>1, SameKeeps
<1>2. CASE ServiceChange /\ Sends
  <2>1. requests' \in Nat
    BY <1>2 DEF Sends
  <2>2. CASE \E n \in Note : \E x : NoteChange(n, x)
    BY <2>1, <2>2, NoteChangeKeeps
  <2>3. CASE \E c \in Constellation : \E t \in Constellation \cup {None} : TreeChange(c, t)
    BY <2>1, <2>3, TreeChangeKeeps
  <2> QED BY <1>2, <2>2, <2>3 DEF ServiceChange
<1> QED BY <1>1, <1>2, StepChanges

LEMMA InitOK == Init => ServiceOK /\ requests \in Nat
<1> SUFFICES ASSUME Init
             PROVE  ServiceOK /\ requests \in Nat
  OBVIOUS
<1>1. PICK s \in Starts : parent = s.parent /\ over = s.over /\ added = s.added /\ main = s.main
  BY DEF Init
<1>2. parent \in [Constellation -> Parent] /\ over \in [Note -> Over] /\ main \in [Note -> Constellation \cup {None}]
  BY <1>1, StartsAssumption DEF Parent, Over
<1>3. added \in [Note -> Joined]
  BY <1>1, StartsAssumption DEF Joined
<1>4. Forest(parent) /\ Forest(over) /\ OnePlace(parent, added) /\ OneMain(parent, over, added, main)
  BY <1>1, StartsAssumption
<1>5. \A n \in Note : Placed(parent, over[n], added[n], main[n])
  BY <1>4 DEF OnePlace, OneMain, Placed
<1> QED BY <1>2, <1>3, <1>4, <1>5 DEF ServiceOK, Init

IInv == ServiceOK /\ requests \in Nat

THEOREM InvariantHolds == Spec => []IInv
<1>1. Init => IInv
  BY InitOK DEF IInv
<1>2. IInv /\ [Next]_vars => IInv'
  BY StepKeeps DEF IInv
<1> QED BY <1>1, <1>2, PTL DEF Spec

\* Neither tree ever has a cycle, and nothing hangs under what is gone.
THEOREM NoCycleHolds == Spec => []NoCycle
BY InvariantHolds, ServiceFacts, PTL DEF IInv

\* A note never has two places on one line of the tree.
THEOREM OnePlacePerLineHolds == Spec => []OnePlacePerLine
BY InvariantHolds, ServiceFacts, PTL DEF IInv

\* A placed note always has one main place, which exists, as its others do.
THEOREM OneMainPlaceHolds == Spec => []OneMainPlace
BY InvariantHolds, ServiceFacts, PTL DEF IInv

-----------------------------------------------------------------------------
(* A confirmed change does what its dialog says.                           *)

\* What a confirmation k says, held against what the service holds.
Truth(k) ==
  \/ /\ k.op = "add" /\ Top(Shown) /\ k.told = Rest(parent, added[Shown], k.at) \cup {k.at}
     /\ k.heir = None /\ k.under = None
  \/ /\ k.op = "remove" /\ Top(Shown) /\ k.told = In(added[Shown]) \ {k.at} /\ k.under = None
     /\ k.heir # None => /\ main[Shown] = k.at /\ k.told # {}
                         /\ k.heir = CHOOSE h \in Oldest(added[Shown], k.told) : TRUE
  \/ k.op = "under" /\ k.told = {} /\ k.heir = None /\ k.under = k.at
  \/ k.op = "out" /\ ~Top(Shown) /\ k.told = {k.at} \ {None} /\ k.heir = k.at /\ k.under = None

AsksOK == "true" \in DOMAIN asks /\ (asks.true => Truth(asks))

\* The section that draws what the service holds draws the places of its note,
\* if that is a top note, and knows whether it is.
LEMMA DrawnNow ==
  ASSUME ServiceOK, Current
  PROVE  /\ tree = parent /\ (IsSub <=> ~Top(Shown))
         /\ Top(Shown) => place.added = added[Shown] /\ place.main = main[Shown] /\ Places = In(added[Shown])
<1>1. tree = parent /\ place = PlaceNow /\ over[Shown] \in Note \cup {None} /\ over \in [Note -> Over]
  BY DEF Current, Here, Alive, ServiceOK
<1> DEFINE top == CHOOSE r \in Up(over, Shown) : Top(r)
<1>2. /\ place.line = [n \in Note |-> IF n \in Up(over, Shown) THEN over[n] ELSE Gone]
      /\ place.added = added[top] /\ place.main = main[top]
  BY <1>1 DEF PlaceNow
<1>3. IsSub <=> ~Top(Shown)
  <2>1. Shown \in Up(over, Shown)
    BY <1>1, UpFacts
  <2>2. place.line[Shown] = over[Shown]
    BY <1>2, <2>1
  <2> QED BY <1>1, <2>2 DEF IsSub, Top
<1>4. ASSUME Top(Shown)
      PROVE  place.added = added[Shown] /\ place.main = main[Shown] /\ Places = In(added[Shown])
  <2>1. Up(over, Shown) = {Shown}
    BY <1>1, <1>4, UpTop DEF Top
  <2>2. top = Shown
    BY <1>4, <2>1
  <2>3. place.added = added[Shown] /\ place.main = main[Shown]
    BY <1>2, <2>2
  <2>4. \A c \in In(added[Shown]) : Alive(parent, c)
    BY DEF ServiceOK, Placed
  <2> QED BY <1>1, <2>3, <2>4 DEF Places, Drawn
<1> QED BY <1>1, <1>3, <1>4

LEMMA AsksTruth ==
  ASSUME ServiceOK, Asks
  PROVE  AsksOK'
<1>1. UNCHANGED service
  BY DEF Asks
<1>2. \E op, at, told, heir, under : asks' = Says(op, at, told, heir, under)
  BY DEF Asks, ToTop, UnderNote, CrossTop, OffRoot, OutTo, CrossLine, CrossNote
<1>3. "true" \in DOMAIN asks' /\ asks'.true = Current
  BY <1>2 DEF Says
<1>4. ASSUME Current
      PROVE  Truth(asks')
  <2>1. CASE ~IsSub
    <3>1. /\ tree = parent /\ Top(Shown)
          /\ place.added = added[Shown] /\ place.main = main[Shown] /\ Places = In(added[Shown])
      BY <1>4, <2>1, DrawnNow
    <3>2. ASSUME NEW c, asks' = ToTop(c)
          PROVE  Truth(asks')
      <4>1. Places \ OnLine(c) = Rest(parent, added[Shown], c)
        BY <3>1 DEF OnLine, Rest
      <4> QED BY <3>1, <3>2, <4>1 DEF ToTop, Says, Truth
    <3>3. ASSUME NEW c \in Places, asks' = OffRoot(c)
          PROVE  Truth(asks')
      BY <3>1, <3>3 DEF OffRoot, Says, Truth
    <3>4. ASSUME NEW n, asks' = UnderNote(n)
          PROVE  Truth(asks')
      BY <3>4 DEF UnderNote, Says, Truth
    <3> QED BY <2>1, <3>2, <3>3, <3>4 DEF Asks, CrossTop
  <2>2. CASE IsSub
    <3>1. ~Top(Shown)
      BY <1>4, <2>2, DrawnNow
    <3>2. ASSUME NEW c, asks' = OutTo(c)
          PROVE  Truth(asks')
      BY <3>1, <3>2 DEF OutTo, Says, Truth
    <3>3. ASSUME NEW n, asks' = UnderNote(n)
          PROVE  Truth(asks')
      BY <3>3 DEF UnderNote, Says, Truth
    <3> QED BY <2>2, <3>2, <3>3 DEF Asks, CrossLine, CrossNote
  <2> QED BY <2>1, <2>2
<1>5. Truth(asks') => Truth(asks)'
  BY <1>1 DEF Truth, Top, service
<1> QED BY <1>3, <1>4, <1>5 DEF AsksOK

\* Any other step asks nothing, and one that changes the service makes what
\* is asked a thing of the past.
LEMMA AsksKeeps ==
  ASSUME ServiceOK, AsksOK, [Next]_vars
  PROVE  AsksOK'
<1>1. CASE Asks
  BY <1>1, AsksTruth
<1>2. CASE asks' = NoAsk
  BY <1>2 DEF NoAsk, AsksOK
<1>3. CASE Sends
  BY <1>3 DEF Sends, AsksOK
<1>4. CASE UNCHANGED <<service, asks>>
  BY <1>4 DEF AsksOK, Truth, Top, service
<1>5. \/ Asks \/ asks' = NoAsk \/ Sends \/ UNCHANGED <<service, asks>>
  <2>1. CASE SectionNext
    BY <2>1 DEF SectionNext, Cancel, Confirm, PicksAtOnce, Answered, AnswerLost, ReadTree, ReadPlace, ReadFails,
                ReadAgain, SectionCreates, SectionLists
  <2>2. CASE PageNext
    BY <2>2 DEF PageNext, PageReads, PageRetries, Counts, CloseDelete, PageDeletes, PageRefreshes, OpenDelete,
                ChooseTo, PageMoves, PageCreates, section
  <2>3. CASE MenuNext
    BY <2>3 DEF MenuNext, MenuCounts, PickFate, CloseMenu, MenuDeletes, MenuRefused, OpenMenu, section
  <2>4. CASE OtherChanges
    BY <2>4 DEF OtherChanges
  <2>5. CASE UNCHANGED vars
    BY <2>5 DEF vars, tabs, section
  <2> QED BY <2>1, <2>2, <2>3, <2>4, <2>5 DEF Next
<1> QED BY <1>1, <1>2, <1>3, <1>4, <1>5

\* The oldest place is one.
LEMMA OldestIsOne ==
  ASSUME NEW a, NEW S, NEW h \in Oldest(a, S)
  PROVE  h = CHOOSE g \in Oldest(a, S) : TRUE
<1>1. \A g \in Oldest(a, S) : g = CHOOSE d \in {c \in S : \A d \in S : a[c] <= a[d]} : TRUE
  BY DEF Oldest
<1>2. (CHOOSE g \in Oldest(a, S) : TRUE) \in Oldest(a, S)
  OBVIOUS
<1> QED BY <1>1, <1>2

DoesIt(k) == /\ In(added'[Shown]) = k.told
             /\ k.heir # None => main'[Shown] = k.heir
             /\ over'[Shown] = k.under

LEMMA TruthDone ==
  ASSUME ServiceOK, requests \in Nat, NEW k, Truth(k), Does(k.op, k.at)
  PROVE  DoesIt(k)
<1>1. /\ added \in [Note -> Joined] /\ main \in [Note -> Constellation \cup {None}] /\ over \in [Note -> Over]
      /\ Placed(parent, over[Shown], added[Shown], main[Shown]) /\ Now \in Nat \ {0}
      /\ DOMAIN parent = Constellation /\ DOMAIN over = Note
  BY DEF ServiceOK, Now
<1>2. CASE k.op = "add"
  <2>1. AddNote(Shown, k.at) /\ k.told = Rest(parent, added[Shown], k.at) \cup {k.at} /\ k.heir = None /\ k.under = None
    BY <1>2 DEF Does, Truth
  <2>2. over'[Shown] = None /\ k.at \in Constellation
    BY <1>1, <2>1 DEF AddNote, Top, Exists, Alive
  <2>3. CASE k.at \in In(added[Shown])
    <3>1. added' = added
      BY <2>1, <2>3 DEF AddNote
    <3>2. Rest(parent, added[Shown], k.at) \cup {k.at} = In(added[Shown])
      BY <1>1, <2>3 DEF Rest, Placed
    <3> QED BY <2>1, <2>2, <3>1, <3>2 DEF DoesIt
  <2>4. CASE k.at \notin In(added[Shown])
    <3> DEFINE rest == Rest(parent, added[Shown], k.at)
               o == Only(added[Shown], rest)
    <3>1. added' = [added EXCEPT ![Shown] = [o EXCEPT ![k.at] = Now]]
      BY <2>1, <2>4 DEF AddNote
    <3>2. o \in Joined /\ In(o) = rest
      <4>1. rest \in SUBSET In(added[Shown]) /\ added[Shown] \in Joined
        BY <1>1 DEF Rest
      <4> HIDE DEF rest
      <4> QED BY <4>1, OnlyFacts
    <3> HIDE DEF o
    <3>3. In([o EXCEPT ![k.at] = Now]) = rest \cup {k.at}
      BY <1>1, <2>2, <3>2, JoinFacts
    <3>4. added'[Shown] = [o EXCEPT ![k.at] = Now]
      BY <1>1, <3>1
    <3> QED BY <2>1, <2>2, <3>3, <3>4 DEF DoesIt
  <2> QED BY <2>3, <2>4
<1>3. CASE k.op = "remove"
  <2> DEFINE S == In(added[Shown]) \ {k.at}
  <2>1. /\ RemoveNote(Shown, k.at) /\ k.told = S /\ k.under = None
        /\ k.heir # None => main[Shown] = k.at /\ S # {} /\ k.heir = CHOOSE h \in Oldest(added[Shown], S) : TRUE
    BY <1>3 DEF Does, Truth
  <2>2. over'[Shown] = None /\ added' = [added EXCEPT ![Shown] = Only(added[Shown], S)]
    BY <2>1 DEF RemoveNote, Top
  <2>3. PICK h \in Heir(added[Shown], main[Shown], S) : main' = [main EXCEPT ![Shown] = h]
    BY <2>1 DEF RemoveNote
  <2>4. S \in SUBSET In(added[Shown]) /\ added[Shown] \in Joined /\ k.at \notin S
    BY <1>1
  <2> HIDE DEF S
  <2>5. In(Only(added[Shown], S)) = S
    BY <2>4, OnlyFacts
  <2>6. In(added'[Shown]) = S
    BY <1>1, <2>2, <2>5
  <2>7. ASSUME k.heir # None
        PROVE  main'[Shown] = k.heir
    <3>1. h \in Oldest(added[Shown], S)
      BY <2>1, <2>3, <2>4, <2>7, HeirFacts
    <3>2. h = CHOOSE g \in Oldest(added[Shown], S) : TRUE
      BY <3>1, OldestIsOne
    <3> QED BY <1>1, <2>1, <2>3, <2>7, <3>2
  <2> QED BY <2>1, <2>2, <2>6, <2>7 DEF DoesIt
<1>4. CASE k.op = "under"
  <2>1. MoveUnder(Shown, k.at) /\ k.told = {} /\ k.heir = None /\ k.under = k.at
    BY <1>4 DEF Does, Truth
  <2>2. CASE over[Shown] = k.at
    <3>1. k.at \in Note /\ over' = over /\ added' = added
      BY <1>1, <2>1, <2>2 DEF MoveUnder, Here, Alive
    <3>2. In(added[Shown]) = {}
      BY <1>1, <2>2, <3>1 DEF Placed
    <3> QED BY <2>1, <2>2, <3>1, <3>2 DEF DoesIt
  <2>3. CASE over[Shown] # k.at
    <3>1. over' = [over EXCEPT ![Shown] = k.at] /\ added' = [added EXCEPT ![Shown] = Nothing]
      BY <2>1, <2>3 DEF MoveUnder
    <3>2. over'[Shown] = k.at /\ added'[Shown] = Nothing
      BY <1>1, <3>1
    <3> QED BY <2>1, <3>2, NothingFacts DEF DoesIt
  <2> QED BY <2>2, <2>3
<1>5. CASE k.op = "out"
  <2>1. MoveOut(Shown, k.at) /\ ~Top(Shown) /\ k.told = {k.at} \ {None} /\ k.heir = k.at /\ k.under = None
    BY <1>5 DEF Does, Truth
  <2>2. over'[Shown] = None
    BY <1>1, <2>1 DEF MoveOut
  <2>3. CASE k.at = None
    <3>1. added' = added
      BY <2>1, <2>3 DEF MoveOut
    <3>2. In(added[Shown]) = {}
      BY <1>1, <2>1 DEF Placed, Top
    <3> QED BY <2>1, <2>2, <2>3, <3>1, <3>2 DEF DoesIt
  <2>4. CASE k.at # None
    <3>1. k.at \in Constellation
      BY <1>1, <2>1, <2>4 DEF MoveOut, Exists, Alive
    <3>2. /\ added' = [added EXCEPT ![Shown] = [Nothing EXCEPT ![k.at] = Now]]
          /\ main' = [main EXCEPT ![Shown] = k.at]
      BY <2>1, <2>4 DEF MoveOut
    <3>3. In([Nothing EXCEPT ![k.at] = Now]) = {k.at}
      BY <1>1, <3>1, OnlyHere
    <3>4. added'[Shown] = [Nothing EXCEPT ![k.at] = Now] /\ main'[Shown] = k.at
      BY <1>1, <3>2
    <3> QED BY <2>1, <2>2, <2>4, <3>3, <3>4 DEF DoesIt
  <2> QED BY <2>3, <2>4
<1> QED BY <1>2, <1>3, <1>4, <1>5 DEF Truth

THEOREM AsksHold == Spec => []AsksOK
<1>1. Init => AsksOK
  BY DEF Init, NoAsk, AsksOK
<1>2. IInv /\ AsksOK /\ [Next]_vars => AsksOK'
  BY AsksKeeps DEF IInv
<1> QED BY InvariantHolds, <1>1, <1>2, PTL DEF Spec

\* A confirmed change does what its dialog says, if the dialog was drawn from
\* what the service holds.
THEOREM DoesWhatItSaysHolds == Spec => DoesWhatItSays
<1>1. IInv /\ AsksOK /\ [Next]_vars =>
        [Confirm /\ asks.true => /\ In(added'[Shown]) = asks.told
                                 /\ asks.heir # None => main'[Shown] = asks.heir
                                 /\ over'[Shown] = asks.under]_vars
  <2> SUFFICES ASSUME IInv, AsksOK, Confirm, asks.true
               PROVE  DoesIt(asks)
    BY DEF DoesIt
  <2>1. Truth(asks) /\ Does(asks.op, asks.at)
    BY DEF AsksOK, Confirm
  <2> QED BY <2>1, TruthDone DEF IInv
<1> QED BY InvariantHolds, AsksHold, <1>1, PTL DEF Spec, DoesWhatItSays

-----------------------------------------------------------------------------
(* The page deletes a branch without taking a note's last place.           *)

Pages == [at : {"closed", "loading", "ready", "error"}, tree : [Constellation -> Parent],
          wait : {"none", "list", "reload"}]
Deletes == [on : Constellation \cup {None}, count : {"none", "loading", "some", "error"}, to : Parent \cup {Nowhere}]

\* The dialog is open only over a tree that was read, and until it counted
\* notes that need a place, its target is the parent it read.
DeleteOK ==
  /\ page \in Pages /\ delete \in Deletes
  /\ delete.on # None => page.at = "ready" /\ (delete.count # "some" => delete.to = page.tree[delete.on])

LEMMA DeleteKeeps ==
  ASSUME ServiceOK, DeleteOK, [Next]_vars
  PROVE  DeleteOK'
<1>1. CASE UNCHANGED <<page, delete>>
  BY <1>1 DEF DeleteOK
<1>2. ASSUME page' \in Pages, delete' = NoDelete
      PROVE  DeleteOK'
  BY <1>2 DEF DeleteOK, NoDelete, Deletes, Parent
<1>3. parent \in [Constellation -> Parent]
  BY DEF ServiceOK
<1>4. Fresh \/ Failed => page' \in Pages
  <2>1. Fresh => page' \in Pages
    BY <1>3 DEF Fresh, Pages
  <2>2. Failed => page' \in Pages
    BY DEF Failed, Pages, DeleteOK
  <2> QED BY <2>1, <2>2
<1>5. CASE PageNext
  <2>1. CASE PageReads
    <3>1. page.at = "loading" /\ delete' = delete /\ page' \in Pages
      BY <1>4, <2>1 DEF PageReads
    <3> QED BY <3>1 DEF DeleteOK
  <2>2. CASE PageRetries
    BY <2>2 DEF PageRetries, DeleteOK, Pages
  <2>3. ASSUME NEW c \in Constellation, OpenDelete(c)
        PROVE  DeleteOK'
    <3>1. page' = page /\ delete' = [on |-> c, count |-> "loading", to |-> page.tree[c]] /\ page.at = "ready"
      BY <2>3 DEF OpenDelete, PageIdle
    <3>2. page.tree[c] \in Parent
      BY DEF DeleteOK, Pages
    <3> QED BY <3>1, <3>2 DEF DeleteOK, Deletes
  <2>4. CASE Counts
    BY <2>4 DEF Counts, DeleteOK, Deletes
  <2>5. ASSUME NEW t \in Constellation \cup {Nowhere}, ChooseTo(t)
        PROVE  DeleteOK'
    BY <2>5 DEF ChooseTo, DeleteOK, Deletes, Parent
  <2>6. CASE CloseDelete
    BY <1>2, <2>6 DEF CloseDelete, DeleteOK
  <2>7. ASSUME delete' = delete, page' \in Pages, page'.at = page.at, page'.tree = page.tree
        PROVE  DeleteOK'
    BY <2>7 DEF DeleteOK
  <2>8. ASSUME NEW w \in {"list", "reload"}, Then(w)
        PROVE  page' \in Pages /\ page'.at = page.at /\ page'.tree = page.tree
    BY <2>8 DEF Then, DeleteOK, Pages
  <2>9. CASE PageDeletes
    BY <2>7, <2>8, <2>9 DEF PageDeletes
  <2>10. ASSUME NEW c \in Constellation, NEW t \in Constellation \cup {None}, PageMoves(c, t) \/ PageCreates(c, t)
         PROVE  DeleteOK'
    BY <2>7, <2>8, <2>10 DEF PageMoves, PageCreates
  <2>11. CASE PageRefreshes
    <3>1. CASE page' = [page EXCEPT !.wait = "reload"] /\ UNCHANGED delete
      <4>1. page' \in Pages /\ page'.at = page.at /\ page'.tree = page.tree
        BY <3>1 DEF DeleteOK, Pages
      <4> QED BY <2>7, <3>1, <4>1
    <3>2. CASE (Fresh \/ Failed) /\ delete' = NoDelete
      BY <1>2, <1>4, <3>2
    <3> QED BY <2>11, <3>1, <3>2 DEF PageRefreshes
  <2> QED BY <1>5, <2>1, <2>2, <2>3, <2>4, <2>5, <2>6, <2>9, <2>10, <2>11 DEF PageNext
<1>6. CASE SectionNext
  <2>1. UNCHANGED <<page, delete>>
    BY <1>6 DEF SectionNext, Asks, Cancel, Confirm, PicksAtOnce, Answered, AnswerLost, ReadTree, ReadPlace, ReadFails,
                ReadAgain, SectionCreates, SectionLists
  <2> QED BY <1>1, <2>1
<1>7. CASE MenuNext
  <2>1. UNCHANGED <<page, delete>>
    BY <1>7 DEF MenuNext, MenuCounts, PickFate, CloseMenu, MenuDeletes, MenuRefused, OpenMenu
  <2> QED BY <1>1, <2>1
<1>8. CASE OtherChanges \/ UNCHANGED vars
  <2>1. UNCHANGED <<page, delete>>
    BY <1>8 DEF OtherChanges, vars, tabs
  <2> QED BY <1>1, <2>1
<1> QED BY <1>5, <1>6, <1>7, <1>8 DEF Next

THEOREM DeletesHold == Spec => []DeleteOK
<1>1. Init => DeleteOK
  BY DEF Init, DeleteOK, Pages, Deletes, NoDelete, NoTree, Parent
<1>2. IInv /\ DeleteOK /\ [Next]_vars => DeleteOK'
  BY DeleteKeeps DEF IInv
<1> QED BY InvariantHolds, <1>1, <1>2, PTL DEF Spec

\* Deleting a constellation from its page takes no note's last place, unless
\* the user chose so, or the branch was a root counted empty.
THEOREM NotesKeepAPlaceHolds == Spec => NotesKeepAPlace
<1>1. IInv /\ DeleteOK /\ [Next]_vars =>
        [PageDeletes =>
           \A n \in Note : In(added[n]) # {} /\ In(added'[n]) = {} =>
             delete.to = Nowhere \/ (delete.count = "none" /\ page.tree[delete.on] = None)]_vars
  <2> SUFFICES ASSUME IInv, DeleteOK, PageDeletes, NEW n \in Note,
                      In(added[n]) # {}, In(added'[n]) = {}, delete.to # Nowhere
               PROVE  delete.count = "none" /\ page.tree[delete.on] = None
    OBVIOUS
  <2>1. /\ DeleteBranch(delete.on, delete.to) /\ delete.on # None
        /\ delete.count \in {"none", "some"} /\ (delete.count = "some" => delete.to # None)
    BY DEF PageDeletes
  <2>2. ServiceOK /\ requests \in Nat /\ delete.on \in Constellation
    BY <2>1 DEF IInv, DeleteOK, Deletes
  <2>3. delete.to \in Constellation \cup {None}
    BY <2>1, <2>2 DEF DeleteBranch, Exists, Alive, ServiceOK
  <2>4. delete.to = None
    <3> DEFINE rest == In(added[n]) \ Branch(parent, delete.on)
    <3>1. \/ In(added'[n]) = rest /\ (In(added[n]) # {} => rest # {})
          \/ In(added'[n]) = {delete.to}
          \/ delete.to = None
      BY <2>1, <2>2, <2>3, BranchGives
    <3> HIDE DEF rest
    <3> QED BY <3>1
  <2> QED BY <2>1, <2>4 DEF DeleteOK
<1> QED BY InvariantHolds, DeletesHold, <1>1, PTL DEF Spec, NotesKeepAPlace

-----------------------------------------------------------------------------
(* A deleted note.                                                         *)

\* A note with sub-notes is deleted only after its dialog asked about them,
\* and they go with it only when the user said so.
THEOREM SubNotesAskedForHolds == Spec => SubNotesAskedFor
<1>1. IInv /\ [Next]_vars =>
        [MenuDeletes /\ Under(menu.on) # {} =>
           /\ menu.count = "some"
           /\ menu.fate = "delete" \/ \A n \in Note \ {menu.on} : Here(n) => Here(n)']_vars
  <2> SUFFICES ASSUME IInv, MenuDeletes, Under(menu.on) # {}
               PROVE  menu.count = "some" /\ (menu.fate = "delete" \/ \A n \in Note \ {menu.on} : Here(n) => Here(n)')
    OBVIOUS
  <2>1. DeleteNote(menu.on, Fate) /\ Fate # "ask"
    BY DEF MenuDeletes, DeleteNote
  <2>2. menu.count = "some" /\ Fate = menu.fate
    BY <2>1 DEF Fate
  <2>3. ASSUME menu.fate # "delete", NEW n \in Note \ {menu.on}, Here(n)
        PROVE  Here(n)'
    <3>1. over' = [k \in Note |-> IF k = menu.on THEN Gone ELSE IF over[k] = menu.on THEN over[menu.on] ELSE over[k]]
      BY <2>1, <2>2, <2>3 DEF DeleteNote
    <3>2. DOMAIN over = Note /\ over[menu.on] \in Note \cup {None} /\ over[n] \in Note \cup {None}
      BY <2>1, <2>3 DEF DeleteNote, Here, Alive, IInv, ServiceOK
    <3> QED BY <3>1, <3>2 DEF Here, Alive
  <2> QED BY <2>2, <2>3
<1> QED BY InvariantHolds, <1>1, PTL DEF Spec, SubNotesAskedFor

\* Only a deletion takes a note away.
LEMMA OthersTakeNone ==
  ASSUME ServiceOK, [Next]_vars, ~ \E n \in Note : \E fate : DeleteNote(n, fate), NEW n \in Note, Here(n)
  PROVE  Here(n)'
<1>1. over \in [Note -> Over] /\ DOMAIN over = Note /\ over[n] \in Note \cup {None}
  BY DEF ServiceOK, Here, Alive
<1>2. ASSUME NEW m \in Note, NEW x, NoteChange(m, x)
      PROVE  over'[n] \in Note \cup {None} /\ DOMAIN over' = Note
  <2>1. CASE AddNote(m, x) \/ MakeMain(m, x) \/ RemoveNote(m, x)
    BY <1>1, <2>1 DEF AddNote, MakeMain, RemoveNote
  <2>2. CASE MoveUnder(m, x)
    BY <1>1, <2>2 DEF MoveUnder, Here, Alive
  <2>3. CASE MoveOut(m, x)
    BY <1>1, <2>3 DEF MoveOut
  <2> QED BY <1>2, <2>1, <2>2, <2>3 DEF NoteChange
<1>3. ASSUME NEW c, NEW t, TreeChange(c, t)
      PROVE  over' = over
  BY <1>3 DEF TreeChange, Create, MoveBranch, DeleteBranch
<1>4. over'[n] \in Note \cup {None} /\ DOMAIN over' = Note
  BY <1>1, <1>2, <1>3, StepChanges DEF ServiceChange, service
<1> QED BY <1>4 DEF Here, Alive

LEMMA RemovedStay ==
  ASSUME ServiceOK, NEW n \in Note, Removed(Branch(over, n)), NEW k \in Note, Here(k)'
  PROVE  LivesIn(k)' = LivesIn(k)
<1> DEFINE S == Branch(over, n)
<1>1. over \in [Note -> Over] /\ Gone \notin Note /\ Gone # None
  BY DEF ServiceOK
<1>2. /\ over' = [m \in Note |-> IF m \in S THEN Gone ELSE over[m]]
      /\ added' = [m \in Note |-> IF m \in S THEN Nothing ELSE added[m]]
  BY DEF Removed
<1> HIDE DEF S
<1>3. k \notin S /\ over' \in [Note -> Over] /\ \A m \in Note \ S : over'[m] = over[m] /\ added'[m] = added[m]
  <2>1. over'[k] \in Note \cup {None}
    BY <1>2 DEF Here, Alive
  <2> QED BY <1>1, <1>2, <2>1 DEF Over
<1>4. Up(over, k) \cap S = {} /\ Up(over, k) \subseteq Note
  <2>1. n \notin Up(over, k)
    BY <1>1, <1>3 DEF S, Branch
  <2> QED BY <1>1, <2>1, CutAbove, UpFacts DEF S
<1>5. Up(over', k) = Up(over, k)
  <2>1. \A z \in Up(over, k) : over'[z] = over[z]
    BY <1>3, <1>4
  <2> QED BY <1>1, <1>3, <2>1, UpSame
<1> QED BY <1>3, <1>4, <1>5 DEF LivesIn, Top

LEMMA LiftedStay ==
  ASSUME ServiceOK, NEW n \in Note, Lifts(over, over', Note, n), over' \in [Note -> Over], over'[n] = Gone,
         \A k \in Note : added'[k] = IF k = n THEN Nothing ELSE IF over[n] = None /\ over[k] = n THEN added[n] ELSE added[k],
         NEW k \in Note, Here(k)'
  PROVE  LivesIn(k)' = LivesIn(k)
<1>1. over \in [Note -> Over] /\ Forest(over) /\ Gone \notin Note /\ Gone # None /\ None \notin Note
  BY DEF ServiceOK
<1>2. k # n
  BY <1>1 DEF Here, Alive
<1>3. Up(over', k) = Up(over, k) \ {n} /\ (n \in Up(over, k) => \E z \in Up(over', k) : over[z] = n)
  BY <1>1, <1>2, LiftUp
<1>4. Up(over, k) \subseteq Note /\ Closed(over, Up(over, k))
  BY <1>1, UpFacts
<1>5. \A z \in Note \ {n} : over'[z] = IF over[z] = n THEN over[n] ELSE over[z]
  BY DEF Lifts
<1>6. ASSUME NEW c \in Constellation, NEW r \in Up(over', k), over'[r] = None, c \in In(added'[r])
      PROVE  \E s \in Up(over, k) : over[s] = None /\ c \in In(added[s])
  <2>1. r \in Note \ {n} /\ r \in Up(over, k)
    BY <1>3, <1>4
  <2>2. CASE over[r] = n
    <3>1. over[n] = None
      BY <1>5, <1>6, <2>1, <2>2
    <3>2. n \in Up(over, k)
      BY <1>1, <1>4, <2>1, <2>2 DEF Closed
    <3> QED BY <1>6, <2>1, <2>2, <3>1, <3>2
  <2>3. CASE over[r] # n
    BY <1>5, <1>6, <2>1, <2>3
  <2> QED BY <2>2, <2>3
<1>7. ASSUME NEW c \in Constellation, NEW r \in Up(over, k), over[r] = None, c \in In(added[r])
      PROVE  \E s \in Up(over', k) : over'[s] = None /\ c \in In(added'[s])
  <2>1. CASE r = n
    <3>1. PICK z \in Up(over', k) : over[z] = n
      BY <1>3, <1>7, <2>1
    <3>2. z \in Note \ {n}
      BY <1>3, <1>4, <3>1
    <3>3. over'[z] = None /\ added'[z] = added[n]
      BY <1>5, <1>7, <2>1, <3>1, <3>2
    <3> QED BY <1>7, <2>1, <3>3
  <2>2. CASE r # n
    <3>1. r \in Up(over', k) /\ r \in Note \ {n}
      BY <1>3, <1>4, <2>2
    <3>2. over'[r] = None /\ added'[r] = added[r]
      BY <1>1, <1>5, <1>7, <3>1
    <3> QED BY <1>7, <3>1, <3>2
  <2> QED BY <2>1, <2>2
<1> QED BY <1>6, <1>7 DEF LivesIn, Top

\* The notes that stay when a note is deleted live where they lived.
THEOREM StayersKeepTheirPlaceHolds == Spec => StayersKeepTheirPlace
<1>1. IInv /\ [Next]_vars =>
        [(\E n \in Note : Here(n) /\ ~Here(n)') => \A k \in Note : Here(k)' => LivesIn(k)' = LivesIn(k)]_vars
  <2> SUFFICES ASSUME IInv, [Next]_vars, NEW m \in Note, Here(m), ~Here(m)', NEW k \in Note, Here(k)'
               PROVE  LivesIn(k)' = LivesIn(k)
    OBVIOUS
  <2>1. ServiceOK
    BY DEF IInv
  <2>2. PICK n \in Note : \E fate : DeleteNote(n, fate)
    BY <2>1, OthersTakeNone
  <2>3. PICK fate : DeleteNote(n, fate)
    BY <2>2
  <2>4. CASE Removed(Branch(over, n))
    BY <2>1, <2>4, RemovedStay
  <2>5. CASE ~Removed(Branch(over, n))
    BY <2>1, <2>3, <2>5, DeleteNoteCases, LiftedStay
  <2> QED BY <2>4, <2>5
<1> QED BY InvariantHolds, <1>1, PTL DEF Spec, StayersKeepTheirPlace

=============================================================================
