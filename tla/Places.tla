------------------------------- MODULE Places -------------------------------
(***************************************************************************)
(* Where the notes of one user live: the constellation tree, the notes     *)
(* under notes and the places of the top notes, as the note service keeps  *)
(* them, and three tabs that change them: the section of one note's place, *)
(* the page of the constellations, and a note's menu that deletes it.      *)
(*                                                                         *)
(* A request is decided in the step in which it is sent: the service works *)
(* under one lock for the user, and what others change while a request is  *)
(* on its way they could have changed before.  One that is refused or lost *)
(* changes nothing but a message; an answer takes time, or is lost.        *)
(***************************************************************************)
EXTENDS Naturals, FiniteSets

CONSTANTS
  Constellation,
  Note,
  None,        \* the parent of a root and of a top note; no constellation
  Gone,        \* the parent of what was deleted
  Later,       \* the parent of a constellation not created yet
  Nowhere,     \* the choice to leave notes without a constellation
  Shown,       \* the note whose section is open
  Starts,      \* what the service may hold when the tabs open, and which open
  MaxRequests, \* bound on changes asked for
  MaxOthers    \* bound on changes by other devices

VARIABLES
  parent,   \* constellations: parent_id
  over,     \* notes: parent_note_id
  added,    \* note_constellation: when a note joined a constellation, 0 if it did not
  main,     \* note_constellation: the main constellation of a note
  requests, \* changes asked for so far: the service's clock
  others,   \* those by other devices
  load,     \* the section: what it has read
  tree,     \* the section: the tree it read
  place,    \* the section: the place it read
  asks,     \* the section: the open confirmation
  answer,   \* the section: the answer on its way
  making,   \* the section: the constellation its picker created, until the tree is listed
  page,     \* the page: status, tree, and the refresh after a change
  delete,   \* the page: the dialog that deletes a constellation
  menu      \* the dialog that deletes a note

service == <<parent, over, added, main>>
counts == <<requests, others>>
section == <<load, tree, place, asks, answer, making>>
tabs == <<section, page, delete, menu>>
vars == <<service, counts, tabs>>

-----------------------------------------------------------------------------
(* The rules of the service.                                               *)

\* x and everything above it: what every set that holds x and the parents of
\* its members holds.
Closed(p, S) == \A z \in S : p[z] \in DOMAIN p => p[z] \in S
Up(p, x) == LET closed == {S \in SUBSET DOMAIN p : x \in S /\ Closed(p, S)}
            IN {y \in DOMAIN p : \A S \in closed : y \in S}

OneLine(p, c, d) == c # d /\ (c \in Up(p, d) \/ d \in Up(p, c))

Branch(p, c) == {d \in DOMAIN p : c \in Up(p, d)}

Alive(p, x) == x \in DOMAIN p /\ p[x] \in DOMAIN p \cup {None}
Exists(c) == Alive(parent, c)
Here(n) == Alive(over, n)
Under(n) == {k \in Note : over[k] = n}

In(a) == {c \in Constellation : a[c] > 0}
Only(a, S) == [c \in Constellation |-> IF c \in S THEN a[c] ELSE 0]

\* The oldest place of S; the smaller id of two as old.
Oldest(a, S) == LET first == {c \in S : \A d \in S : a[c] <= a[d]}
                IN {c \in first : c = CHOOSE d \in first : TRUE}

\* Who may be main when the places S are left of a.
\* Variant: A lost main is not replaced.
HeirForgotten(a, m, S) == {IF m \in S THEN m ELSE None}
Heir(a, m, S) == IF m \in S THEN {m} ELSE IF S = {} THEN {None} ELSE Oldest(a, S)

\* The places on the line of c give way to it.
Rest(p, a, c) == {d \in In(a) : ~OneLine(p, c, d)}

Above(p, a) == {c \in In(a) : \E d \in In(a) : c # d /\ c \in Up(p, d)}
Below(p, a, m) == {d \in In(a) \ Above(p, a) : m \in Up(p, d)}

Now == requests + 1

\* What holds of the trees and of the places a user has.
Forest(p) == \A x \in DOMAIN p : p[x] \in DOMAIN p => x \notin Up(p, p[x]) /\ Alive(p, p[x])
OnePlace(p, a) == \A n \in Note : \A c, d \in In(a[n]) : ~OneLine(p, c, d)
OneMain(p, o, a, m) ==
  \A n \in Note : /\ m[n] \in In(a[n]) \/ (In(a[n]) = {} /\ m[n] = None)
                  /\ \A c \in In(a[n]) : Alive(p, c) /\ o[n] = None

ASSUME BoundsAssumption == MaxRequests \in Nat /\ MaxOthers \in Nat
ASSUME NamesAssumption ==
  /\ Shown \in Note
  /\ {None, Gone, Later} \cap (Constellation \cup Note) = {}
  /\ None # Gone /\ None # Later
  /\ Nowhere \notin Constellation \cup {None}
ASSUME StartsAssumption ==
  \A s \in Starts :
    /\ s.parent \in [Constellation -> Constellation \cup {None, Gone, Later}]
    /\ s.over \in [Note -> Note \cup {None, Gone}]
    /\ s.added \in [Note -> [Constellation -> {0, 1}]]
    /\ s.main \in [Note -> Constellation \cup {None}]
    /\ Forest(s.parent) /\ Forest(s.over)
    /\ OnePlace(s.parent, s.added) /\ OneMain(s.parent, s.over, s.added, s.main)

-----------------------------------------------------------------------------
(* The changes the service can make.                                       *)

Top(n) == over[n] = None

AddNote(n, c) ==
  /\ Top(n) /\ Exists(c)
  /\ IF c \in In(added[n]) THEN UNCHANGED <<added, main>>
     ELSE LET rest == Rest(parent, added[n], c) IN
          /\ added' = [added EXCEPT ![n] = [Only(@, rest) EXCEPT ![c] = Now]]
          /\ main' = [main EXCEPT ![n] = IF rest = {} \/ @ \notin rest THEN c ELSE @]
  /\ UNCHANGED <<parent, over>>

MakeMain(n, c) ==
  /\ Top(n) /\ Exists(c)
  /\ IF main[n] = c THEN UNCHANGED <<added, main>>
     ELSE LET kept == Only(added[n], Rest(parent, added[n], c))
              since == IF kept[c] > 0 THEN kept[c] ELSE Now IN
          /\ added' = [added EXCEPT ![n] = [kept EXCEPT ![c] = since]]
          /\ main' = [main EXCEPT ![n] = c]
  /\ UNCHANGED <<parent, over>>

RemoveNote(n, c) ==
  /\ Top(n)
  /\ added' = [added EXCEPT ![n] = Only(@, In(@) \ {c})]
  /\ \E h \in Heir(added[n], main[n], In(added[n]) \ {c}) : main' = [main EXCEPT ![n] = h]
  /\ UNCHANGED <<parent, over>>

Nothing == [c \in Constellation |-> 0]

\* Variant: A move does not look at what is below the note.
MoveUnderAnything(n, p) ==
  /\ Here(n) /\ Here(p) /\ n # p
  /\ IF over[n] = p THEN UNCHANGED <<over, added, main>>
     ELSE /\ over' = [over EXCEPT ![n] = p]
          /\ added' = [added EXCEPT ![n] = Nothing]
          /\ main' = [main EXCEPT ![n] = None]
  /\ UNCHANGED parent

MoveUnder(n, p) ==
  /\ Here(n) /\ Here(p) /\ n \notin Up(over, p)
  /\ IF over[n] = p THEN UNCHANGED <<over, added, main>>
     ELSE /\ over' = [over EXCEPT ![n] = p]
          /\ added' = [added EXCEPT ![n] = Nothing]
          /\ main' = [main EXCEPT ![n] = None]
  /\ UNCHANGED parent

MoveOut(n, c) ==
  /\ Here(n) /\ (Top(n) \/ c = None \/ Exists(c))
  /\ over' = [over EXCEPT ![n] = None]
  /\ IF Top(n) \/ c = None THEN UNCHANGED <<added, main>>
     ELSE added' = [added EXCEPT ![n] = [Nothing EXCEPT ![c] = Now]] /\ main' = [main EXCEPT ![n] = c]
  /\ UNCHANGED parent

Removed(S) ==
  /\ over' = [n \in Note |-> IF n \in S THEN Gone ELSE over[n]]
  /\ added' = [n \in Note |-> IF n \in S THEN Nothing ELSE added[n]]
  /\ main' = [n \in Note |-> IF n \in S THEN None ELSE main[n]]

\* Variant: The sub-notes that stay become top notes.
DeleteNoteUnhangs(n, fate) ==
  /\ Here(n) /\ (Under(n) # {} => fate # "ask")
  /\ IF Under(n) = {} THEN Removed({n})
     ELSE IF fate = "delete" THEN Removed(Branch(over, n))
     ELSE /\ over' = [k \in Note |-> IF k = n THEN Gone ELSE IF over[k] = n THEN None ELSE over[k]]
          /\ added' = [added EXCEPT ![n] = Nothing]
          /\ main' = [main EXCEPT ![n] = None]
  /\ UNCHANGED parent

\* Without a word on its sub-notes, a note that has some stays.
DeleteNote(n, fate) ==
  /\ Here(n) /\ (Under(n) # {} => fate # "ask")
  /\ IF Under(n) = {} THEN Removed({n})
     ELSE IF fate = "delete" THEN Removed(Branch(over, n))
     ELSE LET heirs == IF Top(n) THEN Under(n) ELSE {} IN
          /\ over' = [k \in Note |-> IF k = n THEN Gone ELSE IF over[k] = n THEN over[n] ELSE over[k]]
          /\ added' = [k \in Note |-> IF k = n THEN Nothing ELSE IF k \in heirs THEN added[n] ELSE added[k]]
          /\ main' = [k \in Note |-> IF k = n THEN None ELSE IF k \in heirs THEN main[n] ELSE main[k]]
  /\ UNCHANGED parent

Create(c, t) ==
  /\ parent[c] = Later /\ (t = None \/ Exists(t))
  /\ parent' = [parent EXCEPT ![c] = t]
  /\ UNCHANGED <<over, added, main>>

\* A note with a place in the moved branch keeps the deepest of each line.
\* Variant: Only notes placed in the moved constellation itself are looked at.
GivesWayBelow(p, c, n) == IF c \in In(added[n]) THEN Above(p, added[n]) ELSE {}
GivesWay(p, c, n) == IF In(added[n]) \cap Branch(p, c) # {} THEN Above(p, added[n]) ELSE {}

\* Each note has a main place among its heirs.
Inherit(heirs) == /\ \A n \in Note : heirs[n] # {}
                  /\ main' = [n \in Note |-> CHOOSE h \in heirs[n] : TRUE]

Deepest(p, c) ==
  /\ added' = [n \in Note |-> Only(added[n], In(added[n]) \ GivesWay(p, c, n))]
  /\ Inherit([n \in Note |-> IF main[n] \in GivesWay(p, c, n) THEN Oldest(added[n], Below(p, added[n], main[n]))
                                                                ELSE {main[n]}])

MoveBranch(c, t) ==
  /\ Exists(c) /\ (t = None \/ (Exists(t) /\ c \notin Up(parent, t)))
  /\ parent' = [parent EXCEPT ![c] = t]
  /\ IF t = None \/ t = parent[c] THEN UNCHANGED <<added, main>> ELSE Deepest(parent', c)
  /\ UNCHANGED over

\* The notes placed only in the branch move to t, or lose their place.
DeleteBranch(c, t) ==
  LET gone == Branch(parent, c)
      rest == [n \in Note |-> In(added[n]) \ gone]
      moved == {n \in Note : In(added[n]) # {} /\ rest[n] = {}}
  IN /\ Exists(c) /\ (t = None \/ (Exists(t) /\ t \notin gone))
     /\ parent' = [d \in Constellation |-> IF d \in gone THEN Gone ELSE parent[d]]
     /\ added' = [n \in Note |-> IF n \in moved /\ t # None THEN [Nothing EXCEPT ![t] = Now]
                                                             ELSE Only(added[n], rest[n])]
     /\ Inherit([n \in Note |-> IF n \in moved THEN {t} ELSE Heir(added[n], main[n], rest[n])])
     /\ UNCHANGED over

-----------------------------------------------------------------------------
(* The section of the note Shown.                                          *)

PlaceNow == LET top == CHOOSE r \in Up(over, Shown) : Top(r) IN
  [line |-> [n \in Note |-> IF n \in Up(over, Shown) THEN over[n] ELSE Gone], added |-> added[top], main |-> main[top]]

NoAsk == [op |-> "none", at |-> None, told |-> {}, heir |-> None, under |-> None, true |-> FALSE]
NoPlace == [line |-> [n \in Note |-> Gone], added |-> Nothing, main |-> None]
NoAnswer == [at |-> "none", place |-> NoPlace]

\* The section draws the tree and the place it read; a constellation that is
\* not in the tree is left out.
Drawn(c) == Alive(tree, c)
Places == {c \in In(place.added) : Drawn(c)}
IsSub == place.line[Shown] \in Note
Line == Up(place.line, Shown) \ {Shown}

\* Does the section draw what the service holds now?
Current == tree = parent /\ Here(Shown) /\ place = PlaceNow

Idle == load = "ready" /\ asks = NoAsk /\ answer.at = "none"

\* What a confirmation says is left: the places, the main one if it says so,
\* and the note above.
Says(op, at, told, heir, under) ==
  [op |-> op, at |-> at, told |-> told, heir |-> heir, under |-> under, true |-> Current]

OnLine(c) == {d \in Places : OneLine(tree, c, d)}
ToTop(c) == Says("add", c, (Places \ OnLine(c)) \cup {c}, None, None)
\* Variant: The main place is taken to stay main.
OffRootUnheired(c) == Says("remove", c, Places \ {c}, IF place.main \in Places THEN place.main ELSE None, None)
OffRoot(c) == Says("remove", c, Places \ {c},
                   IF place.main = c /\ Places # {c} THEN CHOOSE h \in Oldest(place.added, Places \ {c}) : TRUE ELSE None, None)
UnderNote(n) == Says("under", n, {}, None, n)
OutTo(c) == Says("out", c, {c} \ {None}, c, None)

\* Crosses: on a segment of a place, off to the segment before it; on a
\* segment of a sub-note's main line; on a note above it.
CrossTop(c, d) == IF tree[d] = None THEN OffRoot(c) ELSE ToTop(tree[d])
CrossLine(d) == OutTo(tree[d])
CrossNote(n) == IF place.line[n] \in Note THEN UnderNote(place.line[n])
                ELSE OutTo(IF place.main \in Places THEN place.main ELSE None)

Asks ==
  /\ Idle
  /\ \/ ~IsSub /\ \E c \in Constellation \ Places : Drawn(c) /\ OnLine(c) # {} /\ asks' = ToTop(c)
     \/ ~IsSub /\ \E n \in Note \ {Shown} : asks' = UnderNote(n)
     \/ ~IsSub /\ \E c \in Places : \E d \in Up(tree, c) : asks' = CrossTop(c, d)
     \/ IsSub /\ \E c \in Constellation : Drawn(c) /\ asks' = OutTo(c)
     \/ IsSub /\ place.main \in Places /\ \E d \in Up(tree, place.main) : asks' = CrossLine(d)
     \/ IsSub /\ \E n \in Line : asks' = CrossNote(n)
  /\ UNCHANGED <<service, counts, load, tree, place, answer, making, page, delete, menu>>

Cancel ==
  /\ asks # NoAsk /\ answer.at = "none"
  /\ asks' = NoAsk
  /\ UNCHANGED <<service, counts, load, tree, place, answer, making, page, delete, menu>>

\* A change of the service makes what a dialog says a thing of the past.
Sends == /\ requests < MaxRequests /\ requests' = requests + 1
         /\ asks' = [asks EXCEPT !.true = FALSE]

Answer == answer' = [at |-> "place", place |-> PlaceNow']
AnswerPlaces == answer' = [at |-> "places", place |-> [place EXCEPT !.added = added'[Shown], !.main = main'[Shown]]]

Does(op, at) ==
  \/ op = "add" /\ AddNote(Shown, at) /\ AnswerPlaces
  \/ op = "main" /\ MakeMain(Shown, at) /\ AnswerPlaces
  \/ op = "remove" /\ RemoveNote(Shown, at) /\ AnswerPlaces
  \/ op = "under" /\ MoveUnder(Shown, at) /\ Answer
  \/ op = "out" /\ MoveOut(Shown, at) /\ Answer

Confirm ==
  /\ asks # NoAsk /\ answer.at = "none"
  /\ Does(asks.op, asks.at) /\ Sends
  /\ UNCHANGED <<others, load, tree, place, making, page, delete, menu>>

\* Where nothing gives way, and for the main place, there is nothing to ask.
PicksAtOnce ==
  /\ Idle /\ ~IsSub
  /\ \/ \E c \in Constellation \ Places : Drawn(c) /\ OnLine(c) = {} /\ Does("add", c)
     \/ \E c \in Places \ {place.main} : Places # {c} /\ Does("main", c)
  /\ Sends
  /\ UNCHANGED <<others, load, tree, place, making, page, delete, menu>>

Answered ==
  /\ answer.at # "none"
  /\ place' = IF answer.at = "place" THEN answer.place
              ELSE [place EXCEPT !.added = answer.place.added, !.main = answer.place.main]
  /\ answer' = NoAnswer /\ asks' = NoAsk
  /\ UNCHANGED <<service, counts, load, tree, making, page, delete, menu>>

AnswerLost ==
  /\ answer.at # "none"
  /\ answer' = NoAnswer
  /\ UNCHANGED <<service, counts, load, tree, place, asks, making, page, delete, menu>>

\* The tree and the place are read by two requests at once.
ReadTree ==
  /\ load \in {"none", "place"}
  /\ tree' = parent /\ load' = IF load = "none" THEN "tree" ELSE "ready"
  /\ UNCHANGED <<service, counts, place, asks, answer, making, page, delete, menu>>

ReadPlace ==
  /\ load \in {"none", "tree"} /\ Here(Shown)
  /\ place' = PlaceNow /\ load' = IF load = "none" THEN "place" ELSE "ready"
  /\ UNCHANGED <<service, counts, tree, asks, answer, making, page, delete, menu>>

ReadFails ==
  /\ load \in {"none", "tree", "place"} /\ load' = "error"
  /\ UNCHANGED <<service, counts, tree, place, asks, answer, making, page, delete, menu>>

ReadAgain ==
  /\ load = "error" /\ load' = "none"
  /\ UNCHANGED <<service, counts, tree, place, asks, answer, making, page, delete, menu>>

\* The picker creates a constellation, and the tree is listed again, or else
\* the new one is added to the tree shown.
SectionCreates(c, t) ==
  /\ Idle /\ making = <<>> /\ (t = None \/ Drawn(t))
  /\ Create(c, t) /\ Sends /\ making' \in {<<c, t>>, <<>>}
  /\ UNCHANGED <<others, load, tree, place, answer, page, delete, menu>>

SectionLists ==
  /\ making # <<>>
  /\ \/ tree' = parent
     \/ tree' = [tree EXCEPT ![making[1]] = making[2]]
  /\ making' = <<>>
  /\ UNCHANGED <<service, counts, load, place, asks, answer, page, delete, menu>>

SectionNext == \/ Asks \/ Cancel \/ Confirm \/ PicksAtOnce \/ Answered \/ AnswerLost
               \/ ReadTree \/ ReadPlace \/ ReadFails \/ ReadAgain \/ SectionLists
               \/ \E c \in Constellation : \E t \in Constellation \cup {None} : SectionCreates(c, t)

-----------------------------------------------------------------------------
(* The page of the constellations.                                         *)

NoDelete == [on |-> None, count |-> "none", to |-> None]
PageIdle == page.at = "ready" /\ page.wait = "none" /\ delete = NoDelete
Shows(c) == Alive(page.tree, c)
NeedMove(c) == \E n \in Note : In(added[n]) # {} /\ In(added[n]) \subseteq Branch(parent, c)

Fresh == page' = [at |-> "ready", tree |-> parent, wait |-> "none"]
Failed == page' = [page EXCEPT !.at = "error", !.wait = "none"]

PageReads ==
  /\ page.at = "loading" /\ (Fresh \/ Failed)
  /\ UNCHANGED <<service, counts, section, delete, menu>>

PageRetries ==
  /\ page.at = "error" /\ page' = [page EXCEPT !.at = "loading"]
  /\ UNCHANGED <<service, counts, section, delete, menu>>

OpenDelete(c) ==
  /\ PageIdle /\ Shows(c)
  /\ delete' = [on |-> c, count |-> "loading", to |-> page.tree[c]]
  /\ UNCHANGED <<service, counts, section, page, menu>>

\* An uncounted branch cannot be deleted.
Counts ==
  /\ delete.count = "loading"
  /\ \/ Exists(delete.on) /\ delete' = [delete EXCEPT !.count = IF NeedMove(delete.on) THEN "some" ELSE "none"]
     \/ delete' = [delete EXCEPT !.count = "error"]
  /\ UNCHANGED <<service, counts, section, page, menu>>

ChooseTo(t) ==
  /\ delete.count = "some" /\ page.wait = "none"
  /\ t = Nowhere \/ (Shows(t) /\ t \notin Branch(page.tree, delete.on))
  /\ delete' = [delete EXCEPT !.to = t]
  /\ UNCHANGED <<service, counts, section, page, menu>>

CloseDelete ==
  /\ delete # NoDelete /\ page.wait = "none" /\ delete' = NoDelete
  /\ UNCHANGED <<service, counts, section, page, menu>>

\* A change is answered, and the tree is read again, or the answer is lost.
Then(wait) == \/ page' = [page EXCEPT !.wait = wait] \/ page' = page

\* Variant: Nothing to move, so no target is sent.
PageDeletesBare ==
  /\ delete.on # None /\ page.wait = "none" /\ delete.count \in {"none", "some"}
  /\ delete.count = "some" => delete.to # None
  /\ DeleteBranch(delete.on, IF delete.to = Nowhere \/ delete.count = "none" THEN None ELSE delete.to)
  /\ Sends /\ Then("reload")
  /\ UNCHANGED <<others, load, tree, place, answer, making, delete, menu>>

PageDeletes ==
  /\ delete.on # None /\ page.wait = "none" /\ delete.count \in {"none", "some"}
  /\ delete.count = "some" => delete.to # None
  /\ DeleteBranch(delete.on, IF delete.to = Nowhere THEN None ELSE delete.to)
  /\ Sends /\ Then("reload")
  /\ UNCHANGED <<others, load, tree, place, answer, making, delete, menu>>

PageMoves(c, t) ==
  /\ PageIdle /\ Shows(c) /\ (t = None \/ (Shows(t) /\ t \notin Branch(page.tree, c)))
  /\ MoveBranch(c, t) /\ Sends /\ Then("list")
  /\ UNCHANGED <<others, load, tree, place, answer, making, delete, menu>>

PageCreates(c, t) ==
  /\ PageIdle /\ (t = None \/ Shows(t))
  /\ Create(c, t) /\ Sends /\ Then("list")
  /\ UNCHANGED <<others, load, tree, place, answer, making, delete, menu>>

PageRefreshes ==
  /\ page.wait # "none"
  /\ \/ Fresh /\ delete' = NoDelete
     \/ page.wait = "list" /\ page' = [page EXCEPT !.wait = "reload"] /\ UNCHANGED delete
     \/ page.wait = "reload" /\ Failed /\ delete' = NoDelete
  /\ UNCHANGED <<service, counts, section, menu>>

PageNext == \/ PageReads \/ PageRetries \/ Counts \/ CloseDelete \/ PageDeletes \/ PageRefreshes
            \/ \E c \in Constellation : OpenDelete(c)
            \/ \E t \in Constellation \cup {Nowhere} : ChooseTo(t)
            \/ \E c \in Constellation : \E t \in Constellation \cup {None} : PageMoves(c, t) \/ PageCreates(c, t)

-----------------------------------------------------------------------------
(* The menu of a note, and other devices.                                  *)

NoMenu == [on |-> None, count |-> "none", fate |-> "keep"]
Restarted == [menu EXCEPT !.count = "loading", !.fate = "keep"]

OpenMenu(n) ==
  /\ menu = NoMenu /\ Here(n)
  /\ menu' = [on |-> n, count |-> "loading", fate |-> "keep"]
  /\ UNCHANGED <<service, counts, section, page, delete>>

MenuCounts ==
  /\ menu.count = "loading"
  /\ \/ Here(menu.on) /\ menu' = [menu EXCEPT !.count = IF Under(menu.on) # {} THEN "some" ELSE "none"]
     \/ menu' = [menu EXCEPT !.count = "error"]
  /\ UNCHANGED <<service, counts, section, page, delete>>

PickFate ==
  /\ menu.count = "some"
  /\ \E fate \in {"keep", "delete"} : menu' = [menu EXCEPT !.fate = fate]
  /\ UNCHANGED <<service, counts, section, page, delete>>

CloseMenu ==
  /\ menu # NoMenu /\ menu' = NoMenu
  /\ UNCHANGED <<service, counts, section, page, delete>>

\* Variant: The fate goes along whatever was counted.
FateAnyhow == menu.fate
Fate == IF menu.count = "some" THEN menu.fate ELSE "ask"

MenuDeletes ==
  /\ menu.on # None /\ menu.count # "loading"
  /\ DeleteNote(menu.on, Fate) /\ Sends
  /\ menu' \in {NoMenu, menu}
  /\ UNCHANGED <<others, load, tree, place, answer, making, page, delete>>

\* What is gone is deleted; a note that has sub-notes after all is asked about.
MenuRefused ==
  /\ menu.on # None /\ menu.count # "loading"
  /\ \/ ~Here(menu.on) /\ menu' = NoMenu
     \/ Here(menu.on) /\ Under(menu.on) # {} /\ Fate = "ask" /\ menu' = Restarted
  /\ UNCHANGED <<service, counts, section, page, delete>>

MenuNext == MenuCounts \/ PickFate \/ CloseMenu \/ MenuDeletes \/ MenuRefused \/ \E n \in Note : OpenMenu(n)

ChangesNote(n) ==
  \/ \E c \in Constellation : AddNote(n, c) \/ MakeMain(n, c) \/ RemoveNote(n, c)
  \/ \E p \in Note : MoveUnder(n, p)
  \/ \E c \in Constellation \cup {None} : MoveOut(n, c)
  \/ \E fate \in {"ask", "keep", "delete"} : DeleteNote(n, fate)

ChangesTree(c) == \E t \in Constellation \cup {None} : Create(c, t) \/ MoveBranch(c, t) \/ DeleteBranch(c, t)

OtherChanges ==
  /\ others < MaxOthers /\ others' = others + 1
  /\ (\E n \in Note : ChangesNote(n)) \/ (\E c \in Constellation : ChangesTree(c))
  /\ Sends
  /\ UNCHANGED <<load, tree, place, answer, making, page, delete, menu>>

Next == SectionNext \/ PageNext \/ MenuNext \/ OtherChanges

-----------------------------------------------------------------------------
NoTree == [c \in Constellation |-> Gone]

Init ==
  /\ \E s \in Starts :
       /\ parent = s.parent /\ over = s.over /\ added = s.added /\ main = s.main
       /\ load = IF "section" \in s.tabs THEN "none" ELSE "closed"
       /\ page = [at |-> IF "page" \in s.tabs THEN "loading" ELSE "closed", tree |-> NoTree, wait |-> "none"]
       /\ menu = [NoMenu EXCEPT !.count = IF "menu" \in s.tabs THEN "none" ELSE "closed"]
  /\ requests = 1 /\ others = 0
  /\ tree = NoTree /\ place = NoPlace /\ asks = NoAsk /\ answer = NoAnswer /\ making = <<>>
  /\ delete = NoDelete

Spec == Init /\ [][Next]_vars

-----------------------------------------------------------------------------
(* Properties.                                                             *)

\* No constellation and no note is above itself, and nothing hangs under what
\* is gone (ConstellationService.kt:104, NoteHierarchyService.kt:80).
NoCycle == Forest(parent) /\ Forest(over)

\* A note has at most one place on a line of the tree (NotePlacement.kt:8-10,
\* ConstellationService.kt:128).
OnePlacePerLine == OnePlace(parent, added)

\* A placed note has one main place, which is one of its places; its places
\* exist; a sub-note has none of its own (NoteHierarchyService.kt:26-27).
OneMainPlace == OneMain(parent, over, added, main)

\* A confirmed change does what its dialog says, if the dialog was drawn from
\* what the service holds: the places left, the main place named, the note
\* above (NoteConstellationSection.tsx:70-72, notePlaceMoves.ts).
DoesWhatItSays ==
  [][Confirm /\ asks.true => /\ In(added'[Shown]) = asks.told
                             /\ asks.heir # None => main'[Shown] = asks.heir
                             /\ over'[Shown] = asks.under]_vars

\* Deleting a constellation takes no note's last place, unless the user chose
\* so, or the branch was a root counted empty (DeleteConstellationDialog.tsx:16-18, :50).
NotesKeepAPlace ==
  [][PageDeletes =>
       \A n \in Note : In(added[n]) # {} /\ In(added'[n]) = {} =>
         delete.to = Nowhere \/ (delete.count = "none" /\ page.tree[delete.on] = None)]_vars

\* A note with sub-notes is deleted only after its dialog asked about them, and
\* they go with it only when the user said so (ItemActions.tsx:211-223,
\* NoteHierarchyService.kt:114-133).
SubNotesAskedFor ==
  [][MenuDeletes /\ Under(menu.on) # {} =>
       /\ menu.count = "some"
       /\ menu.fate = "delete" \/ \A n \in Note \ {menu.on} : Here(n) => Here(n)']_vars

\* The notes that stay when a note is deleted live where they lived
\* (NoteRemoval.kt:9-20).
LivesIn(n) == {c \in Constellation : \E r \in Up(over, n) : Top(r) /\ c \in In(added[r])}
StayersKeepTheirPlace ==
  [][(\E n \in Note : Here(n) /\ ~Here(n)') => \A k \in Note : Here(k)' => LivesIn(k)' = LivesIn(k)]_vars

=============================================================================
