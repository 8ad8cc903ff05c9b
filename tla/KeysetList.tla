----------------------------- MODULE KeysetList -----------------------------
(***************************************************************************)
(* A keyset-paged list of the web client (notes, chats) and the server     *)
(* list it shows a part of.                                                *)
(*                                                                         *)
(* The server orders a list by last change, which is a number here; a      *)
(* cursor is the number of the last row of a page.  A page, like the rows  *)
(* on screen, gives every item the number it was listed under, 0 when it   *)
(* is not in it: pages descend, so the numbers are the order of the rows.  *)
(* A list key names a filter.                                              *)
(***************************************************************************)
EXTENDS Naturals, FiniteSets

CONSTANTS
  Item,        \* notes or chats
  Key,         \* list keys: filters of the list
  None,        \* no key
  Holds,       \* per key, the items its filter keeps
  PageSize,    \* rows of a page
  MaxClock,    \* bound on changes on the server
  MaxRequests  \* bound on page requests

ASSUME NoneAssumption == None \notin Key
ASSUME HoldsAssumption == Holds \in [Key -> SUBSET Item]
ASSUME ItemAssumption == IsFiniteSet(Item)
ASSUME BoundsAssumption == PageSize \in Nat \ {0} /\ MaxClock \in Nat /\ MaxRequests \in Nat \ {0}

VARIABLES
  stamp,     \* server: last change of an item, 0 while it does not exist
  pinned,    \* server: pinned items, listed elsewhere
  clock,     \* server: changes so far
  changed,   \* history: per item, the last change that moved it in or out of the list, or within it
  key,       \* the list key of the last render
  pending,   \* a render with another key or revision whose effect has not run
  listed,    \* the list key of the last effect
  gen,       \* generationRef
  reloading, \* reloadingRef
  more,      \* moreRef: the next-page request that is out, 0 for none
  cursor,    \* cursorRef, 0 for null
  shownKey,  \* shownKeyRef
  status,    \* status of the list
  rows,      \* items shown
  hasMore,   \* the list says that it goes on
  tail,      \* what the end of the list shows: MoreState
  leaving,   \* a request found the session over: the page is being left
  asked,     \* page requests so far
  requests,  \* per request, what it asked and what came of it
  since,     \* history: server time of the first page on screen
  heard,     \* history: server time of the last change the client heard of
  kept       \* history: the last reload failed, older rows stay

server == <<stamp, pinned, clock, changed>>
refs == <<gen, reloading, more, cursor, shownKey>>
view == <<status, rows, hasMore, tail>>
render == <<key, pending, listed>>
history == <<since, heard, kept>>
vars == <<server, render, refs, view, leaving, asked, requests, history>>

Request == 1..MaxRequests
Rows == [Item -> Nat]
NoRows == [i \in Item |-> 0]
RequestState == [for: {"none", "first", "next"}, at: {"way", "page", "failed", "auth", "done"},
                 gen: Nat, key: Key \cup {None}, cursor: Nat, items: Rows, next: Nat, time: Nat]
NoRequest == [for |-> "none", at |-> "done", gen |-> 0, key |-> None,
              cursor |-> 0, items |-> NoRows, next |-> 0, time |-> 0]

ServerType ==
  /\ stamp \in [Item -> Nat] /\ pinned \in SUBSET Item
  /\ clock \in Nat /\ changed \in [Item -> Nat]

RefsType ==
  /\ key \in Key /\ pending \in BOOLEAN /\ listed \in Key \cup {None}
  /\ gen \in Nat /\ reloading \in BOOLEAN /\ more \in 0..MaxRequests
  /\ cursor \in Nat /\ shownKey \in Key \cup {None}

ViewType ==
  /\ status \in {"loading", "error", "ready"} /\ rows \in Rows
  /\ hasMore \in BOOLEAN /\ tail \in {"idle", "loading", "failed"}
  /\ leaving \in BOOLEAN
  /\ since \in Nat /\ heard \in Nat /\ kept \in BOOLEAN

RequestsType ==
  /\ asked \in 0..MaxRequests /\ requests \in [Request -> RequestState]

TypeOK == ServerType /\ RefsType /\ ViewType /\ RequestsType

Init ==
  /\ stamp \in [Item -> 0..Cardinality(Item)]
  /\ \A i, j \in Item : stamp[i] = stamp[j] /\ i # j => stamp[i] = 0
  /\ changed = stamp /\ pinned = {} /\ clock = Cardinality(Item)
  /\ key \in Key /\ pending = TRUE /\ listed = None
  /\ gen = 0 /\ reloading = FALSE /\ more = 0 /\ cursor = 0 /\ shownKey = None
  /\ status = "loading" /\ rows = NoRows /\ hasMore = FALSE /\ tail = "idle"
  /\ leaving = FALSE /\ asked = 0 /\ requests = [r \in Request |-> NoRequest]
  /\ since = 0 /\ heard = 0 /\ kept = FALSE

-----------------------------------------------------------------------------
(* The server: changes from anywhere, and pages of the list.               *)

List(k) == {i \in Holds[k] : stamp[i] > 0 /\ i \notin pinned}
After(k, c) == {i \in List(k) : c = 0 \/ stamp[i] < c}

Tick(i) ==
  /\ clock < MaxClock
  /\ clock' = clock + 1
  /\ changed' = [changed EXCEPT ![i] = clock + 1]
  /\ UNCHANGED <<render, refs, view, leaving, asked, requests, history>>

\* An item is written or edited: it becomes the newest.
Write(i) ==
  /\ Tick(i)
  /\ stamp' = [stamp EXCEPT ![i] = clock + 1]
  /\ UNCHANGED pinned

Delete(i) ==
  /\ stamp[i] > 0 /\ Tick(i)
  /\ stamp' = [stamp EXCEPT ![i] = 0]
  /\ pinned' = pinned \ {i}

\* Pinning takes the item out of the list; unpinning puts it back at its old place.
Pin(i) ==
  /\ stamp[i] > 0 /\ Tick(i)
  /\ pinned' = IF i \in pinned THEN pinned \ {i} ELSE pinned \cup {i}
  /\ UNCHANGED stamp

Change(i) == Write(i) \/ Delete(i) \/ Pin(i)

\* The rows of a page are the newest after the cursor; it names a next one when more rows are left.
IsPage(page, left) ==
  /\ page \subseteq left
  /\ \A i \in page, j \in left \ page : stamp[i] > stamp[j]
  /\ IF Cardinality(left) <= PageSize THEN page = left ELSE Cardinality(page) = PageSize

NextCursor(page, left) ==
  IF page = left THEN {0} ELSE {n \in {stamp[i] : i \in page} : \A i \in page : n <= stamp[i]}

Answer(request, items, next) ==
  [for |-> request.for, at |-> "page", gen |-> request.gen, key |-> request.key, cursor |-> request.cursor,
   items |-> items, next |-> next, time |-> clock]

\* The effect of a render runs before a request sent since that render can be answered.
InTime(r) == requests[r].gen = gen => requests[r].key = listed

Serve(r) ==
  /\ requests[r].at = "way" /\ InTime(r)
  /\ \E page \in SUBSET Item :
       LET left == After(requests[r].key, requests[r].cursor)
       IN /\ IsPage(page, left)
          /\ \E n \in NextCursor(page, left) :
               requests' = [requests EXCEPT ![r] = Answer(@, [i \in Item |-> IF i \in page THEN stamp[i] ELSE 0], n)]
  /\ UNCHANGED <<server, render, refs, view, leaving, asked, history>>

\* No answer, an error, or a session that cannot be renewed.
Fail(r) ==
  /\ requests[r].at = "way" /\ InTime(r)
  /\ \E end \in {"failed", "auth"} : requests' = [requests EXCEPT ![r].at = end]
  /\ UNCHANGED <<server, render, refs, view, leaving, asked, history>>

-----------------------------------------------------------------------------
(* The hook.                                                               *)

Room(n) == asked + n <= MaxRequests

Asking(for, generation, after) ==
  [for |-> for, at |-> "way", gen |-> generation, key |-> key, cursor |-> after,
   items |-> NoRows, next |-> 0, time |-> 0]

Ask(for, generation, after) ==
  /\ asked' = asked + 1
  /\ requests' = [requests EXCEPT ![asked + 1] = Asking(for, generation, after)]

\* A change event of the list, of this client or of a summary it watches: the next revision.
Notify ==
  /\ Room(1) /\ ~leaving
  /\ pending' = TRUE /\ heard' = clock
  /\ UNCHANGED <<server, key, listed, refs, view, leaving, asked, requests, since, kept>>

\* A delete made here ended: its event, and update drops the row.
DeletedHere(i) ==
  /\ Room(1) /\ ~leaving
  /\ status = "ready" /\ rows[i] > 0 /\ stamp[i] = 0
  /\ pending' = TRUE /\ heard' = clock
  /\ rows' = [rows EXCEPT ![i] = 0]
  /\ UNCHANGED <<server, key, listed, refs, status, hasMore, tail, leaving, asked, requests, since, kept>>

ShowKey(k) ==
  /\ Room(1) /\ ~leaving
  /\ k # key
  /\ key' = k /\ pending' = TRUE
  /\ UNCHANGED <<server, listed, refs, view, leaving, asked, requests, history>>

\* The effect of a new revision or key: the old requests are dropped and the first page asked for.
Reload ==
  /\ pending
  /\ pending' = FALSE /\ listed' = key
  /\ gen' = gen + 1 /\ reloading' = TRUE /\ more' = 0
  /\ status' = IF status = "error" THEN "loading" ELSE status
  /\ tail' = IF status = "ready" THEN "loading" ELSE tail
  /\ Ask("first", gen + 1, 0)
  /\ kept' = FALSE
  /\ UNCHANGED <<server, key, cursor, shownKey, rows, hasMore, leaving, since, heard>>

\* Variant: a next page may be asked for while the list reloads.
LoadMoreAnytime ==
  /\ cursor # 0 /\ more = 0
  /\ Room(IF pending THEN 2 ELSE 1) /\ ~leaving
  /\ Ask("next", gen, cursor)
  /\ more' = asked + 1
  /\ tail' = IF status = "ready" THEN "loading" ELSE tail
  /\ UNCHANGED <<server, render, gen, reloading, cursor, shownKey, status, rows, hasMore, leaving, history>>

\* The end of the list came into view, or Retry.
LoadMore ==
  /\ cursor # 0 /\ more = 0 /\ ~reloading
  /\ Room(IF pending THEN 2 ELSE 1) /\ ~leaving
  /\ Ask("next", gen, cursor)
  /\ more' = asked + 1
  /\ tail' = IF status = "ready" THEN "loading" ELSE tail
  /\ UNCHANGED <<server, render, gen, reloading, cursor, shownKey, status, rows, hasMore, leaving, history>>

Done(r) == requests' = [requests EXCEPT ![r] = NoRequest]

\* Variant: a first page asked for before the latest reload is shown too.
FirstPageOfAny(r) ==
  /\ requests[r].for = "first" /\ requests[r].at = "page"
  /\ Done(r)
  /\ reloading' = FALSE /\ cursor' = requests[r].next /\ shownKey' = requests[r].key
  /\ status' = "ready" /\ rows' = requests[r].items /\ hasMore' = (requests[r].next # 0) /\ tail' = "idle"
  /\ since' = requests[r].time
  /\ UNCHANGED <<server, render, gen, more, leaving, asked, heard, kept>>

\* The first page replaces the rows.
FirstPage(r) ==
  /\ requests[r].for = "first" /\ requests[r].at = "page" /\ requests[r].gen = gen
  /\ Done(r)
  /\ reloading' = FALSE /\ cursor' = requests[r].next /\ shownKey' = requests[r].key
  /\ status' = "ready" /\ rows' = requests[r].items /\ hasMore' = (requests[r].next # 0) /\ tail' = "idle"
  /\ since' = requests[r].time
  /\ UNCHANGED <<server, render, gen, more, leaving, asked, heard, kept>>

\* The error replaces the list.
ShowError == status' = "error" /\ rows' = NoRows /\ hasMore' = FALSE /\ tail' = "idle"

\* Variant: a failed reload keeps the rows, whichever list they are of.
FirstFailedKeepsAny(r) ==
  /\ requests[r].for = "first" /\ requests[r].at = "failed" /\ requests[r].gen = gen
  /\ Done(r)
  /\ reloading' = FALSE /\ kept' = TRUE
  /\ IF status = "ready" THEN tail' = "idle" /\ UNCHANGED <<status, rows, hasMore>>
                         ELSE ShowError
  /\ UNCHANGED <<server, render, gen, more, cursor, shownKey, leaving, asked, since, heard>>

\* Variant: the end of the kept list goes on saying that it loads.
FirstFailedSpins(r) ==
  /\ requests[r].for = "first" /\ requests[r].at = "failed" /\ requests[r].gen = gen
  /\ Done(r)
  /\ reloading' = FALSE /\ kept' = TRUE
  /\ IF shownKey # requests[r].key
       THEN cursor' = 0 /\ shownKey' = None /\ ShowError
       ELSE UNCHANGED <<cursor, shownKey, view>>
  /\ UNCHANGED <<server, render, gen, more, leaving, asked, since, heard>>

\* A failed reload keeps the rows of the same list and their cursor; rows of another list go.
FirstFailed(r) ==
  /\ requests[r].for = "first" /\ requests[r].at = "failed" /\ requests[r].gen = gen
  /\ Done(r)
  /\ reloading' = FALSE /\ kept' = TRUE
  /\ \/ /\ shownKey # requests[r].key
        /\ cursor' = 0 /\ shownKey' = None /\ ShowError
     \/ /\ shownKey = requests[r].key /\ status = "ready"
        /\ tail' = "idle"
        /\ UNCHANGED <<cursor, shownKey, status, rows, hasMore>>
     \/ /\ shownKey = requests[r].key /\ status # "ready"
        /\ ShowError
        /\ UNCHANGED <<cursor, shownKey>>
  /\ UNCHANGED <<server, render, gen, more, leaving, asked, since, heard>>

\* Rows joined without repeats: a row that is shown keeps its place.
Joined(items) == [i \in Item |-> IF rows[i] > 0 THEN rows[i] ELSE items[i]]

\* The request is over for moreRef too, unless a later one took its place.
Release(r) == more' = IF more = r THEN 0 ELSE more

NextPage(r) ==
  /\ requests[r].for = "next" /\ requests[r].at = "page" /\ requests[r].gen = gen
  /\ Done(r) /\ Release(r)
  /\ cursor' = requests[r].next
  /\ IF status = "ready"
       THEN rows' = Joined(requests[r].items) /\ hasMore' = (requests[r].next # 0) /\ tail' = "idle"
       ELSE UNCHANGED <<rows, hasMore, tail>>
  /\ UNCHANGED <<server, render, gen, reloading, shownKey, status, leaving, asked, history>>

\* Variant: a failed next page stays the one that is out.
NextFailedHeld(r) ==
  /\ requests[r].for = "next" /\ requests[r].at = "failed" /\ requests[r].gen = gen
  /\ Done(r)
  /\ tail' = IF status = "ready" THEN "failed" ELSE tail
  /\ UNCHANGED <<server, render, refs, status, rows, hasMore, leaving, asked, history>>

NextFailed(r) ==
  /\ requests[r].for = "next" /\ requests[r].at = "failed" /\ requests[r].gen = gen
  /\ Done(r) /\ Release(r)
  /\ tail' = IF status = "ready" THEN "failed" ELSE tail
  /\ UNCHANGED <<server, render, gen, reloading, cursor, shownKey, status, rows, hasMore, leaving, asked, history>>

\* The answer to a request of an earlier reload, aborted since, changes nothing.
Ignored(r) ==
  /\ requests[r].at \in {"page", "failed"} /\ requests[r].gen # gen
  /\ Done(r)
  /\ IF requests[r].for = "next" THEN Release(r) ELSE UNCHANGED more
  /\ UNCHANGED <<server, render, gen, reloading, cursor, shownKey, view, leaving, asked, history>>

\* The session is over: the list stays as it is while the page goes to the login.
AuthRequired(r) ==
  /\ requests[r].at = "auth"
  /\ Done(r)
  /\ IF requests[r].for = "next" THEN Release(r) ELSE UNCHANGED more
  /\ leaving' = TRUE
  /\ UNCHANGED <<server, render, gen, reloading, cursor, shownKey, view, asked, history>>

Deliver(r) == FirstPage(r) \/ FirstFailed(r) \/ NextPage(r) \/ NextFailed(r) \/ Ignored(r) \/ AuthRequired(r)

Next ==
  \/ \E i \in Item : Change(i) \/ DeletedHere(i)
  \/ \E k \in Key : ShowKey(k)
  \/ Notify \/ Reload \/ LoadMore
  \/ \E r \in Request : Serve(r) \/ Fail(r) \/ Deliver(r)

Spec == Init /\ [][Next]_vars

\* The browser runs the effects of its renders, settles every request and runs the callbacks of what settled.
FairSpec ==
  /\ Spec
  /\ WF_vars(Reload)
  /\ \A r \in Request : WF_vars(Serve(r) \/ Fail(r)) /\ WF_vars(Deliver(r))

-----------------------------------------------------------------------------
(* Properties.                                                             *)

\* Nothing is on its way to the list that would change which rows it shows.
Settled == status = "ready" /\ ~pending /\ ~reloading

\* The rows are of one list, the list whose key the refs name; once no reload is due, of the list the screen
\* asked for, also after one that failed.
RowsOfShownList ==
  /\ \A i \in Item : rows[i] > 0 => shownKey # None /\ i \in Holds[shownKey]
  /\ Settled => shownKey = key

\* No page is skipped: an item that was not changed since the first page on screen, and that stands before the
\* cursor, is on screen, however many pages, failures and cut requests lie between.
NoGap ==
  status = "ready" =>
    \A i \in List(shownKey) : changed[i] <= since /\ stamp[i] >= cursor => rows[i] > 0

\* The end of the list never waits for nothing, and never offers a next page that loadMore would not ask for: the
\* observer reports a row in view once, so a call that is dropped is not made again.
TailHeard ==
  status = "ready" =>
    /\ hasMore = (cursor # 0)
    /\ tail = "loading" => reloading \/ more # 0 \/ leaving
    /\ tail # "loading" => more = 0 /\ ~reloading

\* One next page at a time: two answers to one cursor would both move it.
OneNextPage ==
  \A r, q \in Request :
    /\ requests[r].for = "next" /\ requests[r].gen = gen /\ requests[r].at # "done"
    /\ requests[q].for = "next" /\ requests[q].gen = gen /\ requests[q].at # "done"
    => r = q

\* A list that was reloaded after a change the client heard of was read after that change, whatever was still in
\* flight from before it.
FreshAfterReload == Settled /\ ~kept => since >= heard

\* A list that loads, or says at its end that it does, stops doing so unless the page is left.
NothingSpins ==
  (status = "loading" \/ tail = "loading" \/ reloading)
    ~> ((status # "loading" /\ tail # "loading" /\ ~reloading) \/ leaving)
=============================================================================
