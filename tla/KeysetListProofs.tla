-------------------------- MODULE KeysetListProofs --------------------------
(***************************************************************************)
(* Proofs about KeysetList: the rows on screen have no gap, belong to the  *)
(* list the screen asked for, and were read after the last change the      *)
(* client heard of; the end of the list never waits for nothing.           *)
(***************************************************************************)
EXTENDS KeysetList, FiniteSetTheorems, TLAPS

-----------------------------------------------------------------------------
(* The inductive invariant.                                                *)

\* A request whose answer the list would still use.
Current(r) == requests[r].at # "done" /\ requests[r].gen = gen

\* The page a request was answered with leaves nothing out between its cursor and the next one.
Covers(r) ==
  \A i \in List(requests[r].key) :
    /\ changed[i] <= requests[r].time
    /\ requests[r].cursor = 0 \/ stamp[i] < requests[r].cursor
    /\ stamp[i] >= requests[r].next
    => requests[r].items[i] > 0

PageInv(r) ==
  requests[r].at = "page" =>
    /\ requests[r].time <= clock
    /\ \A i \in Item : requests[r].items[i] > 0 => i \in Holds[requests[r].key]
    /\ Covers(r)

\* The first page of the running reload.
FirstInv(r) ==
  /\ reloading /\ requests[r].key = listed /\ requests[r].cursor = 0
  /\ requests[r].at = "page" /\ ~pending => heard <= requests[r].time

\* The next page of the list on screen.
NextInv(r) ==
  /\ ~reloading /\ more = r /\ requests[r].cursor = cursor /\ cursor # 0
  /\ requests[r].at = "page" => requests[r].key = listed /\ since <= requests[r].time

RequestInv(r) ==
  /\ r > asked => requests[r].at = "done"
  /\ requests[r].at # "done" =>
       requests[r].for # "none" /\ requests[r].gen <= gen /\ requests[r].key \in Key
  /\ PageInv(r)
  /\ Current(r) /\ requests[r].for = "first" => FirstInv(r)
  /\ Current(r) /\ requests[r].for = "next" => NextInv(r)

\* One first page at a time.
OneFirstPage(r, q) ==
  /\ Current(r) /\ requests[r].for = "first"
  /\ Current(q) /\ requests[q].for = "first"
  => r = q

TimeInv ==
  /\ since <= clock /\ heard <= clock
  /\ \A i \in Item : changed[i] <= clock

RefsInv ==
  /\ pending => asked < MaxRequests
  /\ ~pending => listed = key
  /\ status = "ready" <=> shownKey # None
  /\ status # "ready" => cursor = 0 /\ more = 0 /\ (\A i \in Item : rows[i] = 0)
  /\ status = "ready" /\ ~reloading => shownKey = listed
  /\ more # 0 => Current(more) /\ requests[more].for = "next"

ViewInv == RowsOfShownList /\ NoGap /\ TailHeard /\ FreshAfterReload

IInv ==
  /\ TypeOK
  /\ \A r \in Request : RequestInv(r)
  /\ \A r, q \in Request : OneFirstPage(r, q)
  /\ TimeInv /\ RefsInv /\ ViewInv

-----------------------------------------------------------------------------
(* Types.                                                                  *)

\* What the type invariant says of one request.
LEMMA RequestFields ==
  ASSUME RequestsType, NEW r \in Request
  PROVE  /\ requests[r] \in RequestState
         /\ requests[r].at \in {"way", "page", "failed", "auth", "done"}
         /\ requests[r].for \in {"none", "first", "next"}
         /\ requests[r].gen \in Nat /\ requests[r].cursor \in Nat
         /\ requests[r].next \in Nat /\ requests[r].time \in Nat
         /\ requests[r].items \in Rows
         /\ requests[r].key \in Key \cup {None}
  BY DEF RequestsType, RequestState

LEMMA NoRequestType == NoRequest \in RequestState
  BY DEF NoRequest, RequestState, NoRows, Rows

\* A settled request is forgotten, the others stay.
LEMMA DoneRequests ==
  ASSUME RequestsType, NEW r \in Request, Done(r)
  PROVE  /\ requests' \in [Request -> RequestState]
         /\ requests'[r] = NoRequest
         /\ \A q \in Request : q # r => requests'[q] = requests[q]
  BY NoRequestType DEF RequestsType, Done

\* A new request takes the next number.
LEMMA AskRequests ==
  ASSUME RequestsType, asked < MaxRequests, key \in Key,
         NEW for \in {"first", "next"}, NEW g \in Nat, NEW c \in Nat, Ask(for, g, c)
  PROVE  /\ asked + 1 \in Request /\ asked' = asked + 1 /\ asked' \in 0..MaxRequests
         /\ requests' \in [Request -> RequestState]
         /\ requests'[asked + 1] = Asking(for, g, c)
         /\ \A q \in Request : q # asked + 1 => requests'[q] = requests[q]
  <1>1. asked + 1 \in Request /\ asked' = asked + 1 /\ asked' \in 0..MaxRequests
    BY BoundsAssumption DEF RequestsType, Request, Ask
  <1>2. Asking(for, g, c) \in RequestState
    BY DEF Asking, RequestState, NoRows, Rows
  <1>3. requests' = [requests EXCEPT ![asked + 1] = Asking(for, g, c)]
    BY DEF Ask
  <1> QED BY <1>1, <1>2, <1>3 DEF RequestsType

-----------------------------------------------------------------------------
(* The server.                                                             *)

\* What a change on the server leaves: every item it did not touch, and everything the client holds.
LEMMA ChangeKeeps ==
  ASSUME TypeOK, NEW i \in Item, Change(i)
  PROVE  /\ ServerType' /\ clock' = clock + 1 /\ changed'[i] = clock + 1
         /\ \A j \in Item : j # i => changed'[j] = changed[j] /\ stamp'[j] = stamp[j]
                                     /\ (j \in pinned' <=> j \in pinned)
         /\ UNCHANGED <<render, refs, view, leaving, asked, requests, history>>
  <1>0. ServerType
    BY DEF TypeOK
  <1>1. /\ clock' = clock + 1 /\ changed' = [changed EXCEPT ![i] = clock + 1]
        /\ UNCHANGED <<render, refs, view, leaving, asked, requests, history>>
    BY DEF Change, Write, Delete, Pin, Tick
  <1>2. /\ stamp' \in [Item -> Nat] /\ pinned' \in SUBSET Item
        /\ \A j \in Item : j # i => stamp'[j] = stamp[j] /\ (j \in pinned' <=> j \in pinned)
    <2>1. CASE Write(i)
      BY <2>1, <1>0 DEF Write, ServerType
    <2>2. CASE Delete(i)
      BY <2>2, <1>0 DEF Delete, ServerType
    <2>3. CASE Pin(i)
      BY <2>3, <1>0 DEF Pin, ServerType
    <2> QED BY <2>1, <2>2, <2>3 DEF Change
  <1>3. /\ changed' \in [Item -> Nat] /\ changed'[i] = clock + 1 /\ clock' \in Nat
        /\ \A j \in Item : j # i => changed'[j] = changed[j]
    BY <1>0, <1>1 DEF ServerType
  <1>4. ServerType'
    BY <1>2, <1>3 DEF ServerType
  <1> QED BY <1>1, <1>2, <1>3, <1>4

\* An item of the list that was not changed after now is one of the list of now, at its place.
LEMMA ListBefore ==
  ASSUME TypeOK, TimeInv, NEW i \in Item, Change(i), NEW k \in Key, NEW j \in List(k)', changed'[j] <= clock
  PROVE  j \in List(k) /\ stamp'[j] = stamp[j] /\ changed'[j] = changed[j]
  <1>1. j \in Holds[k] /\ j \in Item
    BY HoldsAssumption DEF List
  <1>2. j # i
    BY ChangeKeeps DEF TypeOK, ServerType
  <1> QED BY <1>1, <1>2, ChangeKeeps DEF List

LEMMA ChangeStep ==
  ASSUME IInv, NEW i \in Item, Change(i)
  PROVE  IInv'
  <1>0. /\ TypeOK /\ TimeInv /\ RefsInv /\ ViewInv /\ RequestsType
        /\ clock \in Nat /\ since \in Nat /\ heard \in Nat
    BY DEF IInv, TypeOK, ServerType, ViewType
  <1>k. /\ ServerType' /\ clock' = clock + 1 /\ changed'[i] = clock + 1
        /\ \A j \in Item : j # i => changed'[j] = changed[j] /\ stamp'[j] = stamp[j]
        /\ UNCHANGED <<render, refs, view, leaving, asked, requests, history>>
    BY <1>0, ChangeKeeps
  <1>u. /\ UNCHANGED <<key, pending, listed>> /\ UNCHANGED <<gen, reloading, more, cursor, shownKey>>
        /\ UNCHANGED <<status, rows, hasMore, tail>> /\ UNCHANGED <<leaving, asked, requests>>
        /\ UNCHANGED <<since, heard, kept>>
    BY <1>k DEF render, refs, view, history
  <1>1. TypeOK'
    BY <1>0, <1>k, <1>u DEF TypeOK, RefsType, ViewType, RequestsType
  <1>2. ASSUME NEW r \in Request
        PROVE  RequestInv(r)'
    <2>0. RequestInv(r)
      BY DEF IInv
    <2>1. PageInv(r)'
      <3>1. SUFFICES ASSUME requests[r].at = "page" PROVE PageInv(r)'
        BY <1>u DEF PageInv
      <3>2. /\ requests[r].time \in Nat /\ requests[r].key \in Key
            /\ requests[r].time <= clock /\ Covers(r)
            /\ \A j \in Item : requests[r].items[j] > 0 => j \in Holds[requests[r].key]
        BY <3>1, <2>0, <1>0, RequestFields DEF RequestInv, PageInv
      <3>3. ASSUME NEW j \in List(requests[r].key)', changed'[j] <= requests[r].time,
                   requests[r].cursor = 0 \/ stamp'[j] < requests[r].cursor, stamp'[j] >= requests[r].next
            PROVE  requests[r].items[j] > 0
        <4>1. j \in Item
          BY <3>2, <3>3, <1>u, HoldsAssumption DEF List
        <4>2. changed'[j] <= clock
          BY <1>0, <1>k, <3>2, <3>3, <4>1 DEF ServerType
        <4>3. j \in List(requests[r].key) /\ stamp'[j] = stamp[j] /\ changed'[j] = changed[j]
          BY <1>0, <1>u, <3>2, <3>3, <4>2, ListBefore DEF List
        <4> QED BY <3>2, <3>3, <4>3 DEF Covers
      <3>4. Covers(r)'
        BY <3>3, <1>u DEF Covers, List
      <3> QED BY <3>2, <3>4, <1>k, <1>u, <1>0 DEF PageInv
    <2> QED BY <2>0, <2>1, <1>u DEF RequestInv, Current, FirstInv, NextInv
  <1>3. ASSUME NEW r \in Request, NEW q \in Request
        PROVE  OneFirstPage(r, q)'
    BY <1>u DEF IInv, OneFirstPage, Current
  <1>4. TimeInv'
    BY <1>0, <1>k, <1>u DEF TimeInv, TypeOK, ServerType
  <1>5. RefsInv'
    BY <1>0, <1>u DEF RefsInv, Current
  <1>6. NoGap'
    <2>1. SUFFICES ASSUME status = "ready", NEW j \in List(shownKey)', changed'[j] <= since, stamp'[j] >= cursor
                   PROVE  rows[j] > 0
      BY <1>u DEF NoGap, List
    <2>2. shownKey \in Key
      BY <1>0, <2>1 DEF RefsInv, TypeOK, RefsType
    <2>3. j \in Item
      BY <2>2, <2>1, HoldsAssumption, <1>u DEF List
    <2>4. changed'[j] <= clock
      BY <1>0, <1>k, <2>1, <2>3 DEF ServerType, TimeInv
    <2>5. j \in List(shownKey) /\ stamp'[j] = stamp[j] /\ changed'[j] = changed[j]
      BY <1>0, <1>u, <2>1, <2>2, <2>4, ListBefore DEF List
    <2> QED BY <1>0, <2>1, <2>5 DEF ViewInv, NoGap
  <1>7. RowsOfShownList' /\ TailHeard' /\ FreshAfterReload'
    BY <1>0, <1>u DEF ViewInv, RowsOfShownList, TailHeard, FreshAfterReload, Settled
  <1> QED BY <1>1, <1>2, <1>3, <1>4, <1>5, <1>6, <1>7 DEF IInv, ViewInv

-----------------------------------------------------------------------------
(* Renders and requests.                                                   *)

\* A request as it was, while the server, the refs and the view of the list it depends on stay.
LEMMA SameRequest ==
  ASSUME NEW r \in Request, RequestInv(r), requests'[r] = requests[r], asked' >= asked, asked \in Nat, asked' \in Nat,
         UNCHANGED server, UNCHANGED <<gen, reloading, listed, cursor, since>>,
         Current(r) /\ requests[r].for = "next" => more' = more,
         heard' = heard \/ pending', pending => pending'
  PROVE  RequestInv(r)'
  <1>0. UNCHANGED <<stamp, pinned, clock, changed>>
    BY DEF server
  <1>1. PageInv(r)'
    BY <1>0 DEF RequestInv, PageInv, Covers, List
  <1>2. Current(r)' <=> Current(r)
    BY DEF Current
  <1>3. (requests[r].for = "first" /\ Current(r)) => FirstInv(r)'
    BY DEF RequestInv, FirstInv
  <1>4. (requests[r].for = "next" /\ Current(r)) => NextInv(r)'
    BY DEF RequestInv, NextInv
  <1>5. r > asked' => r > asked
    BY DEF Request
  <1> QED BY <1>1, <1>2, <1>3, <1>4, <1>5 DEF RequestInv

LEMMA NotifyStep ==
  ASSUME IInv, Notify
  PROVE  IInv'
  <1>0. TypeOK /\ TimeInv /\ RefsInv /\ ViewInv /\ asked \in Nat /\ clock \in Nat
    BY DEF IInv, TypeOK, RequestsType, ServerType
  <1>u. /\ pending' = TRUE /\ heard' = clock /\ asked < MaxRequests
        /\ UNCHANGED <<stamp, pinned, clock, changed>> /\ UNCHANGED <<key, listed, leaving, asked, requests>>
        /\ UNCHANGED <<gen, reloading, more, cursor, shownKey>>
        /\ UNCHANGED <<status, rows, hasMore, tail>> /\ UNCHANGED <<since, kept>>
    BY <1>0, BoundsAssumption DEF Notify, Room, server, refs, view
  <1>1. TypeOK'
    BY <1>0, <1>u DEF TypeOK, ServerType, RefsType, ViewType, RequestsType
  <1>2. ASSUME NEW r \in Request
        PROVE  RequestInv(r)'
    <2>1. RequestInv(r) /\ UNCHANGED server
      BY <1>u DEF IInv, server
    <2> QED BY <2>1, <1>0, <1>u, SameRequest
  <1>3. ASSUME NEW r \in Request, NEW q \in Request
        PROVE  OneFirstPage(r, q)'
    BY <1>u DEF IInv, OneFirstPage, Current
  <1>4. TimeInv' /\ RefsInv'
    BY <1>0, <1>u DEF TimeInv, RefsInv, Current
  <1>5. ViewInv'
    BY <1>0, <1>u DEF ViewInv, RowsOfShownList, NoGap, List, TailHeard, FreshAfterReload, Settled
  <1> QED BY <1>1, <1>2, <1>3, <1>4, <1>5 DEF IInv

LEMMA DeletedHereStep ==
  ASSUME IInv, NEW i \in Item, DeletedHere(i)
  PROVE  IInv'
  <1>0. TypeOK /\ TimeInv /\ RefsInv /\ ViewInv /\ asked \in Nat /\ clock \in Nat /\ rows \in Rows
    BY DEF IInv, TypeOK, RequestsType, ServerType, ViewType
  <1>u. /\ pending' = TRUE /\ heard' = clock /\ asked < MaxRequests
        /\ rows' = [rows EXCEPT ![i] = 0] /\ stamp[i] = 0 /\ status = "ready"
        /\ UNCHANGED <<stamp, pinned, clock, changed>> /\ UNCHANGED <<key, listed, leaving, asked, requests>>
        /\ UNCHANGED <<gen, reloading, more, cursor, shownKey>>
        /\ UNCHANGED <<status, hasMore, tail>> /\ UNCHANGED <<since, kept>>
    BY <1>0, BoundsAssumption DEF DeletedHere, Room, server, refs
  <1>r. rows' \in Rows /\ rows'[i] = 0 /\ \A j \in Item : j # i => rows'[j] = rows[j]
    BY <1>0, <1>u DEF Rows
  <1>1. TypeOK'
    BY <1>0, <1>u, <1>r DEF TypeOK, ServerType, RefsType, ViewType, RequestsType
  <1>2. ASSUME NEW r \in Request
        PROVE  RequestInv(r)'
    <2>1. RequestInv(r) /\ UNCHANGED server
      BY <1>u DEF IInv, server
    <2> QED BY <2>1, <1>0, <1>u, SameRequest
  <1>3. ASSUME NEW r \in Request, NEW q \in Request
        PROVE  OneFirstPage(r, q)'
    BY <1>u DEF IInv, OneFirstPage, Current
  <1>4. TimeInv' /\ RefsInv'
    BY <1>0, <1>u DEF TimeInv, RefsInv, Current
  <1>5. RowsOfShownList' /\ TailHeard' /\ FreshAfterReload'
    BY <1>0, <1>u, <1>r DEF ViewInv, RowsOfShownList, TailHeard, FreshAfterReload, Settled
  <1>6. NoGap'
    <2>1. shownKey \in Key
      BY <1>0, <1>u DEF RefsInv, TypeOK, RefsType
    <2>2. \A j \in List(shownKey) : j \in Item /\ j # i
      BY <2>1, <1>u, HoldsAssumption DEF List
    <2> QED BY <2>2, <1>0, <1>u, <1>r DEF ViewInv, NoGap, List
  <1> QED BY <1>1, <1>2, <1>3, <1>4, <1>5, <1>6 DEF IInv, ViewInv

LEMMA ShowKeyStep ==
  ASSUME IInv, NEW k \in Key, ShowKey(k)
  PROVE  IInv'
  <1>0. TypeOK /\ TimeInv /\ RefsInv /\ ViewInv /\ asked \in Nat
    BY DEF IInv, TypeOK, RequestsType
  <1>u. /\ pending' = TRUE /\ key' = k /\ asked < MaxRequests
        /\ UNCHANGED <<stamp, pinned, clock, changed>> /\ UNCHANGED <<listed, leaving, asked, requests>>
        /\ UNCHANGED <<gen, reloading, more, cursor, shownKey>>
        /\ UNCHANGED <<status, rows, hasMore, tail>> /\ UNCHANGED <<since, heard, kept>>
    BY <1>0, BoundsAssumption DEF ShowKey, Room, server, refs, view, history
  <1>1. TypeOK'
    BY <1>0, <1>u DEF TypeOK, ServerType, RefsType, ViewType, RequestsType
  <1>2. ASSUME NEW r \in Request
        PROVE  RequestInv(r)'
    <2>1. RequestInv(r) /\ UNCHANGED server
      BY <1>u DEF IInv, server
    <2> QED BY <2>1, <1>0, <1>u, SameRequest
  <1>3. ASSUME NEW r \in Request, NEW q \in Request
        PROVE  OneFirstPage(r, q)'
    BY <1>u DEF IInv, OneFirstPage, Current
  <1>4. TimeInv' /\ RefsInv'
    BY <1>0, <1>u DEF TimeInv, RefsInv, Current
  <1>5. ViewInv'
    BY <1>0, <1>u DEF ViewInv, RowsOfShownList, NoGap, List, TailHeard, FreshAfterReload, Settled
  <1> QED BY <1>1, <1>2, <1>3, <1>4, <1>5 DEF IInv

LEMMA ReloadStep ==
  ASSUME IInv, Reload
  PROVE  IInv'
  <1>0. /\ TypeOK /\ TimeInv /\ RefsInv /\ ViewInv /\ RequestsType
        /\ asked \in Nat /\ gen \in Nat /\ key \in Key /\ pending /\ asked < MaxRequests
    BY DEF IInv, TypeOK, RequestsType, RefsType, RefsInv, Reload
  <1>u. /\ pending' = FALSE /\ listed' = key /\ gen' = gen + 1 /\ reloading' = TRUE /\ more' = 0 /\ kept' = FALSE
        /\ status' = (IF status = "error" THEN "loading" ELSE status)
        /\ tail' = (IF status = "ready" THEN "loading" ELSE tail)
        /\ Ask("first", gen + 1, 0)
        /\ UNCHANGED <<stamp, pinned, clock, changed>>
        /\ UNCHANGED <<key, cursor, shownKey, rows, hasMore, leaving, since, heard>>
    BY DEF Reload, server
  <1>a. /\ asked + 1 \in Request /\ asked' = asked + 1 /\ asked' \in 0..MaxRequests
        /\ requests' \in [Request -> RequestState]
        /\ requests'[asked + 1] = Asking("first", gen + 1, 0)
        /\ \A q \in Request : q # asked + 1 => requests'[q] = requests[q]
    BY <1>0, <1>u, AskRequests
  <1>1. TypeOK'
    <2>1. status' \in {"loading", "error", "ready"} /\ tail' \in {"idle", "loading", "failed"}
      BY <1>0, <1>u DEF TypeOK, ViewType
    <2>2. ServerType' /\ RequestsType'
      BY <1>0, <1>u, <1>a DEF TypeOK, ServerType, RequestsType
    <2>5. gen' \in Nat /\ more' \in 0..MaxRequests /\ listed' \in Key
      BY <1>0, <1>u, BoundsAssumption
    <2>6. RefsType'
      BY <2>5, <1>0, <1>u DEF TypeOK, RefsType
    <2>3. rows' \in Rows /\ hasMore' \in BOOLEAN /\ leaving' \in BOOLEAN
      BY <1>0, <1>u DEF TypeOK, ViewType
    <2>4. since' \in Nat /\ heard' \in Nat /\ kept' \in BOOLEAN
      BY <1>0, <1>u DEF TypeOK, ViewType
    <2> QED BY <2>1, <2>2, <2>3, <2>4, <2>6 DEF TypeOK, ViewType
  <1>2. ASSUME NEW r \in Request
        PROVE  RequestInv(r)' /\ (Current(r)' => r = asked + 1)
    <2>1. RequestInv(r) /\ requests[r].gen \in Nat
      BY <1>0, RequestFields DEF IInv
    <2>2. CASE r = asked + 1
      BY <2>2, <1>a, <1>u, <1>0 DEF RequestInv, Asking, PageInv, FirstInv, Current
    <2>3. CASE r # asked + 1
      <3>1. requests'[r] = requests[r]
        BY <2>3, <1>a
      <3>2. PageInv(r)'
        BY <2>1, <3>1, <1>u DEF RequestInv, PageInv, Covers, List
      <3>3. ~Current(r)'
        BY <2>1, <3>1, <1>u, <1>0 DEF RequestInv, Current
      <3>4. requests[r].at # "done" => requests[r].gen <= gen + 1
        BY <2>1, <1>0 DEF RequestInv
      <3> QED BY <2>1, <2>3, <3>1, <3>2, <3>3, <3>4, <1>a, <1>u, <1>0 DEF RequestInv, Request
    <2> QED BY <2>2, <2>3
  <1>3. ASSUME NEW r \in Request, NEW q \in Request
        PROVE  OneFirstPage(r, q)'
    BY <1>2 DEF OneFirstPage
  <1>4. TimeInv' /\ RefsInv'
    BY <1>0, <1>u DEF TimeInv, RefsInv
  <1>5. ViewInv'
    BY <1>0, <1>u DEF ViewInv, RowsOfShownList, NoGap, List, TailHeard, FreshAfterReload, Settled
  <1> QED BY <1>1, <1>2, <1>3, <1>4, <1>5 DEF IInv

LEMMA LoadMoreStep ==
  ASSUME IInv, LoadMore
  PROVE  IInv'
  <1>0. /\ TypeOK /\ TimeInv /\ RefsInv /\ ViewInv /\ RequestsType
        /\ asked \in Nat /\ gen \in Nat /\ cursor \in Nat /\ key \in Key
    BY DEF IInv, TypeOK, RequestsType, RefsType
  <1>u. /\ cursor # 0 /\ more = 0 /\ ~reloading /\ asked < MaxRequests /\ (pending => asked + 1 < MaxRequests)
        /\ more' = asked + 1 /\ tail' = (IF status = "ready" THEN "loading" ELSE tail)
        /\ Ask("next", gen, cursor)
        /\ UNCHANGED <<stamp, pinned, clock, changed>> /\ UNCHANGED <<key, pending, listed>>
        /\ UNCHANGED <<gen, reloading, cursor, shownKey, status, rows, hasMore, leaving>>
        /\ UNCHANGED <<since, heard, kept>>
    BY <1>0, BoundsAssumption DEF LoadMore, Room, server, render, history
  <1>s. status = "ready"
    BY <1>0, <1>u DEF RefsInv
  <1>a. /\ asked + 1 \in Request /\ asked' = asked + 1 /\ asked' \in 0..MaxRequests
        /\ requests' \in [Request -> RequestState]
        /\ requests'[asked + 1] = Asking("next", gen, cursor)
        /\ \A q \in Request : q # asked + 1 => requests'[q] = requests[q]
    BY <1>0, <1>u, AskRequests
  <1>1. TypeOK'
    <2>1. more' \in 0..MaxRequests
      BY <1>u, <1>a, <1>0
    <2> QED BY <2>1, <1>0, <1>u, <1>a DEF TypeOK, ServerType, RefsType, ViewType, RequestsType
  <1>2. ASSUME NEW r \in Request
        PROVE  RequestInv(r)' /\ (Current(r)' /\ requests'[r].for = "first" => requests'[r] = requests[r])
    <2>1. RequestInv(r)
      BY DEF IInv
    <2>2. CASE r = asked + 1
      BY <2>2, <1>a, <1>u, <1>0 DEF RequestInv, Asking, PageInv, NextInv, Current
    <2>3. CASE r # asked + 1
      <3>1. requests'[r] = requests[r]
        BY <2>3, <1>a
      <3>2. ~(Current(r) /\ requests[r].for = "next")
        BY <2>1, <1>u, <1>0 DEF RequestInv, NextInv, Request
      <3>3. asked' >= asked /\ asked' \in Nat /\ UNCHANGED server
        BY <1>a, <1>u, <1>0 DEF server
      <3>4. RequestInv(r)'
        BY <2>1, <3>1, <3>2, <3>3, <1>0, <1>u, SameRequest
      <3> QED BY <3>1, <3>4
    <2> QED BY <2>2, <2>3
  <1>3. ASSUME NEW r \in Request, NEW q \in Request
        PROVE  OneFirstPage(r, q)'
    BY <1>2, <1>u DEF IInv, OneFirstPage, Current
  <1>4. TimeInv'
    BY <1>0, <1>u DEF TimeInv
  <1>5. RefsInv'
    <2>1. Current(more)' /\ requests'[more'].for = "next"
      BY <1>a, <1>u DEF Current, Asking
    <2> QED BY <2>1, <1>0, <1>u, <1>s, <1>a DEF RefsInv
  <1>6. ViewInv'
    BY <1>0, <1>u, <1>s, <1>a DEF ViewInv, RowsOfShownList, NoGap, List, TailHeard, FreshAfterReload, Settled
  <1> QED BY <1>1, <1>2, <1>3, <1>4, <1>5, <1>6 DEF IInv

LEMMA ServeStep ==
  ASSUME IInv, NEW r \in Request, Serve(r)
  PROVE  IInv'
  <1>0. /\ TypeOK /\ TimeInv /\ RefsInv /\ ViewInv /\ RequestsType /\ stamp \in [Item -> Nat] /\ RequestInv(r)
        /\ asked \in Nat /\ clock \in Nat /\ since \in Nat /\ heard \in Nat
    BY DEF IInv, TypeOK, ServerType, ViewType, RequestsType
  <1> DEFINE left == After(requests[r].key, requests[r].cursor)
  <1>w. requests[r].at = "way" /\ requests[r].key \in Key /\ (Current(r) => requests[r].key = listed)
    BY <1>0 DEF Serve, InTime, RequestInv, Current
  <1>q. PICK page \in SUBSET Item :
          /\ IsPage(page, left)
          /\ \E n \in NextCursor(page, left) : requests' = [requests EXCEPT ![r] =
                            Answer(requests[r], [i \in Item |-> IF i \in page THEN stamp[i] ELSE 0], n)]
    BY DEF Serve
  <1>p. PICK n \in NextCursor(page, left) : requests' = [requests EXCEPT ![r] =
                            Answer(requests[r], [i \in Item |-> IF i \in page THEN stamp[i] ELSE 0], n)]
    BY <1>q
  <1> DEFINE items == [i \in Item |-> IF i \in page THEN stamp[i] ELSE 0]
  <1>n. n \in Nat /\ items \in Rows
    BY <1>0, <1>p DEF NextCursor, Rows
  <1>a. /\ requests' \in [Request -> RequestState]
        /\ requests'[r] = Answer(requests[r], items, n)
        /\ \A q \in Request : q # r => requests'[q] = requests[q]
    <2>1. Answer(requests[r], items, n) \in RequestState
      BY <1>0, <1>n, RequestFields DEF Answer, RequestState
    <2> QED BY <2>1, <1>p, <1>0 DEF RequestsType
  <1>f. /\ requests'[r].at = "page" /\ requests'[r].items = items /\ requests'[r].next = n
        /\ requests'[r].time = clock /\ requests'[r].for = requests[r].for /\ requests'[r].gen = requests[r].gen
        /\ requests'[r].key = requests[r].key /\ requests'[r].cursor = requests[r].cursor
    BY <1>a DEF Answer
  <1>u. /\ UNCHANGED <<stamp, pinned, clock, changed>> /\ UNCHANGED <<key, pending, listed>>
        /\ UNCHANGED <<gen, reloading, more, cursor, shownKey>>
        /\ UNCHANGED <<status, rows, hasMore, tail>> /\ UNCHANGED <<leaving, asked>>
        /\ UNCHANGED <<since, heard, kept>> /\ UNCHANGED server
    BY DEF Serve, server, render, refs, view, history
  <1>1. TypeOK'
    BY <1>0, <1>u, <1>a DEF TypeOK, ServerType, RefsType, ViewType, RequestsType
  <1>2. PageInv(r)'
    <2>1. \A i \in Item : items[i] > 0 => i \in Holds[requests[r].key]
      BY <1>q, <1>0 DEF IsPage, After, List
    <2>2. ASSUME NEW i \in List(requests[r].key), requests[r].cursor = 0 \/ stamp[i] < requests[r].cursor, stamp[i] >= n
          PROVE  items[i] > 0
      <3>1. i \in left /\ i \in Item /\ stamp[i] \in Nat /\ stamp[i] > 0
        BY <2>2, <1>w, <1>0, HoldsAssumption DEF After, List
      <3>2. CASE page = left
        BY <3>1, <3>2
      <3>3. CASE page # left
        <4>1. PICK j \in page : n = stamp[j]
          BY <3>3, <1>p DEF NextCursor
        <4>2. j \in Item /\ stamp[j] \in Nat
          BY <4>1, <1>0
        <4>3. i \in page
          BY <4>1, <4>2, <3>1, <2>2, <1>q DEF IsPage
        <4> QED BY <4>3, <3>1
      <3> QED BY <3>2, <3>3
    <2>3. Covers(r)'
      BY <2>2, <1>f, <1>u DEF Covers, List
    <2> QED BY <2>1, <2>3, <1>f, <1>u, <1>0 DEF PageInv
  <1>3. ASSUME NEW q \in Request
        PROVE  RequestInv(q)' /\ (Current(q)' <=> Current(q)) /\ requests'[q].for = requests[q].for
    <2>1. CASE q = r
      <3>1. (Current(r)' <=> Current(r)) /\ (r > asked' => FALSE)
        BY <1>0, <1>w, <1>f, <1>u DEF Current, RequestInv
      <3>2. Current(r)' /\ requests'[r].for = "first" => FirstInv(r)'
        BY <3>1, <1>0, <1>w, <1>f, <1>u DEF RequestInv, FirstInv, TimeInv
      <3>3. Current(r)' /\ requests'[r].for = "next" => NextInv(r)'
        BY <3>1, <1>0, <1>w, <1>f, <1>u DEF RequestInv, NextInv, TimeInv
      <3>4. requests'[r].for # "none" /\ requests'[r].gen <= gen' /\ requests'[r].key \in Key
        BY <1>0, <1>w, <1>f, <1>u DEF RequestInv
      <3> QED BY <2>1, <3>1, <3>2, <3>3, <3>4, <1>2, <1>f DEF RequestInv
    <2>2. CASE q # r
      BY <2>2, <1>a, <1>u, <1>0, SameRequest DEF IInv, Current
    <2> QED BY <2>1, <2>2
  <1>4. ASSUME NEW q \in Request, NEW o \in Request
        PROVE  OneFirstPage(q, o)'
    BY <1>3 DEF IInv, OneFirstPage
  <1>5. TimeInv' /\ ViewInv'
    BY <1>0, <1>u DEF TimeInv, ViewInv, RowsOfShownList, NoGap, List, TailHeard, FreshAfterReload, Settled
  <1>6. RefsInv'
    <2>1. more # 0 => more \in Request
      BY <1>0 DEF TypeOK, RefsType, Request
    <2> QED BY <2>1, <1>0, <1>u, <1>3 DEF RefsInv
  <1> QED BY <1>1, <1>3, <1>4, <1>5, <1>6 DEF IInv

LEMMA FailStep ==
  ASSUME IInv, NEW r \in Request, Fail(r)
  PROVE  IInv'
  <1>0. /\ TypeOK /\ TimeInv /\ RefsInv /\ ViewInv /\ RequestsType /\ RequestInv(r) /\ asked \in Nat
    BY DEF IInv, TypeOK, RequestsType
  <1>p. PICK end \in {"failed", "auth"} : requests' = [requests EXCEPT ![r].at = end]
    BY DEF Fail
  <1>w. requests[r].at = "way"
    BY DEF Fail
  <1>a. /\ requests' \in [Request -> RequestState]
        /\ \A q \in Request : q # r => requests'[q] = requests[q]
    BY <1>p, <1>0, RequestFields DEF RequestsType, RequestState
  <1>f. /\ requests'[r].at = end /\ requests'[r].for = requests[r].for /\ requests'[r].gen = requests[r].gen
        /\ requests'[r].key = requests[r].key /\ requests'[r].cursor = requests[r].cursor
    BY <1>p, <1>0 DEF RequestsType, RequestState
  <1>u. /\ UNCHANGED <<stamp, pinned, clock, changed>> /\ UNCHANGED <<key, pending, listed>>
        /\ UNCHANGED <<gen, reloading, more, cursor, shownKey>>
        /\ UNCHANGED <<status, rows, hasMore, tail>> /\ UNCHANGED <<leaving, asked>>
        /\ UNCHANGED <<since, heard, kept>> /\ UNCHANGED server
    BY DEF Fail, server, render, refs, view, history
  <1>1. TypeOK'
    BY <1>0, <1>u, <1>a DEF TypeOK, ServerType, RefsType, ViewType, RequestsType
  <1>3. ASSUME NEW q \in Request
        PROVE  RequestInv(q)' /\ (Current(q)' <=> Current(q)) /\ requests'[q].for = requests[q].for
    <2>1. CASE q = r
      BY <2>1, <1>0, <1>w, <1>f, <1>u DEF Current, RequestInv, PageInv, FirstInv, NextInv
    <2>2. CASE q # r
      BY <2>2, <1>a, <1>u, <1>0, SameRequest DEF IInv, Current
    <2> QED BY <2>1, <2>2
  <1>4. ASSUME NEW q \in Request, NEW o \in Request
        PROVE  OneFirstPage(q, o)'
    BY <1>3 DEF IInv, OneFirstPage
  <1>5. TimeInv' /\ ViewInv'
    BY <1>0, <1>u DEF TimeInv, ViewInv, RowsOfShownList, NoGap, List, TailHeard, FreshAfterReload, Settled
  <1>6. RefsInv'
    <2>1. more # 0 => more \in Request
      BY <1>0 DEF TypeOK, RefsType, Request
    <2> QED BY <2>1, <1>0, <1>u, <1>3 DEF RefsInv
  <1> QED BY <1>1, <1>3, <1>4, <1>5, <1>6 DEF IInv

-----------------------------------------------------------------------------
(* Answers.                                                                *)

\* A settled request asks nothing of the list.
LEMMA DoneInv ==
  ASSUME NEW r \in Request, requests'[r] = NoRequest
  PROVE  RequestInv(r)' /\ ~Current(r)'
  BY DEF RequestInv, PageInv, Current, NoRequest

\* What every answer leaves.
DeliverKeeps(r) ==
  /\ UNCHANGED <<stamp, pinned, clock, changed>> /\ UNCHANGED <<key, pending, listed, gen, asked>>
  /\ UNCHANGED <<heard>> /\ UNCHANGED server

\* The other requests, after an answer that neither ends the reload nor moves the cursor under them.
LEMMA DeliverRequests ==
  ASSUME IInv, NEW r \in Request, Done(r), DeliverKeeps(r),
         \A q \in Request \ {r} : Current(q) =>
            /\ requests[q].for = "first" => reloading'
            /\ requests[q].for = "next" => ~reloading' /\ more' = more /\ cursor' = cursor /\ since' = since
  PROVE  /\ \A q \in Request : RequestInv(q)'
         /\ \A q, o \in Request : OneFirstPage(q, o)'
         /\ requests' \in [Request -> RequestState]
         /\ \A q \in Request : q # r => requests'[q] = requests[q] /\ (Current(q)' <=> Current(q))
         /\ ~Current(r)'
  <1>0. RequestsType
    BY DEF IInv, TypeOK
  <1>a. /\ requests' \in [Request -> RequestState] /\ requests'[r] = NoRequest
        /\ \A q \in Request : q # r => requests'[q] = requests[q]
    BY <1>0, DoneRequests
  <1>u. /\ UNCHANGED <<stamp, pinned, clock, changed>> /\ UNCHANGED <<key, pending, listed, gen, asked>>
        /\ UNCHANGED <<heard>>
    BY DEF DeliverKeeps
  <1>1. RequestInv(r)' /\ ~Current(r)'
    BY <1>a, DoneInv
  <1>2. ASSUME NEW q \in Request, q # r
        PROVE  RequestInv(q)' /\ (Current(q)' <=> Current(q))
    <2>1. RequestInv(q) /\ requests'[q] = requests[q]
      BY <1>a, <1>2 DEF IInv
    <2>2. Current(q)' <=> Current(q)
      BY <2>1, <1>u DEF Current
    <2>3. PageInv(q)'
      BY <2>1, <1>u DEF RequestInv, PageInv, Covers, List
    <2>4. Current(q) /\ requests[q].for = "first" => FirstInv(q)'
      BY <2>1, <1>u, <1>2 DEF RequestInv, FirstInv
    <2>5. Current(q) /\ requests[q].for = "next" => NextInv(q)'
      BY <2>1, <1>u, <1>2 DEF RequestInv, NextInv
    <2> QED BY <2>1, <2>2, <2>3, <2>4, <2>5, <1>u DEF RequestInv
  <1>3. ASSUME NEW q \in Request, NEW o \in Request
        PROVE  OneFirstPage(q, o)'
    BY <1>a, <1>1, <1>2 DEF IInv, OneFirstPage
  <1> QED BY <1>a, <1>1, <1>2, <1>3

LEMMA FirstPageStep ==
  ASSUME IInv, NEW r \in Request, FirstPage(r)
  PROVE  IInv'
  <1>0. /\ TypeOK /\ TimeInv /\ RefsInv /\ ViewInv /\ RequestsType /\ RequestInv(r) /\ clock \in Nat
        /\ requests[r].items \in Rows /\ requests[r].next \in Nat /\ requests[r].time \in Nat
        /\ requests[r].key \in Key
    <2>1. TypeOK /\ RequestsType /\ RequestInv(r)
      BY DEF IInv, TypeOK
    <2> QED BY <2>1, RequestFields DEF IInv, TypeOK, ServerType, RequestInv, FirstPage
  <1>w. /\ requests[r].for = "first" /\ requests[r].at = "page" /\ Current(r) /\ Done(r)
        /\ reloading' = FALSE /\ cursor' = requests[r].next /\ shownKey' = requests[r].key
        /\ status' = "ready" /\ rows' = requests[r].items /\ hasMore' = (requests[r].next # 0) /\ tail' = "idle"
        /\ since' = requests[r].time
    BY DEF FirstPage, Current
  <1>u. /\ UNCHANGED <<stamp, pinned, clock, changed>> /\ UNCHANGED <<key, pending, listed>>
        /\ UNCHANGED <<gen, more, leaving, asked, heard, kept>> /\ DeliverKeeps(r)
    BY DEF FirstPage, server, render, DeliverKeeps
  <1>f. FirstInv(r) /\ PageInv(r)
    BY <1>0, <1>w DEF RequestInv
  <1>o. ASSUME NEW q \in Request \ {r}
        PROVE  ~Current(q)
    <2>1. RequestInv(q) /\ OneFirstPage(r, q) /\ requests[q].for \in {"none", "first", "next"}
      BY <1>0, RequestFields DEF IInv
    <2> QED BY <2>1, <1>w, <1>f DEF RequestInv, OneFirstPage, FirstInv, NextInv, Current
  <1>d. /\ \A q \in Request : RequestInv(q)'
        /\ \A q, o \in Request : OneFirstPage(q, o)'
        /\ requests' \in [Request -> RequestState]
    BY <1>o, <1>w, <1>u, DeliverRequests
  <1>m. more = 0
    <2>1. more # 0 => more \in Request
      BY <1>0 DEF TypeOK, RefsType, Request
    <2>2. more # 0 => RequestInv(more)
      BY <2>1 DEF IInv
    <2> QED BY <2>1, <2>2, <1>0, <1>f DEF RefsInv, RequestInv, NextInv, FirstInv
  <1>1. TypeOK'
    BY <1>0, <1>w, <1>u, <1>d DEF TypeOK, ServerType, RefsType, ViewType, RequestsType
  <1>2. TimeInv'
    BY <1>0, <1>w, <1>u, <1>f DEF TimeInv, PageInv
  <1>3. RefsInv'
    <2>1. shownKey' # None /\ shownKey' = listed
      BY <1>0, <1>w, <1>f, NoneAssumption DEF FirstInv
    <2> QED BY <2>1, <1>0, <1>w, <1>u, <1>m DEF RefsInv
  <1>4. RowsOfShownList'
    <2>1. \A i \in Item : rows'[i] > 0 => shownKey' # None /\ i \in Holds[shownKey']
      BY <1>0, <1>w, <1>f, NoneAssumption DEF PageInv
    <2>2. Settled' => shownKey' = key'
      BY <1>0, <1>w, <1>u, <1>f DEF Settled, RefsInv, FirstInv
    <2> QED BY <2>1, <2>2 DEF RowsOfShownList
  <1>5. NoGap'
    <2>1. Covers(r) /\ requests[r].cursor = 0
      BY <1>w, <1>f DEF PageInv, FirstInv
    <2> QED BY <2>1, <1>w, <1>u DEF NoGap, Covers, List
  <1>6. TailHeard' /\ FreshAfterReload'
    BY <1>w, <1>u, <1>m, <1>f DEF TailHeard, FreshAfterReload, Settled, FirstInv
  <1> QED BY <1>1, <1>2, <1>3, <1>4, <1>5, <1>6, <1>d DEF IInv, ViewInv

LEMMA FirstFailedStep ==
  ASSUME IInv, NEW r \in Request, FirstFailed(r)
  PROVE  IInv'
  <1>0. /\ TypeOK /\ TimeInv /\ RefsInv /\ ViewInv /\ RequestsType /\ RequestInv(r)
        /\ requests[r].key \in Key
    <2>1. TypeOK /\ RequestsType /\ RequestInv(r)
      BY DEF IInv, TypeOK
    <2> QED BY <2>1 DEF IInv, RequestInv, FirstFailed
  <1>w. /\ requests[r].for = "first" /\ requests[r].at = "failed" /\ Current(r) /\ Done(r)
        /\ reloading' = FALSE /\ kept' = TRUE
    BY DEF FirstFailed, Current
  <1>u. /\ UNCHANGED <<stamp, pinned, clock, changed>> /\ UNCHANGED <<key, pending, listed>>
        /\ UNCHANGED <<gen, more, leaving, asked, since, heard>> /\ DeliverKeeps(r)
    BY DEF FirstFailed, server, render, DeliverKeeps
  <1>f. FirstInv(r)
    BY <1>0, <1>w DEF RequestInv
  <1>o. ASSUME NEW q \in Request \ {r}
        PROVE  ~Current(q)
    <2>1. RequestInv(q) /\ OneFirstPage(r, q) /\ requests[q].for \in {"none", "first", "next"}
      BY <1>0, RequestFields DEF IInv
    <2> QED BY <2>1, <1>w, <1>f DEF RequestInv, OneFirstPage, FirstInv, NextInv, Current
  <1>d. /\ \A q \in Request : RequestInv(q)'
        /\ \A q, o \in Request : OneFirstPage(q, o)'
        /\ requests' \in [Request -> RequestState]
    BY <1>o, <1>w, <1>u, DeliverRequests
  <1>m. more = 0
    <2>1. more # 0 => more \in Request
      BY <1>0 DEF TypeOK, RefsType, Request
    <2>2. more # 0 => RequestInv(more)
      BY <2>1 DEF IInv
    <2> QED BY <2>1, <2>2, <1>0, <1>f DEF RefsInv, RequestInv, NextInv, FirstInv
  <1>r. \A i \in Item : NoRows[i] = 0
    BY DEF NoRows
  <1>2. TimeInv'
    BY <1>0, <1>u DEF TimeInv
  <1>3. CASE shownKey # requests[r].key
    <2>1. cursor' = 0 /\ shownKey' = None /\ status' = "error" /\ rows' = NoRows /\ hasMore' = FALSE /\ tail' = "idle"
      BY <1>3 DEF FirstFailed, ShowError
    <2>2. TypeOK'
      BY <1>0, <1>w, <1>u, <1>d, <2>1 DEF TypeOK, ServerType, RefsType, ViewType, RequestsType, Rows, NoRows
    <2>3. RefsInv' /\ ViewInv'
      BY <1>0, <1>u, <1>m, <1>r, <2>1
      DEF RefsInv, ViewInv, RowsOfShownList, NoGap, TailHeard, FreshAfterReload, Settled
    <2> QED BY <2>2, <2>3, <1>2, <1>d DEF IInv
  <1>4. CASE shownKey = requests[r].key
    <2>0. status = "ready" /\ shownKey = listed
      BY <1>4, <1>0, <1>f, NoneAssumption DEF RefsInv, FirstInv
    <2>1. tail' = "idle" /\ UNCHANGED <<cursor, shownKey, status, rows, hasMore>>
      BY <1>4, <2>0 DEF FirstFailed
    <2>2. TypeOK'
      BY <1>0, <1>w, <1>u, <1>d, <2>1 DEF TypeOK, ServerType, RefsType, ViewType, RequestsType
    <2>3. RefsInv'
      BY <1>0, <1>w, <1>u, <1>m, <2>0, <2>1 DEF RefsInv
    <2>4. ViewInv'
      BY <1>0, <1>w, <1>u, <1>m, <2>0, <2>1
      DEF RefsInv, ViewInv, RowsOfShownList, NoGap, List, TailHeard, FreshAfterReload, Settled
    <2> QED BY <2>2, <2>3, <2>4, <1>2, <1>d DEF IInv
  <1> QED BY <1>3, <1>4

LEMMA NextPageStep ==
  ASSUME IInv, NEW r \in Request, NextPage(r)
  PROVE  IInv'
  <1>0. /\ TypeOK /\ TimeInv /\ RefsInv /\ ViewInv /\ RequestsType /\ RequestInv(r)
        /\ rows \in Rows /\ requests[r].items \in Rows /\ requests[r].next \in Nat /\ requests[r].cursor \in Nat
        /\ since \in Nat /\ requests[r].time \in Nat /\ stamp \in [Item -> Nat] /\ changed \in [Item -> Nat]
        /\ requests[r].key \in Key
    <2>1. TypeOK /\ RequestsType /\ RequestInv(r)
      BY DEF IInv, TypeOK
    <2> QED BY <2>1, RequestFields DEF IInv, TypeOK, ServerType, ViewType, RequestInv, NextPage
  <1>w. /\ requests[r].for = "next" /\ requests[r].at = "page" /\ Current(r) /\ Done(r) /\ Release(r)
        /\ cursor' = requests[r].next
    BY DEF NextPage, Current
  <1>f. NextInv(r) /\ PageInv(r)
    BY <1>0, <1>w DEF RequestInv
  <1>s. status = "ready" /\ shownKey = listed /\ requests[r].key = shownKey /\ more' = 0 /\ shownKey \in Key
    BY <1>0, <1>w, <1>f DEF RefsInv, NextInv, Release
  <1>v. /\ rows' = Joined(requests[r].items) /\ hasMore' = (requests[r].next # 0) /\ tail' = "idle"
    BY <1>s DEF NextPage
  <1>r. /\ rows' \in Rows
        /\ \A i \in Item : rows[i] > 0 \/ requests[r].items[i] > 0 <=> rows'[i] > 0
    BY <1>0, <1>v DEF Joined, Rows
  <1>u. /\ UNCHANGED <<stamp, pinned, clock, changed>> /\ UNCHANGED <<key, pending, listed>>
        /\ UNCHANGED <<gen, reloading, shownKey, status, leaving, asked, since, heard, kept>> /\ DeliverKeeps(r)
    BY DEF NextPage, server, render, history, DeliverKeeps
  <1>o. ASSUME NEW q \in Request \ {r}
        PROVE  ~Current(q)
    <2>1. RequestInv(q) /\ requests[q].for \in {"none", "first", "next"}
      BY <1>0, RequestFields DEF IInv
    <2> QED BY <2>1, <1>w, <1>f DEF RequestInv, FirstInv, NextInv, Current
  <1>d. /\ \A q \in Request : RequestInv(q)'
        /\ \A q, o \in Request : OneFirstPage(q, o)'
        /\ requests' \in [Request -> RequestState]
    BY <1>o, <1>w, <1>u, DeliverRequests
  <1>1. TypeOK'
    <2>1. more' \in 0..MaxRequests /\ cursor' \in Nat
      BY <1>s, <1>w, <1>0, BoundsAssumption
    <2> QED BY <2>1, <1>0, <1>r, <1>v, <1>u, <1>d DEF TypeOK, ServerType, RefsType, ViewType, RequestsType
  <1>2. TimeInv' /\ RefsInv'
    BY <1>0, <1>s, <1>u DEF TimeInv, RefsInv
  <1>4. RowsOfShownList'
    <2>1. \A i \in Item : requests[r].items[i] > 0 => i \in Holds[shownKey]
      BY <1>s, <1>f, <1>w DEF PageInv
    <2>2. ASSUME NEW i \in Item, rows'[i] > 0
          PROVE  i \in Holds[shownKey]
      BY <2>1, <2>2, <1>0, <1>r DEF ViewInv, RowsOfShownList
    <2>3. Settled' => shownKey' = key'
      BY <1>0, <1>s, <1>u DEF Settled, RefsInv
    <2> QED BY <2>2, <2>3, <1>s, <1>u, NoneAssumption DEF RowsOfShownList
  <1>5. NoGap'
    <2>1. SUFFICES ASSUME NEW i \in List(shownKey), changed[i] <= since, stamp[i] >= requests[r].next
                   PROVE  rows'[i] > 0
      BY <1>w, <1>u DEF NoGap, List
    <2>2. i \in Item /\ changed[i] \in Nat /\ stamp[i] \in Nat
      BY <1>0, <1>s, HoldsAssumption DEF List
    <2>3. CASE stamp[i] >= requests[r].cursor
      BY <2>1, <2>2, <2>3, <1>0, <1>s, <1>f, <1>r DEF ViewInv, NoGap, NextInv
    <2>4. CASE stamp[i] < requests[r].cursor
      <3>1. changed[i] <= requests[r].time
        BY <2>1, <2>2, <1>0, <1>w, <1>f DEF NextInv
      <3>2. requests[r].items[i] > 0
        BY <3>1, <2>1, <2>4, <1>w, <1>s, <1>f DEF PageInv, Covers
      <3> QED BY <3>2, <2>2, <1>r
    <2> QED BY <2>2, <2>3, <2>4, <1>0
  <1>6. TailHeard' /\ FreshAfterReload'
    BY <1>0, <1>w, <1>v, <1>u, <1>s, <1>f DEF ViewInv, TailHeard, FreshAfterReload, Settled, NextInv
  <1> QED BY <1>1, <1>2, <1>4, <1>5, <1>6, <1>d DEF IInv, ViewInv

\* A settled request of another kind leaves the next page that is out where it is.
LEMMA OtherNext ==
  ASSUME RefsInv, more # 0, more \in Request, NEW r \in Request, more # r, more' = more,
         requests'[more] = requests[more], Current(more)' <=> Current(more)
  PROVE  Current(more)' /\ requests'[more'].for = "next"
  BY DEF RefsInv

LEMMA NextFailedStep ==
  ASSUME IInv, NEW r \in Request, NextFailed(r)
  PROVE  IInv'
  <1>0. /\ TypeOK /\ TimeInv /\ RefsInv /\ ViewInv /\ RequestsType /\ RequestInv(r)
    BY DEF IInv, TypeOK
  <1>w. /\ requests[r].for = "next" /\ requests[r].at = "failed" /\ Current(r) /\ Done(r) /\ Release(r)
    BY DEF NextFailed, Current
  <1>f. NextInv(r)
    BY <1>0, <1>w DEF RequestInv
  <1>s. status = "ready" /\ more' = 0 /\ tail' = "failed"
    BY <1>0, <1>w, <1>f DEF RefsInv, NextInv, Release, NextFailed
  <1>u. /\ UNCHANGED <<stamp, pinned, clock, changed>> /\ UNCHANGED <<key, pending, listed>>
        /\ UNCHANGED <<gen, reloading, cursor, shownKey, status, rows, hasMore, leaving, asked, since, heard, kept>>
        /\ DeliverKeeps(r)
    BY DEF NextFailed, server, render, history, DeliverKeeps
  <1>o. ASSUME NEW q \in Request \ {r}
        PROVE  ~Current(q)
    <2>1. RequestInv(q) /\ requests[q].for \in {"none", "first", "next"}
      BY <1>0, RequestFields DEF IInv
    <2> QED BY <2>1, <1>w, <1>f DEF RequestInv, FirstInv, NextInv, Current
  <1>d. /\ \A q \in Request : RequestInv(q)'
        /\ \A q, o \in Request : OneFirstPage(q, o)'
        /\ requests' \in [Request -> RequestState]
    BY <1>o, <1>w, <1>u, DeliverRequests
  <1>1. TypeOK'
    <2>1. more' \in 0..MaxRequests
      BY <1>s, BoundsAssumption
    <2> QED BY <2>1, <1>0, <1>s, <1>u, <1>d DEF TypeOK, ServerType, RefsType, ViewType, RequestsType
  <1>2. TimeInv' /\ RefsInv'
    BY <1>0, <1>s, <1>u DEF TimeInv, RefsInv
  <1>3. ViewInv'
    BY <1>0, <1>s, <1>u, <1>f
    DEF ViewInv, RowsOfShownList, NoGap, List, TailHeard, FreshAfterReload, Settled, NextInv
  <1> QED BY <1>1, <1>2, <1>3, <1>d DEF IInv

LEMMA IgnoredStep ==
  ASSUME IInv, NEW r \in Request, Ignored(r)
  PROVE  IInv'
  <1>0. /\ TypeOK /\ TimeInv /\ RefsInv /\ ViewInv /\ RequestsType /\ RequestInv(r)
        /\ (more # 0 => more \in Request)
    BY DEF IInv, TypeOK, RefsType, Request
  <1>w. ~Current(r) /\ Done(r)
    BY DEF Ignored, Current
  <1>m. more' = more /\ (more # 0 => more # r)
    BY <1>0, <1>w DEF Ignored, Release, RefsInv
  <1>u. /\ UNCHANGED <<stamp, pinned, clock, changed>> /\ UNCHANGED <<key, pending, listed>>
        /\ UNCHANGED <<gen, reloading, cursor, shownKey, status, rows, hasMore, tail>>
        /\ UNCHANGED <<leaving, asked, since, heard, kept>> /\ DeliverKeeps(r)
    BY DEF Ignored, server, render, view, history, DeliverKeeps
  <1>o. ASSUME NEW q \in Request \ {r}, Current(q)
        PROVE  /\ requests[q].for = "first" => reloading'
               /\ requests[q].for = "next" => ~reloading' /\ more' = more /\ cursor' = cursor /\ since' = since
    BY <1>o, <1>u, <1>m DEF IInv, RequestInv, FirstInv, NextInv
  <1>d. /\ \A q \in Request : RequestInv(q)'
        /\ \A q, o \in Request : OneFirstPage(q, o)'
        /\ requests' \in [Request -> RequestState]
        /\ \A q \in Request : q # r => requests'[q] = requests[q] /\ (Current(q)' <=> Current(q))
    BY <1>o, <1>w, <1>u, DeliverRequests
  <1>1. TypeOK'
    BY <1>0, <1>m, <1>u, <1>d DEF TypeOK, ServerType, RefsType, ViewType, RequestsType
  <1>2. TimeInv'
    BY <1>0, <1>u DEF TimeInv
  <1>3. RefsInv'
    <2>1. more' # 0 => Current(more)' /\ requests'[more'].for = "next"
      BY <1>0, <1>m, <1>d, OtherNext
    <2> QED BY <2>1, <1>0, <1>m, <1>u DEF RefsInv
  <1>4. ViewInv'
    BY <1>0, <1>m, <1>u DEF ViewInv, RowsOfShownList, NoGap, List, TailHeard, FreshAfterReload, Settled
  <1> QED BY <1>1, <1>2, <1>3, <1>4, <1>d DEF IInv

LEMMA AuthRequiredStep ==
  ASSUME IInv, NEW r \in Request, AuthRequired(r)
  PROVE  IInv'
  <1>0. /\ TypeOK /\ TimeInv /\ RefsInv /\ ViewInv /\ RequestsType /\ RequestInv(r)
        /\ (more # 0 => more \in Request) /\ more \in 0..MaxRequests
    BY DEF IInv, TypeOK, RefsType, Request
  <1>w. requests[r].at = "auth" /\ Done(r) /\ leaving' = TRUE
    BY DEF AuthRequired
  <1>m. /\ (more # 0 /\ more # r) \/ more = 0 => more' = more
        /\ more # 0 /\ more = r => more' = 0
        /\ more' = more \/ more' = 0
    BY <1>0 DEF AuthRequired, Release, RefsInv
  <1>u. /\ UNCHANGED <<stamp, pinned, clock, changed>> /\ UNCHANGED <<key, pending, listed>>
        /\ UNCHANGED <<gen, reloading, cursor, shownKey, status, rows, hasMore, tail>>
        /\ UNCHANGED <<asked, since, heard, kept>> /\ DeliverKeeps(r)
    BY DEF AuthRequired, server, render, view, history, DeliverKeeps
  <1>o. ASSUME NEW q \in Request \ {r}, Current(q)
        PROVE  /\ requests[q].for = "first" => reloading'
               /\ requests[q].for = "next" => ~reloading' /\ more' = more /\ cursor' = cursor /\ since' = since
    BY <1>o, <1>u, <1>m DEF IInv, RequestInv, FirstInv, NextInv
  <1>d. /\ \A q \in Request : RequestInv(q)'
        /\ \A q, o \in Request : OneFirstPage(q, o)'
        /\ requests' \in [Request -> RequestState]
        /\ \A q \in Request : q # r => requests'[q] = requests[q] /\ (Current(q)' <=> Current(q))
    BY <1>o, <1>w, <1>u, DeliverRequests
  <1>1. TypeOK'
    <2>1. more' \in 0..MaxRequests
      BY <1>m, <1>0, BoundsAssumption
    <2> QED BY <2>1, <1>0, <1>w, <1>u, <1>d DEF TypeOK, ServerType, RefsType, ViewType, RequestsType
  <1>2. TimeInv'
    BY <1>0, <1>u DEF TimeInv
  <1>3. RefsInv'
    <2>1. more' # 0 => Current(more)' /\ requests'[more'].for = "next"
      BY <1>0, <1>m, <1>d, OtherNext
    <2>2. status # "ready" => more' = 0
      BY <1>0, <1>m DEF RefsInv
    <2> QED BY <2>1, <2>2, <1>0, <1>u DEF RefsInv
  <1>4. TailHeard'
    <2>1. status = "ready" /\ tail # "loading" => more' = 0
      BY <1>0, <1>m DEF ViewInv, TailHeard
    <2> QED BY <2>1, <1>0, <1>w, <1>u DEF ViewInv, TailHeard
  <1>5. RowsOfShownList' /\ NoGap' /\ FreshAfterReload'
    BY <1>0, <1>u DEF ViewInv, RowsOfShownList, NoGap, List, FreshAfterReload, Settled
  <1> QED BY <1>1, <1>2, <1>3, <1>4, <1>5, <1>d DEF IInv, ViewInv

-----------------------------------------------------------------------------
(* Theorems.                                                               *)

LEMMA InitInv == Init => IInv
  <1> SUFFICES ASSUME Init PROVE IInv
    OBVIOUS
  <1>0. /\ Cardinality(Item) \in Nat /\ MaxRequests \in Nat /\ MaxRequests > 0
        /\ requests = [r \in Request |-> NoRequest] /\ asked = 0
    BY ItemAssumption, FS_CardinalityType, BoundsAssumption DEF Init
  <1>1. stamp \in [Item -> Nat] /\ changed = stamp /\ (\A i \in Item : stamp[i] <= Cardinality(Item))
    BY <1>0 DEF Init
  <1>2. requests \in [Request -> RequestState] /\ \A r \in Request : requests[r] = NoRequest
    BY <1>0, NoRequestType
  <1>3. \A r \in Request : RequestInv(r) /\ ~Current(r)
    BY <1>2 DEF RequestInv, PageInv, Current, NoRequest
  <1>4. \A r, q \in Request : OneFirstPage(r, q)
    BY <1>3 DEF OneFirstPage
  <1>5. rows \in Rows /\ \A i \in Item : rows[i] = 0
    BY DEF Init, NoRows, Rows
  <1>6. TypeOK
    <2>1. ServerType
      BY <1>0, <1>1 DEF Init, ServerType
    <2>2. RefsType
      <3>1. key \in Key /\ pending = TRUE /\ listed = None /\ gen = 0 /\ reloading = FALSE
        BY DEF Init
      <3>2. more = 0 /\ cursor = 0 /\ shownKey = None /\ 0 \in 0..MaxRequests
        BY <1>0 DEF Init
      <3> QED BY <3>1, <3>2 DEF RefsType
    <2>3. ViewType
      BY <1>5 DEF Init, ViewType
    <2>4. RequestsType
      BY <1>0, <1>2 DEF RequestsType
    <2> QED BY <2>1, <2>2, <2>3, <2>4 DEF TypeOK
  <1>7. TimeInv
    BY <1>0, <1>1 DEF Init, TimeInv
  <1>8. RefsInv /\ ViewInv
    BY <1>0, <1>5 DEF Init, RefsInv, ViewInv, RowsOfShownList, NoGap, TailHeard, FreshAfterReload, Settled
  <1> QED BY <1>3, <1>4, <1>6, <1>7, <1>8 DEF IInv

LEMMA StutterStep ==
  ASSUME IInv, UNCHANGED vars
  PROVE  IInv'
  <1>u. /\ UNCHANGED <<stamp, pinned, clock, changed>> /\ UNCHANGED <<key, pending, listed>>
        /\ UNCHANGED <<gen, reloading, more, cursor, shownKey>> /\ UNCHANGED <<status, rows, hasMore, tail>>
        /\ UNCHANGED <<leaving, asked, requests>> /\ UNCHANGED <<since, heard, kept>>
    BY DEF vars, server, render, refs, view, history
  <1>1. TypeOK'
    BY <1>u DEF IInv, TypeOK, ServerType, RefsType, ViewType, RequestsType
  <1>2. ASSUME NEW r \in Request
        PROVE  RequestInv(r)'
    <2>1. RequestInv(r)
      BY DEF IInv
    <2> QED BY <2>1, <1>u DEF RequestInv, PageInv, Covers, List, Current, FirstInv, NextInv
  <1>3. ASSUME NEW r \in Request, NEW q \in Request
        PROVE  OneFirstPage(r, q)'
    BY <1>u DEF IInv, OneFirstPage, Current
  <1>4. TimeInv' /\ RefsInv'
    BY <1>u DEF IInv, TimeInv, RefsInv, Current
  <1>5. ViewInv'
    BY <1>u DEF IInv, ViewInv, RowsOfShownList, NoGap, List, TailHeard, FreshAfterReload, Settled
  <1> QED BY <1>1, <1>2, <1>3, <1>4, <1>5 DEF IInv

\* The inductive invariant of the list: a reload has one first page that the list waits for and no next page; a next
\* page belongs to the rows on screen, starts at their cursor, and leaves nothing out (the effect, loadMore and their
\* callbacks in useKeysetList).
THEOREM Invariance == Spec => []IInv
  <1>1. IInv /\ [Next]_vars => IInv'
    <2> SUFFICES ASSUME IInv, [Next]_vars PROVE IInv'
      OBVIOUS
    <2>1. ASSUME NEW i \in Item, Change(i) \/ DeletedHere(i) PROVE IInv'
      BY <2>1, ChangeStep, DeletedHereStep
    <2>2. ASSUME NEW k \in Key, ShowKey(k) PROVE IInv'
      BY <2>2, ShowKeyStep
    <2>3. CASE Notify
      BY <2>3, NotifyStep
    <2>4. CASE Reload
      BY <2>4, ReloadStep
    <2>5. CASE LoadMore
      BY <2>5, LoadMoreStep
    <2>6. ASSUME NEW r \in Request, Serve(r) \/ Fail(r) PROVE IInv'
      BY <2>6, ServeStep, FailStep
    <2>7. ASSUME NEW r \in Request, Deliver(r) PROVE IInv'
      <3>1. CASE FirstPage(r)
        BY <3>1, FirstPageStep
      <3>2. CASE FirstFailed(r)
        BY <3>2, FirstFailedStep
      <3>3. CASE NextPage(r)
        BY <3>3, NextPageStep
      <3>4. CASE NextFailed(r)
        BY <3>4, NextFailedStep
      <3>5. CASE Ignored(r)
        BY <3>5, IgnoredStep
      <3>6. CASE AuthRequired(r)
        BY <3>6, AuthRequiredStep
      <3> QED BY <2>7, <3>1, <3>2, <3>3, <3>4, <3>5, <3>6 DEF Deliver
    <2>8. CASE UNCHANGED vars
      BY <2>8, StutterStep
    <2> QED BY <2>1, <2>2, <2>3, <2>4, <2>5, <2>6, <2>7, <2>8 DEF Next
  <1> QED BY InitInv, <1>1, PTL DEF Spec

\* Every variable of the list and of its requests keeps its type.
THEOREM TypeCorrect == Spec => []TypeOK
  <1>1. IInv => TypeOK
    BY DEF IInv
  <1> QED BY Invariance, <1>1, PTL

\* The rows on screen are of one list; once no reload is due, of the list the screen asked for, also after a reload
\* that failed (shownKeyRef in useKeysetList).
THEOREM RowsOfOneList == Spec => []RowsOfShownList
  <1>1. IInv => RowsOfShownList
    BY DEF IInv, ViewInv
  <1> QED BY Invariance, <1>1, PTL

\* No page is skipped, however many pages, failures and cut requests lie between: what was not changed since the
\* first page on screen and stands before the cursor is on screen.
THEOREM PagesLeaveNoGap == Spec => []NoGap
  <1>1. IInv => NoGap
    BY DEF IInv, ViewInv
  <1> QED BY Invariance, <1>1, PTL

\* The end of the list never waits for a page nobody asked for, and never offers one that loadMore would not ask for.
THEOREM TailIsHeard == Spec => []TailHeard
  <1>1. IInv => TailHeard
    BY DEF IInv, ViewInv
  <1> QED BY Invariance, <1>1, PTL

\* One next page at a time: two answers to one cursor would both move it.
THEOREM NextPagesOneByOne == Spec => []OneNextPage
  <1>1. IInv => OneNextPage
    <2> SUFFICES ASSUME IInv, NEW r \in Request, NEW q \in Request,
                        requests[r].for = "next", Current(r), requests[q].for = "next", Current(q)
                 PROVE  r = q
      BY DEF OneNextPage, Current
    <2>1. RequestInv(r) /\ RequestInv(q)
      BY DEF IInv
    <2> QED BY <2>1 DEF RequestInv, NextInv
  <1> QED BY Invariance, <1>1, PTL

\* A list that was reloaded after a change the client heard of was read after that change (generationRef).
THEOREM ReloadIsFresh == Spec => []FreshAfterReload
  <1>1. IInv => FreshAfterReload
    BY DEF IInv, ViewInv
  <1> QED BY Invariance, <1>1, PTL

=============================================================================
