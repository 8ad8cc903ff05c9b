--------------------------- MODULE NotePageProofs ---------------------------
(***************************************************************************)
(* Proofs about NotePage: the note on screen is that of the URL unless an  *)
(* answer strayed, the lists hear of a note that settled, a save replaces  *)
(* no text its writer had not read, and a key queues one rewrite.          *)
(***************************************************************************)
EXTENDS NotePage, TLAPS

-----------------------------------------------------------------------------
(* The inductive invariant.                                                *)

\* What is known of a note says nothing the service never stored.
Fits(v, stored) ==
  v.id \in Note =>
    /\ v.read <= stored[v.id].version
    /\ v.read = stored[v.id].version => v.text = stored[v.id].text

ReadInv ==
  /\ Fits(load.seen, server) /\ Fits(shown.note, server) /\ Fits(form.base, server)
  /\ \A s \in Call : Fits(calls[s].base, server) /\ Fits(calls[s].view, server)

PageInv ==
  /\ load.at # "none" => load.note \in Note
  /\ load.at \in {"back", "stream", "event"} => load.seen.id = load.note
  /\ route = NoNote => load = NoLoad /\ shown = Loading /\ form = NoForm /\ again = Closed
  /\ shown.status \in {"generating", "ready", "failed"} => shown.note.id \in Note
  /\ form.on => shown.status = "ready"

CallsInv ==
  \A s \in Call :
    /\ calls[s].at \in {"way", "ok"} => calls[s].note \in Note /\ calls[s].route \in Note
    /\ calls[s].at = "ok" => calls[s].view.id = calls[s].note
    /\ calls[s].at \in {"way", "ok"} /\ calls[s].kind = "again" => calls[s].key \in Key

\* The note has not settled, or never will.
Working(note) == note.status \in {"generating", "gone"} \/ (note.status = "ready" /\ note.pending # 0)

\* A load that showed its note unsettled has something left to tell as soon as the note settles.
WatchInv(n) ==
  /\ told <= server[n].ends
  /\ load.at \in {"stream", "event"} \/ load.why = "ready" => ~load.settled
  /\ load.why = "ready" => told > load.ends
  /\ ~load.settled => load.ends <= server[n].ends /\ (load.ends = server[n].ends => Working(server[n]))
  /\ load.at = "event" => load.ends < server[n].ends
  /\ load.at = "back" =>
       /\ load.read <= server[n].ends
       /\ Unsettled(load.seen) /\ load.read = server[n].ends => Working(server[n])
       /\ Settled(load.seen) /\ ~load.settled => load.ends < load.read

ListInv == load.at # "none" => WatchInv(load.note)

KeyInv ==
  /\ \A k \in Key : k > used => reserved[k] = NoNote
  /\ again.key <= used
  /\ \A s \in Call : calls[s].key <= used

IInv == StateType /\ PageInv /\ CallsInv /\ ShownIsOfRoute /\ ReadInv /\ ListInv /\ KeyInv

-----------------------------------------------------------------------------
(* Views, and what the state holds.                                        *)

LEMMA ViewFields ==
  ASSUME NEW v \in View
  PROVE  /\ v.id \in Note \cup {NoNote} /\ v.version \in Version /\ v.read \in Version /\ v.text \in Version
         /\ v.updating \in BOOLEAN
         /\ v.id \in Note => v.status \in {"generating", "ready", "failed", "gone"}
         /\ v.id = NoNote => v = NoView
<1>1. CASE v = NoView
  BY <1>1, NoteAssumption, BoundsAssumption DEF NoView, Version
<1>2. CASE v # NoView
  BY <1>2, NoteAssumption DEF View
<1> QED BY <1>1, <1>2

LEMMA NoViewIs == NoView \in View /\ NoView.id = NoNote /\ NoView.id \notin Note
  BY NoteAssumption DEF View, NoView

\* A note whose status, version or updating is overwritten is one still.
LEMMA ViewChanges ==
  ASSUME NEW v \in View, v.id \in Note
  PROVE  /\ [v EXCEPT !.status = "failed"] \in View
         /\ \A x \in Version : [v EXCEPT !.version = x] \in View
         /\ \A x \in BOOLEAN : [v EXCEPT !.updating = x] \in View
  BY NoViewIs DEF View

LEMMA ViewOfIs ==
  ASSUME NEW n \in Note, NEW note \in Stored
  PROVE  /\ ViewOf(n, note) \in View /\ ViewOf(n, note).id = n
         /\ ViewOf(n, note).read = note.version /\ ViewOf(n, note).text = note.text
         /\ ViewOf(n, note).status = note.status
         /\ Unsettled(ViewOf(n, note)) => Working(note)
         /\ Settled(ViewOf(n, note)) => ~Working(note)
  BY DEF ViewOf, View, Stored, Unsettled, Settled, Working

\* An answer read now says what the service stores.
LEMMA ViewOfFits ==
  ASSUME NEW n \in Note, NEW stored \in [Note -> Stored]
  PROVE  Fits(ViewOf(n, stored[n]), stored)
<1>1. stored[n] \in Stored /\ stored[n].version \in Nat
  BY BoundsAssumption DEF Stored, Version
<1> QED BY <1>1, ViewOfIs DEF Fits

LEMMA NoViewFits == \A stored : Fits(NoView, stored)
  BY NoViewIs DEF Fits

LEMMA ShownIs ==
  /\ Loading \in Shown /\ Loading.status = "loading" /\ Loading.note = NoView
  /\ \A st \in {"loading", "notFound", "error"} :
       Bare(st) \in Shown /\ Bare(st).status = st /\ Bare(st).note = NoView
  /\ \A st \in {"generating", "ready", "failed"} : \A v \in View :
       With(st, v) \in Shown /\ With(st, v).status = st /\ With(st, v).note = v
  BY NoViewIs DEF Loading, Bare, With, Shown

LEMMA NothingOpen ==
  /\ NoForm \in Form /\ NoForm.on = FALSE /\ NoForm.base = NoView
  /\ Closed \in Again /\ Closed.key = 0
  /\ \A on \in BOOLEAN : [open |-> on, key |-> 0] \in Again
  BY NoViewIs DEF NoForm, Form, Closed, Again

LEMMA LoadIs ==
  ASSUME NEW n \in Note \cup {NoNote}, NEW at \in {"none", "way"}
  PROVE  /\ LoadAt(n, at) \in Load /\ LoadAt(n, at).note = n /\ LoadAt(n, at).at = at
         /\ LoadAt(n, at).seen = NoView /\ LoadAt(n, at).settled = TRUE /\ LoadAt(n, at).why = "loop"
         /\ LoadAt(n, at).ends = 0 /\ LoadAt(n, at).read = 0
  BY NoViewIs, BoundsAssumption DEF LoadAt, Load, End

LEMMA ServerFields ==
  ASSUME ServiceType, NEW n \in Note
  PROVE  /\ server[n] \in Stored /\ server[n].version \in Nat /\ server[n].text \in Nat
         /\ server[n].version \in Version /\ server[n].text \in Version
         /\ server[n].ends \in Nat /\ server[n].ends \in End /\ server[n].pending \in {0} \cup Key
         /\ server[n].status \in {"generating", "ready", "failed", "gone"}
  BY BoundsAssumption DEF ServiceType, Stored, Version, End

LEMMA LoadFields ==
  ASSUME load \in Load
  PROVE  /\ load.note \in Note \cup {NoNote} /\ load.at \in {"none", "way", "back", "stream", "event"}
         /\ load.why \in {"loop", "ready"} /\ load.settled \in BOOLEAN /\ load.tries \in 0..(MaxReconnects + 1)
         /\ load.seen \in View /\ load.event \in {"none", "ready", "failed"} /\ load.ends \in Nat /\ load.read \in Nat
         /\ load.ends \in End /\ load.read \in End
  BY BoundsAssumption DEF Load, End

LEMMA CallFields ==
  ASSUME CallsType, NEW s \in Call
  PROVE  /\ calls[s] \in CallState
         /\ calls[s].kind \in {"none", "save", "rename", "again"} /\ calls[s].at \in {"done", "way", "ok", "refused"}
         /\ calls[s].note \in Note \cup {NoNote} /\ calls[s].route \in Note \cup {NoNote}
         /\ calls[s].mount \in 0..MaxOpens /\ calls[s].version \in Version /\ calls[s].text \in Version
         /\ calls[s].typed \in BOOLEAN /\ calls[s].named \in BOOLEAN
         /\ calls[s].base \in View /\ calls[s].view \in View /\ calls[s].key \in {0} \cup Key
  BY DEF CallsType, CallState

-----------------------------------------------------------------------------
(* What a step of the service or of a worker does to the stored notes.     *)

Goes(old, new) ==
  /\ new.version >= old.version
  /\ new.version = old.version => new.text = old.text
  /\ new.ends >= old.ends
  /\ new.ends = old.ends /\ Working(old) => Working(new)
ServerStep == \A n \in Note : Goes(server[n], server'[n])

\* A step that writes one note.
LEMMA OneNote ==
  ASSUME ServiceType, NEW n \in Note, NEW new \in Stored, server' = [server EXCEPT ![n] = new], Goes(server[n], new)
  PROVE  server' \in [Note -> Stored] /\ ServerStep
<1>1. \A m \in Note : Goes(server[m], server[m])
  BY ServerFields DEF Goes
<1>2. server' \in [Note -> Stored] /\ \A m \in Note : server'[m] = IF m = n THEN new ELSE server[m]
  BY DEF ServiceType
<1> QED BY <1>1, <1>2 DEF ServerStep

LEMMA NoServerStep ==
  ASSUME ServiceType, server' = server
  PROVE  ServerStep
  BY ServerFields DEF ServerStep, Goes

LEMMA FitsStays ==
  ASSUME ServiceType, server' \in [Note -> Stored], ServerStep, NEW v \in View, Fits(v, server)
  PROVE  Fits(v, server')
<1>1. SUFFICES ASSUME v.id \in Note PROVE Fits(v, server')
  BY DEF Fits
<1>2. v.read \in Nat /\ server[v.id].version \in Nat /\ server'[v.id].version \in Nat
  BY <1>1, ViewFields, ServerFields, BoundsAssumption DEF Version, Stored
<1>3. Goes(server[v.id], server'[v.id])
  BY <1>1 DEF ServerStep
<1> QED BY <1>1, <1>2, <1>3 DEF Fits, Goes

LEMMA WatchStays ==
  ASSUME ServiceType, server' \in [Note -> Stored], ServerStep, load \in Load, told \in End, PageInv, ListInv,
         UNCHANGED <<told, load>>
  PROVE  ListInv'
<1>1. SUFFICES ASSUME load.at # "none" PROVE WatchInv(load.note)'
  BY DEF ListInv
<1>2. load.note \in Note /\ WatchInv(load.note)
  BY <1>1 DEF PageInv, ListInv
<1> DEFINE n == load.note
<1>3. Goes(server[n], server'[n]) /\ server[n].ends \in Nat /\ server'[n].ends \in Nat
  BY <1>2, ServerFields, BoundsAssumption DEF ServerStep, Stored, End
<1>4. load.ends \in Nat /\ load.read \in Nat /\ told \in Nat
  BY LoadFields, BoundsAssumption DEF End
<1>5. load'.note = n /\ load' = load /\ told' = told
  OBVIOUS
<1> QED BY <1>2, <1>3, <1>4, <1>5 DEF WatchInv, Goes, Unsettled, Settled

-----------------------------------------------------------------------------
(* Calls.                                                                  *)

LEMMA IdleIs ==
  /\ Idle \in CallState /\ Idle.at = "done" /\ Idle.key = 0 /\ Idle.base = NoView /\ Idle.view = NoView
  /\ \A kind \in {"none", "save", "rename", "again"} :
       /\ [Idle EXCEPT !.kind = kind, !.at = "refused"] \in CallState
       /\ [Idle EXCEPT !.kind = kind, !.at = "refused"].at = "refused"
       /\ [Idle EXCEPT !.kind = kind, !.at = "refused"].key = 0
       /\ [Idle EXCEPT !.kind = kind, !.at = "refused"].base = NoView
       /\ [Idle EXCEPT !.kind = kind, !.at = "refused"].view = NoView
<1>1. Idle \in CallState /\ Idle.at = "done" /\ Idle.key = 0 /\ Idle.base = NoView /\ Idle.view = NoView
  <2>1. 0 \in Version /\ 0 \in 0..MaxOpens
    BY BoundsAssumption DEF Version
  <2> QED BY <2>1, NoViewIs DEF Idle, CallState
<1>2. ASSUME NEW kind \in {"none", "save", "rename", "again"}
      PROVE  /\ [Idle EXCEPT !.kind = kind, !.at = "refused"] \in CallState
             /\ [Idle EXCEPT !.kind = kind, !.at = "refused"].at = "refused"
             /\ [Idle EXCEPT !.kind = kind, !.at = "refused"].key = 0
             /\ [Idle EXCEPT !.kind = kind, !.at = "refused"].base = NoView
             /\ [Idle EXCEPT !.kind = kind, !.at = "refused"].view = NoView
  BY <1>1 DEF CallState
<1> QED BY <1>1, <1>2

\* A step that answers, refuses or forgets one call brings nothing but the view v.
CallsKept(v) ==
  \A t \in Call : /\ calls'[t].key \in {0, calls[t].key}
                  /\ calls'[t].base \in {NoView, calls[t].base}
                  /\ calls'[t].view \in {NoView, calls[t].view, v}

LEMMA OneCall ==
  ASSUME CallsType, CallsInv, NEW s \in Call, NEW new \in CallState, calls' = [calls EXCEPT ![s] = new],
         modal' \in Call \cup {NoCall},
         new.at \in {"way", "ok"} => new.note \in Note /\ new.route \in Note,
         new.at = "ok" => new.view.id = new.note,
         new.at \in {"way", "ok"} /\ new.kind = "again" => new.key \in Key
  PROVE  /\ CallsType' /\ CallsInv'
         /\ \A t \in Call : calls'[t] = IF t = s THEN new ELSE calls[t]
<1>1. calls' \in [Call -> CallState] /\ \A t \in Call : calls'[t] = IF t = s THEN new ELSE calls[t]
  BY DEF CallsType
<1> QED BY <1>1 DEF CallsType, CallsInv

LEMMA RefusedCalls ==
  ASSUME CallsType, CallsInv, NEW s \in Call, Refused(s), modal' \in Call \cup {NoCall}
  PROVE  CallsType' /\ CallsInv' /\ \A v : CallsKept(v)
<1>1. PICK new : new = [Idle EXCEPT !.kind = calls[s].kind, !.at = "refused"]
  OBVIOUS
<1>2. new \in CallState /\ new.at = "refused" /\ new.key = 0 /\ new.base = NoView /\ new.view = NoView
  BY <1>1, IdleIs, CallFields
<1>3. calls' = [calls EXCEPT ![s] = new]
  BY <1>1 DEF Refused
<1>4. CallsType' /\ CallsInv' /\ \A t \in Call : calls'[t] = IF t = s THEN new ELSE calls[t]
  BY <1>2, <1>3, OneCall
<1> QED BY <1>2, <1>4 DEF CallsKept

LEMMA EndsCalls ==
  ASSUME CallsType, CallsInv, NEW s \in Call, Ends(s), modal' \in Call \cup {NoCall}
  PROVE  CallsType' /\ CallsInv' /\ \A v : CallsKept(v)
<1>1. CallsType' /\ CallsInv' /\ \A t \in Call : calls'[t] = IF t = s THEN Idle ELSE calls[t]
  BY IdleIs, OneCall DEF Ends
<1> QED BY <1>1, IdleIs DEF CallsKept

LEMMA AnsweredCalls ==
  ASSUME CallsType, CallsInv, NEW s \in Call, calls[s].at = "way", NEW v \in View, v.id = calls[s].note,
         Answered(s, v), modal' \in Call \cup {NoCall}
  PROVE  CallsType' /\ CallsInv' /\ CallsKept(v)
<1>1. PICK new : new = [calls[s] EXCEPT !.at = "ok", !.view = v]
  OBVIOUS
<1>2. calls[s] \in CallState
  BY CallFields
<1>3. /\ new \in CallState /\ new.at = "ok" /\ new.view = v /\ new.note = calls[s].note /\ new.route = calls[s].route
      /\ new.kind = calls[s].kind /\ new.key = calls[s].key /\ new.base = calls[s].base
  BY <1>1, <1>2 DEF CallState
<1>4. calls' = [calls EXCEPT ![s] = new]
  BY <1>1, <1>2 DEF Answered, CallsType
<1>5. CallsType' /\ CallsInv' /\ \A t \in Call : calls'[t] = IF t = s THEN new ELSE calls[t]
  BY <1>3, <1>4, OneCall DEF CallsInv
<1> QED BY <1>3, <1>5 DEF CallsKept

LEMMA ReplyCalls ==
  ASSUME CallsType, CallsInv, BoundsType, NEW s \in Call, calls[s].at = "way", NEW v \in View, v.id = calls[s].note,
         Reply(s, v), modal' \in Call \cup {NoCall}
  PROVE  CallsType' /\ CallsInv' /\ CallsKept(v) /\ faults' \in 0..MaxFaults
<1>1. faults \in 0..MaxFaults /\ MaxFaults \in Nat
  BY BoundsAssumption DEF BoundsType
<1> QED BY <1>1, AnsweredCalls, RefusedCalls DEF Reply

LEMMA KeptFits ==
  ASSUME CallsType, ServiceType, server' \in [Note -> Stored], ServerStep, ReadInv,
         NEW v \in View, Fits(v, server'), CallsKept(v)
  PROVE  \A t \in Call : Fits(calls'[t].base, server') /\ Fits(calls'[t].view, server')
<1>1. SUFFICES ASSUME NEW t \in Call PROVE Fits(calls'[t].base, server') /\ Fits(calls'[t].view, server')
  OBVIOUS
<1>2. calls[t].base \in View /\ calls[t].view \in View
  BY CallFields
<1>3. Fits(calls[t].base, server') /\ Fits(calls[t].view, server')
  BY <1>2, FitsStays DEF ReadInv
<1>4. Fits(NoView, server')
  BY NoViewFits
<1>5. calls'[t].base \in {NoView, calls[t].base} /\ calls'[t].view \in {NoView, calls[t].view, v}
  BY DEF CallsKept
<1> QED BY <1>3, <1>4, <1>5

LEMMA KeptKeys ==
  ASSUME CallsType, BoundsType, KeyInv, NEW v, CallsKept(v), UNCHANGED <<used, again, reserved>>
  PROVE  KeyInv'
<1>1. used \in Nat
  BY BoundsAssumption DEF BoundsType, Key
<1> QED BY <1>1 DEF KeyInv, CallsKept

-----------------------------------------------------------------------------
(* The service, other devices and the workers.                             *)

\* A step that the page sees nothing of but an answer on its way.
LEMMA ServerKeeps ==
  ASSUME IInv, UNCHANGED <<told, opened, page, load, shown, form, dialogs>>,
         server' \in [Note -> Stored], ServerStep, reserved' \in [Key -> Note \cup {NoNote}],
         used' \in {0} \cup Key, faults' \in 0..MaxFaults, CallsType', CallsInv', KeyInv',
         \A s \in Call : Fits(calls'[s].base, server') /\ Fits(calls'[s].view, server')
  PROVE  IInv'
<1>0. ServiceType /\ BoundsType /\ PageType
  BY DEF IInv, StateType
<1>1. StateType'
  BY <1>0 DEF IInv, StateType, ServiceType, BoundsType, PageType, page, dialogs
<1>2. PageInv' /\ ShownIsOfRoute'
  BY DEF IInv, PageInv, ShownIsOfRoute, page, dialogs
<1>3. load.seen \in View /\ shown.note \in View /\ form.base \in View
  BY <1>0, LoadFields DEF PageType, Shown, Form
<1>4. ReadInv'
  BY <1>0, <1>3, FitsStays DEF IInv, ReadInv
<1>5. ListInv'
  BY <1>0, WatchStays DEF IInv, PageType, ServiceType
<1> QED BY <1>1, <1>2, <1>4, <1>5 DEF IInv

LEMMA OtherKeeps ==
  ASSUME IInv, UNCHANGED client, server' \in [Note -> Stored], ServerStep, reserved' \in [Key -> Note \cup {NoNote}],
         used' \in {0} \cup Key, used' >= used, \A k \in Key : k > used' => reserved'[k] = NoNote
  PROVE  IInv'
<1>0. ServiceType /\ BoundsType /\ CallsType /\ used \in Nat /\ used' \in Nat
  BY BoundsAssumption DEF IInv, StateType, BoundsType, Key
<1>1. CallsType' /\ CallsInv' /\ faults' \in 0..MaxFaults
  BY <1>0 DEF IInv, CallsType, CallsInv, BoundsType, client, dialogs
<1>2. CallsKept(NoView)
  BY DEF CallsKept, client
<1>3. \A s \in Call : Fits(calls'[s].base, server') /\ Fits(calls'[s].view, server')
  BY <1>0, <1>2, KeptFits, NoViewFits, NoViewIs DEF IInv
<1>4. KeyInv'
  <2>1. again' = again /\ calls' = calls
    BY DEF client, dialogs
  <2>2. again.key \in Nat /\ \A s \in Call : calls[s].key \in Nat
    BY <1>0, CallFields, BoundsAssumption DEF IInv, StateType, PageType, Again, Key
  <2> QED BY <1>0, <2>1, <2>2 DEF IInv, KeyInv
<1> QED BY <1>0, <1>1, <1>3, <1>4, ServerKeeps DEF client

\* The service wrote a note, and the answer to the call that asked for it is under way.
LEMMA ArrivedKeeps ==
  ASSUME IInv, UNCHANGED <<reserved, OfService>>, NEW s \in Call, calls[s].at = "way",
         server' \in [Note -> Stored], ServerStep, NEW v \in View, v.id = calls[s].note, Fits(v, server'), Reply(s, v)
  PROVE  IInv'
<1>0. ServiceType /\ BoundsType /\ CallsType /\ UNCHANGED <<used, again, modal, reserved>>
  BY DEF IInv, StateType, OfService, dialogs
<1>1. CallsType' /\ CallsInv' /\ CallsKept(v) /\ faults' \in 0..MaxFaults
  BY <1>0, ReplyCalls DEF IInv, CallsType
<1>2. \A t \in Call : Fits(calls'[t].base, server') /\ Fits(calls'[t].view, server')
  BY <1>0, <1>1, KeptFits DEF IInv
<1>3. KeyInv'
  BY <1>0, <1>1, KeptKeys DEF IInv
<1> QED BY <1>0, <1>1, <1>2, <1>3, ServerKeeps DEF OfService, ServiceType, BoundsType

LEMMA RefusedKeeps ==
  ASSUME IInv, UNCHANGED <<service, OfService>>, NEW s \in Call, Refused(s), faults' \in 0..MaxFaults
  PROVE  IInv'
<1>0. ServiceType /\ BoundsType /\ CallsType /\ UNCHANGED <<used, again, modal, reserved, server>>
  BY DEF IInv, StateType, OfService, dialogs, service
<1>1. CallsType' /\ CallsInv' /\ CallsKept(NoView)
  BY <1>0, RefusedCalls DEF IInv, CallsType
<1>2. server' \in [Note -> Stored] /\ ServerStep
  BY <1>0, NoServerStep DEF ServiceType
<1>3. \A t \in Call : Fits(calls'[t].base, server') /\ Fits(calls'[t].view, server')
  BY <1>0, <1>1, <1>2, KeptFits, NoViewFits, NoViewIs DEF IInv
<1>4. KeyInv'
  BY <1>0, <1>1, KeptKeys DEF IInv
<1> QED BY <1>0, <1>1, <1>2, <1>3, <1>4, ServerKeeps DEF OfService, ServiceType, BoundsType

\* A note that may be edited, and no summary request of its own is running.
LEMMA EditableGoes ==
  ASSUME ServiceType, NEW n \in Note, Editable(n), NEW new \in Stored, new.ends = server[n].ends,
         \/ new.version = server[n].version + 1
         \/ new.version = server[n].version /\ new.text = server[n].text
  PROVE  Goes(server[n], new)
  BY ServerFields DEF Goes, Working, Editable

LEMMA SaveArrivesKeeps ==
  ASSUME IInv, NEW s \in Call, SaveArrives(s)
  PROVE  IInv'
<1>0. ServiceType /\ BoundsType /\ CallsType
  BY DEF IInv, StateType
<1> DEFINE c == calls[s]
           n == c.note
           x == server[n].version + 1
           saved == IF Changes(n, c)
                      THEN [server[n] EXCEPT !.version = x, !.text = IF c.typed THEN x ELSE c.text]
                      ELSE server[n]
<1>1. n \in Note /\ c.at = "way" /\ c.text \in Version
  BY <1>0, CallFields DEF IInv, CallsInv, SaveArrives
<1>2. UNCHANGED <<reserved, OfService>>
  BY DEF SaveArrives
<1>3. CASE Accepts(c)
  <2>1. (Changes(n, c) => x <= MaxVersion) /\ server' = [server EXCEPT ![n] = saved] /\ Reply(s, ViewOf(n, saved))
    BY <1>3 DEF SaveArrives
  <2>2. saved \in Stored
    <3>1. server[n] \in Stored /\ x \in Nat
      BY <1>0, <1>1, ServerFields
    <3>2. Changes(n, c) => x \in Version
      BY <2>1, <3>1, BoundsAssumption DEF Version
    <3> HIDE DEF x
    <3> QED BY <1>1, <3>1, <3>2 DEF Stored
  <2>3. saved.ends = server[n].ends
    BY <1>0, <1>1, ServerFields DEF Stored
  <2>4. saved.version = server[n].version + 1 \/ (saved.version = server[n].version /\ saved.text = server[n].text)
    BY <1>0, <1>1, ServerFields DEF Stored
  <2>5. Editable(n)
    BY <1>3 DEF Accepts
  <2> HIDE DEF saved
  <2>6. server' \in [Note -> Stored] /\ ServerStep
    BY <1>0, <1>1, <2>1, <2>2, <2>3, <2>4, <2>5, EditableGoes, OneNote
  <2>7. server'[n] = saved
    BY <1>0, <1>1, <2>1 DEF ServiceType
  <2>8. ViewOf(n, saved) \in View /\ ViewOf(n, saved).id = n /\ Fits(ViewOf(n, saved), server')
    BY <1>1, <2>2, <2>6, <2>7, ViewOfIs, ViewOfFits
  <2> QED BY <1>1, <1>2, <2>1, <2>6, <2>8, ArrivedKeeps
<1>4. CASE ~Accepts(c)
  BY <1>0, <1>2, <1>4, RefusedKeeps DEF SaveArrives, service, BoundsType
<1> QED BY <1>3, <1>4

LEMMA RenameArrivesKeeps ==
  ASSUME IInv, NEW s \in Call, RenameArrives(s)
  PROVE  IInv'
<1>0. ServiceType /\ BoundsType /\ CallsType
  BY DEF IInv, StateType
<1> DEFINE n == calls[s].note
           renamed == [server[n] EXCEPT !.version = server[n].version + 1]
<1>1. n \in Note /\ calls[s].at = "way"
  BY <1>0, CallFields DEF IInv, CallsInv, RenameArrives
<1>2. UNCHANGED <<reserved, OfService>>
  BY DEF RenameArrives
<1>3. CASE Editable(n)
  <2>1. server[n].version + 1 <= MaxVersion /\ server' = [server EXCEPT ![n] = renamed] /\ Reply(s, ViewOf(n, renamed))
    BY <1>3 DEF RenameArrives
  <2>2. renamed \in Stored /\ renamed.ends = server[n].ends /\ renamed.version = server[n].version + 1
    BY <1>0, <1>1, <2>1, ServerFields, BoundsAssumption DEF Stored, Version
  <2> HIDE DEF renamed
  <2>3. server' \in [Note -> Stored] /\ ServerStep
    BY <1>0, <1>1, <1>3, <2>1, <2>2, EditableGoes, OneNote
  <2>4. server'[n] = renamed
    BY <1>0, <1>1, <2>1 DEF ServiceType
  <2>5. ViewOf(n, renamed) \in View /\ ViewOf(n, renamed).id = n /\ Fits(ViewOf(n, renamed), server')
    BY <1>1, <2>2, <2>3, <2>4, ViewOfIs, ViewOfFits
  <2> QED BY <1>1, <1>2, <2>1, <2>3, <2>5, ArrivedKeeps
<1>4. CASE ~Editable(n)
  BY <1>0, <1>2, <1>4, RefusedKeeps DEF RenameArrives, service, BoundsType
<1> QED BY <1>3, <1>4

\* A note that was settled and now waits for a summary request.
LEMMA QueuedGoes ==
  ASSUME ServiceType, NEW n \in Note, Editable(n), NEW k \in Key
  PROVE  /\ [server[n] EXCEPT !.pending = k] \in Stored
         /\ Goes(server[n], [server[n] EXCEPT !.pending = k])
<1>1. PICK new : new = [server[n] EXCEPT !.pending = k]
  OBVIOUS
<1>2. new \in Stored /\ new.version = server[n].version /\ new.text = server[n].text /\ new.ends = server[n].ends
  BY <1>1, ServerFields DEF Stored
<1> QED BY <1>1, <1>2, EditableGoes

LEMMA AgainArrivesKeeps ==
  ASSUME IInv, NEW s \in Call, AgainArrives(s)
  PROVE  IInv'
<1>0. ServiceType /\ BoundsType /\ CallsType
  BY DEF IInv, StateType
<1> DEFINE n == calls[s].note
           k == calls[s].key
           queued == [server[n] EXCEPT !.pending = k]
<1>1. n \in Note /\ calls[s].at = "way" /\ k \in Key
  BY <1>0, CallFields DEF IInv, CallsInv, AgainArrives
<1>2. UNCHANGED OfService
  BY DEF AgainArrives
<1>3. CASE reserved[k] = n /\ server[n].status # "gone"
  <2>1. Reply(s, ViewOf(n, server[n])) /\ UNCHANGED service
    BY <1>3 DEF AgainArrives
  <2>2. server' = server /\ server' \in [Note -> Stored] /\ ServerStep /\ reserved' = reserved
    BY <1>0, <2>1, NoServerStep DEF service, ServiceType
  <2>3. ViewOf(n, server[n]) \in View /\ ViewOf(n, server[n]).id = n /\ Fits(ViewOf(n, server[n]), server')
    BY <1>0, <1>1, <2>2, ServerFields, ViewOfIs, ViewOfFits
  <2> QED BY <1>1, <1>2, <2>1, <2>2, <2>3, ArrivedKeeps
<1>4. CASE ~(reserved[k] = n /\ server[n].status # "gone") /\ reserved[k] = NoNote /\ Editable(n)
  <2>1. /\ server' = [server EXCEPT ![n] = queued] /\ reserved' = [reserved EXCEPT ![k] = n]
        /\ Reply(s, ViewOf(n, queued))
    BY <1>4 DEF AgainArrives
  <2>2. queued \in Stored /\ Goes(server[n], queued)
    BY <1>0, <1>1, <1>4, QueuedGoes
  <2> HIDE DEF queued
  <2>3. server' \in [Note -> Stored] /\ ServerStep
    BY <1>0, <1>1, <2>1, <2>2, OneNote
  <2>4. server'[n] = queued
    BY <1>0, <1>1, <2>1 DEF ServiceType
  <2>5. ViewOf(n, queued) \in View /\ ViewOf(n, queued).id = n /\ Fits(ViewOf(n, queued), server')
    BY <1>1, <2>2, <2>3, <2>4, ViewOfIs, ViewOfFits
  <2>6. UNCHANGED <<used, again, modal>>
    BY <1>2 DEF OfService, dialogs
  <2>7. CallsType' /\ CallsInv' /\ CallsKept(ViewOf(n, queued)) /\ faults' \in 0..MaxFaults
    BY <1>0, <1>1, <2>1, <2>5, <2>6, ReplyCalls DEF IInv, CallsType
  <2>8. \A t \in Call : Fits(calls'[t].base, server') /\ Fits(calls'[t].view, server')
    BY <1>0, <2>3, <2>5, <2>7, KeptFits DEF IInv
  <2>9. KeyInv'
    <3>1. used \in Nat /\ k <= used /\ k \in Nat
      BY <1>0, <1>1, BoundsAssumption DEF BoundsType, Key, IInv, KeyInv
    <3>2. reserved' = [reserved EXCEPT ![k] = n] /\ reserved \in [Key -> Note \cup {NoNote}]
      BY <1>0, <2>1 DEF ServiceType
    <3>3. \A j \in Key : j > used' => reserved'[j] = NoNote
      BY <1>1, <2>6, <3>1, <3>2 DEF IInv, KeyInv, Key
    <3>4. \A t \in Call : calls'[t].key <= used'
      BY <2>6, <2>7, <3>1 DEF IInv, KeyInv, CallsKept
    <3> QED BY <2>6, <3>3, <3>4 DEF IInv, KeyInv
  <2>10. reserved' \in [Key -> Note \cup {NoNote}]
    BY <1>0, <1>1, <2>1 DEF ServiceType
  <2> QED BY <1>0, <1>2, <2>3, <2>6, <2>7, <2>8, <2>9, <2>10, ServerKeeps DEF OfService, BoundsType
<1>5. CASE ~(reserved[k] = n /\ server[n].status # "gone") /\ ~(reserved[k] = NoNote /\ Editable(n))
  <2>1. Refused(s) /\ UNCHANGED <<service, faults>>
    BY <1>5 DEF AgainArrives
  <2> QED BY <1>0, <1>2, <2>1, RefusedKeeps DEF BoundsType
<1> QED BY <1>3, <1>4, <1>5

LEMMA LoseRequestKeeps ==
  ASSUME IInv, NEW s \in Call, LoseRequest(s)
  PROVE  IInv'
<1>1. faults' \in 0..MaxFaults
  BY BoundsAssumption DEF IInv, StateType, BoundsType, LoseRequest
<1> QED BY <1>1, RefusedKeeps DEF LoseRequest

LEMMA OthersKeep ==
  ASSUME IInv, NEW n \in Note,
         OtherChanges(n) \/ OtherAsks(n) \/ OtherDeletes(n) \/ WorkerWrites(n) \/ WorkerUpdates(n)
  PROVE  IInv'
<1>0. ServiceType /\ BoundsType /\ used \in Nat /\ used \in {0} \cup Key
  BY BoundsAssumption DEF IInv, StateType, BoundsType, Key
<1>1. /\ server[n] \in Stored /\ server[n].version \in Nat /\ server[n].ends \in Nat /\ server[n].text \in Version
      /\ server[n].version \in Version
  BY <1>0, ServerFields
<1> DEFINE x == server[n].version + 1
<1>2. server[n].version < MaxVersion => x \in Version
  BY <1>1, BoundsAssumption DEF Version
<1>3. server[n].ends <= MaxKeys => server[n].ends + 1 \in End
  BY <1>1, BoundsAssumption DEF End
<1>4. ASSUME NEW new \in Stored, Goes(server[n], new), server' = [server EXCEPT ![n] = new],
             UNCHANGED <<reserved, used, client>>
      PROVE  IInv'
  <2>1. server' \in [Note -> Stored] /\ ServerStep
    BY <1>0, <1>4, OneNote
  <2> QED BY <1>0, <1>4, <2>1, OtherKeeps DEF IInv, KeyInv, ServiceType
<1>5. CASE OtherChanges(n)
  <2>1. PICK text \in {server[n].text, x} : server' = [server EXCEPT ![n].version = x, ![n].text = text]
    BY <1>5 DEF OtherChanges
  <2>2. PICK new : new = [server[n] EXCEPT !.version = x, !.text = text]
    OBVIOUS
  <2>3. new \in Stored /\ new.version = x /\ new.ends = server[n].ends
    BY <1>1, <1>2, <1>5, <2>1, <2>2 DEF Stored, OtherChanges
  <2>4. server' = [server EXCEPT ![n] = new]
    BY <1>0, <2>1, <2>2 DEF ServiceType
  <2>5. Goes(server[n], new)
    BY <1>0, <1>5, <2>3, EditableGoes DEF OtherChanges
  <2> QED BY <1>4, <1>5, <2>3, <2>4, <2>5 DEF OtherChanges
<1>6. CASE OtherAsks(n)
  <2>1. used' = used + 1 /\ used' \in Key /\ UNCHANGED client
    BY <1>0, <1>6, BoundsAssumption DEF OtherAsks, Key
  <2>2. server' = [server EXCEPT ![n] = [server[n] EXCEPT !.pending = used']]
    BY <1>0, <1>6 DEF OtherAsks, ServiceType
  <2>3. server' \in [Note -> Stored] /\ ServerStep
    BY <1>0, <1>6, <2>1, <2>2, QueuedGoes, OneNote DEF OtherAsks
  <2>4. reserved' = [reserved EXCEPT ![used'] = n] /\ reserved \in [Key -> Note \cup {NoNote}]
    BY <1>0, <1>6 DEF OtherAsks, ServiceType
  <2>5. \A k \in Key : k > used' => reserved'[k] = NoNote
    BY <1>0, <2>1, <2>4 DEF IInv, KeyInv, Key
  <2> QED BY <1>0, <2>1, <2>3, <2>4, <2>5, OtherKeeps
<1>7. CASE OtherDeletes(n)
  <2>1. PICK new : new = [server[n] EXCEPT !.status = "gone", !.pending = 0]
    OBVIOUS
  <2>2. /\ new \in Stored /\ new.version = server[n].version /\ new.text = server[n].text /\ new.ends = server[n].ends
        /\ new.status = "gone"
    BY <1>1, <2>1 DEF Stored
  <2>3. server' = [server EXCEPT ![n] = new]
    BY <1>0, <1>7, <2>1 DEF OtherDeletes, ServiceType
  <2>4. Goes(server[n], new)
    BY <1>1, <2>2 DEF Goes, Working
  <2> QED BY <1>4, <1>7, <2>2, <2>3, <2>4 DEF OtherDeletes
<1>8. CASE WorkerWrites(n)
  <2>1. PICK st \in {"ready", "failed"} :
          server' = [server EXCEPT ![n] = [status |-> st, version |-> x, text |-> x, pending |-> 0, ends |-> @.ends + 1]]
    BY <1>8 DEF WorkerWrites
  <2>2. PICK new : new = [status |-> st, version |-> x, text |-> x, pending |-> 0, ends |-> server[n].ends + 1]
    OBVIOUS
  <2>3. new \in Stored /\ new.version = x /\ new.ends = server[n].ends + 1
    BY <1>2, <1>3, <1>8, <2>1, <2>2 DEF Stored, WorkerWrites
  <2>4. server' = [server EXCEPT ![n] = new]
    BY <1>0, <2>1, <2>2 DEF ServiceType
  <2>5. Goes(server[n], new)
    BY <1>1, <2>3 DEF Goes
  <2> QED BY <1>4, <1>8, <2>3, <2>4, <2>5 DEF WorkerWrites
<1>9. CASE WorkerUpdates(n)
  <2>1. PICK new : \/ server[n].version < MaxVersion
                      /\ new = [server[n] EXCEPT !.version = x, !.text = x, !.pending = 0, !.ends = @ + 1]
                      /\ server' = [server EXCEPT ![n] = new]
                   \/ new = [server[n] EXCEPT !.pending = 0, !.ends = @ + 1]
                      /\ server' = [server EXCEPT ![n] = new]
    BY <1>0, <1>9 DEF WorkerUpdates, ServiceType
  <2>2. new \in Stored /\ new.ends = server[n].ends + 1
        /\ (new.version = x \/ (new.version = server[n].version /\ new.text = server[n].text))
    BY <1>1, <1>2, <1>3, <1>9, <2>1 DEF Stored, WorkerUpdates
  <2>3. Goes(server[n], new)
    BY <1>1, <2>2 DEF Goes
  <2> QED BY <1>4, <1>9, <2>1, <2>2, <2>3 DEF WorkerUpdates
<1> QED BY <1>5, <1>6, <1>7, <1>8, <1>9

-----------------------------------------------------------------------------
(* The load.                                                               *)

\* What the load may put on the screen.
Good(s) ==
  /\ s \in Shown /\ s.note.id \in {NoNote, load.note} /\ Fits(s.note, server)
  /\ s.status \in {"generating", "ready", "failed"} => s.note.id \in Note

LEMMA GoodBare ==
  ASSUME NEW st \in {"notFound", "error"}
  PROVE  Good(Bare(st))
  BY ShownIs, NoViewIs, NoViewFits DEF Good

LEMMA GoodWith ==
  ASSUME NEW v \in View, NEW st \in {"generating", "ready", "failed"}, v.id \in Note, v.id = load.note, Fits(v, server)
  PROVE  Good(With(st, v))
  BY ShownIs DEF Good

\* The form and the dialogs that stay when the screen changes.
LEMMA ShowKeeps ==
  ASSUME PageType, CallsType, NEW s \in Shown, Show(s)
  PROVE  /\ shown' = s /\ form' \in Form /\ again' \in Again /\ modal' \in Call \cup {NoCall}
         /\ form'.on => s.status = "ready"
         /\ form'.base \in {form.base, NoView} /\ again'.key \in {0, again.key}
<1>1. again \in Again /\ again.open \in BOOLEAN /\ form \in Form /\ modal \in Call \cup {NoCall}
  BY DEF PageType, CallsType, Again
<1>2. form' \in {form, NoForm} /\ (form' = form => s.status = "ready" \/ form = NoForm)
  BY DEF Show
<1>3. form' \in Form /\ form'.base \in {form.base, NoView} /\ (form'.on => s.status = "ready")
  BY <1>1, <1>2, NothingOpen
<1>4. again' = again \/ again' = [open |-> again.open, key |-> 0]
  BY DEF Show, dialogs
<1>5. modal' \in Call \cup {NoCall}
  BY <1>1 DEF Show, dialogs
<1> QED BY <1>1, <1>3, <1>4, <1>5, NothingOpen DEF Show

\* A step of the load changes what is shown, what it knows and what the lists heard of, and nothing else.
LEMMA LoadKeeps ==
  ASSUME IInv, load.at # "none", load' \in Load, load'.note = load.note, Fits(load'.seen, server),
         load'.at \in {"back", "stream", "event"} => load'.seen.id = load.note,
         told' \in End, UNCHANGED <<service, used, opened, page, calls>>, faults' \in 0..MaxFaults, ListInv',
         UNCHANGED <<shown, form, dialogs>> \/ \E s : Good(s) /\ Show(s)
  PROVE  IInv'
<1>0. ServiceType /\ BoundsType /\ PageType /\ CallsType
  BY DEF IInv, StateType
<1>1. load.note \in Note /\ route # NoNote /\ load.note # NoNote
  BY <1>0, NoteAssumption DEF IInv, PageInv, NoLoad, LoadAt
<1>2. /\ shown' \in Shown /\ form' \in Form /\ again' \in Again /\ modal' \in Call \cup {NoCall}
      /\ shown'.note.id \in {NoNote, load.note, shown.note.id} /\ Fits(shown'.note, server) /\ Fits(form'.base, server)
      /\ shown'.status \in {"generating", "ready", "failed"} => shown'.note.id \in Note
      /\ form'.on => shown'.status = "ready"
      /\ again'.key \in {0, again.key}
  <2>1. CASE UNCHANGED <<shown, form, dialogs>>
    BY <1>0, <2>1 DEF PageType, CallsType, dialogs, IInv, ReadInv, PageInv
  <2>2. CASE \E s : Good(s) /\ Show(s)
    <3>1. PICK s : Good(s) /\ Show(s)
      BY <2>2
    <3>2. Fits(form.base, server) /\ Fits(NoView, server)
      BY NoViewFits DEF IInv, ReadInv
    <3> QED BY <1>0, <3>1, <3>2, ShowKeeps DEF Good
  <2> QED BY <2>1, <2>2
<1>3. StateType'
  BY <1>0, <1>2 DEF StateType, ServiceType, BoundsType, PageType, CallsType, service, page
<1>4. PageInv'
  BY <1>1, <1>2 DEF PageInv, page
<1>5. CallsInv'
  BY DEF IInv, CallsInv
<1>6. ShownIsOfRoute'
  BY <1>2 DEF IInv, ShownIsOfRoute, page
<1>7. ReadInv'
  BY <1>2 DEF IInv, ReadInv, service
<1>8. KeyInv'
  <2>1. used \in Nat /\ used' = used /\ calls' = calls /\ reserved' = reserved
    BY <1>0, BoundsAssumption DEF BoundsType, Key, service
  <2> QED BY <1>2, <2>1 DEF IInv, KeyInv
<1> QED BY <1>3, <1>4, <1>5, <1>6, <1>7, <1>8 DEF IInv

\* A load that is over watches nothing.
LEMMA StopIs ==
  ASSUME load \in Load, Stop
  PROVE  load' \in Load /\ load'.at = "none" /\ load'.note = load.note /\ load'.seen = NoView
<1>1. 0 \in End /\ 0 \in 0..(MaxReconnects + 1)
  BY BoundsAssumption DEF End
<1> QED BY <1>1, NoViewIs DEF Stop, Load

LEMMA StoppedKeeps ==
  ASSUME IInv, load.at # "none", Stop, told' \in End, UNCHANGED <<service, used, opened, page, calls>>,
         faults' \in 0..MaxFaults, UNCHANGED <<shown, form, dialogs>> \/ \E s : Good(s) /\ Show(s)
  PROVE  IInv'
<1>1. load \in Load
  BY DEF IInv, StateType, PageType
<1>2. load' \in Load /\ load'.at = "none" /\ load'.note = load.note /\ load'.seen = NoView
  BY <1>1, StopIs
<1>3. ListInv'
  BY <1>2 DEF ListInv
<1>4. Fits(load'.seen, server)
  BY <1>2, NoViewFits
<1> QED BY <1>2, <1>3, <1>4, LoadKeeps

LEMMA TellIs ==
  ASSUME ServiceType, load \in Load, Tell
  PROVE  told' \in End /\ (load.note \in Note => told' = server[load.note].ends)
<1>1. load.note \in Note => load.note # NoNote /\ server[load.note].ends \in End
  BY NoteAssumption, ServerFields
<1>2. 0 \in End
  BY BoundsAssumption DEF End
<1> QED BY <1>1, <1>2, LoadFields DEF Tell

\* What a running load stands for.
LEMMA RunningLoad ==
  ASSUME IInv, load.at # "none"
  PROVE  /\ load \in Load /\ load.note \in Note /\ WatchInv(load.note) /\ load.seen \in View
         /\ server[load.note].ends \in Nat /\ server[load.note].ends \in End /\ server[load.note] \in Stored
         /\ told \in End /\ told \in Nat /\ faults \in 0..MaxFaults
         /\ Fits(load.seen, server) /\ Fits(NoView, server) /\ ServiceType
         /\ load.at \in {"back", "stream", "event"} => load.seen.id = load.note /\ load.seen.id \in Note
<1>1. load \in Load /\ ServiceType /\ faults \in 0..MaxFaults
  BY DEF IInv, StateType, PageType, BoundsType
<1>2. load.note \in Note /\ WatchInv(load.note)
  BY DEF IInv, PageInv, ListInv
<1>3. told \in End /\ told \in Nat
  BY <1>1, BoundsAssumption DEF ServiceType, End
<1> QED BY <1>1, <1>2, <1>3, ServerFields, LoadFields, NoViewFits DEF IInv, PageInv, ReadInv

LEMMA OfLoadIs ==
  ASSUME IInv, UNCHANGED OfLoad
  PROVE  UNCHANGED <<service, used, opened, page, calls>> /\ faults' \in 0..MaxFaults
  BY DEF OfLoad, bounds, IInv, StateType, BoundsType

LEMMA ReadNoteKeeps ==
  ASSUME IInv, ReadNote
  PROVE  IInv'
<1> DEFINE n == load.note
           v == ViewOf(n, server[n])
<1>0. load.at = "way"
  BY DEF ReadNote
<1>1. /\ load \in Load /\ n \in Note /\ WatchInv(n) /\ server[n] \in Stored /\ server[n].ends \in Nat
      /\ server[n].ends \in End /\ told \in End /\ ServiceType
  BY <1>0, RunningLoad
<1>2. /\ v \in View /\ v.id = n /\ Fits(v, server) /\ (Unsettled(v) => Working(server[n]))
      /\ (Settled(v) => ~Working(server[n]))
  BY <1>1, ViewOfIs, ViewOfFits DEF ServiceType
<1> HIDE DEF v
<1>3. load' = [load EXCEPT !.at = "back", !.seen = v, !.read = server[n].ends]
  BY DEF ReadNote, v
<1>4. /\ load' \in Load /\ load'.note = n /\ load'.at = "back" /\ load'.seen = v /\ load'.read = server[n].ends
      /\ load'.why = load.why /\ load'.settled = load.settled /\ load'.ends = load.ends
  BY <1>1, <1>2, <1>3 DEF Load
<1>5. told' = told /\ UNCHANGED <<service, used, opened, page, calls, shown, form, dialogs>> /\ faults' \in 0..MaxFaults
  BY OfLoadIs DEF ReadNote
<1>6. ListInv'
  <2>1. server'[n] = server[n] /\ load.ends \in Nat
    BY <1>1, <1>5, LoadFields DEF service
  <2>2. WatchInv(n)'
    BY <1>1, <1>2, <1>4, <1>5, <2>1 DEF WatchInv, Unsettled, Settled
  <2> QED BY <1>4, <2>2 DEF ListInv
<1> QED BY <1>0, <1>1, <1>2, <1>4, <1>5, <1>6, LoadKeeps

LEMMA ShowSettledKeeps ==
  ASSUME IInv, ShowSettled
  PROVE  IInv'
<1>0. load.at = "back" /\ Settled(load.seen) /\ Stop /\ UNCHANGED OfLoad
  BY DEF ShowSettled
<1>1. load.seen \in View /\ load.seen.id \in Note /\ load.seen.id = load.note /\ Fits(load.seen, server)
      /\ ServiceType /\ load \in Load /\ told \in End
  BY <1>0, RunningLoad
<1>2. load.seen.status \in {"ready", "failed"}
  BY <1>0 DEF Settled
<1>3. \E s : Good(s) /\ Show(s)
  BY <1>1, <1>2, GoodBare, GoodWith DEF ShowSettled
<1>4. told' \in End
  BY <1>1, TellIs DEF ShowSettled, TellIfWatched
<1> QED BY <1>0, <1>3, <1>4, OfLoadIs, StoppedKeeps

LEMMA WatchKeeps ==
  ASSUME IInv, Watch
  PROVE  IInv'
<1> DEFINE n == load.note
<1>0. load.at = "back" /\ Unsettled(load.seen) /\ UNCHANGED OfLoad /\ told' = told
  BY DEF Watch
<1>1. load.seen \in View /\ load.seen.id \in Note /\ load.seen.id = n /\ Fits(load.seen, server)
      /\ ServiceType /\ load \in Load /\ told \in End /\ n \in Note /\ WatchInv(n) /\ server[n].ends \in Nat
  BY <1>0, RunningLoad
<1>2. load.seen.status \in {"ready", "generating"}
  BY <1>0 DEF Unsettled
<1>3. Good(Bare("error")) /\ Good(With(load.seen.status, load.seen))
  BY <1>1, <1>2, GoodBare, GoodWith
<1>4. CASE load.why = "ready" /\ load.seen.status # "ready"
  BY <1>0, <1>1, <1>3, <1>4, OfLoadIs, StoppedKeeps DEF Watch
<1>5. CASE ~(load.why = "ready" /\ load.seen.status # "ready")
  <2>1. PICK t : t = IF load.why = "ready" THEN NextTry ELSE load.tries
    OBVIOUS
  <2>2. t \in 0..(MaxReconnects + 1)
    BY <1>1, <2>1, LoadFields, BoundsAssumption DEF NextTry
  <2>3. load' = [load EXCEPT !.at = "stream", !.why = "loop", !.settled = FALSE, !.tries = t, !.ends = load.read]
    BY <1>5, <2>1 DEF Watch
  <2>4. /\ load' \in Load /\ load'.note = n /\ load'.at = "stream" /\ load'.seen = load.seen /\ load'.why = "loop"
        /\ load'.settled = FALSE /\ load'.ends = load.read
    BY <1>1, <2>2, <2>3 DEF Load
  <2>5. UNCHANGED <<service, used, opened, page, calls>> /\ faults' \in 0..MaxFaults
    BY <1>0, OfLoadIs
  <2>6. server'[n] = server[n] /\ load.read \in Nat
    BY <1>1, <2>5, LoadFields DEF service
  <2>7. WatchInv(n)'
    BY <1>0, <1>1, <2>4, <2>6 DEF WatchInv
  <2>8. ListInv'
    BY <2>4, <2>7 DEF ListInv
  <2>9. Show(With(load.seen.status, load.seen))
    BY <1>5 DEF Watch
  <2>10. \E s : Good(s) /\ Show(s)
    BY <1>3, <2>9
  <2> QED BY <1>0, <1>1, <2>4, <2>5, <2>8, <2>10, LoadKeeps
<1> QED BY <1>4, <1>5

LEMMA MissesKeep ==
  ASSUME IInv, NotFound \/ StreamMisses \/ LoadFails
  PROVE  IInv'
<1>1. load.at # "none" /\ Stop /\ told' = told
  BY DEF NotFound, StreamMisses, LoadFails
<1>2. PICK st \in {"notFound", "error"} : Show(Bare(st))
  BY DEF NotFound, StreamMisses, LoadFails
<1>3. faults \in 0..MaxFaults /\ MaxFaults \in Nat /\ told \in End
  BY <1>1, BoundsAssumption, RunningLoad
<1>4. UNCHANGED <<service, used, opened, page, calls>> /\ faults' \in 0..MaxFaults
  BY <1>3, OfLoadIs DEF NotFound, StreamMisses, LoadFails
<1>5. \E s : Good(s) /\ Show(s)
  BY <1>2, GoodBare
<1> QED BY <1>1, <1>3, <1>4, <1>5, StoppedKeeps

LEMMA StreamEventKeeps ==
  ASSUME IInv, StreamEvent
  PROVE  IInv'
<1> DEFINE n == load.note
           v == ViewOf(n, server[n])
<1>0. load.at = "stream" /\ Settled(v) /\ UNCHANGED OfLoad /\ told' = told /\ UNCHANGED <<shown, form, dialogs>>
  BY DEF StreamEvent
<1>1. load.seen \in View /\ load.seen.id \in Note /\ load.seen.id = n /\ Fits(load.seen, server) /\ server[n] \in Stored
      /\ ServiceType /\ load \in Load /\ told \in End /\ n \in Note /\ WatchInv(n) /\ server[n].ends \in Nat
  BY <1>0, RunningLoad
<1>2. ~Working(server[n]) /\ v.status \in {"ready", "failed"}
  BY <1>0, <1>1, ViewOfIs DEF Settled
<1> HIDE DEF v
<1>3. load' = [load EXCEPT !.at = "event", !.event = v.status]
  BY DEF StreamEvent, v
<1>4. /\ load' \in Load /\ load'.note = n /\ load'.at = "event" /\ load'.seen = load.seen /\ load'.why = load.why
      /\ load'.settled = load.settled /\ load'.ends = load.ends
  BY <1>1, <1>2, <1>3 DEF Load
<1>5. UNCHANGED <<service, used, opened, page, calls>> /\ faults' \in 0..MaxFaults
  BY <1>0, OfLoadIs
<1>6. server'[n] = server[n] /\ load.ends \in Nat
  BY <1>1, <1>5, LoadFields DEF service
<1>7. WatchInv(n)'
  BY <1>0, <1>1, <1>2, <1>4, <1>6 DEF WatchInv
<1>8. ListInv'
  BY <1>4, <1>7 DEF ListInv
<1> QED BY <1>0, <1>1, <1>4, <1>5, <1>8, LoadKeeps

LEMMA HearEventKeeps ==
  ASSUME IInv, HearEvent
  PROVE  IInv'
<1> DEFINE n == load.note
<1>0. load.at = "event" /\ UNCHANGED OfLoad /\ Tell
  BY DEF HearEvent
<1>1. load.seen \in View /\ load.seen.id \in Note /\ load.seen.id = n /\ Fits(load.seen, server) /\ Fits(NoView, server)
      /\ ServiceType /\ load \in Load /\ n \in Note /\ WatchInv(n) /\ server[n].ends \in Nat
  BY <1>0, RunningLoad
<1>2. told' \in End /\ told' = server[n].ends
  BY <1>0, <1>1, TellIs
<1>3. UNCHANGED <<service, used, opened, page, calls>> /\ faults' \in 0..MaxFaults
  BY <1>0, OfLoadIs
<1>4. CASE load.event = "ready"
  <2>1. /\ load' = [load EXCEPT !.at = "way", !.why = "ready", !.event = "none", !.seen = NoView]
        /\ UNCHANGED <<shown, form, dialogs>>
    BY <1>4 DEF HearEvent
  <2>2. /\ load' \in Load /\ load'.note = n /\ load'.at = "way" /\ load'.seen = NoView /\ load'.why = "ready"
        /\ load'.settled = load.settled /\ load'.ends = load.ends
    BY <1>1, <2>1, NoViewIs DEF Load
  <2>3. server'[n] = server[n] /\ load.ends \in Nat
    BY <1>1, <1>3, LoadFields DEF service
  <2>4. WatchInv(n)'
    BY <1>0, <1>1, <1>2, <2>2, <2>3 DEF WatchInv
  <2>5. ListInv'
    BY <2>2, <2>4 DEF ListInv
  <2> QED BY <1>0, <1>1, <1>2, <1>3, <2>1, <2>2, <2>5, LoadKeeps
<1>5. CASE load.event # "ready"
  <2>1. Stop /\ Show(With("failed", FailedView))
    BY <1>5 DEF HearEvent
  <2>2. PICK v : v = [load.seen EXCEPT !.status = "failed"]
    OBVIOUS
  <2>3. FailedView = v
    BY <2>2 DEF FailedView
  <2>4. v \in View /\ v.id = n /\ v.read = load.seen.read /\ v.text = load.seen.text
    <3>1. load.seen \in [id : Note, status : {"generating", "ready", "failed", "gone"}, version : Version,
                         read : Version, text : Version, updating : BOOLEAN]
      BY <1>1, NoViewIs DEF View
    <3> QED BY <1>1, <2>2, <3>1 DEF View
  <2>5. Fits(v, server)
    BY <1>1, <2>4 DEF Fits
  <2>6. Good(With("failed", v))
    BY <1>1, <2>4, <2>5, GoodWith
  <2> QED BY <1>0, <1>2, <1>3, <2>1, <2>3, <2>6, StoppedKeeps
<1> QED BY <1>4, <1>5

LEMMA StreamClosesKeeps ==
  ASSUME IInv, StreamCloses
  PROVE  IInv'
<1> DEFINE n == load.note
<1>0. load.at = "stream" /\ UNCHANGED OfLoad /\ told' = told
  BY DEF StreamCloses
<1>1. Fits(NoView, server) /\ told \in End /\ told \in Nat
      /\ ServiceType /\ load \in Load /\ n \in Note /\ WatchInv(n) /\ server[n].ends \in Nat
  BY <1>0, RunningLoad
<1>2. UNCHANGED <<service, used, opened, page, calls>> /\ faults' \in 0..MaxFaults
  BY <1>0, OfLoadIs
<1>3. CASE load.tries = MaxReconnects
  <2>1. UNCHANGED <<shown, form, dialogs>> \/ \E s : Good(s) /\ Show(s)
    BY <1>3, GoodBare DEF StreamCloses
  <2> QED BY <1>0, <1>1, <1>2, <1>3, <2>1, StoppedKeeps DEF StreamCloses
<1>4. CASE load.tries # MaxReconnects
  <2>1. /\ load' = [load EXCEPT !.at = "way", !.why = "loop", !.tries = NextTry, !.seen = NoView]
        /\ UNCHANGED <<shown, form, dialogs>>
    BY <1>4 DEF StreamCloses
  <2>2. NextTry \in 0..(MaxReconnects + 1)
    BY <1>1, LoadFields, BoundsAssumption DEF NextTry
  <2>3. /\ load' \in Load /\ load'.note = n /\ load'.at = "way" /\ load'.seen = NoView /\ load'.why = "loop"
        /\ load'.settled = load.settled /\ load'.ends = load.ends
    BY <1>1, <2>1, <2>2, NoViewIs DEF Load
  <2>4. server'[n] = server[n] /\ load.ends \in Nat
    BY <1>1, <1>2, LoadFields DEF service
  <2>5. WatchInv(n)'
    BY <1>0, <1>1, <2>3, <2>4 DEF WatchInv
  <2>6. ListInv'
    BY <2>3, <2>5 DEF ListInv
  <2> QED BY <1>0, <1>1, <1>2, <2>1, <2>3, <2>6, LoadKeeps
<1> QED BY <1>3, <1>4

-----------------------------------------------------------------------------
(* What the user does in the form and the dialogs.                         *)

\* A step that leaves what is shown, and the load.
LEMMA FormKeeps ==
  ASSUME IInv, UNCHANGED <<service, told, opened, faults, page, load, shown>>, used' \in {0} \cup Key, used' >= used,
         form' \in Form, again' \in Again, Fits(form'.base, server), form'.on => shown.status = "ready",
         Here \/ UNCHANGED <<form, again>>, again'.key <= used', CallsType', CallsInv',
         \A t \in Call : /\ calls'[t].key <= used'
                         /\ Fits(calls'[t].base, server) /\ Fits(calls'[t].view, server)
  PROVE  IInv'
<1>0. ServiceType /\ BoundsType /\ PageType /\ CallsType /\ used \in Nat /\ used' \in Nat
  BY BoundsAssumption DEF IInv, StateType, BoundsType, Key
<1>1. StateType'
  BY <1>0 DEF StateType, ServiceType, BoundsType, PageType, service, page
<1>2. PageInv'
  BY DEF IInv, PageInv, page, Here
<1>3. ShownIsOfRoute'
  BY DEF IInv, ShownIsOfRoute, page
<1>4. ReadInv'
  BY DEF IInv, ReadInv, service
<1>5. ListInv'
  BY DEF IInv, ListInv, WatchInv, service, Settled, Unsettled
<1>6. KeyInv'
  <2>1. \A k \in Key : k > used' => k > used
    BY <1>0 DEF Key
  <2> QED BY <2>1 DEF IInv, KeyInv, service
<1> QED BY <1>1, <1>2, <1>3, <1>4, <1>5, <1>6 DEF IInv

\* A step that changes the form or the dialogs, and no call.
LEMMA TypingKeeps ==
  ASSUME IInv, UNCHANGED <<service, told, bounds, page, load, shown, modal, calls>>,
         form' \in Form, again' \in Again, Fits(form'.base, server), form'.on => shown.status = "ready", Here,
         again'.key \in {0, again.key}
  PROVE  IInv'
<1>1. used \in Nat /\ used \in {0} \cup Key /\ used' = used
  BY BoundsAssumption DEF IInv, StateType, BoundsType, Key, bounds
<1>2. CallsType' /\ CallsInv'
  BY DEF IInv, StateType, CallsType, CallsInv
<1>3. \A t \in Call : /\ calls'[t].key <= used'
                      /\ Fits(calls'[t].base, server) /\ Fits(calls'[t].view, server)
  BY <1>1 DEF IInv, ReadInv, KeyInv
<1>4. again'.key <= used'
  BY <1>1 DEF IInv, KeyInv
<1> QED BY <1>1, <1>2, <1>3, <1>4, FormKeeps DEF bounds

LEMMA EditingKeeps ==
  ASSUME IInv, Edit \/ Type \/ Cancel \/ Rewrite \/ RewriteEnds
  PROVE  IInv'
<1>1. UNCHANGED <<service, told, bounds, page, load, shown, modal, calls>> /\ again' = again
  BY DEF Edit, Type, Cancel, Rewrite, RewriteEnds, OfForm, dialogs
<1>2. form \in Form /\ again \in Again /\ shown.note \in View /\ (form.on => shown.status = "ready" /\ Here)
      /\ Fits(form.base, server) /\ Fits(shown.note, server) /\ Fits(NoView, server)
  BY NoViewFits, NothingOpen DEF IInv, StateType, PageType, Shown, PageInv, ReadInv, Here
<1>3. CASE Edit
  <2>1. PICK f : f = [NoForm EXCEPT !.on = TRUE, !.base = shown.note]
    OBVIOUS
  <2>2. f \in Form /\ f.base = shown.note
    BY <1>2, <2>1, NothingOpen DEF Form
  <2>3. form' = f /\ Here /\ shown.status = "ready"
    BY <1>3, <2>1 DEF Edit, FreeToAct
  <2> QED BY <1>1, <1>2, <2>2, <2>3, TypingKeeps
<1>4. CASE Type \/ Rewrite \/ RewriteEnds
  <2>1. PICK f : form' = f /\ \/ \E typed, named \in BOOLEAN : f = [form EXCEPT !.typed = typed, !.named = named]
                              \/ f = [form EXCEPT !.rewriting = TRUE]
                              \/ \E typed \in BOOLEAN : f = [form EXCEPT !.rewriting = FALSE, !.typed = typed]
    <3>1. form.typed \in BOOLEAN
      BY <1>2 DEF Form
    <3> QED BY <1>4, <3>1 DEF Type, Rewrite, RewriteEnds
  <2>2. f \in Form /\ f.base = form.base /\ f.on = form.on
    BY <1>2, <2>1 DEF Form
  <2>3. form.on
    BY <1>4 DEF Type, Rewrite, RewriteEnds
  <2> QED BY <1>1, <1>2, <2>1, <2>2, <2>3, TypingKeeps
<1>5. CASE Cancel
  <2>1. form.on /\ form' = NoForm
    BY <1>5 DEF Cancel
  <2> QED BY <1>1, <1>2, <2>1, NothingOpen, TypingKeeps
<1> QED BY <1>3, <1>4, <1>5

\* Where there is a note on screen, its URL is open.
LEMMA NoteIsHere ==
  ASSUME IInv, HasNote
  PROVE  Here /\ route \in Note /\ shown.note \in View /\ shown.note.id \in Note
<1>1. route = NoNote => shown.note = NoView
  BY ShownIs DEF IInv, PageInv
<1>2. shown.note \in View
  BY DEF IInv, StateType, PageType, Shown
<1> QED BY <1>1, <1>2, NoViewIs, ViewFields DEF HasNote, Here, IInv, StateType, PageType

LEMMA AskingKeeps ==
  ASSUME IInv, Ask \/ Close
  PROVE  IInv'
<1>1. UNCHANGED <<service, told, bounds, page, load, shown, modal, calls>> /\ form' = form
  BY DEF Ask, Close
<1>2. again' \in Again /\ again'.key = 0
  <2>1. again' = [open |-> TRUE, key |-> 0] \/ again' = Closed
    BY DEF Ask, Close
  <2>2. CASE again' = [open |-> TRUE, key |-> 0]
    BY <2>2 DEF Again
  <2> QED BY <2>1, <2>2, NothingOpen
<1>3. Here
  BY NoteIsHere DEF Ask, FreeToAct, Close
<1>4. form \in Form /\ Fits(form.base, server) /\ (form.on => shown.status = "ready")
  BY DEF IInv, StateType, PageType, ReadInv, PageInv
<1> QED BY <1>1, <1>2, <1>3, <1>4, TypingKeeps

\* The user sends a request.
LEMMA BeginKeeps ==
  ASSUME IInv, NEW s \in Call, NEW c \in CallState, Begin(s, c), UNCHANGED <<service, told, opened, faults, page, load, shown>>,
         used' \in {0} \cup Key, used' >= used, form' \in Form, again' \in Again, modal' \in Call \cup {NoCall},
         form'.base = form.base, form'.on = form.on, again'.key <= used', Here,
         c.at = "way", c.note \in Note, c.route \in Note, c.kind = "again" => c.key \in Key, c.key <= used',
         Fits(c.base, server), Fits(c.view, server)
  PROVE  IInv'
<1>0. CallsType /\ CallsInv /\ used \in Nat /\ used' \in Nat
  BY BoundsAssumption DEF IInv, StateType, BoundsType, Key
<1>1. calls' = [calls EXCEPT ![s] = c]
  BY DEF Begin
<1>2. CallsType' /\ CallsInv' /\ \A t \in Call : calls'[t] = IF t = s THEN c ELSE calls[t]
  BY <1>0, <1>1, OneCall
<1>3. ASSUME NEW t \in Call
      PROVE  calls'[t].key <= used' /\ Fits(calls'[t].base, server) /\ Fits(calls'[t].view, server)
  <2>1. calls[t].key <= used /\ calls[t].key \in Nat
    BY <1>0, CallFields, BoundsAssumption DEF IInv, KeyInv, Key
  <2> QED BY <1>0, <1>2, <2>1 DEF IInv, ReadInv
<1>4. Fits(form'.base, server) /\ (form'.on => shown.status = "ready")
  BY DEF IInv, ReadInv, PageInv
<1> QED BY <1>2, <1>3, <1>4, FormKeeps

LEMMA SaveKeeps ==
  ASSUME IInv, NEW s \in Call, Save(s)
  PROVE  IInv'
<1>1. /\ form \in Form /\ again \in Again /\ modal \in Call \cup {NoCall} /\ used \in {0} \cup Key /\ used \in Nat
      /\ form.on /\ shown.status = "ready" /\ form.base \in View /\ mounted \in 0..MaxOpens
  BY BoundsAssumption DEF IInv, StateType, PageType, CallsType, BoundsType, Key, Form, Save, PageInv
<1>2. HasNote
  BY <1>1, NoteAssumption DEF IInv, PageInv, HasNote
<1>3. Here /\ route \in Note /\ shown.note \in View /\ shown.note.id \in Note
  BY <1>2, NoteIsHere
<1>4. shown.note.version \in Version /\ shown.note.text \in Version
  BY <1>3, ViewFields
<1>5. /\ SaveCall \in CallState /\ SaveCall.at = "way" /\ SaveCall.note \in Note /\ SaveCall.route \in Note
      /\ SaveCall.kind = "save" /\ SaveCall.key = 0 /\ SaveCall.base = form.base /\ SaveCall.view = NoView
  BY <1>1, <1>3, <1>4, NoViewIs DEF SaveCall, CallState, Form
<1>6. form' = [form EXCEPT !.saving = s] /\ Begin(s, SaveCall) /\ UNCHANGED OfForm
  BY DEF Save
<1>7. form' \in Form /\ form'.base = form.base /\ form'.on = form.on
  BY <1>1, <1>6 DEF Form
<1>8. Fits(form.base, server) /\ Fits(NoView, server) /\ again.key <= used
  BY NoViewFits DEF IInv, ReadInv, KeyInv
<1>9. /\ UNCHANGED <<service, told, opened, faults, page, load, shown>>
      /\ used' = used /\ again' = again /\ modal' = modal
  BY <1>6 DEF OfForm, bounds, dialogs
<1>10. PICK c : c = SaveCall
  OBVIOUS
<1>11. c \in CallState /\ Begin(s, c) /\ c.at = "way" /\ c.note \in Note /\ c.route \in Note
       /\ (c.kind = "again" => c.key \in Key) /\ c.key <= used' /\ Fits(c.base, server) /\ Fits(c.view, server)
  BY <1>1, <1>5, <1>6, <1>8, <1>9, <1>10
<1>12. /\ used' \in {0} \cup Key /\ used' >= used /\ again' \in Again /\ modal' \in Call \cup {NoCall}
       /\ again'.key <= used'
  BY <1>1, <1>8, <1>9
<1> QED BY <1>3, <1>7, <1>9, <1>11, <1>12, BeginKeeps

LEMMA RenameKeeps ==
  ASSUME IInv, NEW s \in Call, Rename(s)
  PROVE  IInv'
<1>1. /\ form \in Form /\ again \in Again /\ used \in {0} \cup Key /\ used \in Nat
      /\ shown.status = "ready" /\ mounted \in 0..MaxOpens
  BY BoundsAssumption DEF IInv, StateType, PageType, BoundsType, Key, Rename, FreeToAct
<1>2. HasNote
  BY <1>1, NoteAssumption DEF IInv, PageInv, HasNote
<1>3. Here /\ route \in Note /\ shown.note \in View /\ shown.note.id \in Note
  BY <1>2, NoteIsHere
<1>4. PICK c : c = RenameCall
  OBVIOUS
<1>5. /\ c \in CallState /\ c.at = "way" /\ c.note \in Note /\ c.route \in Note
      /\ c.kind = "rename" /\ c.key = 0 /\ c.base = NoView /\ c.view = NoView
  <2>1. Idle \in CallState /\ Idle.key = 0 /\ Idle.base = NoView /\ Idle.view = NoView
    BY IdleIs
  <2> QED BY <1>1, <1>3, <1>4, <2>1 DEF RenameCall, CallState
<1>6. Begin(s, c) /\ modal' = s /\ UNCHANGED <<service, told, bounds, page, load, shown, form, again>>
  BY <1>4 DEF Rename
<1>7. Fits(NoView, server) /\ again.key <= used
  BY NoViewFits DEF IInv, KeyInv
<1> QED BY <1>1, <1>3, <1>5, <1>6, <1>7, BeginKeeps DEF bounds

LEMMA ConfirmKeeps ==
  ASSUME IInv, NEW s \in Call, Confirm(s)
  PROVE  IInv'
<1>1. /\ form \in Form /\ again \in Again /\ used \in {0} \cup Key /\ used \in Nat
      /\ mounted \in 0..MaxOpens /\ again.key \in {0} \cup Key /\ again.key <= used
  BY BoundsAssumption DEF IInv, StateType, PageType, BoundsType, Key, Again, KeyInv
<1>2. Here /\ route \in Note /\ shown.note \in View /\ shown.note.id \in Note
  BY NoteIsHere DEF Confirm
<1>3. PICK k : k = IF again.key = 0 THEN used + 1 ELSE again.key
  OBVIOUS
<1>4. k \in Key /\ used' \in {0} \cup Key /\ used' >= used /\ k <= used'
  BY <1>1, <1>3, BoundsAssumption DEF Confirm, Key
<1>5. PICK c : c = AgainCall(k)
  OBVIOUS
<1>6. /\ c \in CallState /\ c.at = "way" /\ c.note \in Note /\ c.route \in Note
      /\ c.key = k /\ c.base = NoView /\ c.view = NoView
  <2>1. Idle \in CallState /\ Idle.base = NoView /\ Idle.view = NoView
    BY IdleIs
  <2> QED BY <1>1, <1>2, <1>4, <1>5, <2>1 DEF AgainCall, CallState
<1>7. Begin(s, c) /\ again' = [open |-> TRUE, key |-> k] /\ modal' = s
      /\ UNCHANGED <<service, told, opened, faults, page, load, shown, form>>
  BY <1>3, <1>5 DEF Confirm, Send
<1>8. again' \in Again /\ again'.key = k
  BY <1>4, <1>7 DEF Again
<1>9. Fits(NoView, server)
  BY NoViewFits
<1> QED BY <1>1, <1>2, <1>4, <1>6, <1>7, <1>8, <1>9, BeginKeeps

-----------------------------------------------------------------------------
(* Loads that start or end with the page.                                  *)

LEMMA StartKeeps ==
  ASSUME IInv, NEW n \in Note \cup {NoNote}, NEW at \in {"none", "way"}, at = "way" <=> n \in Note,
         load' = LoadAt(n, at), told' = 0, form' = NoForm,
         shown' \in Shown, Fits(shown'.note, server),
         shown'.status \in {"generating", "ready", "failed"} => shown'.note.id \in Note,
         route' \in Note \cup {NoNote}, mounted' \in 0..MaxOpens, strayed' \in BOOLEAN, opened' \in 0..MaxOpens,
         route' = NoNote => n = NoNote /\ shown' = Loading /\ again' = Closed,
         ShownIsOfRoute', again' \in Again, again'.key \in {0, again.key}, UNCHANGED <<service, used, faults>>,
         CallsType', CallsInv', CallsKept(NoView)
  PROVE  IInv'
<1>0. ServiceType /\ BoundsType /\ PageType /\ CallsType /\ used \in Nat
  BY BoundsAssumption DEF IInv, StateType, BoundsType, Key
<1>1. /\ load' \in Load /\ load'.note = n /\ load'.at = at /\ load'.seen = NoView /\ load'.settled = TRUE
      /\ load'.why = "loop"
  <2>1. /\ LoadAt(n, at) \in Load /\ LoadAt(n, at).note = n /\ LoadAt(n, at).at = at /\ LoadAt(n, at).seen = NoView
        /\ LoadAt(n, at).settled = TRUE /\ LoadAt(n, at).why = "loop"
    BY NoViewIs, BoundsAssumption DEF LoadAt, Load, End
  <2> QED BY <2>1
<1>2. StateType'
  <2>1. 0 \in End
    BY BoundsAssumption DEF End
  <2> QED BY <1>0, <1>1, <2>1, NothingOpen DEF StateType, ServiceType, BoundsType, PageType, service
<1>3. PageInv'
  <2>1. n = NoNote => load' = NoLoad
    BY NoteAssumption DEF NoLoad
  <2> QED BY <1>1, <2>1, NothingOpen DEF PageInv
<1>4. ReadInv'
  <2>1. Fits(NoView, server) /\ server' = server
    BY NoViewFits DEF service
  <2>2. \A t \in Call : Fits(calls'[t].base, server) /\ Fits(calls'[t].view, server)
    BY <1>0, <2>1, NoServerStep, KeptFits, NoViewIs DEF IInv, ServiceType
  <2> QED BY <1>1, <2>1, <2>2, NothingOpen DEF ReadInv
<1>5. ListInv'
  <2>1. SUFFICES ASSUME n \in Note, at = "way" PROVE WatchInv(n)'
    BY <1>1 DEF ListInv
  <2>2. server'[n].ends \in Nat
    BY <1>0, <2>1, ServerFields DEF service
  <2> QED BY <1>1, <2>1, <2>2 DEF WatchInv
<1>6. KeyInv'
  <2>1. used' = used /\ reserved' = reserved
    BY DEF service
  <2> QED BY <1>0, <2>1 DEF IInv, KeyInv, CallsKept
<1> QED BY <1>2, <1>3, <1>4, <1>5, <1>6 DEF IInv

\* A step of the user that starts or drops a load, and leaves the calls.
LEMMA RouteKeeps ==
  ASSUME IInv, NEW n \in Note, Open(n) \/ Leave \/ Retry
  PROVE  IInv'
<1>0. /\ opened \in 0..MaxOpens /\ mounted \in 0..MaxOpens /\ route \in Note \cup {NoNote} /\ CallsType
      /\ modal \in Call \cup {NoCall} /\ again \in Again /\ again.open \in BOOLEAN
  BY DEF IInv, StateType, BoundsType, PageType, CallsType, Again
<1>1. shown' = Loading /\ told' = 0 /\ form' = NoForm /\ strayed' = FALSE /\ UNCHANGED <<service, used, faults, calls>>
      /\ modal' = NoCall
  BY DEF Open, Leave, Retry, StartLoad, bounds
<1>2. /\ Loading \in Shown /\ Loading.note = NoView /\ NoView.id = NoNote /\ Fits(NoView, server)
      /\ Loading.status = "loading"
  BY ShownIs, NoViewIs, NoViewFits
<1>3. CallsType' /\ CallsInv' /\ CallsKept(NoView)
  BY <1>0, <1>1 DEF IInv, CallsType, CallsInv, CallsKept
<1>4. again' \in Again /\ again'.key = 0
  BY <1>0, NothingOpen DEF Open, Leave, Retry
<1>5. CASE Open(n)
  <2>1. load' = LoadAt(n, "way") /\ route' = n /\ opened' = opened + 1
        /\ mounted' = IF Here THEN mounted ELSE opened'
    BY <1>5 DEF Open, StartLoad
  <2>2. opened' \in 0..MaxOpens /\ mounted' \in 0..MaxOpens
    BY <1>0, <1>5, <2>1, BoundsAssumption DEF Open
  <2>3. ShownIsOfRoute'
    BY <1>1, <1>2, <2>1, LoadIs DEF ShownIsOfRoute
  <2> QED BY <1>1, <1>2, <1>3, <1>4, <2>1, <2>2, <2>3, NoteAssumption, StartKeeps
<1>6. CASE Leave
  <2>1. load' = LoadAt(NoNote, "none") /\ route' = NoNote /\ opened' = opened /\ mounted' = mounted /\ again' = Closed
    BY <1>6 DEF Leave, NoLoad, bounds
  <2>2. ShownIsOfRoute'
    BY <1>1, <1>2, <2>1, LoadIs DEF ShownIsOfRoute
  <2> QED BY <1>0, <1>1, <1>2, <1>3, <1>4, <2>1, <2>2, NoteAssumption, StartKeeps
<1>7. CASE Retry
  <2>1. load' = LoadAt(route, "way") /\ route' = route /\ opened' = opened /\ mounted' = mounted /\ route \in Note
    BY <1>0, <1>7 DEF Retry, StartLoad, Here, bounds
  <2>2. ShownIsOfRoute'
    BY <1>1, <1>2, <2>1, LoadIs DEF ShownIsOfRoute
  <2> QED BY <1>0, <1>1, <1>2, <1>3, <1>4, <2>1, <2>2, NoteAssumption, StartKeeps
<1> QED BY <1>5, <1>6, <1>7

-----------------------------------------------------------------------------
(* Answers.                                                                *)

LEMMA NotSentKeeps ==
  ASSUME IInv, NEW s \in Call, SaveRefused(s) \/ DialogRefused(s)
  PROVE  IInv'
<1>0. /\ CallsType /\ ServiceType /\ modal \in Call \cup {NoCall} /\ form \in Form /\ again \in Again
      /\ used \in {0} \cup Key /\ used \in Nat
  BY BoundsAssumption DEF IInv, StateType, BoundsType, PageType, CallsType, Key
<1>1. /\ Ends(s) /\ UNCHANGED <<service, told, bounds, page, load, shown, again>>
      /\ modal' \in {modal, NoCall} /\ form' \in {form, [form EXCEPT !.saving = NoCall]}
  BY DEF SaveRefused, DialogRefused, OfForm, CloseModal, dialogs
<1>2. modal' \in Call \cup {NoCall}
  BY <1>0, <1>1
<1>3. CallsType' /\ CallsInv' /\ CallsKept(NoView)
  BY <1>0, <1>1, <1>2, EndsCalls DEF IInv
<1>4. form' \in Form /\ form'.base = form.base /\ form'.on = form.on
  BY <1>0, <1>1 DEF Form
<1>5. Fits(form'.base, server) /\ (form'.on => shown.status = "ready")
  BY <1>4 DEF IInv, ReadInv, PageInv
<1>6. \A t \in Call : Fits(calls'[t].base, server) /\ Fits(calls'[t].view, server)
  BY <1>3, NoViewFits DEF IInv, ReadInv, CallsKept
<1>7. used' = used /\ UNCHANGED <<opened, faults>> /\ again.key <= used /\ \A t \in Call : calls'[t].key <= used'
  BY <1>0, <1>1, <1>3 DEF IInv, KeyInv, CallsKept, bounds
<1>8. Here \/ UNCHANGED <<form, again>>
  <2>1. CASE Here
    BY <2>1
  <2>2. CASE ~Here
    <3>1. form.saving = NoCall /\ NoCall # s
      BY <2>2, NoteAssumption DEF IInv, PageInv, Here, NoForm
    <3>2. form' = form
      BY <3>1 DEF SaveRefused, DialogRefused
    <3> QED BY <1>1, <3>2
  <2> QED BY <2>1, <2>2
<1> QED BY <1>0, <1>1, <1>2, <1>3, <1>4, <1>5, <1>6, <1>7, <1>8, FormKeeps

\* An answer that changes what is shown, and not the load.
LEMMA AnswerKeeps ==
  ASSUME IInv, NEW s \in Call, Tell, Ends(s), UNCHANGED <<service, bounds, route, mounted, load, again>>,
         modal' \in Call \cup {NoCall}, shown' \in Shown, form' \in {form, NoForm}, strayed' \in BOOLEAN,
         Fits(shown'.note, server), shown'.status \in {"generating", "ready", "failed"} => shown'.note.id \in Note,
         form' = NoForm \/ shown'.status = shown.status,
         Here \/ UNCHANGED <<shown, form>>, ShownIsOfRoute'
  PROVE  IInv'
<1>0. ServiceType /\ BoundsType /\ PageType /\ CallsType /\ used \in Nat /\ load \in Load
  BY BoundsAssumption DEF IInv, StateType, BoundsType, Key, PageType
<1>1. told' \in End /\ (load.note \in Note => told' = server[load.note].ends)
  BY <1>0, TellIs
<1>2. CallsType' /\ CallsInv' /\ CallsKept(NoView)
  BY <1>0, EndsCalls DEF IInv
<1>3. form' \in Form /\ Fits(form'.base, server) /\ (form'.on => shown'.status = "ready")
  BY <1>0, NothingOpen, NoViewFits DEF PageType, IInv, ReadInv, PageInv
<1>4. StateType'
  BY <1>0, <1>1, <1>2, <1>3 DEF StateType, ServiceType, BoundsType, PageType, service, bounds
<1>5. PageInv'
  BY <1>3 DEF IInv, PageInv, Here
<1>6. ReadInv'
  <2>1. \A t \in Call : Fits(calls'[t].base, server) /\ Fits(calls'[t].view, server)
    BY <1>2, NoViewFits DEF IInv, ReadInv, CallsKept
  <2> QED BY <1>3, <2>1 DEF IInv, ReadInv, service
<1>7. ListInv'
  <2>1. SUFFICES ASSUME load.at # "none" PROVE WatchInv(load.note)'
    BY DEF ListInv
  <2>2. load.note \in Note /\ WatchInv(load.note) /\ server[load.note].ends \in Nat /\ told \in Nat
    BY <2>1, RunningLoad
  <2>3. load.ends \in Nat /\ told' = server[load.note].ends /\ UNCHANGED <<server, load>>
    BY <1>0, <1>1, <2>2, LoadFields DEF service
  <2> QED BY <2>2, <2>3 DEF WatchInv, Settled, Unsettled
<1>8. KeyInv'
  BY <1>0, <1>2 DEF IInv, KeyInv, CallsKept, bounds, service
<1> QED BY <1>2, <1>4, <1>5, <1>6, <1>7, <1>8 DEF IInv

LEMMA SaveAnsweredKeeps ==
  ASSUME IInv, NEW s \in Call, SaveAnswered(s)
  PROVE  IInv'
<1> DEFINE v == calls[s].view
<1>0. /\ CallsType /\ shown \in Shown /\ form \in Form /\ modal \in Call \cup {NoCall} /\ strayed \in BOOLEAN
      /\ Fits(shown.note, server) /\ (shown.status \in {"generating", "ready", "failed"} => shown.note.id \in Note)
  BY DEF IInv, StateType, PageType, CallsType, ReadInv, PageInv
<1>1. v \in View /\ v.id \in Note /\ v.id = calls[s].note /\ Fits(v, server)
  BY <1>0, CallFields DEF SaveAnswered, IInv, CallsInv, ReadInv
<1>2. /\ Tell /\ Ends(s) /\ UNCHANGED <<service, bounds, route, mounted, load, again>> /\ modal' = modal
  BY DEF SaveAnswered, dialogs
<1>3. CASE Mounted(s)
  <2>1. shown' = With("ready", v) /\ form' = NoForm /\ strayed' = (strayed \/ v.id # route) /\ Here
    BY <1>1, <1>3 DEF SaveAnswered, Mounted
  <2>2. shown' \in Shown /\ shown'.note = v /\ strayed' \in BOOLEAN
    BY <1>1, <2>1, ShownIs
  <2>3. ShownIsOfRoute'
    BY <1>2, <2>1, <2>2 DEF IInv, ShownIsOfRoute
  <2> QED BY <1>0, <1>1, <1>2, <2>1, <2>2, <2>3, AnswerKeeps
<1>4. CASE ~Mounted(s)
  <2>1. UNCHANGED <<shown, form, strayed>>
    BY <1>4 DEF SaveAnswered
  <2>2. ShownIsOfRoute'
    BY <1>2, <2>1 DEF IInv, ShownIsOfRoute
  <2> QED BY <1>0, <1>2, <2>1, <2>2, AnswerKeeps
<1> QED BY <1>3, <1>4

LEMMA RenameAnsweredKeeps ==
  ASSUME IInv, NEW s \in Call, RenameAnswered(s)
  PROVE  IInv'
<1> DEFINE x == calls[s].view.version
<1>0. /\ CallsType /\ shown \in Shown /\ form \in Form /\ modal \in Call \cup {NoCall} /\ strayed \in BOOLEAN
      /\ Fits(shown.note, server) /\ (shown.status \in {"generating", "ready", "failed"} => shown.note.id \in Note)
  BY DEF IInv, StateType, PageType, CallsType, ReadInv, PageInv
<1>1. x \in Version
  BY <1>0, CallFields, ViewFields
<1>2. /\ Tell /\ Ends(s) /\ UNCHANGED <<service, bounds, route, mounted, load, again>> /\ modal' \in Call \cup {NoCall}
      /\ form' = form
  BY <1>0 DEF RenameAnswered, CloseModal
<1>3. CASE Mounted(s) /\ HasNote
  <2>1. shown' = [shown EXCEPT !.note.version = x] /\ strayed' = (strayed \/ calls[s].note # route)
    BY <1>3 DEF RenameAnswered
  <2>2. shown.note \in View /\ shown.note.id \in Note /\ Here
    BY <1>3, NoteIsHere
  <2>3. PICK w : w = [shown.note EXCEPT !.version = x]
    OBVIOUS
  <2>4. w \in View /\ w.id = shown.note.id /\ w.read = shown.note.read /\ w.text = shown.note.text
    <3>1. w \in View
      BY <1>1, <2>2, <2>3, ViewChanges
    <3>2. shown.note \in [id : Note, status : {"generating", "ready", "failed", "gone"}, version : Version,
                          read : Version, text : Version, updating : BOOLEAN]
      BY <2>2, NoViewIs DEF View
    <3> QED BY <2>3, <3>1, <3>2
  <2>5. shown' \in Shown /\ shown'.note = w /\ shown'.status = shown.status
    <3>1. shown' = [shown EXCEPT !.note = w]
      BY <1>0, <2>1, <2>3 DEF Shown
    <3> QED BY <1>0, <2>4, <3>1 DEF Shown
  <2>6. Fits(w, server)
    BY <1>0, <2>4 DEF Fits
  <2>7. ShownIsOfRoute'
    BY <1>2, <2>1, <2>4, <2>5 DEF IInv, ShownIsOfRoute
  <2> QED BY <1>0, <1>2, <2>1, <2>2, <2>4, <2>5, <2>6, <2>7, AnswerKeeps
<1>4. CASE ~(Mounted(s) /\ HasNote)
  <2>1. UNCHANGED <<shown, strayed>>
    BY <1>4 DEF RenameAnswered
  <2>2. ShownIsOfRoute'
    BY <1>2, <2>1 DEF IInv, ShownIsOfRoute
  <2> QED BY <1>0, <1>2, <2>1, <2>2, AnswerKeeps
<1> QED BY <1>3, <1>4

LEMMA AgainAnsweredKeeps ==
  ASSUME IInv, NEW s \in Call, AgainAnswered(s)
  PROVE  IInv'
<1> DEFINE r == calls[s].route
<1>0. /\ CallsType /\ shown \in Shown /\ form \in Form /\ modal \in Call \cup {NoCall} /\ strayed \in BOOLEAN
      /\ again \in Again /\ route \in Note \cup {NoNote} /\ mounted \in 0..MaxOpens /\ opened \in 0..MaxOpens
      /\ Fits(shown.note, server) /\ (shown.status \in {"generating", "ready", "failed"} => shown.note.id \in Note)
  BY DEF IInv, StateType, PageType, CallsType, ReadInv, PageInv, BoundsType
<1>1. r \in Note /\ calls[s].view.updating \in BOOLEAN
  BY <1>0, CallFields, ViewFields DEF AgainAnswered, IInv, CallsInv
<1>2. Ends(s) /\ UNCHANGED <<service, bounds, route, mounted>> /\ modal' \in Call \cup {NoCall}
  BY <1>0 DEF AgainAnswered, CloseModal
<1>3. CallsType' /\ CallsInv' /\ CallsKept(NoView)
  BY <1>0, <1>2, EndsCalls DEF IInv
<1>4. CASE Mounted(s)
  <2>1. /\ load' = LoadAt(r, "way") /\ told' = 0 /\ form' = NoForm /\ again' = Closed
        /\ strayed' = (strayed \/ r # route) /\ Here
        /\ shown' = IF shown.status = "ready" THEN [shown EXCEPT !.note.updating = calls[s].view.updating] ELSE shown
    BY <1>4 DEF AgainAnswered, StartLoad, Mounted
  <2>2. /\ shown' \in Shown /\ shown'.note.id = shown.note.id /\ Fits(shown'.note, server)
        /\ shown'.status = shown.status
    <3>1. CASE shown.status = "ready"
      <4>1. shown.note \in View /\ shown.note.id \in Note
        BY <1>0, <3>1 DEF Shown
      <4>2. PICK w : w = [shown.note EXCEPT !.updating = calls[s].view.updating]
        OBVIOUS
      <4>3. w \in View /\ w.id = shown.note.id /\ w.read = shown.note.read /\ w.text = shown.note.text
        <5>1. w \in View
          BY <1>1, <4>1, <4>2, ViewChanges
        <5>2. shown.note \in [id : Note, status : {"generating", "ready", "failed", "gone"}, version : Version,
                              read : Version, text : Version, updating : BOOLEAN]
          BY <4>1, NoViewIs DEF View
        <5> QED BY <4>2, <5>1, <5>2
      <4>4. shown' = [shown EXCEPT !.note = w]
        BY <1>0, <2>1, <3>1, <4>2 DEF Shown
      <4>5. shown' \in Shown /\ shown'.note = w /\ shown'.status = shown.status
        BY <1>0, <4>3, <4>4 DEF Shown
      <4> QED BY <1>0, <4>3, <4>5 DEF Fits
    <3>2. CASE shown.status # "ready"
      BY <1>0, <2>1, <3>2
    <3> QED BY <3>1, <3>2
  <2>3. shown'.status \in {"generating", "ready", "failed"} => shown'.note.id \in Note
    BY <1>0, <2>2
  <2>4. ShownIsOfRoute'
    <3>1. load'.note = r /\ route' = route /\ shown'.note.id = shown.note.id
      BY <1>1, <1>2, <2>1, <2>2, LoadIs DEF bounds
    <3>2. CASE r = route /\ ~strayed
      BY <3>1, <3>2, <2>1 DEF IInv, ShownIsOfRoute
    <3>3. CASE r # route \/ strayed
      <4>1. strayed' = TRUE
        BY <2>1, <3>3
      <4> QED BY <4>1 DEF ShownIsOfRoute
    <3> QED BY <3>2, <3>3
  <2>5. route' # NoNote /\ route' \in Note \cup {NoNote} /\ mounted' \in 0..MaxOpens /\ opened' \in 0..MaxOpens
        /\ UNCHANGED <<service, used, faults>> /\ strayed' \in BOOLEAN
    BY <1>0, <1>2, <2>1 DEF Here, bounds
  <2>6. again' \in Again /\ again'.key = 0
    BY <2>1, NothingOpen
  <2> QED BY <1>1, <1>3, <2>1, <2>2, <2>3, <2>4, <2>5, <2>6, StartKeeps
<1>5. CASE ~Mounted(s)
  <2>1. UNCHANGED <<told, shown, load, form, again, strayed>>
    BY <1>5 DEF AgainAnswered
  <2>2. used \in {0} \cup Key /\ used \in Nat /\ used' = used /\ UNCHANGED <<service, told, opened, faults, page, load, shown>>
    BY <1>2, <2>1, BoundsAssumption DEF IInv, StateType, BoundsType, Key, page, bounds
  <2>3. Fits(form'.base, server) /\ (form'.on => shown.status = "ready") /\ again'.key <= used'
    BY <2>1, <2>2 DEF IInv, ReadInv, PageInv, KeyInv
  <2>4. \A t \in Call : /\ calls'[t].key <= used'
                        /\ Fits(calls'[t].base, server) /\ Fits(calls'[t].view, server)
    BY <1>3, <2>2, NoViewFits DEF IInv, ReadInv, KeyInv, CallsKept
  <2> QED BY <1>0, <1>3, <2>1, <2>2, <2>3, <2>4, FormKeeps
<1> QED BY <1>4, <1>5

-----------------------------------------------------------------------------
(* The theorems.                                                           *)

LEMMA InitInv == Init => IInv
<1> SUFFICES ASSUME Init PROVE IInv
  OBVIOUS
<1>0. /\ 0 \in Version /\ 0 \in End /\ 0 \in 0..MaxOpens /\ 0 \in 0..MaxFaults
      /\ NoLoad \in Load /\ NoLoad.at = "none" /\ NoLoad.note = NoNote /\ NoLoad.seen = NoView
      /\ NoLoad = LoadAt(NoNote, "none")
  <2>1. 0 \in Version /\ 0 \in End /\ 0 \in 0..MaxOpens /\ 0 \in 0..MaxFaults
    BY BoundsAssumption DEF Version, End
  <2>2. PICK l : l = NoLoad
    OBVIOUS
  <2>3. l \in Load /\ l.at = "none" /\ l.note = NoNote /\ l.seen = NoView
    BY <2>2, NoViewIs, BoundsAssumption DEF NoLoad, LoadAt, Load, End
  <2> QED BY <2>1, <2>2, <2>3 DEF NoLoad
<1>1. /\ server = [n \in Note |-> Fresh(IF n \in Draft THEN "generating" ELSE "ready")]
      /\ reserved = [k \in Key |-> NoNote] /\ told = 0 /\ used = 0 /\ opened = 0 /\ faults = 0
      /\ route = NoNote /\ mounted = 0 /\ strayed = FALSE
      /\ load = NoLoad /\ shown = Loading /\ form = NoForm /\ again = Closed /\ modal = NoCall
      /\ calls = [s \in Call |-> Idle]
  BY DEF Init
<1>2. \A st \in {"generating", "ready"} : Fresh(st) \in Stored
  BY <1>0 DEF Fresh, Stored
<1>3. server \in [Note -> Stored]
  BY <1>1, <1>2
<1>4. StateType
  BY <1>0, <1>1, <1>3, ShownIs, NothingOpen, IdleIs
     DEF StateType, ServiceType, BoundsType, PageType, CallsType
<1>5. \A s \in Call : calls[s] = Idle
  BY <1>1
<1>6. PageInv /\ CallsInv
  BY <1>0, <1>1, <1>5, IdleIs, ShownIs, NothingOpen DEF PageInv, CallsInv
<1>7. ShownIsOfRoute /\ ListInv
  BY <1>0, <1>1, ShownIs, NoViewIs DEF ShownIsOfRoute, ListInv
<1>8. ReadInv
  BY <1>0, <1>1, <1>5, IdleIs, ShownIs, NothingOpen, NoViewFits DEF ReadInv
<1>9. KeyInv
  BY <1>1, <1>5, IdleIs, NothingOpen DEF KeyInv
<1> QED BY <1>4, <1>6, <1>7, <1>8, <1>9 DEF IInv

LEMMA StutterKeeps ==
  ASSUME IInv, UNCHANGED vars
  PROVE  IInv'
<1>1. UNCHANGED <<server, reserved, told, used, opened, faults, route, mounted, strayed, load, shown, form, again, modal, calls>>
  BY DEF vars, service, bounds, page, dialogs
<1>2. StateType'
  BY <1>1 DEF IInv, StateType, ServiceType, BoundsType, PageType, CallsType
<1>3. PageInv' /\ CallsInv' /\ ShownIsOfRoute'
  BY <1>1 DEF IInv, PageInv, CallsInv, ShownIsOfRoute
<1>4. ReadInv' /\ KeyInv'
  BY <1>1 DEF IInv, ReadInv, KeyInv
<1>5. ListInv'
  BY <1>1 DEF IInv, ListInv, WatchInv, Settled, Unsettled
<1> QED BY <1>2, <1>3, <1>4, <1>5 DEF IInv

LEMMA NextKeeps ==
  ASSUME IInv, [Next]_vars
  PROVE  IInv'
<1>1. CASE UserNext
  <2>1. ASSUME NEW n \in Note, Open(n) PROVE IInv'
    BY <2>1, RouteKeeps
  <2>2. CASE Leave \/ Retry
    <3>1. PICK n : n \in Note
      <4>1. Here
        BY <2>2 DEF Leave, Retry
      <4> QED BY <4>1 DEF Here, IInv, StateType, PageType
    <3> QED BY <2>2, <3>1, RouteKeeps
  <2>3. CASE Edit \/ Type \/ Cancel \/ Rewrite \/ RewriteEnds
    BY <2>3, EditingKeeps
  <2>4. CASE Ask \/ Close
    BY <2>4, AskingKeeps
  <2>5. ASSUME NEW s \in Call, Save(s) \/ Rename(s) \/ Confirm(s) PROVE IInv'
    BY <2>5, SaveKeeps, RenameKeeps, ConfirmKeeps
  <2> QED BY <1>1, <2>1, <2>2, <2>3, <2>4, <2>5 DEF UserNext
<1>2. CASE LoadStep \/ LoadFails
  BY <1>2, ReadNoteKeeps, ShowSettledKeeps, WatchKeeps, MissesKeep, StreamEventKeeps, HearEventKeeps, StreamClosesKeeps
     DEF LoadStep
<1>3. CASE CallNext
  <2>1. PICK s \in Call : \/ LoseRequest(s)
                          \/ SaveArrives(s) \/ SaveAnswered(s) \/ SaveRefused(s)
                          \/ RenameArrives(s) \/ RenameAnswered(s) \/ DialogRefused(s)
                          \/ AgainArrives(s) \/ AgainAnswered(s)
    BY <1>3 DEF CallNext
  <2> QED BY <2>1, LoseRequestKeeps, SaveArrivesKeeps, SaveAnsweredKeeps, NotSentKeeps, RenameArrivesKeeps,
             RenameAnsweredKeeps, AgainArrivesKeeps, AgainAnsweredKeeps
<1>4. CASE OtherNext
  <2>1. PICK n \in Note : OtherChanges(n) \/ OtherAsks(n) \/ OtherDeletes(n) \/ WorkerWrites(n) \/ WorkerUpdates(n)
    BY <1>4, NoteAssumption DEF OtherNext
  <2> QED BY <2>1, OthersKeep
<1>5. CASE UNCHANGED vars
  BY <1>5, StutterKeeps
<1> QED BY <1>1, <1>2, <1>3, <1>4, <1>5 DEF Next

\* The invariant that the theorems below rest on (NoteDetailPage.tsx:114-197).
THEOREM Invariance == Spec => []IInv
<1>1. Init => IInv
  BY InitInv
<1>2. IInv /\ [Next]_vars => IInv'
  BY NextKeeps
<1> QED BY <1>1, <1>2, PTL DEF Spec

-----------------------------------------------------------------------------
(* Whose keys the requests carry.                                          *)

\* A dialog has one key, the first it sent, and so has every request of it.
DialogInv ==
  /\ dialog \in [Key -> {0} \cup Key]
  /\ \A k \in Key : dialog[k] \in {0, k}
  /\ again.key # 0 => dialog[again.key] = again.key
  /\ \A s \in Call : calls[s].key # 0 => dialog[calls[s].key] = calls[s].key

LEMMA NoKeyAdded ==
  ASSUME DialogInv, dialog' = dialog, again'.key \in {0, again.key},
         \A s \in Call : calls'[s].key \in {0, calls[s].key}
  PROVE  DialogInv'
  BY DEF DialogInv

LEMMA ConfirmSends ==
  ASSUME IInv, DialogInv, NEW s \in Call, Confirm(s)
  PROVE  DialogInv'
<1>1. again.key \in {0} \cup Key /\ used \in Nat /\ CallsType
  BY BoundsAssumption DEF IInv, StateType, PageType, BoundsType, Key, Again
<1>2. PICK k : k = IF again.key = 0 THEN used + 1 ELSE again.key
  OBVIOUS
<1>3. k \in Key /\ Send(s, k)
  BY <1>1, <1>2, BoundsAssumption DEF Confirm, Key
<1>4. dialog' = [dialog EXCEPT ![k] = k] /\ again'.key = k
  BY <1>2, <1>3 DEF Send, DialogInv
<1>5. \A t \in Call : calls'[t].key \in {k, calls[t].key}
  BY <1>1, <1>3 DEF Send, Begin, AgainCall, Idle, CallsType, CallState
<1>6. dialog' \in [Key -> {0} \cup Key] /\ \A j \in Key : dialog'[j] = IF j = k THEN k ELSE dialog[j]
  BY <1>3, <1>4 DEF DialogInv
<1>7. ASSUME NEW t \in Call, calls'[t].key # 0 PROVE dialog'[calls'[t].key] = calls'[t].key
  <2>1. calls[t].key \in {0} \cup Key
    BY <1>1, CallFields
  <2> QED BY <1>3, <1>5, <1>6, <1>7, <2>1 DEF DialogInv
<1> QED BY <1>3, <1>4, <1>6, <1>7 DEF DialogInv

LEMMA DialogKeeps ==
  ASSUME IInv, DialogInv, [Next]_vars
  PROVE  DialogInv'
<1>0. CallsType /\ again \in Again
  BY DEF IInv, StateType, PageType
<1>1. CASE UserNext
  <2>1. CASE \E n \in Note : Open(n)
    BY <1>0, <2>1, NoKeyAdded DEF Open, Again
  <2>2. CASE Leave \/ Retry
    BY <1>0, <2>2, NoKeyAdded DEF Leave, Retry, Again, Closed, bounds
  <2>3. CASE Edit \/ Type \/ Cancel \/ Rewrite \/ RewriteEnds
    BY <1>0, <2>3, NoKeyAdded DEF Edit, Type, Cancel, Rewrite, RewriteEnds, OfForm, bounds, dialogs
  <2>4. CASE Ask \/ Close
    BY <1>0, <2>4, NoKeyAdded DEF Ask, Close, Closed, bounds
  <2>5. ASSUME NEW s \in Call, Save(s) \/ Rename(s) PROVE DialogInv'
    <3>1. dialog' = dialog /\ again' = again
      BY <2>5 DEF Save, Rename, OfForm, bounds, dialogs
    <3>2. \A t \in Call : calls'[t].key \in {0, calls[t].key}
      <4>1. PICK new : calls' = [calls EXCEPT ![s] = new] /\ new.key = 0
        <5>1. SaveCall.key = 0 /\ RenameCall.key = 0
          BY DEF SaveCall, RenameCall, Idle
        <5> QED BY <2>5, <5>1 DEF Save, Rename, Begin
      <4> QED BY <1>0, <4>1 DEF CallsType
    <3> QED BY <3>1, <3>2, NoKeyAdded
  <2>6. ASSUME NEW s \in Call, Confirm(s) PROVE DialogInv'
    BY <2>6, ConfirmSends
  <2> QED BY <1>1, <2>1, <2>2, <2>3, <2>4, <2>5, <2>6 DEF UserNext
<1>2. CASE LoadStep \/ LoadFails
  <2>1. dialog' = dialog /\ calls' = calls
    BY <1>2 DEF LoadStep, LoadFails, ReadNote, ShowSettled, Watch, NotFound, StreamEvent, HearEvent, StreamCloses,
                StreamMisses, OfLoad, bounds
  <2>2. again'.key \in {0, again.key}
    <3>1. ASSUME NEW st, Show(st) PROVE again'.key \in {0, again.key}
      BY <3>1 DEF Show, dialogs
    <3> QED BY <1>2, <3>1 DEF LoadStep, LoadFails, ReadNote, ShowSettled, Watch, NotFound, StreamEvent, HearEvent,
                              StreamCloses, StreamMisses, dialogs
  <2> QED BY <2>1, <2>2, NoKeyAdded
<1>3. CASE CallNext
  <2>1. PICK s \in Call : \/ LoseRequest(s)
                          \/ SaveArrives(s) \/ SaveAnswered(s) \/ SaveRefused(s)
                          \/ RenameArrives(s) \/ RenameAnswered(s) \/ DialogRefused(s)
                          \/ AgainArrives(s) \/ AgainAnswered(s)
    BY <1>3 DEF CallNext
  <2>2. dialog' = dialog
    BY <2>1 DEF LoseRequest, SaveArrives, SaveAnswered, SaveRefused, RenameArrives, RenameAnswered, DialogRefused,
                AgainArrives, AgainAnswered, OfService, OfForm, bounds
  <2>3. again'.key \in {0, again.key}
    BY <2>1 DEF LoseRequest, SaveArrives, SaveAnswered, SaveRefused, RenameArrives, RenameAnswered, DialogRefused,
                AgainArrives, AgainAnswered, OfService, OfForm, dialogs, Closed
  <2>4. PICK new : calls' = [calls EXCEPT ![s] = new] /\ new.key \in {0, calls[s].key}
    <3>1. ASSUME Refused(s) \/ Ends(s) \/ \E v : Answered(s, v)
          PROVE  \E new : calls' = [calls EXCEPT ![s] = new] /\ new.key \in {0, calls[s].key}
      <4>1. CASE Refused(s)
        <5>1. PICK new : new = [Idle EXCEPT !.kind = calls[s].kind, !.at = "refused"]
          OBVIOUS
        <5>2. calls' = [calls EXCEPT ![s] = new]
          BY <4>1, <5>1 DEF Refused
        <5>3. new.key = 0
          BY <5>1 DEF Idle
        <5> QED BY <5>2, <5>3
      <4>2. CASE Ends(s)
        <5>1. calls' = [calls EXCEPT ![s] = Idle]
          BY <4>2 DEF Ends
        <5> QED BY <5>1, IdleIs
      <4>3. CASE \E v : Answered(s, v)
        <5>1. PICK v : Answered(s, v)
          BY <4>3
        <5>2. PICK new : new = [calls[s] EXCEPT !.at = "ok", !.view = v]
          OBVIOUS
        <5>3. calls' = [calls EXCEPT ![s] = new]
          BY <1>0, <5>1, <5>2 DEF Answered, CallsType
        <5>4. calls[s] \in CallState
          BY <1>0 DEF CallsType
        <5>5. new.key = calls[s].key
          BY <5>2, <5>4 DEF CallState
        <5> QED BY <5>3, <5>5
      <4> QED BY <3>1, <4>1, <4>2, <4>3
    <3> QED BY <2>1, <3>1 DEF LoseRequest, SaveArrives, SaveAnswered, SaveRefused, RenameArrives, RenameAnswered,
                              DialogRefused, AgainArrives, AgainAnswered, Reply
  <2>5. \A t \in Call : calls'[t].key \in {0, calls[t].key}
    BY <1>0, <2>4 DEF CallsType
  <2> QED BY <2>2, <2>3, <2>5, NoKeyAdded
<1>4. CASE OtherNext
  BY <1>4, NoKeyAdded DEF OtherNext, OtherChanges, OtherAsks, OtherDeletes, WorkerWrites, WorkerUpdates, client, dialogs
<1>5. CASE UNCHANGED vars
  BY <1>5, NoKeyAdded DEF vars, bounds, dialogs
<1> QED BY <1>1, <1>2, <1>3, <1>4, <1>5 DEF Next

THEOREM DialogInvariance == Spec => []DialogInv
<1>1. Init => DialogInv
  BY IdleIs DEF Init, DialogInv, Closed, Idle
<1>2. IInv /\ DialogInv /\ [Next]_vars => DialogInv'
  BY DialogKeeps
<1> QED BY Invariance, <1>1, <1>2, PTL DEF Spec

-----------------------------------------------------------------------------
(* What the invariants give.                                               *)

\* Every variable keeps the values the page and the service give it.
THEOREM TypeCorrect == Spec => []TypeOK
<1>1. IInv /\ DialogInv => TypeOK
  BY DEF IInv, DialogInv, TypeOK
<1> QED BY Invariance, DialogInvariance, <1>1, PTL

\* What the page shows and loads is the note of the URL, unless an answer to a request made on the page of
\* another note came since the load began (NoteDetailPage.tsx:199-253).
THEOREM ShowsTheRoute == Spec => []ShownIsOfRoute
<1>1. IInv => ShownIsOfRoute
  BY DEF IInv
<1> QED BY Invariance, <1>1, PTL

\* Whoever settles a note between two streams of its load, the lists read it again after that
\* (NoteDetailPage.tsx:125-139, :160-174).
THEOREM ListsHearOfIt == Spec => ListsHear
<1>1. ASSUME IInv, [Next]_vars, LoadShows, ~load.settled
      PROVE  told' > load.ends
  <2>1. load.at \in {"back", "event"} /\ load'.at = "none" /\ shown'.status \in {"ready", "failed"}
    BY <1>1 DEF LoadShows
  <2>2. load \in Load /\ load.note \in Note /\ WatchInv(load.note) /\ ServiceType /\ server[load.note].ends \in Nat
        /\ told \in Nat
    BY <1>1, <2>1, RunningLoad
  <2>3. load.ends \in Nat /\ load.read \in Nat /\ load.why \in {"loop", "ready"}
    BY <2>2, LoadFields
  <2>4. CASE ShowSettled
    <3>1. load.at = "back" /\ Settled(load.seen)
      BY <2>4 DEF ShowSettled
    <3>2. CASE load.why = "loop"
      <4>1. Tell
        BY <1>1, <2>4, <3>2 DEF ShowSettled, TellIfWatched
      <4>2. told' = server[load.note].ends
        BY <2>2, <4>1, TellIs
      <4> QED BY <1>1, <2>2, <2>3, <3>1, <4>2 DEF WatchInv
    <3>3. CASE load.why = "ready"
      <4>1. told' = told \/ (Tell /\ told' = server[load.note].ends)
        BY <2>2, <2>4, <3>3, TellIs DEF ShowSettled, TellIfWatched
      <4> QED BY <2>2, <2>3, <3>3, <4>1 DEF WatchInv
    <3> QED BY <2>3, <3>2, <3>3
  <2>5. CASE HearEvent
    <3>1. load.at = "event" /\ Tell
      BY <2>5 DEF HearEvent
    <3>2. told' = server[load.note].ends
      BY <2>2, <3>1, TellIs
    <3> QED BY <2>2, <2>3, <3>1, <3>2 DEF WatchInv
  <2>6. CASE UNCHANGED load
    BY <2>1, <2>6
  <2>7. CASE ReadNote \/ Watch \/ NotFound \/ StreamEvent \/ StreamCloses \/ StreamMisses \/ LoadFails
    <3>1. CASE Watch
      <4>1. load \in Load /\ Bare("error").status = "error"
        BY <2>2, ShownIs
      <4>2. CASE load.why = "ready" /\ load.seen.status # "ready"
        BY <2>1, <3>1, <4>1, <4>2 DEF Watch, Show
      <4>3. CASE ~(load.why = "ready" /\ load.seen.status # "ready")
        <5>1. load'.at = "stream"
          BY <3>1, <4>1, <4>3 DEF Watch, Load
        <5> QED BY <2>1, <5>1
      <4> QED BY <4>2, <4>3
    <3>2. CASE NotFound
      BY <2>1, <3>2, ShownIs DEF NotFound, Show
    <3>3. CASE ReadNote \/ StreamEvent \/ StreamCloses \/ StreamMisses \/ LoadFails
      BY <2>1, <3>3 DEF ReadNote, StreamEvent, StreamCloses, StreamMisses, LoadFails
    <3> QED BY <2>7, <3>1, <3>2, <3>3
  <2>8. CASE \E n \in Note : Open(n)
    <3>1. PICK n \in Note : Open(n)
      BY <2>8
    <3> QED BY <2>1, <3>1, ShownIs DEF Open
  <2>9. CASE Leave \/ Retry
    BY <2>1, <2>9, ShownIs DEF Leave, Retry
  <2>10. CASE \E s \in Call : AgainAnswered(s)
    <3>1. PICK s \in Call : AgainAnswered(s)
      BY <2>10
    <3>2. CASE UNCHANGED load
      BY <2>1, <3>2
    <3>3. CASE load' = LoadAt(calls[s].route, "way")
      BY <2>1, <3>3 DEF LoadAt
    <3> QED BY <3>1, <3>2, <3>3 DEF AgainAnswered, StartLoad
  <2>11. Next => \/ ShowSettled \/ HearEvent \/ UNCHANGED load
                 \/ ReadNote \/ Watch \/ NotFound \/ StreamEvent \/ StreamCloses \/ StreamMisses \/ LoadFails
                 \/ (\E n \in Note : Open(n)) \/ Leave \/ Retry \/ (\E s \in Call : AgainAnswered(s))
    <3>1. UserNext => (\E n \in Note : Open(n)) \/ Leave \/ Retry \/ UNCHANGED load
      BY DEF UserNext, Edit, Type, Cancel, Rewrite, RewriteEnds, OfForm, Ask, Close, Save, Rename, Confirm,
             Send
    <3>2. CallNext => UNCHANGED load \/ \E s \in Call : AgainAnswered(s)
      BY DEF CallNext, LoseRequest, SaveArrives, SaveAnswered, SaveRefused, RenameArrives, RenameAnswered,
             DialogRefused, AgainArrives, OfService, OfForm
    <3>3. OtherNext => UNCHANGED load
      BY DEF OtherNext, OtherChanges, OtherAsks, OtherDeletes, WorkerWrites, WorkerUpdates, client
    <3> QED BY <3>1, <3>2, <3>3 DEF Next, LoadStep
  <2>12. UNCHANGED vars => UNCHANGED load
    BY DEF vars
  <2> QED BY <1>1, <2>4, <2>5, <2>6, <2>7, <2>8, <2>9, <2>10, <2>11, <2>12
<1>2. IInv /\ [Next]_vars => [LoadShows /\ ~load.settled => told' > load.ends]_vars
  BY <1>1
<1> QED BY Invariance, <1>2, PTL DEF Spec, ListsHear

\* A stored note changes together with a call only when the call's request arrives.
LEMMA RequestWrites ==
  ASSUME IInv, [Next]_vars, NEW s \in Call, calls'[s] # calls[s], server' # server
  PROVE  SaveArrives(s) \/ RenameArrives(s) \/ AgainArrives(s)
<1>2. UserNext => server' = server
  BY DEF UserNext, Open, Leave, Retry, Edit, Type, Cancel, Rewrite, RewriteEnds, OfForm, Ask, Close, Save, Rename,
         Confirm, Send, service
<1>3. LoadStep \/ LoadFails => server' = server
  BY DEF LoadStep, LoadFails, ReadNote, ShowSettled, Watch, NotFound, StreamEvent, HearEvent, StreamCloses,
         StreamMisses, OfLoad, service
<1>4. OtherNext => calls' = calls
  BY DEF OtherNext, OtherChanges, OtherAsks, OtherDeletes, WorkerWrites, WorkerUpdates, client
<1>5. UNCHANGED vars => server' = server
  BY DEF vars, service
<1>6. PICK t \in Call : SaveArrives(t) \/ RenameArrives(t) \/ AgainArrives(t)
  <2>1. ASSUME NEW t \in Call,
               LoseRequest(t) \/ SaveAnswered(t) \/ SaveRefused(t) \/ RenameAnswered(t) \/ DialogRefused(t) \/ AgainAnswered(t)
        PROVE  server' = server
    BY <2>1 DEF LoseRequest, SaveAnswered, SaveRefused, RenameAnswered, DialogRefused, AgainAnswered, OfForm, service
  <2> QED BY <1>2, <1>3, <1>4, <1>5, <2>1 DEF Next, CallNext
<1>7. t = s
  <2>1. t # s => calls'[s] = calls[s]
    BY <1>6 DEF SaveArrives, RenameArrives, AgainArrives, Reply, Answered, Refused, IInv, StateType, CallsType
  <2> QED BY <2>1
<1> QED BY <1>6, <1>7

LEMMA CallWrites ==
  ASSUME IInv, [Next]_vars, NEW s \in Call, Saved(s)
  PROVE  SaveArrives(s) /\ Accepts(calls[s])
<1>1. calls[s].kind = "save" /\ calls'[s] # calls[s] /\ server'[calls[s].note] # server[calls[s].note]
  BY DEF Saved
<1>2. SaveArrives(s)
  BY <1>1, RequestWrites DEF RenameArrives, AgainArrives
<1> QED BY <1>1, <1>2 DEF SaveArrives

\* The service refuses a save whose text was read from an older version (NoteEditForm.tsx:107, NoteService.kt:164).
THEOREM SavesKnowTheText == Spec => SavesOverWhatWasRead
<1>1. ASSUME IInv, [Next]_vars, NEW s \in Call, Saved(s), calls[s].note = calls[s].base.id,
             calls[s].version = calls[s].base.read
      PROVE  StartedFrom(calls[s])
  <2>1. SaveArrives(s) /\ Accepts(calls[s])
    BY <1>1, CallWrites
  <2>2. calls[s].note \in Note /\ Fits(calls[s].base, server)
    BY <1>1, <2>1, CallFields DEF SaveArrives, IInv, CallsInv, ReadInv
  <2> QED BY <1>1, <2>1, <2>2 DEF Accepts, Fits, StartedFrom
<1>2. IInv /\ [Next]_vars =>
        [\A s \in Call : Saved(s) /\ calls[s].note = calls[s].base.id /\ calls[s].version = calls[s].base.read
           => StartedFrom(calls[s])]_vars
  BY <1>1
<1> QED BY Invariance, <1>2, PTL DEF Spec, SavesOverWhatWasRead

\* Every request of an opened "Summarize again" carries its one key, and a key the service has seen queues nothing
\* more, so a dialog queues one rewrite however often it is confirmed (ResummarizeDialog.tsx:27, SummaryRequestStore.kt:17-38).
THEOREM DialogQueuesOnce == Spec => QueuedOnce
<1>1. ASSUME IInv, DialogInv, [Next]_vars, NEW s \in Call, Queues(s), NEW k \in Key, SameDialog(s, k)
      PROVE  reserved[k] = NoNote
  <2>1. calls[s].kind = "again" /\ calls[s].at = "way" /\ calls'[s] # calls[s] /\ server' # server
    BY <1>1 DEF Queues
  <2>2. AgainArrives(s)
    BY <1>1, <2>1, RequestWrites DEF SaveArrives, RenameArrives
  <2>3. reserved[calls[s].key] = NoNote
    BY <2>1, <2>2 DEF AgainArrives, service
  <2>4. calls[s].key \in Key /\ 0 \notin Key
    BY <1>1, <2>1 DEF IInv, CallsInv, Key
  <2>5. dialog[calls[s].key] = calls[s].key /\ dialog[k] \in {0, k}
    BY <1>1, <2>4 DEF DialogInv
  <2> QED BY <1>1, <2>3, <2>4, <2>5 DEF SameDialog
<1>2. IInv /\ DialogInv /\ [Next]_vars =>
        [\A s \in Call : Queues(s) => \A k \in Key : SameDialog(s, k) => reserved[k] = NoNote]_vars
  BY <1>1
<1> QED BY Invariance, DialogInvariance, <1>2, PTL DEF Spec, QueuedOnce
=============================================================================
