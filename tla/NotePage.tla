------------------------------ MODULE NotePage ------------------------------
(***************************************************************************)
(* The note screen of one browser tab and note-service behind it: the load *)
(* that follows a note until it settles, its edit form, the rename and the *)
(* "Summarize again" dialogs, while other devices and the summary workers  *)
(* change the same notes and the user goes from one note to another.       *)
(*                                                                         *)
(* A text is known by the version of the note that brought it; titles and  *)
(* icons are left out, but changing one makes a version.  `ends` counts    *)
(* how often a note settled: was written or failed, or an update of it     *)
(* ended.                                                                  *)
(***************************************************************************)
EXTENDS Naturals, FiniteSets

CONSTANTS
  Note,           \* the user's notes
  NoNote,         \* no note: another screen is open
  Draft,          \* the notes whose summary is being written at first
  Shared,         \* the notes that other devices and chats change
  Call,           \* identities of requests of the page that are open at once
  NoCall,         \* no call
  MaxVersion,     \* bound on the versions of a note
  MaxKeys,        \* bound on summary requests
  MaxOpens,       \* bound on the notes the user opens
  MaxFaults,      \* bound on requests and answers the network loses
  MaxReconnects   \* MAX_STATUS_RECONNECTS

ASSUME NoteAssumption == NoNote \notin Note /\ Draft \subseteq Note /\ Shared \subseteq Note /\ NoCall \notin Call
ASSUME BoundsAssumption ==
  /\ MaxVersion \in Nat /\ MaxKeys \in Nat /\ MaxOpens \in Nat /\ MaxFaults \in Nat
  /\ MaxReconnects \in Nat

VARIABLES
  server,    \* per note, what note-service stores
  reserved,  \* per summary request the service took, the note it is for
  told,      \* how often the note of the load had settled when the lists were read again last
  used,      \* idempotency keys handed out so far
  dialog,    \* history: per key of this page, the opened dialog it is of, known by the first key it sent; 0 for others
  opened,    \* notes the user opened so far
  faults,    \* losses so far
  route,     \* the note of the URL
  mounted,   \* the number of the page that is mounted, or was last
  load,      \* the run of `load` that is not aborted
  shown,     \* the page's state
  form,      \* the edit form
  again,     \* the "Summarize again" dialog: is it open, and its key
  modal,     \* the call an open dialog waits for
  calls,     \* per call, where it is
  strayed    \* an answer for another note reached the page since it began to load

service == <<server, reserved>>
bounds == <<used, dialog, opened, faults>>
page == <<route, mounted, strayed>>
dialogs == <<again, modal>>
vars == <<service, told, bounds, page, load, shown, form, dialogs, calls>>

Version == 0..MaxVersion
Key == 1..MaxKeys
End == 0..(MaxKeys + 1)

Stored == [status : {"generating", "ready", "failed", "gone"}, version : Version, text : Version,
           pending : {0} \cup Key, ends : End]

NoView == [id |-> NoNote, status |-> "none", version |-> 0, read |-> 0, text |-> 0, updating |-> FALSE]
\* A note as an answer carries it: `read` is the version its text was read at.
View == {NoView} \cup [id : Note, status : {"generating", "ready", "failed", "gone"}, version : Version,
                       read : Version, text : Version, updating : BOOLEAN]

ViewOf(n, note) ==
  [id |-> n, status |-> note.status, version |-> note.version, read |-> note.version, text |-> note.text,
   updating |-> note.status = "ready" /\ note.pending # 0]

Shown == [status : {"loading", "generating", "ready", "failed", "notFound", "error"}, note : View]
Bare(status) == [status |-> status, note |-> NoView]
With(status, v) == [status |-> status, note |-> v]
Loading == Bare("loading")

\* why: the read the loop waits for, that of its head or that after a READY
\* event.  ends: how often the note had settled when the page last showed it
\* unsettled; read: the same at the last read.
Load == [note : Note \cup {NoNote}, at : {"none", "way", "back", "stream", "event"}, why : {"loop", "ready"},
         settled : BOOLEAN, tries : 0..(MaxReconnects + 1), seen : View, event : {"none", "ready", "failed"},
         ends : End, read : End]
LoadAt(n, at) ==
  [note |-> n, at |-> at, why |-> "loop", settled |-> TRUE, tries |-> 0, seen |-> NoView, event |-> "none",
   ends |-> 0, read |-> 0]
NoLoad == LoadAt(NoNote, "none")

\* base: the note the form was opened on.
Form == [on : BOOLEAN, base : View, typed : BOOLEAN, named : BOOLEAN, rewriting : BOOLEAN, saving : Call \cup {NoCall}]
NoForm == [on |-> FALSE, base |-> NoView, typed |-> FALSE, named |-> FALSE, rewriting |-> FALSE, saving |-> NoCall]

Again == [open : BOOLEAN, key : {0} \cup Key]
Closed == [open |-> FALSE, key |-> 0]

\* base: the note the form of a save was opened on; view: the note an answer carries.
CallState ==
  [kind : {"none", "save", "rename", "again"}, at : {"done", "way", "ok", "refused"}, note : Note \cup {NoNote},
   mount : 0..MaxOpens, route : Note \cup {NoNote}, version : Version, typed : BOOLEAN, named : BOOLEAN,
   text : Version, base : View, key : {0} \cup Key, view : View]
Idle ==
  [kind |-> "none", at |-> "done", note |-> NoNote, mount |-> 0, route |-> NoNote, version |-> 0, typed |-> FALSE,
   named |-> FALSE, text |-> 0, base |-> NoView, key |-> 0, view |-> NoView]

ServiceType ==
  /\ server \in [Note -> Stored] /\ reserved \in [Key -> Note \cup {NoNote}] /\ told \in End
BoundsType == used \in {0} \cup Key /\ opened \in 0..MaxOpens /\ faults \in 0..MaxFaults
PageType ==
  /\ route \in Note \cup {NoNote} /\ mounted \in 0..MaxOpens /\ strayed \in BOOLEAN
  /\ load \in Load /\ shown \in Shown /\ form \in Form /\ again \in Again
CallsType == modal \in Call \cup {NoCall} /\ calls \in [Call -> CallState]

StateType == ServiceType /\ BoundsType /\ PageType /\ CallsType
TypeOK == StateType /\ dialog \in [Key -> {0} \cup Key]

Fresh(status) == [status |-> status, version |-> 0, text |-> 0, pending |-> 0, ends |-> 0]

Init ==
  /\ server = [n \in Note |-> Fresh(IF n \in Draft THEN "generating" ELSE "ready")]
  /\ reserved = [k \in Key |-> NoNote] /\ told = 0
  /\ used = 0 /\ dialog = [k \in Key |-> 0] /\ opened = 0 /\ faults = 0
  /\ route = NoNote /\ mounted = 0 /\ strayed = FALSE
  /\ load = NoLoad /\ shown = Loading /\ form = NoForm /\ again = Closed /\ modal = NoCall
  /\ calls = [s \in Call |-> Idle]
-----------------------------------------------------------------------------
(* The page's state: what is shown decides which dialogs and form are      *)
(* mounted.                                                                *)

Here == route # NoNote
HasNote == shown.note.id # NoNote
FreeToAct == Here /\ shown.status = "ready" /\ ~form.on /\ ~again.open /\ modal = NoCall

\* The "Summarize again" dialog comes back with the next note, under a new key.
Show(s) ==
  /\ shown' = s
  /\ form' = IF s.status = "ready" THEN form ELSE NoForm
  /\ IF s.note.id = NoNote
       THEN again' = [open |-> again.open, key |-> 0] /\ modal' = NoCall
       ELSE UNCHANGED dialogs

\* A load aborts the one before and closes the form.
StartLoad(n) == load' = LoadAt(n, "way") /\ told' = 0 /\ form' = NoForm

\* Every note list of the tab is read again.
Tell == told' = IF load.note = NoNote THEN 0 ELSE server[load.note].ends

-----------------------------------------------------------------------------
(* The user goes from note to note; the page stays mounted between two.    *)

\* Variant: The effect that loads does not run again for another note.
OpenNoEffect(n) ==
  /\ n # route /\ opened < MaxOpens
  /\ opened' = opened + 1
  /\ route' = n /\ strayed' = FALSE
  /\ mounted' = IF Here THEN mounted ELSE opened'
  /\ IF Here THEN UNCHANGED <<load, told, shown, form, dialogs>>
     ELSE StartLoad(n) /\ shown' = Loading /\ again' = Closed /\ modal' = NoCall
  /\ UNCHANGED <<service, used, dialog, faults, calls>>

Open(n) ==
  /\ n # route /\ opened < MaxOpens
  /\ opened' = opened + 1
  /\ route' = n /\ strayed' = FALSE
  /\ mounted' = IF Here THEN mounted ELSE opened'
  /\ StartLoad(n) /\ shown' = Loading
  /\ again' = [open |-> again.open, key |-> 0] /\ modal' = NoCall
  /\ UNCHANGED <<service, used, dialog, faults, calls>>

Leave ==
  /\ Here
  /\ route' = NoNote /\ strayed' = FALSE
  /\ load' = NoLoad /\ told' = 0 /\ shown' = Loading /\ form' = NoForm /\ again' = Closed /\ modal' = NoCall
  /\ UNCHANGED <<service, bounds, mounted, calls>>

Retry ==
  /\ Here /\ shown.status = "error"
  /\ StartLoad(route) /\ shown' = Loading
  /\ again' = [open |-> again.open, key |-> 0] /\ modal' = NoCall
  /\ strayed' = FALSE
  /\ UNCHANGED <<service, bounds, route, mounted, calls>>

-----------------------------------------------------------------------------
(* The load: reads the note, and follows its status stream until it        *)
(* settles.                                                                *)

Settled(v) == v.status = "failed" \/ (v.status = "ready" /\ ~v.updating)
Unsettled(v) == v.status = "generating" \/ (v.status = "ready" /\ v.updating)
\* Variant: A note that settled while the stream was closed is shown and not told.
TellNever == UNCHANGED told

TellIfWatched == IF load.settled THEN UNCHANGED told ELSE Tell
OfLoad == <<service, bounds, page, calls>>
Stop == load' = [load EXCEPT !.at = "none", !.why = "loop", !.tries = 0, !.seen = NoView, !.event = "none", !.read = 0]

ReadNote ==
  /\ load.at = "way"
  /\ load' = [load EXCEPT !.at = "back", !.seen = ViewOf(load.note, server[load.note]),
                          !.read = server[load.note].ends]
  /\ UNCHANGED <<OfLoad, told, shown, form, dialogs>>

ShowSettled ==
  /\ load.at = "back" /\ Settled(load.seen)
  /\ IF load.why = "ready" /\ load.seen.status # "ready"
       THEN Show(Bare("error")) /\ UNCHANGED told
       ELSE Show(With(load.seen.status, load.seen)) /\ IF load.why = "loop" THEN TellIfWatched ELSE UNCHANGED told
  /\ Stop
  /\ UNCHANGED OfLoad

\* The loop counts each of its rounds, those after a READY event too.
NextTry == IF load.tries > MaxReconnects THEN load.tries ELSE load.tries + 1

Watch ==
  /\ load.at = "back" /\ Unsettled(load.seen)
  /\ IF load.why = "ready" /\ load.seen.status # "ready"
       THEN Show(Bare("error")) /\ Stop
       ELSE /\ Show(With(load.seen.status, load.seen))
            /\ load' = [load EXCEPT !.at = "stream", !.why = "loop", !.settled = FALSE,
                                    !.tries = IF load.why = "ready" THEN NextTry ELSE @, !.ends = load.read]
  /\ UNCHANGED <<OfLoad, told>>

NotFound ==
  /\ load.at = "back" /\ load.seen.status = "gone"
  /\ Show(Bare("notFound"))
  /\ Stop
  /\ UNCHANGED <<OfLoad, told>>

\* The service polls the note and sends how it settled.
StreamEvent ==
  /\ load.at = "stream"
  /\ LET v == ViewOf(load.note, server[load.note]) IN
       /\ Settled(v)
       /\ load' = [load EXCEPT !.at = "event", !.event = v.status]
  /\ UNCHANGED <<OfLoad, told, shown, form, dialogs>>

FailedView == [load.seen EXCEPT !.status = "failed"]

HearEvent ==
  /\ load.at = "event"
  /\ Tell
  /\ IF load.event = "ready"
       THEN load' = [load EXCEPT !.at = "way", !.why = "ready", !.event = "none", !.seen = NoView]
            /\ UNCHANGED <<shown, form, dialogs>>
       ELSE Stop /\ Show(With("failed", FailedView))
  /\ UNCHANGED OfLoad

\* The service ends a stream after ten minutes, a proxy earlier.
StreamCloses ==
  /\ load.at = "stream"
  /\ IF load.tries = MaxReconnects
       THEN /\ Stop
            /\ IF load.seen.status = "ready" THEN UNCHANGED <<shown, form, dialogs>> ELSE Show(Bare("error"))
       ELSE /\ load' = [load EXCEPT !.at = "way", !.why = "loop", !.tries = NextTry, !.seen = NoView]
            /\ UNCHANGED <<shown, form, dialogs>>
  /\ UNCHANGED <<OfLoad, told>>

\* A deleted note is not found when its stream opens, and breaks the stream later.
StreamMisses ==
  /\ load.at = "stream" /\ server[load.note].status = "gone"
  /\ \E status \in {"notFound", "error"} : Show(Bare(status))
  /\ Stop
  /\ UNCHANGED <<OfLoad, told>>

LoadFails ==
  /\ load.at \in {"way", "stream"} /\ faults < MaxFaults
  /\ faults' = faults + 1
  /\ Show(Bare("error"))
  /\ Stop
  /\ UNCHANGED <<service, told, used, dialog, opened, page, calls>>

LoadStep == ReadNote \/ ShowSettled \/ Watch \/ NotFound \/ StreamEvent \/ HearEvent \/ StreamCloses \/ StreamMisses

-----------------------------------------------------------------------------
(* Calls and their answers.                                                *)

Begin(s, c) == calls[s] = Idle /\ calls' = [calls EXCEPT ![s] = c]
Ends(s) == calls' = [calls EXCEPT ![s] = Idle]
Mounted(s) == Here /\ calls[s].mount = mounted

Answered(s, v) == calls' = [calls EXCEPT ![s].at = "ok", ![s].view = v]
Refused(s) == calls' = [calls EXCEPT ![s] = [Idle EXCEPT !.kind = calls[s].kind, !.at = "refused"]]
\* The answer reaches the page, or is lost and the page hears of a failure.
Reply(s, v) ==
  \/ Answered(s, v) /\ UNCHANGED faults
  \/ faults < MaxFaults /\ faults' = faults + 1 /\ Refused(s)

OfService == <<told, used, dialog, opened, page, load, shown, form, dialogs>>

LoseRequest(s) ==
  /\ calls[s].at = "way" /\ faults < MaxFaults
  /\ faults' = faults + 1
  /\ Refused(s)
  /\ UNCHANGED <<service, OfService>>

-----------------------------------------------------------------------------
(* Editing.                                                                *)

Busy == form.rewriting \/ form.saving # NoCall
Dirty == form.typed \/ form.named
OfForm == <<service, told, bounds, page, load, shown, dialogs>>

Edit ==
  /\ FreeToAct /\ ~shown.note.updating
  /\ form' = [NoForm EXCEPT !.on = TRUE, !.base = shown.note]
  /\ UNCHANGED <<OfForm, calls>>

Type ==
  /\ form.on /\ ~Busy
  /\ \E typed, named \in BOOLEAN :
       /\ <<typed, named>> # <<form.typed, form.named>>
       /\ form' = [form EXCEPT !.typed = typed, !.named = named]
  /\ UNCHANGED <<OfForm, calls>>

Cancel ==
  /\ form.on /\ ~Busy
  /\ form' = NoForm
  /\ UNCHANGED <<OfForm, calls>>

Rewrite ==
  /\ form.on /\ ~Busy
  /\ form' = [form EXCEPT !.rewriting = TRUE]
  /\ UNCHANGED <<OfForm, calls>>

\* The whole text came, or reads the same, or the rewrite failed, was stopped or refused.
RewriteEnds ==
  /\ form.on /\ form.rewriting
  /\ \E typed \in {form.typed, TRUE} : form' = [form EXCEPT !.rewriting = FALSE, !.typed = typed]
  /\ UNCHANGED <<OfForm, calls>>

SaveCall ==
  [kind |-> "save", at |-> "way", note |-> shown.note.id, mount |-> mounted, route |-> route,
   version |-> shown.note.version, typed |-> form.typed, named |-> form.named, text |-> shown.note.text,
   base |-> form.base, key |-> 0, view |-> NoView]

Save(s) ==
  /\ form.on /\ ~Busy /\ Dirty
  /\ Begin(s, SaveCall)
  /\ form' = [form EXCEPT !.saving = s]
  /\ UNCHANGED OfForm

Editable(n) == server[n].status = "ready" /\ server[n].pending = 0
Changes(n, c) == c.typed \/ c.named \/ c.text # server[n].text
\* Variant: The service saves whatever version the edit carries.
AcceptsAny(c) == Editable(c.note)

Accepts(c) == Editable(c.note) /\ server[c.note].version = c.version

SaveArrives(s) ==
  LET c == calls[s]
      n == c.note
      v == server[n].version + 1
      saved == IF Changes(n, c)
                 THEN [server[n] EXCEPT !.version = v, !.text = IF c.typed THEN v ELSE c.text]
                 ELSE server[n]
  IN /\ c.kind = "save" /\ c.at = "way"
     /\ IF Accepts(c)
          THEN /\ Changes(n, c) => v <= MaxVersion
               /\ server' = [server EXCEPT ![n] = saved]
               /\ Reply(s, ViewOf(n, saved))
          ELSE Refused(s) /\ UNCHANGED <<server, faults>>
     /\ UNCHANGED <<reserved, OfService>>

\* The page shows the saved note, whichever it shows by now.
SaveAnswered(s) ==
  /\ calls[s].kind = "save" /\ calls[s].at = "ok"
  /\ Tell /\ Ends(s)
  /\ IF Mounted(s)
       THEN /\ shown' = With("ready", calls[s].view) /\ form' = NoForm
            /\ strayed' = (strayed \/ calls[s].note # route)
       ELSE UNCHANGED <<shown, form, strayed>>
  /\ UNCHANGED <<service, bounds, route, mounted, load, dialogs>>

SaveRefused(s) ==
  /\ calls[s].kind = "save" /\ calls[s].at = "refused"
  /\ Ends(s)
  /\ form' = IF form.saving = s THEN [form EXCEPT !.saving = NoCall] ELSE form
  /\ UNCHANGED OfForm

-----------------------------------------------------------------------------
(* Renaming.                                                               *)

RenameCall ==
  [Idle EXCEPT !.kind = "rename", !.at = "way", !.note = shown.note.id, !.mount = mounted, !.route = route]

Rename(s) ==
  /\ FreeToAct
  /\ Begin(s, RenameCall)
  /\ modal' = s
  /\ UNCHANGED <<service, told, bounds, page, load, shown, form, again>>

\* The service takes the newest version, whichever the page shows.
RenameArrives(s) ==
  LET n == calls[s].note
      v == server[n].version + 1
      renamed == [server[n] EXCEPT !.version = v]
  IN /\ calls[s].kind = "rename" /\ calls[s].at = "way"
     /\ IF Editable(n)
          THEN v <= MaxVersion /\ server' = [server EXCEPT ![n] = renamed] /\ Reply(s, ViewOf(n, renamed))
          ELSE Refused(s) /\ UNCHANGED <<server, faults>>
     /\ UNCHANGED <<reserved, OfService>>

CloseModal(s) == modal' = IF modal = s THEN NoCall ELSE modal

\* The page takes over the new version, and keeps the text.
RenameAnswered(s) ==
  LET v == calls[s].view
  IN /\ calls[s].kind = "rename" /\ calls[s].at = "ok"
     /\ Tell /\ Ends(s) /\ CloseModal(s)
     /\ IF Mounted(s) /\ HasNote
          THEN /\ shown' = [shown EXCEPT !.note.version = v.version]
               /\ strayed' = (strayed \/ calls[s].note # route)
          ELSE UNCHANGED <<shown, strayed>>
     /\ UNCHANGED <<service, bounds, route, mounted, load, form, again>>

DialogRefused(s) ==
  /\ calls[s].kind \in {"rename", "again"} /\ calls[s].at = "refused"
  /\ Ends(s) /\ CloseModal(s)
  /\ UNCHANGED <<service, told, bounds, page, load, shown, form, again>>

-----------------------------------------------------------------------------
(* "Summarize again".                                                      *)

Ask ==
  /\ FreeToAct /\ ~shown.note.updating
  /\ again' = [open |-> TRUE, key |-> 0]
  /\ UNCHANGED <<service, told, bounds, page, load, shown, form, modal, calls>>

Close ==
  /\ again.open /\ HasNote /\ modal = NoCall
  /\ again' = Closed
  /\ UNCHANGED <<service, told, bounds, page, load, shown, form, modal, calls>>

AgainCall(key) ==
  [Idle EXCEPT !.kind = "again", !.at = "way", !.note = shown.note.id, !.mount = mounted, !.route = route, !.key = key]

\* The request of an opened dialog: `dialog` remembers which one sent the key.
Send(s, key) ==
  /\ Begin(s, AgainCall(key))
  /\ again' = [open |-> TRUE, key |-> key] /\ modal' = s
  /\ dialog' = [dialog EXCEPT ![key] = IF again.key = 0 THEN key ELSE dialog[again.key]]
  /\ UNCHANGED <<service, told, opened, faults, page, load, shown, form>>

\* Variant: Every try has a key of its own.
ConfirmNewKey(s) ==
  /\ again.open /\ HasNote /\ modal = NoCall
  /\ used < MaxKeys /\ used' = used + 1
  /\ Send(s, used + 1)

\* One key per opened dialog; a second try sends it again.
Confirm(s) ==
  /\ again.open /\ HasNote /\ modal = NoCall
  /\ IF again.key = 0 THEN used < MaxKeys /\ used' = used + 1 /\ Send(s, used + 1)
     ELSE Send(s, again.key) /\ UNCHANGED used

AgainArrives(s) ==
  LET k == calls[s].key
      n == calls[s].note
      queued == [server[n] EXCEPT !.pending = k]
  IN /\ calls[s].kind = "again" /\ calls[s].at = "way"
     /\ IF reserved[k] = n /\ server[n].status # "gone"
          THEN Reply(s, ViewOf(n, server[n])) /\ UNCHANGED service
        ELSE IF reserved[k] = NoNote /\ Editable(n)
          THEN /\ server' = [server EXCEPT ![n] = queued]
               /\ reserved' = [reserved EXCEPT ![k] = n]
               /\ Reply(s, ViewOf(n, queued))
        ELSE Refused(s) /\ UNCHANGED <<service, faults>>
     /\ UNCHANGED OfService

\* The page greys the note and loads the note that was open when the user confirmed.
AgainAnswered(s) ==
  /\ calls[s].kind = "again" /\ calls[s].at = "ok"
  /\ Ends(s) /\ CloseModal(s)
  /\ IF Mounted(s)
       THEN /\ shown' = IF shown.status = "ready" THEN [shown EXCEPT !.note.updating = calls[s].view.updating] ELSE shown
            /\ StartLoad(calls[s].route) /\ again' = Closed
            /\ strayed' = (strayed \/ calls[s].route # route)
       ELSE UNCHANGED <<told, shown, load, form, again, strayed>>
  /\ UNCHANGED <<service, bounds, route, mounted>>

-----------------------------------------------------------------------------
(* Other devices and the workers.                                          *)

client == <<told, dialog, opened, faults, page, load, shown, form, dialogs, calls>>

OtherChanges(n) ==
  /\ Editable(n) /\ server[n].version < MaxVersion
  /\ LET v == server[n].version + 1 IN
       \E text \in {server[n].text, v} : server' = [server EXCEPT ![n].version = v, ![n].text = text]
  /\ UNCHANGED <<reserved, used, client>>

\* A summary of the note's chat is asked for in the chat.
OtherAsks(n) ==
  /\ Editable(n) /\ used < MaxKeys
  /\ used' = used + 1
  /\ server' = [server EXCEPT ![n].pending = used']
  /\ reserved' = [reserved EXCEPT ![used'] = n]
  /\ UNCHANGED client

OtherDeletes(n) ==
  /\ server[n].status # "gone"
  /\ server' = [server EXCEPT ![n].status = "gone", ![n].pending = 0]
  /\ UNCHANGED <<reserved, used, client>>

\* The placeholder of a summary gets its text, or fails.
WorkerWrites(n) ==
  /\ server[n].status = "generating" /\ server[n].version < MaxVersion /\ server[n].ends <= MaxKeys
  /\ LET v == server[n].version + 1 IN
       \E status \in {"ready", "failed"} :
         server' = [server EXCEPT ![n] = [status |-> status, version |-> v, text |-> v, pending |-> 0,
                                          ends |-> @.ends + 1]]
  /\ UNCHANGED <<reserved, used, client>>

\* An update or a rewrite replaces the text; or there was nothing new, or it failed.
WorkerUpdates(n) ==
  /\ server[n].status = "ready" /\ server[n].pending # 0 /\ server[n].ends <= MaxKeys
  /\ \/ /\ server[n].version < MaxVersion
        /\ LET v == server[n].version + 1 IN
             server' = [server EXCEPT ![n].version = v, ![n].text = v, ![n].pending = 0, ![n].ends = @ + 1]
     \/ server' = [server EXCEPT ![n].pending = 0, ![n].ends = @ + 1]
  /\ UNCHANGED <<reserved, used, client>>

-----------------------------------------------------------------------------
UserNext == \/ \E n \in Note : Open(n)
            \/ Leave \/ Retry \/ Edit \/ Type \/ Cancel \/ Rewrite \/ RewriteEnds \/ Ask \/ Close
            \/ \E s \in Call : Save(s) \/ Rename(s) \/ Confirm(s)
CallNext == \E s \in Call : \/ LoseRequest(s)
                            \/ SaveArrives(s) \/ SaveAnswered(s) \/ SaveRefused(s)
                            \/ RenameArrives(s) \/ RenameAnswered(s) \/ DialogRefused(s)
                            \/ AgainArrives(s) \/ AgainAnswered(s)
OtherNext == \/ \E n \in Shared : OtherChanges(n) \/ OtherAsks(n) \/ OtherDeletes(n)
             \/ \E n \in Note : WorkerWrites(n) \/ WorkerUpdates(n)

Next == UserNext \/ LoadStep \/ LoadFails \/ CallNext \/ OtherNext

Spec == Init /\ [][Next]_vars

\* The browser delivers what the service sends, the service ends every
\* stream, and a summary request ends as every outbox event does.
FairSpec ==
  /\ Spec
  /\ WF_vars(LoadStep)
  /\ \A n \in Note : WF_vars(WorkerWrites(n) \/ WorkerUpdates(n))

-----------------------------------------------------------------------------
(* Properties.                                                             *)

\* The page and its load show the note of the URL, unless an answer to a
\* request made on the page of another note came since the load began
\* (NoteDetailPage.tsx:114-122, :199-202; the page is not remounted between notes).
ShownIsOfRoute ==
  /\ shown.note.id \in {NoNote, route} \/ strayed
  /\ load.note \in {NoNote, route} \/ strayed

\* When a load that showed its note unsettled shows it settled, every note
\* list is read again after the note settled (NoteDetailPage.tsx:125-140,
\* :160-163, noteApi.ts:187).
LoadShows == load.at \in {"back", "event"} /\ load'.at = "none" /\ shown'.status \in {"ready", "failed"}
ListsHear == [][LoadShows /\ ~load.settled => told' > load.ends]_vars

Saved(s) ==
  calls[s].kind = "save" /\ calls[s].at = "way" /\ calls'[s].at # "way" /\ server'[calls[s].note] # server[calls[s].note]
StartedFrom(c) == server[c.note].text = c.base.text

\* A save replaces the text its form was opened on, if it goes to the note
\* and carries the version this text was read with (NoteEditForm.tsx:106-107,
\* NoteService.kt:162).
SavesOverWhatWasRead ==
  [][\A s \in Call : Saved(s) /\ calls[s].note = calls[s].base.id /\ calls[s].version = calls[s].base.read
       => StartedFrom(calls[s])]_vars

\* noteApi.ts:18: "an edit sends it back so the service refuses to overwrite
\* a newer one": a save replaces the text its form was opened on.
NoLostEdit == [][\A s \in Call : Saved(s) => StartedFrom(calls[s])]_vars

Queues(s) ==
  calls[s].kind = "again" /\ calls[s].at = "way" /\ calls'[s].at # "way" /\ server' # server
SameDialog(s, k) == dialog[k] = dialog[calls[s].key]

\* However often an opened "Summarize again" is confirmed after lost answers,
\* it queues one rewrite, even when the first has ended by then
\* (ResummarizeDialog.tsx:26-30, NoteFacade.kt:39-57).
QueuedOnce == [][\A s \in Call : Queues(s) => \A k \in Key : SameDialog(s, k) => reserved[k] = NoNote]_vars
=============================================================================
