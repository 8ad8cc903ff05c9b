------------------------------ MODULE ChatPage ------------------------------
(***************************************************************************)
(* The chat page of one browser tab: how a prompt, a retry of a reply and  *)
(* a stop travel to note-service and back while the user reloads, leaves   *)
(* and opens other chats, and what session storage keeps of them.          *)
(*                                                                         *)
(* A prompt is known by its idempotency key, a turn by the key that        *)
(* started it, a chat that New chat created by its first key, and a reply  *)
(* by the attempt that wrote it.  Chat Old was there before.  0 is no id;  *)
(* stored[0] is the request of a chat that has no id yet.                  *)
(*                                                                         *)
(* A call is one run of an async function of the page: the load of a       *)
(* history, executeChatRequest (which ends in reconcile) or reconcile.     *)
(***************************************************************************)
EXTENDS Naturals, FiniteSets

CONSTANTS
  MaxKeys,     \* bound on turns: prompts of this tab and of other devices
  MaxReplies,  \* bound on the attempts of a turn
  MaxFaults,   \* bound on requests and answers the network loses
  MaxOpens,    \* bound on the times the user opens or reloads a page
  MaxLate,     \* bound on aborted requests that may still arrive
  Call,        \* identities of calls that are open at once
  NoCall       \* no call

ASSUME BoundsAssumption == MaxKeys \in Nat /\ MaxReplies \in Nat \ {0} /\ MaxFaults \in Nat
ASSUME BoundsOfUserAssumption == MaxOpens \in Nat /\ MaxLate \in Nat
ASSUME CallAssumption == NoCall \notin Call

VARIABLES
  turn,     \* server: per key, its turn
  latest,   \* server: per chat, the turn whose messages are its last, 0 for none
  posts,    \* POST requests that left the page and did not arrive
  faults,   \* losses so far
  asked,    \* keys handed out so far
  typed,    \* prompts the user of this tab typed so far
  opened,   \* pages the user opened or reloaded so far
  page,     \* the route: "new", "chat" or "away"
  chat,     \* the chat of the route
  going,    \* a navigation to this chat started and its effects have not run
  active,   \* activeChatIdRef
  loaded,   \* pagePhase
  phase,    \* generationPhase
  pending,  \* pendingChatRequestRef
  target,   \* reconciliationTargetRef
  shown,    \* the last row of persistedMessages
  stream,   \* streamAbortRef: the call whose request is out
  recon,    \* reconciliationAbortRef: the call that reconciles
  calls,    \* per call, where it is
  stored    \* session storage: the pending request by chat

server == <<turn, latest>>
route == <<page, chat, going>>
view == <<active, loaded, phase, pending, target, shown>>
aborts == <<stream, recon>>
vars == <<server, posts, faults, asked, typed, opened, route, view, aborts, calls, stored>>

Key == 1..MaxKeys
Old == MaxKeys + 1
Chat == 1..Old
Reply == 1..MaxReplies

Terminal == {"complete", "failed", "canceled"}
Turn == [chat : {0} \cup Chat, text : {0} \cup Key, reply : {0} \cup Reply,
         status : {"none", "running", "lost"} \cup Terminal]
NoTurn == [chat |-> 0, text |-> 0, reply |-> 0, status |-> "none"]

Request == [kind : {"none", "prompt", "retry"}, key : {0} \cup Key, text : {0} \cup Key,
            turn : {0} \cup Key, not : {0} \cup Reply, stop : BOOLEAN]
NoRequest == [kind |-> "none", key |-> 0, text |-> 0, turn |-> 0, not |-> 0, stop |-> FALSE]

Stopped(r) == [kind |-> r.kind, key |-> r.key, text |-> r.text, turn |-> r.turn, not |-> r.not, stop |-> TRUE]

Target == [turn : {0} \cup Key, not : {0} \cup Reply, set : BOOLEAN]
NoTarget == [turn |-> 0, not |-> 0, set |-> FALSE]
TargetOf(t, n) == [turn |-> t, not |-> n, set |-> TRUE]

\* reply 0 is the user's message of the turn.
Row == [chat : {0} \cup Chat, turn : {0} \cup Key, reply : {0} \cup Reply, failed : BOOLEAN]
NoRow == [chat |-> 0, turn |-> 0, reply |-> 0, failed |-> FALSE]

Streaming == {"way", "head", "events", "refused", "failed"}
Reconciling == {"saved", "cancelling", "canceled", "notCanceled", "once", "poll", "waiting"}
CallState ==
  [kind : {"none", "load", "exec", "reconcile"},
   at : {"done", "load", "reread"} \cup Streaming \cup Reconciling,
   live : BOOLEAN, cut : BOOLEAN, poll : BOOLEAN,
   chat : {0} \cup Chat, key : {0} \cup Key, text : {0} \cup Key,
   turn : {0} \cup Key, not : {0} \cup Reply]
Idle ==
  [kind |-> "none", at |-> "done", live |-> FALSE, cut |-> FALSE, poll |-> FALSE,
   chat |-> 0, key |-> 0, text |-> 0, turn |-> 0, not |-> 0]

Post == [call : Call \cup {NoCall}, kind : {"initial", "send", "retry", "cancel"}, chat : {0} \cup Chat,
         key : {0} \cup Key, text : {0} \cup Key, turn : {0} \cup Key, not : {0} \cup Reply]

ServerType ==
  /\ turn \in [Key -> Turn] /\ latest \in [Chat -> {0} \cup Key]
  /\ posts \in SUBSET Post
  /\ faults \in 0..MaxFaults /\ asked \in {0} \cup Key /\ typed \in {0} \cup Key /\ opened \in 0..MaxOpens

RouteType ==
  /\ page \in {"new", "chat", "away"} /\ chat \in {0} \cup Chat /\ going \in {0} \cup Chat

ViewType ==
  /\ active \in {0} \cup Chat /\ loaded \in {"loading", "error", "ready"}
  /\ phase \in {"idle", "streaming", "settling", "required"}
  /\ pending \in Request /\ target \in Target /\ shown \in Row

CallsType ==
  /\ stream \in Call \cup {NoCall} /\ recon \in Call \cup {NoCall}
  /\ calls \in [Call -> CallState] /\ stored \in [{0} \cup Chat -> Request]

TypeOK == ServerType /\ RouteType /\ ViewType /\ CallsType

Init ==
  /\ turn = [k \in Key |-> NoTurn] /\ latest = [c \in Chat |-> 0]
  /\ posts = {} /\ faults = 0 /\ asked = 0 /\ typed = 0 /\ opened = 0
  /\ page = "away" /\ chat = 0 /\ going = 0
  /\ active = 0 /\ loaded = "loading" /\ phase = "idle"
  /\ pending = NoRequest /\ target = NoTarget /\ shown = NoRow
  /\ stream = NoCall /\ recon = NoCall
  /\ calls = [s \in Call |-> Idle] /\ stored = [c \in {0} \cup Chat |-> NoRequest]

-----------------------------------------------------------------------------
(* note-service, as far as a page can tell.                                *)

client == <<asked, typed, opened, route, view, aborts, stored>>

Ended(k) == turn[k].status \in Terminal
HasTurn(c, status) == latest[c] # 0 /\ turn[latest[c]].status = status
Exists(c) == c = Old \/ latest[c] # 0

Running(c, text, n) == [chat |-> c, text |-> text, reply |-> n, status |-> "running"]

\* A turn whose lease ran out is failed before another one starts.
StartTurn(c, k, text) ==
  /\ ~HasTurn(c, "running")
  /\ turn' = [j \in Key |-> IF j = k THEN Running(c, text, 1)
                            ELSE IF j = latest[c] /\ HasTurn(c, "lost") THEN [turn[j] EXCEPT !.status = "failed"]
                            ELSE turn[j]]
  /\ latest' = [latest EXCEPT ![c] = k]

\* The next attempt of a turn whose generation was lost, while attempts are left.
Reclaim(k) ==
  turn' = [turn EXCEPT ![k] = IF @.reply < MaxReplies THEN Running(@.chat, @.text, @.reply + 1)
                                                      ELSE [@ EXCEPT !.status = "failed"]]

\* The server is done with a request; its answer reaches the call that waits for it, or is lost.
Answer(p, at, lost) ==
  /\ posts' = posts \ {p}
  /\ \/ p.call = NoCall /\ UNCHANGED <<calls, faults>>
     \/ p.call # NoCall /\ calls' = [calls EXCEPT ![p.call].at = at] /\ UNCHANGED faults
     \/ /\ p.call # NoCall /\ faults < MaxFaults /\ faults' = faults + 1
        /\ calls' = [calls EXCEPT ![p.call].at = lost]

\* A prompt nobody sent before starts a turn; other devices or its text may get it refused.
TakePrompt(p) ==
  /\ p.kind \in {"initial", "send"} /\ turn[p.key].status = "none"
  /\ \/ StartTurn(IF p.kind = "initial" THEN p.key ELSE p.chat, p.key, p.text)
        /\ Answer(p, "head", "failed")
     \/ Answer(p, "refused", "failed") /\ UNCHANGED server

\* The key of a turn is replayed: its outcome, or pending, or the next attempt of a lost generation.
ReplayPrompt(p) ==
  /\ p.kind \in {"initial", "send"} /\ turn[p.key].status # "none"
  /\ IF turn[p.key].status = "lost" THEN Reclaim(p.key) ELSE UNCHANGED turn
  /\ Answer(p, "head", "failed")
  /\ UNCHANGED latest

TakeRetry(p) ==
  /\ p.kind = "retry"
  /\ \/ /\ turn[p.turn].status = "running" \/ (Ended(p.turn) /\ turn[p.turn].reply # p.not)
        /\ Answer(p, "head", "failed") /\ UNCHANGED turn
     \/ turn[p.turn].status = "lost" /\ Reclaim(p.turn) /\ Answer(p, "head", "failed")
     \/ /\ turn[p.turn].status = "failed" /\ turn[p.turn].reply = p.not
        /\ latest[p.chat] = p.turn /\ p.not < MaxReplies
        /\ turn' = [turn EXCEPT ![p.turn] = Running(p.chat, @.text, p.not + 1)]
        /\ Answer(p, "head", "failed")
     \/ /\ Ended(p.turn) /\ turn[p.turn].reply = p.not
        /\ turn[p.turn].status # "failed" \/ latest[p.chat] # p.turn
        /\ Answer(p, "refused", "failed") /\ UNCHANGED turn
  /\ UNCHANGED latest

\* Variant: a cancel that comes after the reply ended takes its place.
TakeCancelAnyway(p) ==
  /\ p.kind = "cancel"
  /\ turn' = [turn EXCEPT ![p.turn].status = "canceled"]
  /\ Answer(p, "canceled", "notCanceled")
  /\ UNCHANGED latest

\* A cancel of a turn that ended is safe and changes nothing.
TakeCancel(p) ==
  /\ p.kind = "cancel"
  /\ turn' = IF Ended(p.turn) THEN turn ELSE [turn EXCEPT ![p.turn].status = "canceled"]
  /\ Answer(p, "canceled", "notCanceled")
  /\ UNCHANGED latest

Take(p) == (TakePrompt(p) \/ ReplayPrompt(p) \/ TakeRetry(p) \/ TakeCancel(p)) /\ UNCHANGED client

\* A request that never arrives.
Lose(p) ==
  /\ faults < MaxFaults /\ faults' = faults + 1
  /\ posts' = posts \ {p}
  /\ calls' = IF p.call = NoCall THEN calls
              ELSE [calls EXCEPT ![p.call].at = IF p.kind = "cancel" THEN "notCanceled" ELSE "failed"]
  /\ UNCHANGED <<server, client>>

Generate(k) ==
  /\ turn[k].status = "running"
  /\ \E end \in {"complete", "failed"} : turn' = [turn EXCEPT ![k].status = end]
  /\ UNCHANGED <<latest, posts, faults, client, calls>>

\* The instance that generates goes down.
Crash(k) ==
  /\ turn[k].status = "running"
  /\ turn' = [turn EXCEPT ![k].status = "lost"]
  /\ UNCHANGED <<latest, posts, faults, client, calls>>

\* Another device of the user writes to the chat, or retries its latest reply.
OtherPrompt(c) ==
  /\ asked < MaxKeys /\ Exists(c)
  /\ asked' = asked + 1
  /\ StartTurn(c, asked + 1, 0)
  /\ UNCHANGED <<posts, faults, typed, opened, route, view, aborts, calls, stored>>

OtherRetry(k) ==
  /\ turn[k].status = "failed" /\ turn[k].reply < MaxReplies /\ latest[turn[k].chat] = k
  /\ turn' = [turn EXCEPT ![k] = Running(@.chat, @.text, @.reply + 1)]
  /\ UNCHANGED <<latest, posts, faults, client, calls>>

Server ==
  \/ \E p \in posts : Take(p) \/ Lose(p)
  \/ \E k \in Key : Generate(k) \/ Crash(k) \/ OtherRetry(k)
  \/ \E c \in Chat : OtherPrompt(c)

\* The latest page of a chat ends with the reply of its last turn, or with the user's message.
LastRow(c) ==
  IF latest[c] = 0 THEN NoRow
  ELSE [chat |-> c, turn |-> latest[c],
        reply |-> IF Ended(latest[c]) THEN turn[latest[c]].reply ELSE 0,
        failed |-> turn[latest[c]].status = "failed"]

\* Variant: the reply that a retry replaces counts as its outcome.
FoundAny(c, t, n) == t # 0 /\ turn[t].chat = c /\ Ended(t)

\* findPersistedReply, of rows that all have a turn.
Found(c, t, n) == t # 0 /\ turn[t].chat = c /\ Ended(t) /\ turn[t].reply # n

-----------------------------------------------------------------------------
(* Calls.                                                                  *)

Loading(c) ==
  [kind |-> "load", at |-> "load", live |-> TRUE, cut |-> FALSE, poll |-> FALSE,
   chat |-> c, key |-> 0, text |-> 0, turn |-> 0, not |-> 0]

\* executeChatRequest: the request is initial while its chat has no id.
Executing(r, c) ==
  [kind |-> "exec", at |-> "way", live |-> TRUE, cut |-> FALSE, poll |-> FALSE,
   chat |-> c, key |-> r.key, text |-> r.text, turn |-> r.turn, not |-> r.not]

PostOf(s, r, c) ==
  [call |-> s, kind |-> IF c = 0 THEN "initial" ELSE IF r.kind = "retry" THEN "retry" ELSE "send",
   chat |-> c, key |-> r.key, text |-> r.text, turn |-> r.turn, not |-> r.not]

CancelOf(s) ==
  [call |-> s, kind |-> "cancel", chat |-> calls[s].chat,
   key |-> 0, text |-> 0, turn |-> calls[s].turn, not |-> 0]

\* A call in reconcile for turn t of chat c, whose reply n is replaced.
Awaiting(kind, at, c, t, n, poll) ==
  [kind |-> kind, at |-> at, live |-> TRUE, cut |-> FALSE, poll |-> poll,
   chat |-> c, key |-> 0, text |-> 0, turn |-> t, not |-> n]

Heard(x, c, t, cut) ==
  [kind |-> x.kind, at |-> "events", live |-> x.live, cut |-> cut, poll |-> x.poll,
   chat |-> c, key |-> x.key, text |-> x.text, turn |-> t, not |-> x.not]

\* Requests that calls aborted: the server may still get them, nobody hears the answer.
Late(p) == [call |-> NoCall, kind |-> p.kind, chat |-> p.chat,
            key |-> p.key, text |-> p.text, turn |-> p.turn, not |-> p.not]
Unheard(aborted) ==
  LET cut == {p \in posts : p.call \in aborted}
      late == {p \in posts : p.call = NoCall} \cup {Late(p) : p \in cut}
  IN (posts \ cut) \cup (IF Cardinality(late) <= MaxLate THEN late ELSE {})

Execute(s, r, c, others, left) ==
  /\ calls' = [others EXCEPT ![s] = Executing(r, c)]
  /\ stream' = s /\ phase' = "streaming"
  /\ posts' = left \cup {PostOf(s, r, c)}

\* Variant: a stored request is read back without its stop.
ReadUnstopped(r) ==
  [kind |-> r.kind, key |-> r.key, text |-> r.text, turn |-> r.turn, not |-> r.not, stop |-> FALSE]
\* readPendingChatRequest
Read(r) == r

\* Storage without the requests of chats cs.
Without(cs) == [c \in {0} \cup Chat |-> IF c \in cs THEN NoRequest ELSE stored[c]]

\* clearPendingChatRequest: on the page of a chat the request of a new chat goes too.
ClearedWith(c) == {c} \cup (IF page = "chat" THEN {0} ELSE {})

\* The end of executeChatRequest on the page of a new chat: it goes to the chat it created.
Navigates(s) == calls[s].kind = "exec" /\ page = "new" /\ calls[s].chat # 0

Return(s, cs) ==
  /\ calls' = [calls EXCEPT ![s] = Idle]
  /\ recon' = IF recon = s THEN NoCall ELSE recon
  /\ going' = IF Navigates(s) THEN calls[s].chat ELSE going
  /\ stored' = Without(cs \cup (IF Navigates(s) THEN {0} ELSE {}))
  /\ UNCHANGED <<page, chat>>

Aborted(s) == IF recon \in Call \ {s} THEN [calls EXCEPT ![recon].cut = TRUE] ELSE calls

\* The start of reconcile: a stopped turn is looked up before it is canceled.
Reconcile(s, kind, c, t, n, stop, poll) ==
  /\ target' = TargetOf(t, n)
  /\ IF t = 0
     THEN /\ phase' = "required"
          /\ recon' = NoCall
          /\ calls' = [Aborted(s) EXCEPT ![s] = Idle]
     ELSE /\ phase' = "settling"
          /\ recon' = s
          /\ calls' = [Aborted(s) EXCEPT ![s] =
               Awaiting(kind, IF stop THEN "saved" ELSE IF poll THEN "poll" ELSE "once", c, t, n, poll)]

-----------------------------------------------------------------------------
(* Routes.                                                                 *)

Free(cs) == {s \in Call : cs[s].kind = "none"}

\* A call of a route that was left still handles an answer that is already there; its abort ended any other.
Stale(x) ==
  IF x.at \in {"load", "head", "saved", "poll", "once"}
  THEN [kind |-> x.kind, at |-> x.at, live |-> FALSE, cut |-> x.cut, poll |-> x.poll,
        chat |-> x.chat, key |-> x.key, text |-> x.text, turn |-> x.turn, not |-> x.not]
  ELSE Idle

\* The effect of the route of a new chat sends a request that was cut off again.
OpenNew(others, kept, tg) ==
  /\ page' = "new" /\ chat' = 0 /\ going' = 0
  /\ active' = 0 /\ loaded' = "ready" /\ shown' = NoRow
  /\ pending' = Read(kept[0]) /\ stored' = kept /\ recon' = NoCall
  /\ IF kept[0].kind = "none"
     THEN /\ phase' = "idle" /\ stream' = NoCall /\ target' = tg
          /\ calls' = others /\ posts' = Unheard(Call)
     ELSE /\ target' = TargetOf(0, 0)
          /\ \E s \in Free(others) : Execute(s, Read(kept[0]), 0, others, Unheard(Call))

\* The effect of the route of a chat loads its history.
OpenChat(c, others, kept, tg) ==
  /\ page' = "chat" /\ chat' = c /\ going' = 0
  /\ active' = c /\ loaded' = "loading" /\ phase' = "idle" /\ shown' = NoRow
  /\ pending' = Read(kept[c]) /\ stored' = kept /\ target' = tg
  /\ stream' = NoCall /\ recon' = NoCall /\ posts' = Unheard(Call)
  /\ \E s \in Free(others) : calls' = [others EXCEPT ![s] = Loading(c)]

Close(others, kept) ==
  /\ page' = "away" /\ chat' = 0 /\ going' = 0
  /\ active' = 0 /\ loaded' = "loading" /\ phase' = "idle" /\ shown' = NoRow
  /\ pending' = NoRequest /\ stored' = kept /\ target' = NoTarget
  /\ stream' = NoCall /\ recon' = NoCall /\ posts' = Unheard(Call)
  /\ calls' = others

\* Leaving the new chat drops the initial request once its chat has an id: it lives on under that.
Left ==
  Without(IF page = "new" /\ active # 0 /\ pending.kind # "none" /\ stored[0].key = pending.key
          THEN {0} ELSE {})

AllStale == [s \in Call |-> Stale(calls[s])]

\* The user goes elsewhere; calls of the page that is left go stale.
Go ==
  /\ opened < MaxOpens /\ opened' = opened + 1
  /\ \/ page # "new" /\ OpenNew(AllStale, Left, target)
     \/ \E c \in Chat : (page = "chat" => c # chat) /\ Exists(c) /\ OpenChat(c, AllStale, Left, target)
     \/ page # "away" /\ Close(AllStale, Left)
  /\ UNCHANGED <<server, faults, asked, typed>>

\* The navigation to the chat that was created takes effect.
Arrive ==
  /\ going # 0
  /\ OpenChat(going, AllStale, Left, target)
  /\ UNCHANGED <<server, faults, asked, typed, opened>>

NoCalls == [s \in Call |-> Idle]

\* A reload, or a sign-in in between, ends every call and keeps the storage.
Reload ==
  /\ page # "away" /\ opened < MaxOpens /\ opened' = opened + 1
  /\ IF page = "new" /\ going = 0 THEN OpenNew(NoCalls, stored, NoTarget)
     ELSE OpenChat(IF going # 0 THEN going ELSE chat, NoCalls, stored, NoTarget)
  /\ UNCHANGED <<server, faults, asked, typed>>

\* An answer for a route that was left changes nothing.
Ignored(s) ==
  /\ calls[s].kind # "none" /\ ~calls[s].live
  /\ calls' = [calls EXCEPT ![s] = Idle]
  /\ UNCHANGED <<server, posts, faults, client>>
-----------------------------------------------------------------------------
(* The page.                                                               *)

Serving == <<server, faults, asked, typed, opened>>

\* Variant: a call of a route that was left is handled like any other.
CurrentAlways(s) == TRUE
\* Mounted, and no route change since the call started.
Current(s) == calls[s].live

Expecting(s, kind, at) == calls[s].kind = kind /\ calls[s].at = at /\ Current(s)

\* The failed reply goes from the window when a retry of it starts.
Dropped(row, r) ==
  IF r.kind = "retry" /\ row.turn = r.turn /\ row.reply = r.not
  THEN [chat |-> row.chat, turn |-> row.turn, reply |-> 0, failed |-> FALSE] ELSE row

\* Variant: what was stored is sent again under a new key.
NewKeyed(r) == IF r.kind = "prompt" /\ asked < MaxKeys THEN [r EXCEPT !.key = asked + 1] ELSE r
Resent(r) == r

\* Variant: a request that may have been taken is only looked for.
ResendsNever(r) == FALSE
\* A stored request is sent again, unless the turn it started was stopped.
Resends(r) == r.kind # "none" /\ ~(r.stop /\ r.turn # 0)

\* The history of the chat arrives.  A stored request is over when its reply is there, else it goes on: a stopped
\* turn by reconcile, any other by sending it again.  Without one, a turn that still generates is reconciled.
LoadAnswer(s) ==
  LET c == calls[s].chat
      t == pending.turn
      n == pending.not
  IN /\ Expecting(s, "load", "load")
     /\ loaded' = "ready"
     /\ \/ /\ pending.kind # "none" /\ Found(c, t, n)
           /\ pending' = NoRequest /\ stored' = Without(ClearedWith(c))
           /\ shown' = LastRow(c)
           /\ calls' = [calls EXCEPT ![s] = Idle]
           /\ UNCHANGED <<posts, phase, target, stream, recon>>
        \/ /\ pending.kind # "none" /\ ~Found(c, t, n) /\ ~Resends(pending)
           /\ shown' = LastRow(c)
           /\ Reconcile(s, "reconcile", c, t, n, pending.stop, TRUE)
           /\ UNCHANGED <<posts, pending, stored, stream>>
        \/ /\ ~Found(c, t, n) /\ Resends(pending)
           /\ shown' = Dropped(LastRow(c), pending)
           /\ target' = TargetOf(t, n)
           /\ Execute(s, Resent(pending), active, calls, posts)
           /\ UNCHANGED <<pending, stored, recon>>
        \/ /\ pending.kind = "none"
           /\ shown' = LastRow(c)
           /\ IF latest[c] # 0 /\ ~Ended(latest[c])
              THEN Reconcile(s, "reconcile", c, latest[c], 0, FALSE, TRUE)
              ELSE /\ calls' = [calls EXCEPT ![s] = Idle]
                   /\ UNCHANGED <<phase, target, recon>>
           /\ UNCHANGED <<posts, pending, stored, stream>>
     /\ UNCHANGED <<Serving, route, active>>

LoadLost(s) ==
  /\ Expecting(s, "load", "load") /\ faults < MaxFaults
  /\ faults' = faults + 1
  /\ loaded' = "error"
  /\ calls' = [calls EXCEPT ![s] = Idle]
  /\ UNCHANGED <<server, asked, typed, opened, posts, route, active, phase, pending, target, shown, aborts, stored>>

\* The request of the call is still the one the page waits for.
IsPending(s) ==
  pending.kind # "none" /\ pending.key = calls[s].key /\ pending.text = calls[s].text /\ pending.not = calls[s].not

\* The headers of a stream: onChatId and onTurnId.
Headers(s) ==
  LET t == IF calls[s].key # 0 THEN calls[s].key ELSE calls[s].turn
      c == IF calls[s].chat = 0 THEN turn[t].chat ELSE calls[s].chat
      request == [pending EXCEPT !.turn = t]
  IN /\ Expecting(s, "exec", "head")
     /\ IF IsPending(s)
        THEN /\ active' = c /\ pending' = request
             /\ stored' = [stored EXCEPT ![c] = request]
             /\ target' = TargetOf(t, target.not)
             /\ calls' = [calls EXCEPT ![s] = Heard(@, c, t, @.cut \/ pending.stop)]
        ELSE /\ calls' = [calls EXCEPT ![s].at = "events"]
             /\ UNCHANGED <<active, pending, stored, target>>
     /\ UNCHANGED <<Serving, posts, route, loaded, phase, shown, aborts>>

\* What follows a stream: reconcile, or a request to the user when the chat has no id yet.
Conclude(s, poll) ==
  /\ stream' = IF stream = s THEN NoCall ELSE stream
  /\ posts' = Unheard({s})
  /\ IF calls[s].chat = 0
     THEN /\ phase' = "required"
          /\ calls' = [calls EXCEPT ![s] = Idle]
          /\ UNCHANGED <<target, recon>>
     ELSE Reconcile(s, "exec", calls[s].chat, calls[s].turn, calls[s].not, pending.stop, poll)
  /\ UNCHANGED <<Serving, route, active, loaded, pending, shown, stored>>

\* The done event comes after the reply was saved; any other end, an error event or a pending turn, needs polling.
StreamEnds(s) ==
  /\ Expecting(s, "exec", "events") /\ ~calls[s].cut
  /\ \/ turn[calls[s].turn].status = "complete" /\ Conclude(s, FALSE)
     \/ Conclude(s, TRUE)

\* No answer, or the user stopped the request.
StreamBreaks(s) ==
  /\ \/ Expecting(s, "exec", "failed")
     \/ calls[s].cut /\ \E at \in {"way", "head", "events"} : Expecting(s, "exec", at)
  /\ Conclude(s, TRUE)

\* 400, 404 or 409: the request is over; the saved history replaces what was shown for it.
Refused(s) ==
  /\ Expecting(s, "exec", "refused")
  /\ IF IsPending(s) THEN pending' = NoRequest /\ stored' = Without(ClearedWith(calls[s].chat))
                     ELSE UNCHANGED <<pending, stored>>
  /\ IF calls[s].chat = 0
     THEN /\ phase' = "idle" /\ stream' = IF stream = s THEN NoCall ELSE stream
          /\ calls' = [calls EXCEPT ![s] = Idle]
     ELSE /\ calls' = [calls EXCEPT ![s].at = "reread"]
          /\ UNCHANGED <<phase, stream>>
  /\ UNCHANGED <<Serving, posts, route, active, loaded, target, shown, recon>>

Reread(s) ==
  LET c == calls[s].chat
  IN /\ Expecting(s, "exec", "reread")
     /\ shown' = LastRow(c)
     /\ stream' = IF stream = s THEN NoCall ELSE stream
     /\ IF latest[c] # 0 /\ ~Ended(latest[c])
        THEN Reconcile(s, "reconcile", c, latest[c], 0, FALSE, TRUE)
        ELSE /\ phase' = "idle" /\ target' = NoTarget
             /\ calls' = [calls EXCEPT ![s] = Idle]
             /\ UNCHANGED recon
     /\ UNCHANGED <<Serving, posts, route, active, loaded, pending, stored>>

RereadLost(s) ==
  /\ Expecting(s, "exec", "reread") /\ faults < MaxFaults
  /\ faults' = faults + 1
  /\ phase' = "required"
  /\ stream' = IF stream = s THEN NoCall ELSE stream
  /\ calls' = [calls EXCEPT ![s] = Idle]
  /\ UNCHANGED <<server, asked, typed, opened, posts, route, active, loaded, pending, target, shown, recon, stored>>

-----------------------------------------------------------------------------
(* reconcile, which executeChatRequest may wait for.                       *)

Reconciles(s, at) == calls[s].at = at /\ Current(s) /\ ~calls[s].cut
IsFound(s) == Found(calls[s].chat, calls[s].turn, calls[s].not)

\* The reply is saved: the request is over.
Confirmed(s) ==
  /\ \E at \in {"saved", "poll", "waiting", "once"} : Reconciles(s, at)
  /\ IsFound(s)
  /\ pending' = NoRequest /\ phase' = "idle" /\ target' = NoTarget
  /\ shown' = LastRow(calls[s].chat)
  /\ Return(s, ClearedWith(calls[s].chat))
  /\ UNCHANGED <<Serving, posts, active, loaded, stream>>

\* A stopped turn without a reply is canceled.
Cancels(s) ==
  /\ Reconciles(s, "saved") /\ ~IsFound(s)
  /\ calls' = [calls EXCEPT ![s].at = "cancelling"]
  /\ posts' = posts \cup {CancelOf(s)}
  /\ UNCHANGED <<Serving, route, view, aborts, stored>>

PollsOn(s) ==
  /\ \/ Reconciles(s, "canceled")
        /\ calls' = [calls EXCEPT ![s].at = IF calls[s].poll THEN "poll" ELSE "once"]
        /\ UNCHANGED faults
     \/ Reconciles(s, "poll")
        /\ calls' = [calls EXCEPT ![s].at = "waiting"]
        /\ \/ ~IsFound(s) /\ UNCHANGED faults
           \/ faults < MaxFaults /\ faults' = faults + 1
  /\ UNCHANGED <<server, asked, typed, opened, posts, route, view, aborts, stored>>

\* Variant: the page goes on saying that it saves the reply.
GivesUpSilently(s) ==
  /\ \/ (Reconciles(s, "waiting") \/ Reconciles(s, "notCanceled") \/ (Reconciles(s, "once") /\ ~IsFound(s)))
        /\ UNCHANGED faults
     \/ /\ Reconciles(s, "saved") \/ Reconciles(s, "once")
        /\ faults < MaxFaults /\ faults' = faults + 1
  /\ UNCHANGED phase
  /\ Return(s, {})
  /\ UNCHANGED <<server, asked, typed, opened, posts, active, loaded, pending, target, shown, stream>>

\* The time to poll is over, the only look found nothing, or a request failed: the user has to ask again.
GivesUp(s) ==
  /\ \/ (Reconciles(s, "waiting") \/ Reconciles(s, "notCanceled") \/ (Reconciles(s, "once") /\ ~IsFound(s)))
        /\ UNCHANGED faults
     \/ /\ Reconciles(s, "saved") \/ Reconciles(s, "once")
        /\ faults < MaxFaults /\ faults' = faults + 1
  /\ phase' = "required"
  /\ Return(s, {})
  /\ UNCHANGED <<server, asked, typed, opened, posts, active, loaded, pending, target, shown, stream>>

\* A reconcile that a later one aborted ends without a word; what waited for it goes on.
Overtaken(s) ==
  /\ calls[s].live /\ calls[s].cut /\ calls[s].at \in Reconciling
  /\ posts' = Unheard({s})
  /\ Return(s, {})
  /\ UNCHANGED <<Serving, view, stream>>

-----------------------------------------------------------------------------
(* The user.                                                               *)

MayAsk == page # "away" /\ loaded = "ready" /\ phase = "idle"

Starts(r) ==
  /\ pending' = r
  /\ stored' = [stored EXCEPT ![active] = r]
  /\ target' = TargetOf(r.turn, r.not)
  /\ \E s \in Free(calls) : Execute(s, r, active, calls, posts)
  /\ UNCHANGED <<server, faults, opened, route, active, loaded, recon>>

Send ==
  /\ MayAsk /\ asked < MaxKeys
  /\ asked' = asked + 1 /\ typed' = typed + 1
  /\ Starts([kind |-> "prompt", key |-> asked + 1, text |-> typed + 1, turn |-> 0, not |-> 0, stop |-> FALSE])
  /\ UNCHANGED shown

\* Retry of the latest reply after it failed or broke off.
RetryReply ==
  /\ MayAsk /\ active # 0
  /\ shown.failed /\ shown.reply < MaxReplies
  /\ Starts([kind |-> "retry", key |-> 0, text |-> 0, turn |-> shown.turn, not |-> shown.reply, stop |-> FALSE])
  /\ shown' = [chat |-> shown.chat, turn |-> shown.turn, reply |-> 0, failed |-> FALSE]
  /\ UNCHANGED <<asked, typed>>

\* Stop cuts the request that is out, or reconciles again, now with a cancel.
Stop ==
  /\ page # "away" /\ loaded = "ready" /\ phase \in {"streaming", "settling"}
  /\ pending.kind # "none"
  /\ pending' = Stopped(pending)
  /\ stored' = [stored EXCEPT ![active] = Stopped(pending)]
  /\ \/ /\ stream # NoCall
        /\ calls' = [calls EXCEPT ![stream].cut = TRUE]
        /\ UNCHANGED <<phase, target, recon>>
     \/ /\ stream = NoCall /\ active # 0 /\ target.set
        /\ \E s \in Free(calls) : Reconcile(s, "reconcile", active, target.turn, target.not, TRUE, TRUE)
  /\ UNCHANGED <<Serving, posts, route, active, loaded, shown, stream>>

\* Retry below a reply that could not be confirmed: look again, or send the request again.
Retry ==
  /\ page # "away" /\ loaded = "ready" /\ phase = "required" /\ target.set
  /\ \E s \in Free(calls) :
       \/ /\ ~Resends(pending) /\ active # 0
          /\ Reconcile(s, "reconcile", active, target.turn, target.not, pending.stop, TRUE)
          /\ UNCHANGED <<posts, shown, stream>>
       \/ /\ Resends(pending)
          /\ Execute(s, Resent(pending), active, calls, posts)
          /\ shown' = Dropped(shown, pending)
          /\ UNCHANGED <<target, recon>>
  /\ UNCHANGED <<Serving, route, active, loaded, pending, stored>>

-----------------------------------------------------------------------------

\* What the browser runs when a request of the call settles or time passes.
Deliver(s) ==
  \/ LoadAnswer(s) \/ LoadLost(s) \/ Headers(s) \/ StreamEnds(s) \/ StreamBreaks(s)
  \/ Refused(s) \/ Reread(s) \/ RereadLost(s)
  \/ Confirmed(s) \/ Cancels(s) \/ PollsOn(s) \/ GivesUp(s) \/ Overtaken(s) \/ Ignored(s)

User == Go \/ Reload \/ Send \/ RetryReply \/ Stop \/ Retry

Next == Server \/ Arrive \/ (\E s \in Call : Deliver(s)) \/ User

Spec == Init /\ [][Next]_vars

\* The network settles every request of the page, the browser runs what follows, and generations end.
Fairness ==
  /\ \A s \in Call : WF_vars(Deliver(s)) /\ WF_vars(\E p \in posts : p.call = s /\ (Take(p) \/ Lose(p)))
  /\ \A k \in Key : WF_vars(Generate(k) \/ Crash(k))
  /\ WF_vars(Arrive)

-----------------------------------------------------------------------------
(* Properties.                                                             *)

\* What the user typed once becomes one turn, however often it is sent.
NoPromptTwice == \A k, j \in Key : turn[k].text # 0 /\ turn[k].text = turn[j].text => k = j

Same(r, q) == r.kind = q.kind /\ r.key = q.key /\ r.not = q.not /\ (r.kind = "retry" => r.turn = q.turn)

\* The outcome of a request the page stored for chat c is known.
Known(c, r) ==
  \/ \E t \in Key : /\ t = IF r.kind = "prompt" THEN r.key ELSE r.turn
                    /\ turn[t].chat = c /\ Ended(t) /\ turn[t].reply # r.not
  \/ \E s \in Call : calls[s].at = "refused" /\ calls[s].key = r.key /\ calls[s].not = r.not

\* The request of a chat stays in session storage until its reply is saved, and not the one a retry replaces, or the
\* server refused it; only the first prompt of the chat, left over from New chat, takes its place.
KeptUntilKnown ==
  [][\A c \in Chat : stored[c].kind # "none" =>
       Same(stored[c], stored'[c]) \/ stored'[c].key = c \/ Known(c, stored[c])]_vars

\* A page that lets the user ask waits for nothing.
FreeToAsk == MayAsk => pending.kind = "none"

\* The page shows messages of its own chat.
OwnMessages == shown.chat # 0 => shown.chat = active

\* At most one request of the page is out.
OneStream ==
  \A s, q \in Call :
    /\ calls[s].kind = "exec" /\ calls[s].at \in Streaming /\ calls[s].live
    /\ calls[q].kind = "exec" /\ calls[q].at \in Streaming /\ calls[q].live
    => s = q

\* A page that says it works has a call that works for it.
Working ==
  /\ phase = "streaming" =>
       stream # NoCall /\ calls[stream].live /\ calls[stream].kind = "exec"
         /\ calls[stream].at \in Streaming \cup {"reread"}
  /\ phase = "settling" =>
       recon # NoCall /\ calls[recon].live /\ ~calls[recon].cut /\ calls[recon].at \in Reconciling

\* Streaming and settling end: the composer is free, or the user is asked to retry.
Settles == phase \in {"streaming", "settling"} ~> phase \in {"idle", "required"}

\* A prompt that could not be confirmed is, in the end, when the user goes on retrying, or refused; a page that did
\* not load offers no retry.
PromptsEnd == pending.kind = "prompt" ~> pending.kind # "prompt" \/ loaded = "error"

\* On the page of a chat a stop survives a reload, until the reply is saved.
StopKept ==
  [][page = "chat" /\ page' = "chat" =>
       \A c \in Chat : stored[c].stop /\ Same(stored[c], stored'[c]) => stored'[c].stop]_vars

-----------------------------------------------------------------------------
(* What documents and tests of the repository say, and the code does not do. *)

\* A requested stop is restored after a reload.
StopRestored ==
  [][\A c \in Chat : stored[c].stop /\ Same(stored[c], stored'[c]) => stored'[c].stop]_vars
=============================================================================
