--------------------------- MODULE ChatPageProofs ---------------------------
(***************************************************************************)
(* The inductive invariant of ChatPage and what follows from it.           *)
(*                                                                         *)
(* A page that is shown has its request under its own chat in session      *)
(* storage; a live call belongs to the chat that is active; the call whose *)
(* request is out is for the pending request; and a key means one prompt   *)
(* in one chat, whether the key is stored, on its way or at the server.    *)
(* At the end: with its history, every chat is a Conversation.             *)
(***************************************************************************)
EXTENDS ChatPageTalk, SequenceTheorems, TLAPS

\* A turn that the server has, or none.
Started(t) == t = 0 \/ turn[t].status # "none"

RequestOK(r) ==
  /\ r.kind = "none" => r = NoRequest
  /\ r.kind = "prompt" => r.key # 0 /\ r.not = 0 /\ r.turn \in {0, r.key}
  /\ r.kind = "retry" => r.key = 0 /\ r.turn # 0
  /\ Started(r.turn)

StorageInv ==
  /\ \A c \in {0} \cup Chat : RequestOK(stored[c])
  /\ stored[0].kind # "retry"

RouteInv ==
  /\ page = "away" => active = 0 /\ pending = NoRequest
  /\ page = "chat" => active = chat /\ active # 0
  /\ page = "new" => chat = 0
  /\ going # 0 => page = "new"
  /\ page # "away" => pending = stored[active]

ShownInv == Started(shown.turn) /\ (shown.failed => shown.turn # 0)

\* The turn a request is for, once it has one; Fits says that t and n are of the pending request.
IdOf(r) == IF r.kind = "prompt" THEN r.key ELSE r.turn
Fits(t, n) == pending.kind # "none" => t \in {0, IdOf(pending)} /\ n = pending.not

TargetInv ==
  /\ Started(target.turn)
  /\ page # "away" /\ loaded = "ready" /\ pending.kind # "none" => target.set /\ Fits(target.turn, target.not)

\* A call whose request is out, one that rereads the history, one that reconciles, and one that loads.
StreamCall(x) ==
  /\ x.kind = "exec" /\ phase = "streaming"
  /\ pending.kind # "none" /\ x.key = pending.key /\ x.text = pending.text /\ x.not = pending.not
  /\ x.turn \in {0, IdOf(pending)} /\ (pending.kind = "retry" => x.turn = pending.turn)
  /\ x.at = "head" /\ x.key # 0 => turn[x.key].status # "none"
RereadCall(x) == x.kind = "exec" /\ phase = "streaming" /\ pending.kind = "none" /\ x.chat # 0
SettleCall(x) ==
  /\ x.kind \in {"exec", "reconcile"} /\ x.chat # 0 /\ x.turn # 0
  /\ ~x.cut => phase = "settling" /\ Fits(x.turn, x.not)
LoadCall(x) == x.kind = "load" /\ loaded = "loading" /\ phase = "idle" /\ x.chat # 0

LiveInv(s) ==
  calls[s].live =>
    /\ calls[s].chat = active /\ page # "away" /\ calls[s].at # "done" /\ Started(calls[s].turn)
    /\ calls[s].at \in Streaming => stream = s /\ StreamCall(calls[s])
    /\ calls[s].at = "reread" => stream = s /\ RereadCall(calls[s])
    /\ calls[s].at \in Reconciling => SettleCall(calls[s]) /\ (~calls[s].cut => recon = s)
    /\ calls[s].at = "load" => LoadCall(calls[s]) /\ \A q \in Call : calls[q].live => q = s

CallInv(s) ==
  /\ calls[s].kind = "none" => calls[s] = Idle
  /\ LiveInv(s)
  /\ stream = s => calls[s].live /\ calls[s].kind = "exec" /\ calls[s].at \in Streaming \cup {"reread"}
  /\ recon = s => calls[s].live /\ ~calls[s].cut /\ calls[s].at \in Reconciling

CallsInv == \A s \in Call : CallInv(s)

PhaseInv == (phase = "streaming" => stream # NoCall) /\ (phase = "settling" => recon # NoCall)

\* A request on its way; the call that waits for it, if any, still does.
PostOK(p) ==
  /\ p.kind \in {"initial", "send"} => p.key # 0
  /\ p.kind = "send" => p.chat # 0
  /\ p.kind \in {"retry", "cancel"} => p.key = 0 /\ p.turn # 0 /\ p.chat # 0
  /\ Started(p.turn)
Waits(p) ==
  p.call # NoCall =>
    /\ calls[p.call].live
    /\ calls[p.call].at = (IF p.kind = "cancel" THEN "cancelling" ELSE "way")
    /\ p.kind # "cancel" => p.key = calls[p.call].key
PostsInv ==
  /\ \A p \in posts : PostOK(p) /\ Waits(p)
  /\ \A p, q \in posts : p.call # NoCall /\ p.call = q.call => p = q

\* The chat a post, or a request that is stored for chat d, is for: the first prompt of a chat names it.
HomeOfPost(p) == IF p.kind = "initial" THEN p.key ELSE p.chat
HomeOf(d) == IF d = 0 THEN stored[d].key ELSE d

\* Key k stands, or stood, for text x in chat c.
Used(k, x, c) ==
  \/ turn[k].status # "none" /\ turn[k].text = x /\ turn[k].chat = c
  \/ \E p \in posts : p.kind \in {"initial", "send"} /\ p.key = k /\ p.text = x /\ HomeOfPost(p) = c
  \/ \E d \in {0} \cup Chat : stored[d].kind = "prompt" /\ stored[d].key = k /\ stored[d].text = x /\ HomeOf(d) = c

OneMeaning ==
  \A k, j \in Key, x, y \in {0} \cup Key, c, d \in Chat :
    Used(k, x, c) /\ Used(j, y, d) => (k = j => c = d) /\ (x # 0 /\ x = y => k = j)
Counted ==
  /\ typed <= asked
  /\ \A k \in Key, x \in {0} \cup Key, c \in Chat : Used(k, x, c) => k <= asked /\ x <= typed

TurnsInv ==
  /\ \A k \in Key : turn[k].status = "none" => turn[k] = NoTurn
  /\ \A k \in Key : turn[k].status # "none" => turn[k].chat # 0
  /\ \A c \in Chat : latest[c] # 0 => turn[latest[c]].chat = c /\ turn[latest[c]].status # "none"

PageInv == StorageInv /\ RouteInv /\ ShownInv /\ TargetInv /\ CallsInv /\ PhaseInv /\ PostsInv /\ FreeToAsk /\ OwnMessages
NamesInv == OneMeaning /\ Counted /\ TurnsInv

IInv == TypeOK /\ PageInv /\ NamesInv

-----------------------------------------------------------------------------
(* Types.                                                                  *)

\* What the operators of the model return.
LEMMA CallTypes ==
  ASSUME NEW c \in {0} \cup Chat, NEW t \in {0} \cup Key, NEW n \in {0} \cup Reply, NEW r \in Request,
         NEW x \in CallState, NEW b \in BOOLEAN, NEW poll \in BOOLEAN, NEW kind \in {"exec", "reconcile"},
         NEW at \in Reconciling
  PROVE  /\ Idle \in CallState
         /\ Loading(c) \in CallState
         /\ Executing(r, c) \in CallState
         /\ Awaiting(kind, at, c, t, n, poll) \in CallState
         /\ Heard(x, c, t, b) \in CallState
         /\ Stale(x) \in CallState
         /\ [x EXCEPT !.cut = TRUE] \in CallState
         /\ \A a \in {"done", "load", "reread"} \cup Streaming \cup Reconciling : [x EXCEPT !.at = a] \in CallState
<1>1. Idle \in CallState /\ Loading(c) \in CallState
  BY DEF Idle, Loading, CallState, Chat
<1>2. Executing(r, c) \in CallState
  BY DEF Executing, CallState, Request, Streaming
<1>3. Awaiting(kind, at, c, t, n, poll) \in CallState
  BY DEF Awaiting, CallState
<1>4. Heard(x, c, t, b) \in CallState
  BY DEF Heard, CallState, Streaming
<1>5. Stale(x) \in CallState
  BY <1>1 DEF Stale, CallState
<1>6. [x EXCEPT !.cut = TRUE] \in CallState
  BY DEF CallState
<1>7. \A a \in {"done", "load", "reread"} \cup Streaming \cup Reconciling : [x EXCEPT !.at = a] \in CallState
  BY DEF CallState
<1> QED BY <1>1, <1>2, <1>3, <1>4, <1>5, <1>6, <1>7

LEMMA PostTypes ==
  ASSUME TypeOK, NEW s \in Call, NEW c \in {0} \cup Chat, NEW r \in Request, NEW p \in Post
  PROVE  PostOf(s, r, c) \in Post /\ CancelOf(s) \in Post /\ Late(p) \in Post
<1>1. PostOf(s, r, c) \in Post
  BY DEF PostOf, Post, Request
<1>2. CancelOf(s) \in Post
  BY DEF CancelOf, Post, TypeOK, CallsType, CallState
<1>3. Late(p) \in Post
  BY DEF Late, Post
<1> QED BY <1>1, <1>2, <1>3

LEMMA ViewTypes ==
  ASSUME TypeOK, NEW c \in Chat, NEW row \in Row, NEW r \in Request, NEW t \in {0} \cup Key, NEW n \in {0} \cup Reply
  PROVE  /\ NoRequest \in Request /\ Stopped(r) \in Request /\ [r EXCEPT !.turn = t] \in Request
         /\ NoTarget \in Target /\ TargetOf(t, n) \in Target
         /\ NoRow \in Row /\ LastRow(c) \in Row /\ Dropped(row, r) \in Row
<1>1. NoRequest \in Request /\ Stopped(r) \in Request /\ [r EXCEPT !.turn = t] \in Request
  BY DEF NoRequest, Request, Stopped
<1>2. NoTarget \in Target /\ TargetOf(t, n) \in Target
  BY DEF NoTarget, Target, TargetOf
<1>3. NoRow \in Row /\ Dropped(row, r) \in Row
  BY DEF NoRow, Row, Dropped
<1>4. CASE latest[c] = 0
  BY <1>1, <1>2, <1>3, <1>4 DEF LastRow
<1>5. CASE latest[c] # 0
  <2>1. latest[c] \in Key /\ turn[latest[c]] \in Turn
    BY <1>5 DEF TypeOK, ServerType
  <2>2. LastRow(c) \in Row
    BY <1>5, <2>1 DEF LastRow, Row, Turn
  <2> QED BY <1>1, <1>2, <1>3, <2>2
<1> QED BY <1>4, <1>5

\* Requests that nobody hears the answer of are those that were out, with or without their call.
LEMMA UnheardPosts ==
  ASSUME NEW aborted, NEW p \in Unheard(aborted)
  PROVE  (p \in posts /\ p.call \notin aborted) \/ (\E q \in posts : q.call \in aborted /\ p = Late(q))
         \/ (p \in posts /\ p.call = NoCall)
BY DEF Unheard

LEMMA UnheardTypes ==
  ASSUME TypeOK, NEW aborted
  PROVE  Unheard(aborted) \in SUBSET Post
<1> SUFFICES ASSUME NEW p \in Unheard(aborted) PROVE p \in Post
  OBVIOUS
<1>1. posts \in SUBSET Post
  BY DEF TypeOK, ServerType
<1>2. \A q \in Post : Late(q) \in Post
  BY DEF Late, Post
<1> QED BY <1>1, <1>2, UnheardPosts

LEMMA TurnTypes ==
  ASSUME NEW c \in {0} \cup Chat, NEW x \in {0} \cup Key, NEW n \in Reply, NEW u \in Turn,
         NEW st \in {"none", "running", "lost"} \cup Terminal
  PROVE  Running(c, x, n) \in Turn /\ [u EXCEPT !.status = st] \in Turn /\ NoTurn \in Turn
BY DEF Running, Turn, NoTurn

LEMMA Numbers == Key \subseteq Nat /\ Chat \subseteq Nat /\ Reply \subseteq Nat /\ 1 \in Reply /\ Key \subseteq Chat /\ 0 \notin Chat
BY BoundsAssumption DEF Key, Chat, Reply, Old

LEMMA AnswerTypes ==
  ASSUME TypeOK, NEW p \in posts, NEW at \in Streaming \cup Reconciling, NEW lost \in Streaming \cup Reconciling,
         Answer(p, at, lost)
  PROVE  posts' \in SUBSET Post /\ faults' \in 0..MaxFaults /\ calls' \in [Call -> CallState]
<1>1. posts' \in SUBSET Post
  BY DEF Answer, TypeOK, ServerType
<1>2. faults' \in 0..MaxFaults
  BY BoundsAssumption DEF Answer, TypeOK, ServerType
<1>3. p.call \in Call \cup {NoCall} /\ calls \in [Call -> CallState]
  BY DEF TypeOK, ServerType, CallsType, Post
<1>4. \A x \in CallState : [x EXCEPT !.at = at] \in CallState /\ [x EXCEPT !.at = lost] \in CallState
  BY DEF CallState
<1>5. calls' \in [Call -> CallState]
  BY <1>3, <1>4 DEF Answer
<1> QED BY <1>1, <1>2, <1>5

LEMMA StartTypes ==
  ASSUME TypeOK, NEW c \in Chat, NEW k \in Key, NEW text \in {0} \cup Key, StartTurn(c, k, text)
  PROVE  turn' \in [Key -> Turn] /\ latest' \in [Chat -> {0} \cup Key]
<1>1. Running(c, text, 1) \in Turn
  BY Numbers, Terminal \subseteq Terminal DEF Running, Turn
<1>2. \A u \in Turn : [u EXCEPT !.status = "failed"] \in Turn
  BY DEF Turn, Terminal
<1>3. turn \in [Key -> Turn] /\ latest \in [Chat -> {0} \cup Key]
  BY DEF TypeOK, ServerType
<1> QED BY <1>1, <1>2, <1>3 DEF StartTurn

LEMMA ReclaimTypes ==
  ASSUME TypeOK, NEW k \in Key, Reclaim(k)
  PROVE  turn' \in [Key -> Turn]
<1>1. turn \in [Key -> Turn]
  BY DEF TypeOK, ServerType
<1>2. [turn[k] EXCEPT !.status = "failed"] \in Turn
  BY <1>1 DEF Turn, Terminal
<1>3. turn[k].reply < MaxReplies => Running(turn[k].chat, turn[k].text, turn[k].reply + 1) \in Turn
  BY <1>1, BoundsAssumption DEF Turn, Running, Reply
<1> QED BY <1>1, <1>2, <1>3 DEF Reclaim

LEMMA TakeTypes ==
  ASSUME IInv, NEW p \in posts, Take(p)
  PROVE  TypeOK'
<1>1. p \in Post /\ p.key \in {0} \cup Key /\ p.turn \in {0} \cup Key /\ p.text \in {0} \cup Key
      /\ p.chat \in {0} \cup Chat /\ p.not \in {0} \cup Reply
  BY DEF IInv, TypeOK, ServerType, Post
<1>2. PostOK(p)
  BY DEF IInv, PageInv, PostsInv
<1>3. RouteType' /\ ViewType' /\ stream' \in Call \cup {NoCall} /\ recon' \in Call \cup {NoCall}
      /\ stored' \in [{0} \cup Chat -> Request] /\ asked' \in {0} \cup Key /\ typed' \in {0} \cup Key /\ opened' \in 0..MaxOpens
  BY DEF IInv, TypeOK, RouteType, ViewType, CallsType, ServerType, Take, client, route, view, aborts
<1>4. turn \in [Key -> Turn] /\ latest \in [Chat -> {0} \cup Key] /\ TypeOK
  BY DEF IInv, TypeOK, ServerType
<1>5. turn' \in [Key -> Turn] /\ latest' \in [Chat -> {0} \cup Key] /\ posts' \in SUBSET Post /\ faults' \in 0..MaxFaults
      /\ calls' \in [Call -> CallState]
  <2>1. CASE TakePrompt(p)
    <3>1. p.key \in Key /\ (p.kind = "send" => p.chat \in Chat)
      BY <1>1, <1>2, <2>1 DEF TakePrompt, PostOK
    <3>2. (IF p.kind = "initial" THEN p.key ELSE p.chat) \in Chat
      BY <2>1, <3>1, Numbers DEF TakePrompt
    <3>3. posts' \in SUBSET Post /\ faults' \in 0..MaxFaults /\ calls' \in [Call -> CallState]
      BY <1>4, <2>1, AnswerTypes DEF TakePrompt, Streaming
    <3>4. turn' \in [Key -> Turn] /\ latest' \in [Chat -> {0} \cup Key]
      BY <1>1, <1>4, <2>1, <3>1, <3>2, StartTypes DEF TakePrompt, server
    <3> QED BY <3>3, <3>4
  <2>2. CASE ReplayPrompt(p)
    <3>1. p.key \in Key
      BY <1>1, <1>2, <2>2 DEF ReplayPrompt, PostOK
    <3>2. turn' \in [Key -> Turn] /\ latest' = latest
      BY <1>4, <2>2, <3>1, ReclaimTypes DEF ReplayPrompt
    <3>3. posts' \in SUBSET Post /\ faults' \in 0..MaxFaults /\ calls' \in [Call -> CallState]
      BY <1>4, <2>2, AnswerTypes DEF ReplayPrompt, Streaming
    <3> QED BY <1>4, <3>2, <3>3
  <2>3. CASE TakeRetry(p)
    <3>1. p.turn \in Key
      BY <1>1, <1>2, <2>3 DEF TakeRetry, PostOK
    <3>2. posts' \in SUBSET Post /\ faults' \in 0..MaxFaults /\ calls' \in [Call -> CallState]
      BY <1>4, <2>3, AnswerTypes DEF TakeRetry, Streaming
    <3>3. p.not < MaxReplies => Running(p.chat, turn[p.turn].text, p.not + 1) \in Turn
      BY <1>1, <1>4, <3>1, BoundsAssumption DEF Running, Turn, Reply
    <3>4. \/ turn' = turn
          \/ Reclaim(p.turn)
          \/ p.not < MaxReplies /\ turn' = [turn EXCEPT ![p.turn] = Running(p.chat, turn[p.turn].text, p.not + 1)]
      BY <1>4, <2>3, <3>1 DEF TakeRetry
    <3>r. Reclaim(p.turn) => turn' \in [Key -> Turn]
      BY <1>4, <3>1, ReclaimTypes
    <3>5. turn' \in [Key -> Turn]
      BY <1>4, <3>1, <3>3, <3>4, <3>r
    <3> QED BY <1>4, <2>3, <3>2, <3>5 DEF TakeRetry
  <2>4. CASE TakeCancel(p)
    <3>1. posts' \in SUBSET Post /\ faults' \in 0..MaxFaults /\ calls' \in [Call -> CallState]
      BY <1>4, <2>4, AnswerTypes DEF TakeCancel, Reconciling
    <3>2. \A u \in Turn : [u EXCEPT !.status = "canceled"] \in Turn
      BY DEF Turn, Terminal
    <3>3. turn' \in [Key -> Turn]
      BY <1>4, <2>4, <3>2 DEF TakeCancel
    <3> QED BY <1>4, <2>4, <3>1, <3>3 DEF TakeCancel
  <2> QED BY <2>1, <2>2, <2>3, <2>4 DEF Take
<1> QED BY <1>3, <1>5 DEF TypeOK, ServerType, CallsType

LEMMA ServerTypes ==
  ASSUME IInv, Server
  PROVE  TypeOK'
<1>1. turn \in [Key -> Turn] /\ latest \in [Chat -> {0} \cup Key] /\ TypeOK
  BY DEF IInv, TypeOK, ServerType
<1>2. ASSUME NEW p \in posts, Lose(p) PROVE TypeOK'
  <2>1. p.call \in Call \cup {NoCall}
    BY DEF IInv, TypeOK, ServerType, Post
  <2>2. \A x \in CallState : [x EXCEPT !.at = "failed"] \in CallState /\ [x EXCEPT !.at = "notCanceled"] \in CallState
    BY DEF CallState, Streaming, Reconciling
  <2>3. calls' \in [Call -> CallState]
    BY <1>1, <1>2, <2>1, <2>2 DEF Lose, TypeOK, CallsType
  <2>4. faults' \in 0..MaxFaults
    BY <1>1, <1>2, BoundsAssumption DEF Lose, TypeOK, ServerType
  <2>5. posts' \in SUBSET Post
    BY <1>1, <1>2 DEF Lose, TypeOK, ServerType
  <2> QED BY <1>1, <1>2, <2>3, <2>4, <2>5
        DEF Lose, TypeOK, ServerType, RouteType, ViewType, CallsType, server, client, route, view, aborts
<1>3. ASSUME NEW k \in Key, Generate(k) \/ Crash(k) \/ OtherRetry(k) PROVE TypeOK'
  <2>1. \A st \in {"complete", "failed", "lost"} : [turn[k] EXCEPT !.status = st] \in Turn
    BY <1>1 DEF Turn, Terminal
  <2>2. turn[k].reply < MaxReplies => Running(turn[k].chat, turn[k].text, turn[k].reply + 1) \in Turn
    BY <1>1, BoundsAssumption DEF Turn, Running, Reply
  <2>3. \/ \E st \in {"complete", "failed", "lost"} : turn' = [turn EXCEPT ![k] = [turn[k] EXCEPT !.status = st]]
        \/ turn[k].reply < MaxReplies
           /\ turn' = [turn EXCEPT ![k] = Running(turn[k].chat, turn[k].text, turn[k].reply + 1)]
    BY <1>1, <1>3 DEF Generate, Crash, OtherRetry
  <2>4. turn' \in [Key -> Turn]
    <3>1. CASE \E st \in {"complete", "failed", "lost"} : turn' = [turn EXCEPT ![k] = [turn[k] EXCEPT !.status = st]]
      <4>1. PICK st \in {"complete", "failed", "lost"} : turn' = [turn EXCEPT ![k] = [turn[k] EXCEPT !.status = st]]
        BY <3>1
      <4>2. [turn[k] EXCEPT !.status = st] \in Turn
        BY <2>1
      <4> QED BY <1>1, <4>1, <4>2
    <3> QED BY <1>1, <2>2, <2>3, <3>1
  <2> QED BY <1>1, <1>3, <2>4
        DEF Generate, Crash, OtherRetry, TypeOK, ServerType, RouteType, ViewType, CallsType, client, route, view, aborts
<1>4. ASSUME NEW c \in Chat, OtherPrompt(c) PROVE TypeOK'
  <2>1. asked + 1 \in Key /\ asked' \in {0} \cup Key
    BY <1>1, <1>4, BoundsAssumption DEF OtherPrompt, TypeOK, ServerType, Key
  <2>2. turn' \in [Key -> Turn] /\ latest' \in [Chat -> {0} \cup Key]
    BY <1>1, <1>4, <2>1, StartTypes DEF OtherPrompt
  <2> QED BY <1>1, <1>4, <2>1, <2>2
        DEF OtherPrompt, TypeOK, ServerType, RouteType, ViewType, CallsType, route, view, aborts
<1> QED BY <1>2, <1>3, <1>4, TakeTypes DEF Server

\* What an effect may start from: calls that are over, and storage.
Fresh(others) == others \in [Call -> CallState] /\ \A s \in Call : ~others[s].live /\ (others[s].kind = "none" => others[s] = Idle)
Kept(kept) ==
  /\ kept \in [{0} \cup Chat -> Request] /\ \A d \in {0} \cup Chat : RequestOK(kept[d])
  /\ kept[0].kind # "retry"

LEMMA OpenTypes ==
  ASSUME TypeOK, NEW others, NEW kept, NEW tg \in Target, Fresh(others), Kept(kept),
         \/ OpenNew(others, kept, tg)
         \/ \E c \in Chat : OpenChat(c, others, kept, tg)
         \/ Close(others, kept),
         UNCHANGED <<turn, latest, faults, asked, typed>>, opened' \in 0..MaxOpens
  PROVE  TypeOK'
<1>1. Unheard(Call) \in SUBSET Post
  BY UnheardTypes
<1>2. NoRow \in Row /\ NoRequest \in Request /\ NoTarget \in Target /\ TargetOf(0, 0) \in Target
  BY DEF NoRow, Row, NoRequest, Request, NoTarget, Target, TargetOf
<1>3. turn' \in [Key -> Turn] /\ latest' \in [Chat -> {0} \cup Key] /\ faults' \in 0..MaxFaults
      /\ asked' \in {0} \cup Key /\ typed' \in {0} \cup Key
  BY DEF TypeOK, ServerType
<1>4. CASE OpenNew(others, kept, tg)
  <2>1. kept \in [{0} \cup Chat -> Request] /\ kept[0] \in Request /\ others \in [Call -> CallState]
    BY DEF Kept, Fresh
  <2>2. posts' \in SUBSET Post /\ calls' \in [Call -> CallState] /\ stream' \in Call \cup {NoCall}
        /\ phase' \in {"idle", "streaming"} /\ target' \in Target
    <3>1. CASE kept[0].kind = "none"
      BY <1>1, <1>4, <2>1, <3>1 DEF OpenNew
    <3>2. CASE kept[0].kind # "none"
      <4>1. PICK s \in Free(others) : Execute(s, kept[0], 0, others, Unheard(Call))
        BY <1>4, <3>2 DEF OpenNew, Read
      <4>2. s \in Call
        BY DEF Free
      <4>3. PostOf(s, kept[0], 0) \in Post
        BY <2>1, <4>2 DEF PostOf, Post, Request
      <4>4. Executing(kept[0], 0) \in CallState
        BY <2>1 DEF Executing, CallState, Request, Streaming
      <4>5. target' \in Target
        BY <1>2, <1>4, <3>2 DEF OpenNew
      <4> QED BY <1>1, <2>1, <4>1, <4>2, <4>3, <4>4, <4>5 DEF Execute
    <3> QED BY <3>1, <3>2
  <2>3. RouteType' /\ active' = 0 /\ loaded' = "ready" /\ shown' = NoRow /\ pending' = kept[0] /\ stored' = kept /\ recon' = NoCall
    BY <1>4 DEF OpenNew, RouteType, Read
  <2> QED BY <1>2, <1>3, <2>1, <2>2, <2>3 DEF TypeOK, ServerType, ViewType, CallsType
<1>5. ASSUME NEW c \in Chat, OpenChat(c, others, kept, tg) PROVE TypeOK'
  <2>1. kept \in [{0} \cup Chat -> Request] /\ kept[c] \in Request /\ others \in [Call -> CallState]
    BY DEF Kept, Fresh
  <2>2. calls' \in [Call -> CallState]
    <3>1. Loading(c) \in CallState
      BY DEF Loading, CallState
    <3> QED BY <1>5, <2>1, <3>1 DEF OpenChat, Free
  <2>3. RouteType' /\ active' = c /\ loaded' = "loading" /\ phase' = "idle" /\ shown' = NoRow /\ pending' = kept[c]
        /\ stored' = kept /\ target' = tg /\ stream' = NoCall /\ recon' = NoCall /\ posts' = Unheard(Call)
    BY <1>5 DEF OpenChat, RouteType, Read
  <2> QED BY <1>1, <1>2, <1>3, <2>1, <2>2, <2>3 DEF TypeOK, ServerType, ViewType, CallsType
<1>6. CASE Close(others, kept)
  <2>1. RouteType' /\ active' = 0 /\ loaded' = "loading" /\ phase' = "idle" /\ shown' = NoRow /\ pending' = NoRequest
        /\ stored' = kept /\ target' = NoTarget /\ stream' = NoCall /\ recon' = NoCall /\ posts' = Unheard(Call)
        /\ calls' = others
    BY <1>6 DEF Close, RouteType
  <2> QED BY <1>1, <1>2, <1>3, <2>1 DEF TypeOK, ServerType, ViewType, CallsType, Fresh, Kept
<1> QED BY <1>4, <1>5, <1>6

LEMMA FreshCalls ==
  ASSUME TypeOK, CallsInv
  PROVE  Fresh(AllStale) /\ Fresh(NoCalls)
<1>1. Idle \in CallState /\ Idle.live = FALSE /\ Idle.at = "done"
  BY DEF Idle, CallState
<1>2. Fresh(NoCalls)
  BY <1>1 DEF Fresh, NoCalls
<1>3. ASSUME NEW s \in Call
      PROVE  Stale(calls[s]) \in CallState /\ ~Stale(calls[s]).live /\ (Stale(calls[s]).kind = "none" => Stale(calls[s]) = Idle)
  <2>1. calls[s] \in CallState /\ (calls[s].kind = "none" => calls[s] = Idle)
    BY DEF TypeOK, CallsType, CallsInv, CallInv
  <2>2. Stale(calls[s]) \in CallState /\ ~Stale(calls[s]).live
    BY <1>1, <2>1 DEF Stale, CallState
  <2>3. Stale(calls[s]).kind = "none" => Stale(calls[s]) = Idle
    BY <1>1, <2>1 DEF Stale
  <2> QED BY <2>2, <2>3
<1> QED BY <1>2, <1>3 DEF Fresh, AllStale

-----------------------------------------------------------------------------
(* Keys, and what they stand for.                                          *)

LEMMA PostsAreUsed ==
  ASSUME NEW p \in posts, p.kind \in {"initial", "send"}
  PROVE  Used(p.key, p.text, HomeOfPost(p))
BY DEF Used

LEMMA LateAreUsed ==
  ASSUME NEW aborted, NEW p \in Unheard(aborted), p.kind \in {"initial", "send"}
  PROVE  Used(p.key, p.text, HomeOfPost(p))
<1>1. CASE p \in posts
  BY <1>1, PostsAreUsed
<1>2. CASE \E q \in posts : p = Late(q)
  BY <1>2, PostsAreUsed DEF Late, HomeOfPost
<1> QED BY <1>1, <1>2, UnheardPosts

LEMMA StoredIsUsed ==
  ASSUME NEW d \in {0} \cup Chat, stored[d].kind = "prompt"
  PROVE  Used(stored[d].key, stored[d].text, HomeOf(d))
BY DEF Used

\* What the page does with keys that were given their meaning before.
LEMMA NamesKept ==
  ASSUME NamesInv, UNCHANGED <<turn, latest, asked, typed>>,
         \A p \in posts' : p.kind \in {"initial", "send"} => Used(p.key, p.text, HomeOfPost(p)),
         \A d \in {0} \cup Chat : stored'[d].kind = "prompt" => Used(stored'[d].key, stored'[d].text, HomeOf(d)')
  PROVE  NamesInv'
<1>1. \A k, x, c : Used(k, x, c)' => Used(k, x, c)
  <2> SUFFICES ASSUME NEW k, NEW x, NEW c, Used(k, x, c)' PROVE Used(k, x, c)
    OBVIOUS
  <2>1. CASE turn'[k].status # "none" /\ turn'[k].text = x /\ turn'[k].chat = c
    BY <2>1 DEF Used
  <2>2. ASSUME NEW p \in posts', p.kind \in {"initial", "send"} /\ p.key = k /\ p.text = x /\ HomeOfPost(p) = c PROVE Used(k, x, c)
    BY <2>2
  <2>3. ASSUME NEW d \in {0} \cup Chat, stored'[d].kind = "prompt" /\ stored'[d].key = k /\ stored'[d].text = x /\ HomeOf(d)' = c
        PROVE Used(k, x, c)
    BY <2>3
  <2> QED BY <2>1, <2>2, <2>3 DEF Used, HomeOfPost
<1>2. OneMeaning' /\ Counted'
  BY <1>1 DEF NamesInv, OneMeaning, Counted
<1>3. TurnsInv'
  BY DEF NamesInv, TurnsInv
<1> QED BY <1>2, <1>3 DEF NamesInv

\* What the server does with turns that it has.
LEMMA NamesServed ==
  ASSUME NamesInv, UNCHANGED <<latest, stored, asked, typed>>, posts' \subseteq posts,
         \A k \in Key : /\ turn'[k].text = turn[k].text /\ turn'[k].chat = turn[k].chat
                        /\ turn[k].status # "none" => turn'[k].status # "none"
                        /\ turn[k].status = "none" => turn'[k] = turn[k],
         TypeOK
  PROVE  NamesInv'
<1>1. \A k \in Key : \A x, c : Used(k, x, c)' => Used(k, x, c)
  BY DEF Used, HomeOfPost, HomeOf
<1>2. OneMeaning' /\ Counted'
  BY <1>1 DEF NamesInv, OneMeaning, Counted
<1>3. TurnsInv'
  BY DEF NamesInv, TurnsInv, TypeOK, ServerType
<1> QED BY <1>2, <1>3 DEF NamesInv

\* A turn that starts is one that a post named, or one with a key of its own and a text of another device.
LEMMA NamesStarted ==
  ASSUME TypeOK, NamesInv, NEW c \in Chat, NEW k \in Key, NEW x \in {0} \cup Key, StartTurn(c, k, x),
         turn[k].status = "none", UNCHANGED <<stored, typed>>, posts' \subseteq posts, asked' \in Nat, asked <= asked',
         \/ Used(k, x, c)
         \/ x = 0 /\ asked < k /\ k <= asked'
  PROVE  NamesInv'
<1>1. \A j \in Key : \A y, d : Used(j, y, d)' => Used(j, y, d) \/ (j = k /\ y = x /\ d = c)
  <2> SUFFICES ASSUME NEW j \in Key, NEW y, NEW d, Used(j, y, d)' PROVE Used(j, y, d) \/ (j = k /\ y = x /\ d = c)
    OBVIOUS
  <2>1. CASE turn'[j].status # "none" /\ turn'[j].text = y /\ turn'[j].chat = d
    <3>1. CASE j = k
      BY <2>1, <3>1 DEF StartTurn, Running, TypeOK, ServerType
    <3>2. CASE j # k
      <4>1. turn'[j].text = turn[j].text /\ turn'[j].chat = turn[j].chat /\ turn[j].status # "none"
        BY <2>1, <3>2 DEF StartTurn, HasTurn, TypeOK, ServerType, Turn
      <4> QED BY <2>1, <4>1 DEF Used
    <3> QED BY <3>1, <3>2
  <2> QED BY <2>1 DEF Used, HomeOfPost, HomeOf
<1>2. asked \in Nat /\ typed \in Nat /\ \A j \in Key : j \in Nat
  BY Numbers DEF TypeOK, ServerType
<1>3. Counted'
  BY <1>1, <1>2 DEF NamesInv, Counted
<1>4. OneMeaning'
  <2>1. CASE Used(k, x, c)
    BY <1>1, <2>1 DEF NamesInv, OneMeaning
  <2>2. CASE x = 0 /\ asked < k
    <3>1. \A y \in {0} \cup Key, d \in Chat : ~Used(k, y, d)
      BY <1>2, <2>2 DEF NamesInv, Counted
    <3> QED BY <1>1, <2>2, <3>1 DEF NamesInv, OneMeaning
  <2> QED BY <2>1, <2>2
<1>5. TurnsInv'
  <2>1. turn'[k] = Running(c, x, 1) /\ turn' \in [Key -> Turn] /\ latest' = [latest EXCEPT ![c] = k] /\ latest \in [Chat -> {0} \cup Key]
    BY StartTypes DEF StartTurn, TypeOK, ServerType
  <2>2. ASSUME NEW j \in Key, j # k
        PROVE  /\ turn'[j].chat = turn[j].chat
               /\ turn[j].status # "none" => turn'[j].status # "none"
               /\ turn[j].status = "none" => turn'[j] = turn[j]
    BY <2>2 DEF StartTurn, HasTurn, TypeOK, ServerType, Turn
  <2>3. c # 0 /\ 0 \notin Key /\ 0 \notin Chat
    BY Numbers DEF Key
  <2>4. \A d \in Chat : latest[d] # k
    BY <2>3 DEF NamesInv, TurnsInv
  <2>5. \A j \in Key : (turn'[j].status = "none" => turn'[j] = NoTurn) /\ (turn'[j].status # "none" => turn'[j].chat # 0)
    BY <2>1, <2>2, <2>3 DEF NamesInv, TurnsInv, Running
  <2>6. ASSUME NEW d \in Chat, latest'[d] # 0
        PROVE turn'[latest'[d]].chat = d /\ turn'[latest'[d]].status # "none"
    <3>1. CASE d = c
      BY <2>1, <3>1 DEF Running
    <3>2. CASE d # c
      <4>1. latest'[d] = latest[d] /\ latest[d] \in Key /\ latest[d] # k
        BY <2>1, <2>4, <2>6, <3>2
      <4> QED BY <2>2, <2>6, <4>1 DEF NamesInv, TurnsInv
    <3> QED BY <3>1, <3>2
  <2> QED BY <2>5, <2>6 DEF TurnsInv
<1> QED BY <1>3, <1>4, <1>5 DEF NamesInv
-----------------------------------------------------------------------------
(* note-service and the network.                                           *)

\* The page of a step that leaves it alone: an answer may reach the call that waits for it.
LEMMA PageServed ==
  ASSUME TypeOK, PageInv, UNCHANGED <<route, view, aborts, stored>>,
         NEW p \in posts, posts' = posts \ {p},
         NEW a \in {"head", "refused", "failed", "canceled", "notCanceled"},
         p.kind = "cancel" <=> a \in {"canceled", "notCanceled"},
         calls' = IF p.call = NoCall THEN calls ELSE [calls EXCEPT ![p.call].at = a],
         \A k \in Key : turn[k].status # "none" => turn'[k].status # "none",
         a = "head" /\ p.key # 0 => turn'[p.key].status # "none"
  PROVE  PageInv'
<1>1. p.call \in Call \cup {NoCall} /\ calls \in [Call -> CallState] /\ p.key \in {0} \cup Key /\ posts \subseteq Post
  BY DEF TypeOK, ServerType, CallsType, Post
<1>2. /\ page' = page /\ chat' = chat /\ going' = going /\ active' = active /\ loaded' = loaded /\ phase' = phase
      /\ pending' = pending /\ target' = target /\ shown' = shown /\ stream' = stream /\ recon' = recon /\ stored' = stored
  BY DEF route, view, aborts
<1>3. \A t \in {0} \cup Key : Started(t) => Started(t)'
  BY DEF Started
<1>4. \A r \in Request : RequestOK(r) => RequestOK(r)'
  BY <1>3 DEF RequestOK, Request
<1>5. StorageInv' /\ RouteInv' /\ PhaseInv' /\ FreeToAsk' /\ OwnMessages'
  <2>1. StorageInv'
    BY <1>2, <1>4 DEF PageInv, StorageInv, TypeOK, CallsType
  <2>2. RouteInv' /\ PhaseInv' /\ OwnMessages'
    BY <1>2 DEF PageInv, RouteInv, PhaseInv, OwnMessages
  <2>3. FreeToAsk'
    BY <1>2 DEF PageInv, FreeToAsk, MayAsk
  <2> QED BY <2>1, <2>2, <2>3
<1>6. ShownInv' /\ TargetInv'
  BY <1>2, <1>3 DEF PageInv, ShownInv, TargetInv, Fits, TypeOK, ViewType, Row, Target
<1>7. PostsInv'
  <2>1. \A q \in posts' : q.call # NoCall => q.call # p.call
    BY DEF PageInv, PostsInv
  <2>2. \A q \in posts' : q.call # NoCall => q.call \in Call /\ calls'[q.call] = calls[q.call]
    BY <1>1, <2>1 DEF Post
  <2>3. \A q \in posts' : PostOK(q)'
    BY <1>1, <1>3 DEF PageInv, PostsInv, PostOK, Post
  <2>4. \A q \in posts' : Waits(q)'
    BY <2>2 DEF PageInv, PostsInv, Waits
  <2> QED BY <2>3, <2>4 DEF PageInv, PostsInv
<1>8. CallsInv'
  <2> SUFFICES ASSUME NEW s \in Call PROVE CallInv(s)'
    BY DEF CallsInv
  <2>1. CallInv(s) /\ calls[s] \in CallState /\ calls[s].turn \in {0} \cup Key /\ calls[s].key \in {0} \cup Key
    BY <1>1 DEF PageInv, CallsInv, CallState
  <2>2. \A q \in Call : calls'[q].live = calls[q].live
    BY <1>1 DEF CallState
  <2>3. CASE calls'[s] = calls[s]
    <3>1. LiveInv(s)'
      BY <1>2, <1>3, <2>1, <2>2, <2>3
         DEF CallInv, LiveInv, StreamCall, RereadCall, SettleCall, LoadCall, Fits
    <3> QED BY <1>2, <2>1, <2>3, <3>1 DEF CallInv
  <2>4. CASE calls'[s] # calls[s]
    <3>1. p.call = s /\ calls'[s] = [calls[s] EXCEPT !.at = a]
      BY <1>1, <2>4
    <3>2. Waits(p)
      BY DEF PageInv, PostsInv
    <3>3. s # NoCall /\ calls[s].live /\ calls[s].at = (IF p.kind = "cancel" THEN "cancelling" ELSE "way")
          /\ (p.kind # "cancel" => p.key = calls[s].key)
      BY <1>1, <3>1, <3>2, CallAssumption DEF Waits
    <3>4. /\ calls'[s].at = a /\ calls'[s].kind = calls[s].kind /\ calls'[s].live = calls[s].live /\ calls'[s].cut = calls[s].cut
          /\ calls'[s].chat = calls[s].chat /\ calls'[s].key = calls[s].key /\ calls'[s].text = calls[s].text
          /\ calls'[s].turn = calls[s].turn /\ calls'[s].not = calls[s].not
      BY <2>1, <3>1 DEF CallState
    <3>5. CASE p.kind = "cancel"
      <4>1. calls[s].at \in Reconciling /\ a \in Reconciling /\ a \notin Streaming /\ a # "reread" /\ a # "load" /\ a # "done"
        BY <3>3, <3>5 DEF Reconciling, Streaming
      <4>2. LiveInv(s)'
        BY <1>2, <1>3, <2>1, <3>4, <4>1 DEF CallInv, LiveInv, SettleCall, Fits
      <4>3. stream # s
        BY <2>1, <3>3, <3>5 DEF CallInv, Streaming
      <4> QED BY <1>2, <2>1, <3>3, <3>4, <4>1, <4>2, <4>3 DEF CallInv, Idle
    <3>6. CASE p.kind # "cancel"
      <4>1. calls[s].at \in Streaming /\ a \in Streaming /\ a \notin Reconciling /\ a # "reread" /\ a # "load" /\ a # "done"
        BY <3>3, <3>6 DEF Reconciling, Streaming
      <4>2. StreamCall(calls[s]) /\ StreamCall(calls[s])' /\ stream = s
        BY <1>2, <2>1, <3>3, <3>4, <3>6, <4>1 DEF CallInv, LiveInv, StreamCall
      <4>3. LiveInv(s)'
        BY <1>2, <1>3, <2>1, <3>4, <4>1, <4>2 DEF CallInv, LiveInv
      <4>4. calls[s].kind = "exec" /\ phase = "streaming"
        BY <4>2 DEF StreamCall
      <4>5. recon # s
        BY <2>1, <3>3, <3>6 DEF CallInv, Reconciling
      <4> QED BY <1>2, <2>1, <3>3, <3>4, <4>1, <4>3, <4>4, <4>5 DEF CallInv
    <3> QED BY <3>5, <3>6
  <2> QED BY <2>3, <2>4
<1> QED BY <1>5, <1>6, <1>7, <1>8 DEF PageInv

\* The same for a step that answers nothing.
LEMMA PageUnserved ==
  ASSUME TypeOK, PageInv, UNCHANGED <<route, view, aborts, stored, posts, calls>>,
         \A k \in Key : turn[k].status # "none" => turn'[k].status # "none"
  PROVE  PageInv'
<1>2. /\ page' = page /\ chat' = chat /\ going' = going /\ active' = active /\ loaded' = loaded /\ phase' = phase
      /\ pending' = pending /\ target' = target /\ shown' = shown /\ stream' = stream /\ recon' = recon /\ stored' = stored
  BY DEF route, view, aborts
<1>3. \A t \in {0} \cup Key : Started(t) => Started(t)'
  BY DEF Started
<1>4. \A r \in Request : RequestOK(r) => RequestOK(r)'
  BY <1>3 DEF RequestOK, Request
<1>5. StorageInv'
  BY <1>2, <1>4 DEF PageInv, StorageInv, TypeOK, CallsType
<1>6. RouteInv' /\ PhaseInv' /\ OwnMessages'
  BY <1>2 DEF PageInv, RouteInv, PhaseInv, OwnMessages
<1>7. FreeToAsk'
  BY <1>2 DEF PageInv, FreeToAsk, MayAsk
<1>8. ShownInv' /\ TargetInv'
  BY <1>2, <1>3 DEF PageInv, ShownInv, TargetInv, Fits, TypeOK, ViewType, Row, Target
<1>9. PostsInv'
  BY <1>3 DEF PageInv, PostsInv, PostOK, Waits, Post, TypeOK, ServerType
<1>10. CallsInv'
  <2> SUFFICES ASSUME NEW s \in Call PROVE CallInv(s)'
    BY DEF CallsInv
  <2>1. CallInv(s) /\ calls[s].turn \in {0} \cup Key /\ calls[s].key \in {0} \cup Key
    BY DEF PageInv, CallsInv, TypeOK, CallsType, CallState
  <2>2. LiveInv(s)'
    BY <1>2, <1>3, <2>1 DEF CallInv, LiveInv, StreamCall, RereadCall, SettleCall, LoadCall, Fits
  <2> QED BY <1>2, <2>1, <2>2 DEF CallInv
<1> QED BY <1>5, <1>6, <1>7, <1>8, <1>9, <1>10 DEF PageInv

LEMMA AnswerGives ==
  ASSUME NEW p, NEW at, NEW lost, Answer(p, at, lost)
  PROVE  posts' = posts \ {p}
         /\ \E a \in {at, lost} : calls' = IF p.call = NoCall THEN calls ELSE [calls EXCEPT ![p.call].at = a]
BY DEF Answer

LEMMA TakeKeeps ==
  ASSUME IInv, NEW p \in posts, Take(p)
  PROVE  PageInv' /\ NamesInv'
<1>1. p \in Post /\ p.key \in {0} \cup Key /\ p.turn \in {0} \cup Key /\ p.text \in {0} \cup Key
      /\ p.chat \in {0} \cup Chat /\ p.not \in {0} \cup Reply
  BY DEF IInv, TypeOK, ServerType, Post
<1>2. PostOK(p) /\ TypeOK /\ PageInv /\ NamesInv /\ TypeOK'
  BY TakeTypes DEF IInv, PageInv, PostsInv
<1>3. turn \in [Key -> Turn] /\ latest \in [Chat -> {0} \cup Key] /\ UNCHANGED <<route, view, aborts, stored, asked, typed>>
  BY <1>2 DEF TypeOK, ServerType, Take, client
<1>4. \A k \in Key : turn[k].text \in {0} \cup Key
  BY <1>3 DEF Turn
<1>5. CASE TakePrompt(p)
  <2>1. p.key \in Key /\ (p.kind = "send" => p.chat \in Chat) /\ p.kind # "cancel" /\ HomeOfPost(p) \in Chat
    BY <1>1, <1>2, <1>5, Numbers DEF TakePrompt, PostOK, HomeOfPost
  <2>2. CASE StartTurn(HomeOfPost(p), p.key, p.text) /\ Answer(p, "head", "failed")
    <3>1. PICK a \in {"head", "failed"} : calls' = IF p.call = NoCall THEN calls ELSE [calls EXCEPT ![p.call].at = a]
      BY <2>2, AnswerGives
    <3>2. posts' = posts \ {p}
      BY <2>2, AnswerGives
    <3>3. turn'[p.key].status = "running"
      BY <1>3, <2>1, <2>2 DEF StartTurn, Running
    <3>4. \A k \in Key : turn[k].status # "none" => turn'[k].status # "none"
      BY <1>3, <2>1, <2>2, <3>3 DEF StartTurn, Turn
    <3>5. PageInv'
      BY <1>2, <1>3, <2>1, <3>1, <3>2, <3>3, <3>4, PageServed
    <3>6. Used(p.key, p.text, HomeOfPost(p))
      BY <1>5, PostsAreUsed DEF TakePrompt
    <3>7. asked' \in Nat /\ asked <= asked'
      BY <1>2, <1>3, Numbers DEF TypeOK, ServerType
    <3>8. turn[p.key].status = "none"
      BY <1>5 DEF TakePrompt
    <3>9. NamesInv'
      BY <1>1, <1>2, <1>3, <2>1, <2>2, <3>2, <3>6, <3>7, <3>8, NamesStarted
    <3> QED BY <3>5, <3>9
  <2>3. CASE Answer(p, "refused", "failed") /\ UNCHANGED server
    <3>1. PICK a \in {"refused", "failed"} : calls' = IF p.call = NoCall THEN calls ELSE [calls EXCEPT ![p.call].at = a]
      BY <2>3, AnswerGives
    <3>2. posts' = posts \ {p} /\ turn' = turn /\ latest' = latest
      BY <2>3, AnswerGives DEF server
    <3>3. PageInv'
      BY <1>2, <1>3, <2>1, <3>1, <3>2, PageServed
    <3>4. NamesInv'
      BY <1>2, <1>3, <3>2, NamesServed
    <3> QED BY <3>3, <3>4
  <2> QED BY <1>5, <2>2, <2>3 DEF TakePrompt, HomeOfPost
<1>6. ASSUME NEW k \in Key, Reclaim(k), turn[k].status # "none"
      PROVE  /\ \A j \in Key : turn[j].status # "none" => turn'[j].status # "none"
             /\ \A j \in Key : /\ turn'[j].text = turn[j].text /\ turn'[j].chat = turn[j].chat
                               /\ turn[j].status = "none" => turn'[j] = turn[j]
  <2>1. turn'[k].text = turn[k].text /\ turn'[k].chat = turn[k].chat /\ turn'[k].status # "none"
    BY <1>3, <1>6 DEF Reclaim, Running, Turn
  <2>2. \A j \in Key : j # k => turn'[j] = turn[j]
    BY <1>3, <1>6 DEF Reclaim
  <2> QED BY <1>6, <2>1, <2>2
<1>7. CASE ReplayPrompt(p)
  <2>1. p.key \in Key /\ p.kind # "cancel" /\ turn[p.key].status # "none"
    BY <1>1, <1>2, <1>7 DEF ReplayPrompt, PostOK
  <2>2. PICK a \in {"head", "failed"} : calls' = IF p.call = NoCall THEN calls ELSE [calls EXCEPT ![p.call].at = a]
    BY <1>7, AnswerGives DEF ReplayPrompt
  <2>3. posts' = posts \ {p} /\ latest' = latest /\ (turn' = turn \/ Reclaim(p.key))
    BY <1>7, AnswerGives DEF ReplayPrompt
  <2>4. /\ \A j \in Key : turn[j].status # "none" => turn'[j].status # "none"
        /\ \A j \in Key : /\ turn'[j].text = turn[j].text /\ turn'[j].chat = turn[j].chat
                          /\ turn[j].status = "none" => turn'[j] = turn[j]
    BY <1>6, <2>1, <2>3
  <2>5. PageInv'
    BY <1>2, <1>3, <2>1, <2>2, <2>3, <2>4, PageServed
  <2>6. NamesInv'
    BY <1>2, <1>3, <2>3, <2>4, NamesServed
  <2> QED BY <2>5, <2>6
<1>8. CASE TakeRetry(p)
  <2>1. p.turn \in Key /\ p.kind = "retry" /\ Started(p.turn) /\ p.turn # 0
    BY <1>1, <1>2, <1>8 DEF TakeRetry, PostOK
  <2>2. turn[p.turn].status # "none"
    BY <2>1 DEF Started
  <2>3. posts' = posts \ {p} /\ latest' = latest
    BY <1>8, AnswerGives DEF TakeRetry
  <2>4. \E a \in {"head", "failed", "refused"} : calls' = IF p.call = NoCall THEN calls ELSE [calls EXCEPT ![p.call].at = a]
    BY <1>8, AnswerGives DEF TakeRetry
  <2>5. PICK a \in {"head", "failed", "refused"} : calls' = IF p.call = NoCall THEN calls ELSE [calls EXCEPT ![p.call].at = a]
    BY <2>4
  <2>6. /\ \A j \in Key : turn[j].status # "none" => turn'[j].status # "none"
        /\ \A j \in Key : /\ turn'[j].text = turn[j].text /\ turn'[j].chat = turn[j].chat
                          /\ turn[j].status = "none" => turn'[j] = turn[j]
    <3>1. CASE turn' = turn
      BY <3>1
    <3>2. CASE Reclaim(p.turn)
      BY <1>6, <2>1, <2>2, <3>2
    <3>3. CASE latest[p.chat] = p.turn /\ turn' = [turn EXCEPT ![p.turn] = Running(p.chat, turn[p.turn].text, p.not + 1)]
      <4>1. \A d \in Chat : latest[d] # 0 => turn[latest[d]].chat = d
        BY <1>2 DEF NamesInv, TurnsInv
      <4>2. turn[p.turn].chat = p.chat \/ p.chat = 0
        BY <1>1, <2>1, <3>3, <4>1
      <4>3. p.chat # 0
        BY <1>2, <2>1 DEF PageInv, PostsInv, PostOK
      <4> QED BY <1>3, <2>1, <2>2, <3>3, <4>2, <4>3 DEF Running
    <3> QED BY <1>3, <1>8, <2>1, <3>1, <3>2, <3>3 DEF TakeRetry
  <2>7. p.key = 0
    BY <1>2, <2>1 DEF PageInv, PostsInv, PostOK
  <2>8. PageInv'
    BY <1>2, <1>3, <2>1, <2>3, <2>5, <2>6, <2>7, PageServed
  <2>9. NamesInv'
    BY <1>2, <1>3, <2>3, <2>6, NamesServed
  <2> QED BY <2>8, <2>9
<1>9. CASE TakeCancel(p)
  <2>1. p.turn \in Key /\ p.kind = "cancel" /\ Started(p.turn) /\ p.turn # 0
    BY <1>1, <1>2, <1>9 DEF TakeCancel, PostOK
  <2>2. posts' = posts \ {p} /\ latest' = latest
    BY <1>9, AnswerGives DEF TakeCancel
  <2>3. PICK a \in {"canceled", "notCanceled"} : calls' = IF p.call = NoCall THEN calls ELSE [calls EXCEPT ![p.call].at = a]
    BY <1>9, AnswerGives DEF TakeCancel
  <2>4. /\ \A j \in Key : turn[j].status # "none" => turn'[j].status # "none"
        /\ \A j \in Key : /\ turn'[j].text = turn[j].text /\ turn'[j].chat = turn[j].chat
                          /\ turn[j].status = "none" => turn'[j] = turn[j]
    BY <1>3, <1>9, <2>1 DEF TakeCancel, Started, Turn
  <2>5. PageInv'
    BY <1>2, <1>3, <2>1, <2>2, <2>3, <2>4, PageServed
  <2>6. NamesInv'
    BY <1>2, <1>3, <2>2, <2>4, NamesServed
  <2> QED BY <2>5, <2>6
<1> QED BY <1>5, <1>7, <1>8, <1>9 DEF Take

LEMMA FreshKey ==
  ASSUME TypeOK, NamesInv, asked < MaxKeys
  PROVE  asked + 1 \in Key /\ turn[asked + 1].status = "none" /\ asked \in Nat /\ typed \in Nat
<1>1. asked + 1 \in Key /\ asked \in Nat /\ typed \in Nat
  BY BoundsAssumption, Numbers DEF TypeOK, ServerType, Key
<1>2. SUFFICES ASSUME turn[asked + 1].status # "none" PROVE FALSE
  BY <1>1
<1>3. turn[asked + 1].text \in {0} \cup Key /\ turn[asked + 1].chat \in Chat
  BY <1>1, <1>2 DEF NamesInv, TurnsInv, TypeOK, ServerType, Turn
<1>4. Used(asked + 1, turn[asked + 1].text, turn[asked + 1].chat)
  BY <1>2 DEF Used
<1>5. asked + 1 <= asked
  BY <1>1, <1>3, <1>4 DEF NamesInv, Counted
<1> QED BY <1>1, <1>5

LEMMA ServerKeeps ==
  ASSUME IInv, Server
  PROVE  IInv'
<1>1. TypeOK /\ TypeOK' /\ PageInv /\ NamesInv /\ turn \in [Key -> Turn]
  BY ServerTypes DEF IInv, TypeOK, ServerType
<1>2. ASSUME NEW p \in posts, Lose(p) PROVE PageInv' /\ NamesInv'
  <2>1. /\ UNCHANGED <<route, view, aborts, stored, asked, typed>> /\ turn' = turn /\ latest' = latest /\ posts' = posts \ {p}
        /\ calls' = IF p.call = NoCall THEN calls
                    ELSE [calls EXCEPT ![p.call].at = IF p.kind = "cancel" THEN "notCanceled" ELSE "failed"]
    BY <1>2 DEF Lose, client, server
  <2>2. CASE p.kind = "cancel"
    <3>1. calls' = IF p.call = NoCall THEN calls ELSE [calls EXCEPT ![p.call].at = "notCanceled"]
      BY <2>1, <2>2
    <3> QED BY <1>1, <2>1, <2>2, <3>1, PageServed, NamesServed
  <2>3. CASE p.kind # "cancel"
    <3>1. calls' = IF p.call = NoCall THEN calls ELSE [calls EXCEPT ![p.call].at = "failed"]
      BY <2>1, <2>3
    <3>2. PageInv'
      BY <1>1, <2>1, <2>3, <3>1, PageServed
    <3> QED BY <1>1, <2>1, <3>2, NamesServed
  <2> QED BY <2>2, <2>3
<1>3. ASSUME NEW k \in Key, Generate(k) \/ Crash(k) \/ OtherRetry(k) PROVE PageInv' /\ NamesInv'
  <2>1. UNCHANGED <<route, view, aborts, stored, asked, typed, latest, posts, calls>>
    BY <1>3 DEF Generate, Crash, OtherRetry, client
  <2>2. turn[k].status # "none"
    BY <1>3 DEF Generate, Crash, OtherRetry
  <2>3. turn'[k].text = turn[k].text /\ turn'[k].chat = turn[k].chat /\ turn'[k].status # "none"
    BY <1>1, <1>3 DEF Generate, Crash, OtherRetry, Running, Turn
  <2>4. \A j \in Key : j # k => turn'[j] = turn[j]
    BY <1>1, <1>3 DEF Generate, Crash, OtherRetry
  <2>5. PageInv'
    BY <1>1, <2>1, <2>3, <2>4, PageUnserved
  <2>6. NamesInv'
    BY <1>1, <2>1, <2>2, <2>3, <2>4, NamesServed
  <2> QED BY <2>5, <2>6
<1>4. ASSUME NEW c \in Chat, OtherPrompt(c) PROVE PageInv' /\ NamesInv'
  <2>1. /\ UNCHANGED <<route, view, aborts, stored, typed, posts, calls>> /\ asked' = asked + 1
        /\ StartTurn(c, asked + 1, 0) /\ asked < MaxKeys
    BY <1>4 DEF OtherPrompt
  <2>2. asked + 1 \in Key /\ turn[asked + 1].status = "none" /\ asked \in Nat
    BY <1>1, <2>1, FreshKey
  <2>3. \A j \in Key : turn[j].status # "none" => turn'[j].status # "none"
    BY <1>1, <2>1, <2>2 DEF StartTurn, Running, Turn
  <2>4. PageInv'
    BY <1>1, <2>1, <2>3, PageUnserved
  <2>5. asked < asked + 1 /\ asked + 1 <= asked' /\ asked' \in Nat /\ asked <= asked'
    BY <2>1, <2>2
  <2>6. NamesInv'
    BY <1>1, <2>1, <2>2, <2>5, NamesStarted
  <2> QED BY <2>4, <2>6
<1> QED BY <1>1, <1>2, <1>3, <1>4, TakeKeeps DEF Server, IInv

-----------------------------------------------------------------------------
(* Routes.                                                                 *)

LEMMA KeptStorage ==
  ASSUME TypeOK, StorageInv
  PROVE  Kept(stored) /\ Kept(Left)
<1>1. NoRequest \in Request /\ RequestOK(NoRequest) /\ NoRequest.kind # "retry"
  BY DEF NoRequest, Request, RequestOK, Started
<1>2. Kept(stored)
  BY DEF Kept, StorageInv, TypeOK, CallsType
<1>3. \A cs : Kept(Without(cs))
  BY <1>1, <1>2 DEF Kept, Without
<1> QED BY <1>2, <1>3 DEF Left

LEMMA OpenKeeps ==
  ASSUME IInv, NEW others, NEW kept, NEW tg \in Target, Fresh(others), Kept(kept), Started(tg.turn),
         \A d \in {0} \cup Chat : kept[d] = stored[d] \/ kept[d] = NoRequest,
         \/ OpenNew(others, kept, tg)
         \/ \E c \in Chat : OpenChat(c, others, kept, tg)
         \/ Close(others, kept),
         UNCHANGED <<turn, latest, faults, asked, typed>>, opened' \in 0..MaxOpens
  PROVE  IInv'
<1>1. TypeOK /\ TypeOK' /\ PageInv /\ NamesInv
  BY OpenTypes DEF IInv
<1>2. \A t \in {0} \cup Key : Started(t) => Started(t)'
  BY DEF Started
<1>3. StorageInv' /\ stored' = kept
  BY <1>2 DEF OpenNew, OpenChat, Close, Kept, StorageInv, RequestOK, Started
<1>4. RouteInv'
  BY Numbers DEF OpenNew, OpenChat, Close, RouteInv, Read
<1>5. ShownInv' /\ OwnMessages' /\ FreeToAsk'
  BY DEF OpenNew, OpenChat, Close, ShownInv, OwnMessages, FreeToAsk, MayAsk, NoRow, Started, Read, Execute
<1>6. TargetInv'
  <2>1. CASE OpenNew(others, kept, tg) /\ kept[0].kind # "none"
    <3>1. target' = TargetOf(0, 0) /\ pending' = kept[0] /\ kept[0].kind = "prompt" /\ kept[0].not = 0
      BY <2>1 DEF OpenNew, Read, Kept, RequestOK, Request
    <3> QED BY <3>1 DEF TargetInv, TargetOf, Started, Fits
  <2>2. CASE ~(OpenNew(others, kept, tg) /\ kept[0].kind # "none")
    BY <1>2, <2>2 DEF OpenNew, OpenChat, Close, Read, TargetInv, Started, NoTarget, NoRequest
  <2> QED BY <2>1, <2>2
<1>7. PhaseInv' /\ CallsInv'
  <2>1. \A s \in Call : s # NoCall
    BY CallAssumption
  <2>2. \A s \in Call : others[s] \in CallState /\ ~others[s].live /\ (others[s].kind = "none" => others[s] = Idle)
    BY DEF Fresh
  <2>3. ASSUME NEW s \in Call, calls'[s] = others[s], stream' # s, recon' = NoCall PROVE CallInv(s)'
    BY <2>1, <2>2, <2>3 DEF CallInv, LiveInv
  <2>4. CASE OpenNew(others, kept, tg)
    <3>1. CASE kept[0].kind = "none"
      <4>1. phase' = "idle" /\ stream' = NoCall /\ recon' = NoCall /\ calls' = others
        BY <2>4, <3>1 DEF OpenNew
      <4> QED BY <2>1, <2>3, <4>1 DEF PhaseInv, CallsInv
    <3>2. CASE kept[0].kind # "none"
      <4>1. PICK s \in Free(others) : Execute(s, kept[0], 0, others, Unheard(Call))
        BY <2>4, <3>2 DEF OpenNew, Read
      <4>2. s \in Call /\ s # NoCall /\ stream' = s /\ phase' = "streaming" /\ recon' = NoCall
            /\ calls' = [others EXCEPT ![s] = Executing(kept[0], 0)] /\ pending' = kept[0] /\ active' = 0 /\ page' = "new"
        BY <2>1, <2>4, <4>1 DEF Free, Execute, OpenNew, Read
      <4>3. kept[0].kind = "prompt" /\ RequestOK(kept[0]) /\ kept[0] \in Request
        BY <3>2 DEF Kept, Request
      <4>4. calls'[s] = Executing(kept[0], 0)
        BY <4>2 DEF Fresh
      <4>5. calls'[s].at = "way" /\ calls'[s].live /\ calls'[s].kind = "exec" /\ calls'[s].chat = 0
            /\ calls'[s].key = kept[0].key /\ calls'[s].text = kept[0].text /\ calls'[s].turn = kept[0].turn
            /\ calls'[s].not = kept[0].not
        BY <4>4 DEF Executing
      <4>6. StreamCall(calls[s])'
        BY <4>2, <4>3, <4>5 DEF StreamCall, RequestOK, IdOf
      <4>7. "way" \in Streaming /\ "way" \notin Reconciling
        BY DEF Streaming, Reconciling
      <4>8. Started(calls[s].turn)'
        BY <4>3, <4>5 DEF RequestOK, Started
      <4>9. CallInv(s)'
        BY <4>2, <4>5, <4>6, <4>7, <4>8 DEF CallInv, LiveInv
      <4>10. \A q \in Call : q # s => CallInv(q)'
        BY <2>3, <4>2 DEF Fresh
      <4> QED BY <4>2, <4>9, <4>10 DEF PhaseInv, CallsInv
    <3> QED BY <3>1, <3>2
  <2>5. ASSUME NEW c \in Chat, OpenChat(c, others, kept, tg) PROVE PhaseInv' /\ CallsInv'
    <3>1. PICK s \in Free(others) : calls' = [others EXCEPT ![s] = Loading(c)]
      BY <2>5 DEF OpenChat
    <3>2. s \in Call /\ stream' = NoCall /\ recon' = NoCall /\ phase' = "idle" /\ loaded' = "loading" /\ active' = c /\ page' = "chat"
      BY <2>5 DEF Free, OpenChat
    <3>3. calls'[s] = Loading(c) /\ \A q \in Call : q # s => calls'[q] = others[q]
      BY <3>1, <3>2 DEF Fresh
    <3>4. CallInv(s)'
      <4>1. c # 0 /\ "load" \notin Streaming /\ "load" \notin Reconciling
        BY Numbers DEF Streaming, Reconciling
      <4>2. \A q \in Call : calls'[q].live => q = s
        BY <2>2, <3>3
      <4>3. calls'[s].at = "load" /\ calls'[s].live /\ calls'[s].kind = "load" /\ calls'[s].chat = c /\ calls'[s].turn = 0
        BY <3>3 DEF Loading
      <4> QED BY <2>1, <3>2, <4>1, <4>2, <4>3 DEF CallInv, LiveInv, LoadCall, Started
    <3>5. \A q \in Call : q # s => CallInv(q)'
      BY <2>1, <2>3, <3>2, <3>3
    <3> QED BY <3>2, <3>4, <3>5 DEF PhaseInv, CallsInv
  <2>6. CASE Close(others, kept)
    <3>1. phase' = "idle" /\ stream' = NoCall /\ recon' = NoCall /\ calls' = others
      BY <2>6 DEF Close
    <3> QED BY <2>1, <2>3, <3>1 DEF PhaseInv, CallsInv
  <2> QED BY <2>4, <2>5, <2>6
<1>8. PostsInv'
  <2>1. \A p \in Unheard(Call) : p.call = NoCall /\ PostOK(p)'
    <3> SUFFICES ASSUME NEW p \in Unheard(Call) PROVE p.call = NoCall /\ PostOK(p)'
      OBVIOUS
    <3>1. posts \subseteq Post /\ \A q \in posts : PostOK(q) /\ q.turn \in {0} \cup Key /\ q.call \in Call \cup {NoCall}
      BY <1>1 DEF PageInv, PostsInv, TypeOK, ServerType, Post
    <3>2. \A q \in posts : PostOK(q)'
      BY <1>2, <3>1 DEF PostOK
    <3>3. CASE p \in posts /\ p.call \notin Call
      BY <3>1, <3>2, <3>3
    <3>4. CASE \E q \in posts : p = Late(q)
      BY <3>2, <3>4 DEF Late, PostOK
    <3>5. CASE p \in posts /\ p.call = NoCall
      BY <3>2, <3>5
    <3> QED BY <3>3, <3>4, <3>5, UnheardPosts
  <2>2. CASE posts' = Unheard(Call)
    BY <2>1, <2>2 DEF PostsInv, Waits
  <2>3. CASE posts' # Unheard(Call)
    <3>0. OpenNew(others, kept, tg) /\ kept[0].kind # "none"
      BY <2>3 DEF OpenNew, OpenChat, Close
    <3>1. PICK s \in Free(others) : Execute(s, kept[0], 0, others, Unheard(Call))
      BY <3>0 DEF OpenNew, Read
    <3>2. s \in Call /\ s # NoCall /\ posts' = Unheard(Call) \cup {PostOf(s, kept[0], 0)} /\ calls'[s] = Executing(kept[0], 0)
      BY <3>1, CallAssumption DEF Free, Execute, Fresh
    <3>3. kept[0].kind = "prompt" /\ RequestOK(kept[0]) /\ kept[0] \in Request
      BY <3>0 DEF Kept, Request
    <3>4. PostOK(PostOf(s, kept[0], 0))'
      BY <3>3 DEF PostOf, PostOK, RequestOK, Started
    <3>5. Waits(PostOf(s, kept[0], 0))'
      BY <3>2 DEF Waits, PostOf, Executing
    <3>6. PostOf(s, kept[0], 0).call = s
      BY DEF PostOf
    <3> QED BY <2>1, <3>2, <3>4, <3>5, <3>6 DEF PostsInv, Waits
  <2> QED BY <2>2, <2>3
<1>9. NamesInv'
  <2>1. \A d \in {0} \cup Chat : stored'[d].kind = "prompt" => Used(stored'[d].key, stored'[d].text, HomeOf(d)')
    BY <1>3, StoredIsUsed DEF HomeOf, NoRequest
  <2>2. ASSUME NEW p \in posts', p.kind \in {"initial", "send"} PROVE Used(p.key, p.text, HomeOfPost(p))
    <3>1. CASE p \in Unheard(Call)
      BY <2>2, <3>1, LateAreUsed
    <3>2. CASE p \notin Unheard(Call)
      <4>1. OpenNew(others, kept, tg) /\ kept[0].kind # "none"
        BY <3>2 DEF OpenNew, OpenChat, Close
      <4>2. \E s \in Call : p = PostOf(s, kept[0], 0)
        BY <3>2, <4>1 DEF OpenNew, Execute, Read, Free
      <4>3. p.kind = "initial" /\ p.key = kept[0].key /\ p.text = kept[0].text
        BY <4>2 DEF PostOf
      <4>4. kept[0].kind = "prompt" /\ kept[0] = stored[0]
        BY <4>1 DEF Kept, Request, NoRequest
      <4> QED BY <4>3, <4>4, StoredIsUsed DEF HomeOf, HomeOfPost
    <3> QED BY <3>1, <3>2
  <2> QED BY <1>1, <2>1, <2>2, NamesKept
<1> QED BY <1>1, <1>3, <1>4, <1>5, <1>6, <1>7, <1>8, <1>9 DEF IInv, PageInv

LEMMA RouteKeeps ==
  ASSUME IInv, Go \/ Arrive \/ Reload
  PROVE  IInv'
<1>1. TypeOK /\ StorageInv /\ CallsInv /\ Started(target.turn) /\ target \in Target /\ opened \in 0..MaxOpens
  BY DEF IInv, PageInv, TargetInv, TypeOK, ViewType, ServerType
<1>2. Fresh(AllStale) /\ Fresh(NoCalls) /\ Kept(stored) /\ Kept(Left)
  BY <1>1, FreshCalls, KeptStorage
<1>3. \A d \in {0} \cup Chat : Left[d] = stored[d] \/ Left[d] = NoRequest
  BY DEF Left, Without
<1>4. NoTarget \in Target /\ Started(NoTarget.turn)
  BY DEF NoTarget, Target, Started
<1>5. CASE Go
  <2>1. opened' \in 0..MaxOpens /\ UNCHANGED <<turn, latest, faults, asked, typed>>
    BY <1>1, <1>5, BoundsOfUserAssumption DEF Go, server
  <2>2. OpenNew(AllStale, Left, target) \/ (\E c \in Chat : OpenChat(c, AllStale, Left, target)) \/ Close(AllStale, Left)
    BY <1>5 DEF Go
  <2> QED BY <1>1, <1>2, <1>3, <2>1, <2>2, OpenKeeps
<1>6. CASE Arrive
  <2>1. opened' \in 0..MaxOpens /\ UNCHANGED <<turn, latest, faults, asked, typed>>
    BY <1>1, <1>6 DEF Arrive, server
  <2>2. going \in Chat
    BY <1>1, <1>6 DEF Arrive, TypeOK, RouteType
  <2>3. \E c \in Chat : OpenChat(c, AllStale, Left, target)
    BY <1>6, <2>2 DEF Arrive
  <2> QED BY <1>1, <1>2, <1>3, <2>1, <2>3, OpenKeeps
<1>7. CASE Reload
  <2>1. opened' \in 0..MaxOpens /\ UNCHANGED <<turn, latest, faults, asked, typed>>
    BY <1>1, <1>7, BoundsOfUserAssumption DEF Reload, server
  <2>2. page # "new" => going = 0 /\ chat \in Chat
    BY <1>1, <1>7 DEF IInv, PageInv, RouteInv, Reload, TypeOK, RouteType, ViewType
  <2>3. OpenNew(NoCalls, stored, NoTarget) \/ (\E c \in Chat : OpenChat(c, NoCalls, stored, NoTarget))
    BY <1>1, <1>7, <2>2 DEF Reload, TypeOK, RouteType
  <2> QED BY <1>2, <1>4, <2>1, <2>3, OpenKeeps DEF IInv
<1> QED BY <1>5, <1>6, <1>7

-----------------------------------------------------------------------------
(* Calls of the page that is shown.                                        *)

Superseded(x) == x.live /\ x.cut /\ x.at \in Reconciling

Kinds == Streaming \cap Reconciling = {} /\ "load" \notin Streaming \cup Reconciling /\ "reread" \notin Streaming \cup Reconciling
         /\ "done" \notin Streaming \cup Reconciling
LEMMA KindsDiffer == Kinds
BY DEF Kinds, Streaming, Reconciling

\* Beside a call that works for the page there are only calls that it overtook.
LEMMA OnlyOne ==
  ASSUME TypeOK, CallsInv, NEW s \in Call, calls[s].live, ~Superseded(calls[s])
  PROVE  \A q \in Call : q # s /\ calls[q].live => Superseded(calls[q])
<1> SUFFICES ASSUME NEW q \in Call, q # s, calls[q].live PROVE Superseded(calls[q])
  OBVIOUS
<1>1. LiveInv(s) /\ LiveInv(q)
  BY DEF CallsInv, CallInv
<1>2. \A x \in Call : calls[x].at \in {"done", "load", "reread"} \cup Streaming \cup Reconciling
  BY DEF TypeOK, CallsType, CallState
<1>3. calls[s].at # "load" /\ calls[q].at # "load"
  BY <1>1 DEF LiveInv
<1>4. calls[s].at \in Streaming \cup {"reread"} => stream = s /\ phase = "streaming"
  BY <1>1 DEF LiveInv, StreamCall, RereadCall
<1>5. calls[q].at \in Streaming \cup {"reread"} => stream = q /\ phase = "streaming"
  BY <1>1 DEF LiveInv, StreamCall, RereadCall
<1>6. calls[s].at \in Reconciling => recon = s /\ phase = "settling"
  BY <1>1 DEF LiveInv, SettleCall, Superseded
<1>7. calls[q].at \in Reconciling /\ ~calls[q].cut => recon = q /\ phase = "settling"
  BY <1>1 DEF LiveInv, SettleCall
<1>8. calls[s].at # "done" /\ calls[q].at # "done"
  BY <1>1 DEF LiveInv
<1> QED BY <1>2, <1>3, <1>4, <1>5, <1>6, <1>7, <1>8 DEF Superseded

\* While the composer is free, or the user is asked to retry, there are no others.
LEMMA NoneAtRest ==
  ASSUME TypeOK, CallsInv, loaded = "ready", phase \in {"idle", "required"}
  PROVE  \A q \in Call : stream # q /\ recon # q /\ (calls[q].live => Superseded(calls[q]))
<1> SUFFICES ASSUME NEW q \in Call PROVE stream # q /\ recon # q /\ (calls[q].live => Superseded(calls[q]))
  OBVIOUS
<1>1. LiveInv(q) /\ CallInv(q) /\ calls[q].at \in {"done", "load", "reread"} \cup Streaming \cup Reconciling
  BY DEF CallsInv, CallInv, TypeOK, CallsType, CallState
<1>2. calls[q].live => Superseded(calls[q])
  BY <1>1 DEF LiveInv, StreamCall, RereadCall, SettleCall, LoadCall, Superseded
<1>3. stream # q /\ recon # q
  BY <1>1, <1>2, KindsDiffer DEF CallInv, Superseded, Kinds
<1> QED BY <1>2, <1>3

\* A call that is over, or overtaken, after a step of another one.
LEMMA OtherCall ==
  ASSUME TypeOK, CallsInv, NEW q \in Call,
         calls'[q] = calls[q] \/ (calls[q].live /\ calls'[q] = [calls[q] EXCEPT !.cut = TRUE]),
         calls'[q].live => Superseded(calls'[q]) /\ active' = active /\ page' = page,
         turn' = turn, stream' # q, recon' # q
  PROVE  CallInv(q)'
<1>1. CallInv(q) /\ LiveInv(q) /\ calls[q] \in CallState
  BY DEF CallsInv, CallInv, TypeOK, CallsType
<1>2. /\ calls'[q].kind = calls[q].kind /\ calls'[q].live = calls[q].live /\ calls'[q].at = calls[q].at
      /\ calls'[q].chat = calls[q].chat /\ calls'[q].turn = calls[q].turn
  BY <1>1 DEF CallState
<1>3. calls'[q].kind = "none" => calls'[q] = Idle
  BY <1>1, <1>2 DEF CallInv, Idle
<1>4. LiveInv(q)'
  <2> SUFFICES ASSUME calls'[q].live PROVE LiveInv(q)'
    BY DEF LiveInv
  <2>1. calls'[q].cut /\ calls'[q].at \in Reconciling /\ active' = active /\ page' = page
    BY DEF Superseded
  <2>2. calls'[q].at \notin Streaming /\ calls'[q].at # "reread" /\ calls'[q].at # "load" /\ calls'[q].at # "done"
    BY <2>1, KindsDiffer DEF Kinds
  <2>3. SettleCall(calls[q])
    BY <1>1, <1>2, <2>1 DEF LiveInv
  <2>4. SettleCall(calls[q])'
    BY <1>2, <2>1, <2>3 DEF SettleCall
  <2> QED BY <1>1, <1>2, <2>1, <2>2, <2>4 DEF LiveInv, Started
<1> QED BY <1>3, <1>4 DEF CallInv

\* What is left of the posts when call s stops waiting for one.
LEMMA PostsLeft ==
  ASSUME TypeOK, PostsInv, turn' = turn, NEW s \in Call,
         \/ posts' = Unheard({s})
         \/ posts' = posts /\ ~(calls[s].live /\ calls[s].at \in {"way", "cancelling"}),
         \A q \in Call : q # s => calls'[q].live = calls[q].live /\ calls'[q].at = calls[q].at /\ calls'[q].key = calls[q].key
  PROVE  PostsInv' /\ (\A p \in posts' : p.call # s) /\ posts' \subseteq Post
<1>1. posts \subseteq Post /\ \A p \in posts : p.call \in Call \cup {NoCall}
  BY DEF TypeOK, ServerType, Post
<1>2. \A p \in posts : (PostOK(p) => PostOK(p)') /\ PostOK(p) /\ Waits(p)
  BY DEF PostOK, Started, PostsInv
<1>3. \A p \in posts : p.call # s => Waits(p)'
  BY <1>1, <1>2 DEF Waits
<1>4. \A p \in posts' : p \in posts \/ \E r \in posts : p = Late(r)
  BY UnheardPosts
<1>5. \A p \in posts' : p \in posts => p.call # s
  <2>1. CASE posts' = Unheard({s})
    <3> SUFFICES ASSUME NEW p \in posts', p \in posts, p.call = s PROVE FALSE
      OBVIOUS
    <3>1. \E r \in posts : p = Late(r)
      BY <2>1, UnheardPosts, CallAssumption
    <3> QED BY <3>1, CallAssumption DEF Late
  <2>2. CASE posts' = posts /\ ~(calls[s].live /\ calls[s].at \in {"way", "cancelling"})
    BY <1>2, <2>2, CallAssumption DEF Waits
  <2> QED BY <2>1, <2>2
<1>6. \A r \in posts : Late(r).call = NoCall /\ PostOK(Late(r))' /\ Waits(Late(r))' /\ Late(r) \in Post
  BY <1>1, <1>2 DEF Late, PostOK, Waits, Post
<1>7. PostsInv'
  <2>1. \A p \in posts' : PostOK(p)' /\ Waits(p)'
    BY <1>2, <1>3, <1>4, <1>5, <1>6
  <2>2. \A p \in posts' : p.call # NoCall => p \in posts
    BY <1>4, <1>6
  <2> QED BY <2>1, <2>2 DEF PostsInv
<1> QED BY <1>1, <1>4, <1>5, <1>6, <1>7, CallAssumption

\* A call that worked for the page ends.
LEMMA CallEnds ==
  ASSUME TypeOK, CallsInv, NEW s \in Call, calls[s].live, ~Superseded(calls[s]),
         calls' = [calls EXCEPT ![s] = Idle], UNCHANGED <<turn, active, page>>,
         stream' = (IF stream = s THEN NoCall ELSE stream) \/ (stream' = stream /\ stream # s),
         recon' = (IF recon = s THEN NoCall ELSE recon) \/ (recon' = recon /\ calls[s].at \notin Reconciling),
         phase' \in {"idle", "required"}
  PROVE  CallsInv' /\ PhaseInv'
<1>1. \A q \in Call : q # s /\ calls[q].live => Superseded(calls[q])
  BY OnlyOne
<1>2. \A q \in Call : CallInv(q) /\ q # NoCall
  BY CallAssumption DEF CallsInv
<1>3. stream' # s /\ recon' # s
  BY <1>2 DEF CallInv
<1>4. ASSUME NEW q \in Call, q # s PROVE CallInv(q)'
  <2>1. calls'[q] = calls[q]
    BY <1>4 DEF TypeOK, CallsType
  <2>2. stream' # q /\ recon' # q
    BY <1>1, <1>2, <1>4, KindsDiffer DEF CallInv, Superseded, Kinds
  <2> QED BY <1>1, <1>4, <2>1, <2>2, OtherCall
<1>5. CallInv(s)'
  <2>1. calls'[s] = Idle
    BY DEF TypeOK, CallsType
  <2> QED BY <1>3, <2>1 DEF CallInv, LiveInv, Idle
<1> QED BY <1>4, <1>5 DEF CallsInv, PhaseInv

\* A call starts to reconcile for the page; the one that did is overtaken.
LEMMA CallReconciles ==
  ASSUME TypeOK, CallsInv, NEW s \in Call, NEW kind \in {"exec", "reconcile"}, NEW c, NEW t, NEW n,
         NEW stop \in BOOLEAN, NEW poll \in BOOLEAN, Reconcile(s, kind, c, t, n, stop, poll),
         c = active, c # 0, page # "away", Started(t),
         pending'.kind # "none" => t \in {0, IdOf(pending)'} /\ n = pending'.not,
         UNCHANGED <<turn, active, page>>,
         \A q \in Call : q # s /\ calls[q].live => Superseded(calls[q]) \/ q = recon,
         \A q \in Call : stream' # q
  PROVE  CallsInv' /\ PhaseInv'
<1>1. \A q \in Call : CallInv(q) /\ q # NoCall /\ calls[q] \in CallState
  BY CallAssumption DEF CallsInv, TypeOK, CallsType
<1>2. Aborted(s) \in [Call -> CallState] /\ calls \in [Call -> CallState]
  <2>1. calls \in [Call -> CallState]
    BY DEF TypeOK, CallsType
  <2>2. recon \in Call => [calls[recon] EXCEPT !.cut = TRUE] \in CallState
    BY <2>1, ZenonT(40) DEF CallState
  <2> QED BY <2>1, <2>2 DEF Aborted
<1>3. \A q \in Call : q # s => calls'[q] = Aborted(s)[q]
  BY <1>2 DEF Reconcile
<1>4. ASSUME NEW q \in Call, q # s PROVE CallInv(q)'
  <2>1. CASE q = recon
    <3>1. calls[q].live /\ calls[q].at \in Reconciling
      BY <1>1, <2>1 DEF CallInv
    <3>2. calls'[q] = [calls[q] EXCEPT !.cut = TRUE]
      BY <1>2, <1>3, <1>4, <2>1 DEF Aborted
    <3>3. Superseded(calls'[q])
      BY <1>1, <3>1, <3>2 DEF Superseded, CallState
    <3>4. recon' # q
      BY <1>1, <1>4 DEF Reconcile
    <3> QED BY <3>1, <3>2, <3>3, <3>4, OtherCall
  <2>2. CASE q # recon
    <3>1. calls'[q] = calls[q]
      BY <1>2, <1>3, <1>4, <2>2 DEF Aborted, TypeOK, CallsType
    <3>2. calls'[q].live => Superseded(calls'[q])
      BY <1>4, <2>2, <3>1
    <3>3. recon' # q
      BY <1>1, <1>4, <2>2 DEF Reconcile
    <3> QED BY <3>1, <3>2, <3>3, OtherCall
  <2> QED BY <2>1, <2>2
<1>5. CallInv(s)' /\ PhaseInv'
  <2>1. CASE t = 0
    <3>1. calls'[s] = Idle /\ recon' = NoCall /\ phase' = "required"
      BY <1>2, <2>1 DEF Reconcile
    <3> QED BY <1>1, <3>1 DEF CallInv, LiveInv, Idle, PhaseInv
  <2>2. CASE t # 0
    <3>1. PICK at \in {"saved", "poll", "once"} : calls'[s] = Awaiting(kind, at, c, t, n, poll)
      BY <1>2, <2>2 DEF Reconcile
    <3>2. recon' = s /\ phase' = "settling"
      BY <2>2 DEF Reconcile
    <3>3. /\ calls'[s].kind = kind /\ calls'[s].at = at /\ calls'[s].live /\ ~calls'[s].cut
          /\ calls'[s].chat = c /\ calls'[s].turn = t /\ calls'[s].not = n
      BY <3>1 DEF Awaiting
    <3>4. SettleCall(calls[s])'
      BY <2>2, <3>2, <3>3 DEF SettleCall, Fits
    <3>5. at \in Reconciling /\ at \notin Streaming /\ at # "reread" /\ at # "load" /\ at # "done"
      BY <3>1 DEF Reconciling, Streaming
    <3>6. LiveInv(s)'
      BY <3>2, <3>3, <3>4, <3>5 DEF LiveInv, Started
    <3> QED BY <1>1, <3>2, <3>3, <3>5, <3>6 DEF CallInv, PhaseInv
  <2> QED BY <2>1, <2>2
<1> QED BY <1>4, <1>5 DEF CallsInv

\* A call sends the request r of the page.
LEMMA CallExecutes ==
  ASSUME TypeOK, CallsInv, PostsInv, NEW s \in Call, NEW r \in Request, Execute(s, r, active, calls, posts),
         page # "away", RequestOK(r), r.kind # "none", active = 0 => r.kind # "retry", pending' = r,
         UNCHANGED <<turn, active, page>>,
         ~(calls[s].live /\ calls[s].at \in {"way", "cancelling"}),
         \A q \in Call : q # s /\ calls[q].live => Superseded(calls[q]),
         \A q \in Call : recon' # q
  PROVE  CallsInv' /\ PhaseInv' /\ PostsInv'
<1>1. \A q \in Call : q # NoCall /\ calls[q] \in CallState
  BY CallAssumption DEF TypeOK, CallsType
<1>2. calls'[s] = Executing(r, active) /\ (\A q \in Call : q # s => calls'[q] = calls[q]) /\ stream' = s /\ phase' = "streaming"
  BY DEF Execute, TypeOK, CallsType
<1>3. /\ calls'[s].kind = "exec" /\ calls'[s].at = "way" /\ calls'[s].live /\ ~calls'[s].cut /\ calls'[s].chat = active
      /\ calls'[s].key = r.key /\ calls'[s].text = r.text /\ calls'[s].turn = r.turn /\ calls'[s].not = r.not
  BY <1>2 DEF Executing
<1>4. \A q \in Call : q # s => CallInv(q)'
  BY <1>2, OtherCall
<1>5. CallInv(s)'
  <2>1. r.turn \in {0, IdOf(r)}
    BY DEF RequestOK, IdOf, Request
  <2>2. StreamCall(calls[s])'
    BY <1>2, <1>3, <2>1 DEF StreamCall, IdOf
  <2>3. "way" \in Streaming /\ "way" \notin Reconciling
    BY DEF Streaming, Reconciling
  <2>4. LiveInv(s)'
    BY <1>2, <1>3, <2>2, <2>3 DEF LiveInv, Started, RequestOK
  <2> QED BY <1>2, <1>3, <2>3, <2>4 DEF CallInv
<1>6. PhaseInv'
  BY <1>1, <1>2 DEF PhaseInv
<1>7. PostsInv'
  <2>0. PICK new : new = PostOf(s, r, active)
    OBVIOUS
  <2>1. posts \subseteq Post /\ posts' = posts \cup {new}
    BY <2>0 DEF TypeOK, ServerType, Execute
  <2>2. \A p \in posts : (PostOK(p) => PostOK(p)') /\ PostOK(p) /\ Waits(p) /\ p.call \in Call \cup {NoCall}
    BY <2>1 DEF PostOK, Started, PostsInv, Post
  <2>3. \A p \in posts : p.call # s
    BY <1>1, <2>2 DEF Waits
  <2>4. \A p \in posts : PostOK(p)' /\ Waits(p)'
    BY <1>2, <2>2, <2>3 DEF Waits
  <2>5. new.call = s /\ new.kind # "cancel" /\ new.key = r.key
    BY <2>0 DEF PostOf
  <2>6. PostOK(new)'
    BY <2>0 DEF PostOf, PostOK, RequestOK, Started, Request
  <2>7. Waits(new)'
    BY <1>3, <2>5 DEF Waits
  <2>8. \A p \in posts' : PostOK(p)' /\ Waits(p)'
    BY <2>1, <2>4, <2>6, <2>7
  <2>9. \A p, q \in posts' : p.call # NoCall /\ p.call = q.call => p = q
    BY <2>1, <2>3, <2>5 DEF PostsInv
  <2> QED BY <2>8, <2>9 DEF PostsInv
<1> QED BY <1>4, <1>5, <1>6, <1>7 DEF CallsInv

LEMMA ReconcileTypes ==
  ASSUME TypeOK, NEW s \in Call, NEW kind \in {"exec", "reconcile"}, NEW c \in {0} \cup Chat, NEW t \in {0} \cup Key,
         NEW n \in {0} \cup Reply, NEW stop \in BOOLEAN, NEW poll \in BOOLEAN, Reconcile(s, kind, c, t, n, stop, poll)
  PROVE  /\ calls' \in [Call -> CallState] /\ target' \in Target /\ recon' \in Call \cup {NoCall}
         /\ phase' \in {"idle", "streaming", "settling", "required"}
<1>1. Aborted(s) \in [Call -> CallState]
  <2>1. calls \in [Call -> CallState]
    BY DEF TypeOK, CallsType
  <2>2. recon \in Call => [calls[recon] EXCEPT !.cut = TRUE] \in CallState
    BY <2>1 DEF CallState
  <2> QED BY <2>1, <2>2 DEF Aborted
<1>2. \A at \in {"saved", "poll", "once"} : Awaiting(kind, at, c, t, n, poll) \in CallState
  BY DEF Awaiting, CallState, Reconciling
<1>3. Idle \in CallState
  BY DEF Idle, CallState
<1>4. calls' \in [Call -> CallState]
  BY <1>1, <1>2, <1>3 DEF Reconcile
<1>5. target' \in Target
  BY DEF Reconcile, TargetOf, Target
<1> QED BY <1>4, <1>5 DEF Reconcile

LEMMA ExecuteTypes ==
  ASSUME TypeOK, NEW s \in Call, NEW r \in Request, Execute(s, r, active, calls, posts)
  PROVE  /\ calls' \in [Call -> CallState] /\ posts' \in SUBSET Post /\ stream' \in Call \cup {NoCall}
         /\ phase' \in {"idle", "streaming", "settling", "required"}
<1>1. active \in {0} \cup Chat /\ calls \in [Call -> CallState] /\ posts \subseteq Post
  BY DEF TypeOK, ViewType, CallsType, ServerType
<1>2. Executing(r, active) \in CallState
  BY <1>1 DEF Executing, CallState, Request, Streaming
<1>3. PostOf(s, r, active) \in Post
  BY <1>1 DEF PostOf, Post, Request
<1> QED BY <1>1, <1>2, <1>3 DEF Execute

\* The last row of a chat, and of a window that a retry started in.
LEMMA LastRowIs ==
  ASSUME TypeOK, TurnsInv, NEW c \in Chat
  PROVE  LastRow(c) \in Row /\ Started(LastRow(c).turn) /\ LastRow(c).chat \in {0, c} /\ (LastRow(c).failed => LastRow(c).turn # 0)
<1>1. CASE latest[c] = 0
  BY <1>1 DEF LastRow, NoRow, Row, Started
<1>2. CASE latest[c] # 0
  <2>1. latest[c] \in Key /\ turn[latest[c]] \in Turn
    BY <1>2 DEF TypeOK, ServerType
  <2>2. LastRow(c) \in Row
    BY <1>2, <2>1 DEF LastRow, Row, Turn
  <2> QED BY <1>2, <2>1, <2>2 DEF LastRow, Started, TurnsInv
<1> QED BY <1>1, <1>2

LEMMA DroppedIs ==
  ASSUME NEW row \in Row, NEW r \in Request
  PROVE  /\ Dropped(row, r) \in Row /\ Dropped(row, r).chat = row.chat /\ Dropped(row, r).turn = row.turn
         /\ (Dropped(row, r).failed => row.failed)
BY DEF Dropped, Row

\* Storage after some of its requests are removed.
LEMMA StorageWithout ==
  ASSUME TypeOK, StorageInv, NEW cs, stored' = Without(cs), turn' = turn
  PROVE  /\ StorageInv' /\ stored' \in [{0} \cup Chat -> Request]
         /\ \A d \in {0} \cup Chat : stored'[d].kind = "prompt" => Used(stored'[d].key, stored'[d].text, HomeOf(d)')
         /\ \A d \in {0} \cup Chat : stored'[d] = IF d \in cs THEN NoRequest ELSE stored[d]
<1>1. NoRequest \in Request /\ RequestOK(NoRequest)' /\ NoRequest.kind = "none"
  BY DEF NoRequest, Request, RequestOK, Started
<1>2. \A d \in {0} \cup Chat : stored'[d] = IF d \in cs THEN NoRequest ELSE stored[d]
  BY DEF Without
<1>3. stored \in [{0} \cup Chat -> Request] /\ stored' \in [{0} \cup Chat -> Request]
  BY <1>1 DEF TypeOK, CallsType, Without
<1>4. \A r : RequestOK(r) => RequestOK(r)'
  BY DEF RequestOK, Started
<1>5. StorageInv'
  BY <1>1, <1>2, <1>4 DEF StorageInv
<1>6. \A d \in {0} \cup Chat : stored'[d].kind = "prompt" => Used(stored'[d].key, stored'[d].text, HomeOf(d)')
  BY <1>1, <1>2, StoredIsUsed DEF HomeOf
<1> QED BY <1>2, <1>3, <1>5, <1>6

-----------------------------------------------------------------------------
(* What the page does with answers.                                        *)

\* What every step of the page leaves alone, and what it may do with storage.
LEMMA RequestsKept ==
  ASSUME turn' = turn
  PROVE  (\A r : RequestOK(r) => RequestOK(r)') /\ (\A t : Started(t) => Started(t)')
BY DEF RequestOK, Started

LEMMA NamesLeft ==
  ASSUME TypeOK, NamesInv, UNCHANGED <<turn, latest, asked, typed>>,
         \/ posts' = posts
         \/ \E s \in Call : posts' = Unheard({s})
         \/ \E p : posts' = posts \cup {p} /\ (p.kind \in {"initial", "send"} => Used(p.key, p.text, HomeOfPost(p))),
         \/ stored' = stored
         \/ \E cs : stored' = Without(cs)
  PROVE  NamesInv'
<1>1. \A p \in posts' : p.kind \in {"initial", "send"} => Used(p.key, p.text, HomeOfPost(p))
  BY PostsAreUsed, LateAreUsed
<1>2. \A d \in {0} \cup Chat : stored'[d].kind = "prompt" => Used(stored'[d].key, stored'[d].text, HomeOf(d)')
  BY StoredIsUsed DEF HomeOf, Without, NoRequest
<1> QED BY <1>1, <1>2, NamesKept

LEMMA LoadKeeps ==
  ASSUME IInv, NEW s \in Call, LoadAnswer(s) \/ LoadLost(s)
  PROVE  IInv'
<1>1. TypeOK /\ PageInv /\ NamesInv /\ CallsInv /\ PostsInv /\ StorageInv /\ RouteInv /\ TargetInv /\ TurnsInv
  BY DEF IInv, PageInv, NamesInv
<1>2. calls[s].live /\ calls[s].at = "load" /\ calls[s].kind = "load"
  BY DEF LoadAnswer, LoadLost, Expecting, Current
<1>3. /\ calls[s].chat = active /\ page # "away" /\ LoadCall(calls[s]) /\ CallInv(s)
      /\ \A q \in Call : calls[q].live => q = s
  BY <1>1, <1>2 DEF CallsInv, CallInv, LiveInv
<1>4. active \in Chat /\ phase = "idle" /\ pending = stored[active] /\ ~Superseded(calls[s]) /\ RequestOK(pending)
      /\ active # 0 /\ pending \in Request
  BY <1>1, <1>2, <1>3, KindsDiffer DEF LoadCall, TypeOK, ViewType, RouteInv, Superseded, Kinds, StorageInv
<1>5. \A q \in Call : stream # q /\ recon # q /\ (q # s /\ calls[q].live => Superseded(calls[q]))
  BY <1>1, <1>2, <1>3, KindsDiffer DEF CallsInv, CallInv, Kinds
<1>6. UNCHANGED <<turn, latest, asked, typed, opened, page, chat, going, active>>
  BY DEF LoadAnswer, LoadLost, Serving, server, route
<1>7. turn' \in [Key -> Turn] /\ latest' \in [Chat -> {0} \cup Key] /\ asked' \in {0} \cup Key /\ typed' \in {0} \cup Key
      /\ opened' \in 0..MaxOpens /\ RouteType' /\ active' \in {0} \cup Chat
  BY <1>1, <1>6 DEF TypeOK, ServerType, RouteType, ViewType
<1>8. LastRow(active) \in Row /\ Started(LastRow(active).turn) /\ LastRow(active).chat \in {0, active}
      /\ (LastRow(active).failed => LastRow(active).turn # 0)
  BY <1>1, <1>4, LastRowIs
<1>9. Idle \in CallState
  BY DEF Idle, CallState
<1>10. (\A r : RequestOK(r) => RequestOK(r)') /\ (\A t : Started(t) => Started(t)')
  BY <1>6, RequestsKept
<1>11. \A q \in Call : q # s => calls[q].live = FALSE
  BY <1>1, <1>3 DEF TypeOK, CallsType, CallState
<1>12. ~(calls[s].live /\ calls[s].at \in {"way", "cancelling"})
  BY <1>2
<1>13. CASE LoadLost(s)
  <2>1. /\ faults' \in 0..MaxFaults /\ loaded' = "error" /\ calls' = [calls EXCEPT ![s] = Idle]
        /\ UNCHANGED <<posts, phase, pending, target, shown, stream, recon, stored>>
    BY <1>1, <1>13, BoundsAssumption DEF LoadLost, TypeOK, ServerType, aborts
  <2>2. TypeOK'
    BY <1>1, <1>7, <1>9, <2>1 DEF TypeOK, ServerType, ViewType, CallsType
  <2>3. CallsInv' /\ PhaseInv'
    BY <1>1, <1>2, <1>4, <1>5, <1>6, <2>1, CallEnds
  <2>4. \A q \in Call : q # s => calls'[q] = calls[q]
    BY <1>1, <2>1 DEF TypeOK, CallsType
  <2>5. PostsInv'
    BY <1>1, <1>6, <1>12, <2>1, <2>4, PostsLeft
  <2>6. NamesInv'
    BY <1>1, <1>6, <2>1, NamesLeft
  <2>7. StorageInv' /\ RouteInv' /\ ShownInv' /\ OwnMessages' /\ FreeToAsk' /\ TargetInv'
    BY <1>6, <1>10, <2>1 DEF IInv, PageInv, StorageInv, RouteInv, ShownInv, OwnMessages, FreeToAsk, MayAsk, TargetInv
  <2> QED BY <2>2, <2>3, <2>5, <2>6, <2>7 DEF IInv, PageInv
<1>14. CASE LoadAnswer(s)
  <2>0. loaded' = "ready" /\ faults' = faults /\ faults \in 0..MaxFaults /\ calls[s].chat = active
    BY <1>1, <1>3, <1>14 DEF LoadAnswer, Serving, TypeOK, ServerType
  <2>1. CASE /\ pending.kind # "none" /\ pending' = NoRequest /\ stored' = Without(ClearedWith(active)) /\ shown' = LastRow(active)
             /\ calls' = [calls EXCEPT ![s] = Idle] /\ UNCHANGED <<posts, phase, target, stream, recon>>
    <3>1. /\ StorageInv' /\ stored' \in [{0} \cup Chat -> Request]
          /\ \A d \in {0} \cup Chat : stored'[d] = IF d \in ClearedWith(active) THEN NoRequest ELSE stored[d]
      BY <1>1, <1>6, <2>1, StorageWithout
    <3>2. NoRequest \in Request /\ NoRequest.kind = "none"
      BY DEF NoRequest, Request
    <3>3. TypeOK'
      BY <1>1, <1>7, <1>8, <1>9, <2>0, <2>1, <3>1, <3>2 DEF TypeOK, ServerType, ViewType, CallsType
    <3>4. CallsInv' /\ PhaseInv'
      BY <1>1, <1>2, <1>4, <1>5, <1>6, <2>1, CallEnds
    <3>5. \A q \in Call : q # s => calls'[q] = calls[q]
      BY <1>1, <2>1 DEF TypeOK, CallsType
    <3>6. PostsInv'
      BY <1>1, <1>6, <1>12, <2>1, <3>5, PostsLeft
    <3>7. NamesInv'
      BY <1>1, <1>6, <2>1, NamesLeft
    <3>8. stored'[active] = NoRequest
      BY <1>4, <3>1 DEF ClearedWith
    <3>9. RouteInv' /\ ShownInv' /\ OwnMessages' /\ FreeToAsk' /\ TargetInv'
      BY <1>1, <1>6, <1>8, <1>10, <2>1, <3>2, <3>8
         DEF RouteInv, ShownInv, OwnMessages, FreeToAsk, MayAsk, TargetInv, Fits
    <3> QED BY <3>1, <3>3, <3>4, <3>6, <3>7, <3>9 DEF IInv, PageInv
  <2>2. CASE /\ pending.kind # "none" /\ ~Resends(pending) /\ shown' = LastRow(active)
             /\ Reconcile(s, "reconcile", active, pending.turn, pending.not, pending.stop, TRUE)
             /\ UNCHANGED <<posts, pending, stored, stream>>
    <3>1. pending.turn \in {0} \cup Key /\ pending.not \in {0} \cup Reply /\ pending.stop \in BOOLEAN /\ Started(pending.turn)
      BY <1>4 DEF Request, RequestOK
    <3>2. calls' \in [Call -> CallState] /\ target' \in Target /\ recon' \in Call \cup {NoCall}
          /\ phase' \in {"idle", "streaming", "settling", "required"}
      BY <1>1, <1>4, <2>2, <3>1, ReconcileTypes
    <3>3. TypeOK'
      BY <1>1, <1>7, <1>8, <2>0, <2>2, <3>2 DEF TypeOK, ServerType, ViewType, CallsType
    <3>4. pending.turn \in {0, IdOf(pending)}
      BY <1>4 DEF RequestOK, IdOf, Request
    <3>5. CallsInv' /\ PhaseInv'
      BY <1>1, <1>3, <1>4, <1>5, <1>6, <2>2, <3>1, <3>4, CallReconciles DEF IdOf
    <3>6. \A q \in Call : q # s => calls'[q] = calls[q]
      BY <1>1, <1>5, <2>2 DEF Reconcile, Aborted, TypeOK, CallsType
    <3>7. PostsInv'
      BY <1>1, <1>6, <1>12, <2>2, <3>6, PostsLeft
    <3>8. NamesInv'
      BY <1>1, <1>6, <2>2, NamesLeft
    <3>9. target' = TargetOf(pending.turn, pending.not) /\ phase' # "idle"
      BY <2>2 DEF Reconcile
    <3>10. TargetInv'
      BY <1>10, <2>2, <3>1, <3>4, <3>9 DEF TargetInv, TargetOf, Fits, IdOf
    <3>11. StorageInv' /\ RouteInv' /\ ShownInv' /\ OwnMessages' /\ FreeToAsk'
      BY <1>1, <1>6, <1>8, <1>10, <2>2, <3>9
         DEF StorageInv, RouteInv, ShownInv, OwnMessages, FreeToAsk, MayAsk
    <3> QED BY <3>3, <3>5, <3>7, <3>8, <3>10, <3>11 DEF IInv, PageInv
  <2>3. CASE /\ Resends(pending) /\ shown' = Dropped(LastRow(active), pending)
             /\ target' = TargetOf(pending.turn, pending.not) /\ Execute(s, Resent(pending), active, calls, posts)
             /\ UNCHANGED <<pending, stored, recon>>
    <3>1. Execute(s, pending, active, calls, posts) /\ pending.kind # "none"
      BY <2>3 DEF Resent, Resends
    <3>2. pending.turn \in {0} \cup Key /\ pending.not \in {0} \cup Reply /\ Started(pending.turn)
      BY <1>4 DEF Request, RequestOK
    <3>3. /\ calls' \in [Call -> CallState] /\ posts' \in SUBSET Post /\ stream' \in Call \cup {NoCall}
          /\ phase' \in {"idle", "streaming", "settling", "required"}
      BY <1>1, <1>4, <3>1, ExecuteTypes
    <3>4. Dropped(LastRow(active), pending) \in Row /\ Dropped(LastRow(active), pending).chat = LastRow(active).chat
          /\ Dropped(LastRow(active), pending).turn = LastRow(active).turn
          /\ (Dropped(LastRow(active), pending).failed => LastRow(active).failed)
      BY <1>4, <1>8, DroppedIs
    <3>5. target' \in Target
      BY <2>3, <3>2 DEF TargetOf, Target
    <3>6. TypeOK'
      BY <1>1, <1>7, <2>0, <2>3, <3>3, <3>4, <3>5 DEF TypeOK, ServerType, ViewType, CallsType
    <3>7. CallsInv' /\ PhaseInv' /\ PostsInv'
      BY <1>1, <1>2, <1>3, <1>4, <1>5, <1>6, <2>3, <3>1, CallExecutes
    <3>8. pending.kind = "prompt" => Used(pending.key, pending.text, HomeOf(active))
      BY <1>4, StoredIsUsed
    <3>9. PostOf(s, pending, active).kind \in {"initial", "send"} =>
            Used(PostOf(s, pending, active).key, PostOf(s, pending, active).text, HomeOfPost(PostOf(s, pending, active)))
      BY <1>4, <3>1, <3>8 DEF PostOf, HomeOf, HomeOfPost, Request
    <3>10. posts' = posts \cup {PostOf(s, pending, active)}
      BY <3>1 DEF Execute
    <3>11. NamesInv'
      BY <1>1, <1>6, <2>3, <3>9, <3>10, NamesLeft
    <3>12. pending.turn \in {0, IdOf(pending)} /\ phase' # "idle"
      BY <1>4, <3>1 DEF RequestOK, IdOf, Request, Execute
    <3>13. TargetInv'
      BY <1>10, <2>3, <3>2, <3>12 DEF TargetInv, TargetOf, Fits, IdOf
    <3>14. StorageInv' /\ RouteInv' /\ ShownInv' /\ OwnMessages' /\ FreeToAsk'
      BY <1>1, <1>6, <1>8, <1>10, <2>3, <3>4, <3>12
         DEF StorageInv, RouteInv, ShownInv, OwnMessages, FreeToAsk, MayAsk
    <3> QED BY <3>6, <3>7, <3>11, <3>13, <3>14 DEF IInv, PageInv
  <2>4. CASE /\ pending.kind = "none" /\ shown' = LastRow(active) /\ calls' = [calls EXCEPT ![s] = Idle]
             /\ UNCHANGED <<phase, target, recon, posts, pending, stored, stream>>
    <3>3. TypeOK'
      BY <1>1, <1>7, <1>8, <1>9, <2>0, <2>4 DEF TypeOK, ServerType, ViewType, CallsType
    <3>4. CallsInv' /\ PhaseInv'
      BY <1>1, <1>2, <1>4, <1>5, <1>6, <2>4, CallEnds
    <3>5. \A q \in Call : q # s => calls'[q] = calls[q]
      BY <1>1, <2>4 DEF TypeOK, CallsType
    <3>6. PostsInv'
      BY <1>1, <1>6, <1>12, <2>4, <3>5, PostsLeft
    <3>7. NamesInv'
      BY <1>1, <1>6, <2>4, NamesLeft
    <3>9. StorageInv' /\ RouteInv' /\ ShownInv' /\ OwnMessages' /\ FreeToAsk' /\ TargetInv'
      BY <1>1, <1>6, <1>8, <1>10, <2>4
         DEF StorageInv, RouteInv, ShownInv, OwnMessages, FreeToAsk, MayAsk, TargetInv, Fits
    <3> QED BY <3>3, <3>4, <3>6, <3>7, <3>9 DEF IInv, PageInv
  <2>5. CASE /\ pending.kind = "none" /\ shown' = LastRow(active) /\ latest[active] # 0
             /\ Reconcile(s, "reconcile", active, latest[active], 0, FALSE, TRUE)
             /\ UNCHANGED <<posts, pending, stored, stream>>
    <3>1. latest[active] \in Key /\ Started(latest[active]) /\ latest[active] \in {0} \cup Key
      BY <1>1, <1>4, <2>5 DEF TypeOK, ServerType, TurnsInv, Started
    <3>2. calls' \in [Call -> CallState] /\ target' \in Target /\ recon' \in Call \cup {NoCall}
          /\ phase' \in {"idle", "streaming", "settling", "required"}
      BY <1>1, <1>4, <2>5, <3>1, ReconcileTypes
    <3>3. TypeOK'
      BY <1>1, <1>7, <1>8, <2>0, <2>5, <3>2 DEF TypeOK, ServerType, ViewType, CallsType
    <3>5. CallsInv' /\ PhaseInv'
      BY <1>1, <1>3, <1>4, <1>5, <1>6, <2>5, <3>1, CallReconciles
    <3>6. \A q \in Call : q # s => calls'[q] = calls[q]
      BY <1>1, <1>5, <2>5 DEF Reconcile, Aborted, TypeOK, CallsType
    <3>7. PostsInv'
      BY <1>1, <1>6, <1>12, <2>5, <3>6, PostsLeft
    <3>8. NamesInv'
      BY <1>1, <1>6, <2>5, NamesLeft
    <3>9. target' = TargetOf(latest[active], 0) /\ phase' # "idle"
      BY <2>5 DEF Reconcile
    <3>10. TargetInv'
      BY <1>10, <2>5, <3>1, <3>9 DEF TargetInv, TargetOf, Fits
    <3>11. StorageInv' /\ RouteInv' /\ ShownInv' /\ OwnMessages' /\ FreeToAsk'
      BY <1>1, <1>6, <1>8, <1>10, <2>5, <3>9
         DEF StorageInv, RouteInv, ShownInv, OwnMessages, FreeToAsk, MayAsk
    <3> QED BY <3>3, <3>5, <3>7, <3>8, <3>10, <3>11 DEF IInv, PageInv
  <2> QED BY <1>3, <1>14, <2>1, <2>2, <2>3, <2>4, <2>5 DEF LoadAnswer
<1> QED BY <1>13, <1>14

\* What holds of a call whose request is out.
LEMMA StreamFacts ==
  ASSUME IInv, NEW s \in Call, calls[s].live, calls[s].at \in Streaming
  PROVE  /\ calls[s].chat = active /\ active \in {0} \cup Chat /\ page # "away" /\ stream = s /\ s # NoCall /\ phase = "streaming"
         /\ calls[s].kind = "exec" /\ IsPending(s) /\ ~Superseded(calls[s]) /\ Started(calls[s].turn) /\ recon # s
         /\ calls[s].turn \in {0} \cup Key /\ calls[s].key \in {0} \cup Key /\ calls[s].not \in {0} \cup Reply
         /\ calls[s].turn \in {0, IdOf(pending)} /\ calls[s].not = pending.not
         /\ pending = stored[active] /\ RequestOK(pending) /\ pending \in Request /\ pending.kind \in {"prompt", "retry"}
         /\ (active = 0 => pending.kind = "prompt")
         /\ \A q \in Call : q # s => stream # q /\ (calls[q].live => Superseded(calls[q]) /\ calls[q].chat = active /\ active # 0)
<1>1. TypeOK /\ CallsInv /\ CallInv(s) /\ LiveInv(s) /\ RouteInv /\ StorageInv
  BY DEF IInv, PageInv, CallsInv, CallInv
<1>2. calls[s].chat = active /\ page # "away" /\ stream = s /\ StreamCall(calls[s]) /\ Started(calls[s].turn)
  BY <1>1 DEF LiveInv
<1>3. calls[s] \in CallState /\ active \in {0} \cup Chat /\ pending \in Request /\ s # NoCall
  BY <1>1, CallAssumption DEF TypeOK, CallsType, ViewType
<1>4. ~Superseded(calls[s]) /\ recon # s
  BY <1>1, KindsDiffer DEF Superseded, Kinds, CallInv
<1>5. pending = stored[active] /\ RequestOK(pending) /\ (active = 0 => pending.kind # "retry")
  BY <1>1, <1>2, <1>3 DEF RouteInv, StorageInv
<1>6. IsPending(s) /\ pending.kind \in {"prompt", "retry"}
  BY <1>2, <1>3 DEF IsPending, StreamCall, Request
<1>7. ASSUME NEW q \in Call, q # s PROVE stream # q /\ (calls[q].live => Superseded(calls[q]) /\ calls[q].chat = active /\ active # 0)
  <2>1. calls[q].live => Superseded(calls[q])
    BY <1>1, <1>4, <1>7, OnlyOne
  <2>2. LiveInv(q)
    BY <1>1 DEF CallsInv, CallInv
  <2> QED BY <1>2, <1>7, <2>1, <2>2 DEF LiveInv, SettleCall, Superseded
<1> QED BY <1>2, <1>3, <1>4, <1>5, <1>6, <1>7 DEF StreamCall, CallState

LEMMA HeadersKeeps ==
  ASSUME IInv, NEW s \in Call, Headers(s)
  PROVE  IInv'
<1>1. TypeOK /\ PageInv /\ NamesInv /\ CallsInv /\ PostsInv /\ StorageInv /\ RouteInv /\ TargetInv /\ TurnsInv /\ OwnMessages
  BY DEF IInv, PageInv, NamesInv
<1>2. calls[s].live /\ calls[s].at = "head" /\ "head" \in Streaming /\ calls[s] \in CallState
  BY <1>1 DEF Headers, Expecting, Current, Streaming, TypeOK, CallsType
<1>3. StreamCall(calls[s])
  BY <1>1, <1>2 DEF CallsInv, CallInv, LiveInv
<1>4. /\ calls[s].chat = active /\ active \in {0} \cup Chat /\ page # "away" /\ stream = s /\ s # NoCall /\ phase = "streaming"
      /\ IsPending(s) /\ pending = stored[active] /\ RequestOK(pending) /\ pending \in Request /\ pending.kind \in {"prompt", "retry"}
      /\ calls[s].turn \in {0} \cup Key /\ calls[s].key \in {0} \cup Key /\ Started(calls[s].turn) /\ recon # s
  BY <1>2, StreamFacts
<1>5. active = 0 => pending.kind = "prompt"
  BY <1>2, StreamFacts
<1>6. \A q \in Call : q # s => stream # q /\ (calls[q].live => Superseded(calls[q]) /\ active # 0)
  BY <1>2, StreamFacts
<1>7. PICK t : t = IF calls[s].key # 0 THEN calls[s].key ELSE calls[s].turn
  OBVIOUS
<1>8. PICK c : c = IF calls[s].chat = 0 THEN turn[t].chat ELSE calls[s].chat
  OBVIOUS
<1>9. PICK request : request = [pending EXCEPT !.turn = t]
  OBVIOUS
<1>10. PICK b : b = (calls[s].cut \/ pending.stop)
  OBVIOUS
<1>11. /\ active' = c /\ pending' = request /\ stored' = [stored EXCEPT ![c] = request] /\ target' = TargetOf(t, target.not)
       /\ calls' = [calls EXCEPT ![s] = Heard(calls[s], c, t, b)]
  BY <1>1, <1>4, <1>7, <1>8, <1>9, <1>10 DEF Headers, TypeOK, CallsType
<1>12. UNCHANGED <<turn, latest, faults, asked, typed, opened, posts, page, chat, going, loaded, phase, shown, stream, recon>>
  BY DEF Headers, Serving, server, route, aborts
<1>13. t \in Key /\ t # 0 /\ Started(t) /\ t = IdOf(request) /\ t = IdOf(pending)
  <2>1. CASE pending.kind = "prompt"
    <3>1. calls[s].key = pending.key /\ pending.key # 0 /\ t = calls[s].key
      BY <1>3, <1>4, <1>7, <2>1 DEF StreamCall, RequestOK
    <3>2. IdOf(request) = t /\ IdOf(pending) = t
      BY <1>4, <1>9, <2>1, <3>1 DEF IdOf, Request
    <3> QED BY <1>2, <1>3, <1>4, <3>1, <3>2 DEF StreamCall, Started
  <2>2. CASE pending.kind = "retry"
    <3>1. calls[s].key = 0 /\ calls[s].turn = pending.turn /\ pending.turn # 0 /\ t = pending.turn
      BY <1>3, <1>4, <1>7, <2>2 DEF StreamCall, RequestOK
    <3>2. IdOf(request) = t /\ IdOf(pending) = t
      BY <1>4, <1>9, <2>2, <3>1 DEF IdOf, Request
    <3> QED BY <1>4, <3>1, <3>2
  <2> QED BY <1>4, <2>1, <2>2
<1>14. /\ request \in Request /\ request.kind = pending.kind /\ request.key = pending.key /\ request.text = pending.text
       /\ request.not = pending.not /\ request.turn = t
  BY <1>4, <1>9, <1>13 DEF Request
<1>15. RequestOK(request)
  BY <1>4, <1>13, <1>14 DEF RequestOK, IdOf
<1>16. c \in Chat /\ c # 0 /\ (active # 0 => c = active) /\ (pending.kind = "prompt" => Used(pending.key, pending.text, c))
  <2>1. CASE active # 0
    <3>1. pending.kind = "prompt" => Used(pending.key, pending.text, HomeOf(active))
      BY <1>4, StoredIsUsed
    <3> QED BY <1>4, <1>8, <2>1, <3>1 DEF HomeOf
  <2>2. CASE active = 0
    <3>1. pending.kind = "prompt" /\ t = pending.key /\ c = turn[t].chat
      BY <1>4, <1>5, <1>8, <1>13, <1>14, <2>2 DEF IdOf
    <3>2. turn[t].status # "none" /\ turn[t].text \in {0} \cup Key /\ c \in Chat /\ c # 0
      BY <1>1, <1>13, <3>1, Numbers DEF Started, TurnsInv, TypeOK, ServerType, Turn
    <3>3. Used(t, turn[t].text, c)
      BY <3>1, <3>2 DEF Used
    <3>4. Used(pending.key, pending.text, pending.key)
      BY <1>4, <2>2, <3>1, StoredIsUsed DEF HomeOf
    <3>5. pending.text \in {0} \cup Key /\ pending.key \in Key /\ pending.key \in Chat
      BY <1>4, <1>13, <3>1, Numbers DEF Request
    <3>6. c = pending.key
      <4>1. \A k \in Key, x, y \in {0} \cup Key, d, e \in Chat : Used(k, x, d) /\ Used(k, y, e) => d = e
        BY <1>1 DEF NamesInv, OneMeaning
      <4>2. Used(pending.key, turn[t].text, c)
        BY <3>1, <3>3
      <4> QED BY <3>2, <3>4, <3>5, <4>1, <4>2
    <3> QED BY <2>2, <3>2, <3>4, <3>6
  <2> QED BY <2>1, <2>2
<1>17. target.not \in {0} \cup Reply /\ b \in BOOLEAN
  BY <1>1, <1>2, <1>4, <1>10 DEF TypeOK, ViewType, Target, CallState, Request
<1>18. Heard(calls[s], c, t, b) \in CallState
  BY <1>2, <1>13, <1>16, <1>17 DEF Heard, CallState, Streaming
<1>19. TypeOK'
  <2>1. target' \in Target /\ stored' \in [{0} \cup Chat -> Request] /\ calls' \in [Call -> CallState]
    BY <1>1, <1>11, <1>13, <1>14, <1>16, <1>17, <1>18 DEF TargetOf, Target, TypeOK, CallsType
  <2> QED BY <1>1, <1>11, <1>12, <1>14, <1>16, <2>1 DEF TypeOK, ServerType, RouteType, ViewType, CallsType
<1>20. (\A r : RequestOK(r) => RequestOK(r)') /\ (\A x : Started(x) => Started(x)')
  BY <1>12, RequestsKept
<1>21. \A d \in {0} \cup Chat : stored'[d] = IF d = c THEN request ELSE stored[d]
  BY <1>1, <1>11 DEF TypeOK, CallsType
<1>22. StorageInv' /\ RouteInv'
  <2>1. StorageInv'
    BY <1>1, <1>15, <1>16, <1>20, <1>21 DEF StorageInv
  <2>2. RouteInv'
    BY <1>1, <1>4, <1>11, <1>12, <1>16, <1>21 DEF RouteInv
  <2> QED BY <2>1, <2>2
<1>23. ShownInv' /\ OwnMessages' /\ FreeToAsk' /\ PhaseInv'
  <2>1. ShownInv' /\ PhaseInv'
    BY <1>1, <1>12, <1>20 DEF PageInv, ShownInv, PhaseInv
  <2>2. OwnMessages'
    BY <1>1, <1>11, <1>12, <1>16 DEF OwnMessages
  <2>3. FreeToAsk'
    BY <1>4, <1>12 DEF FreeToAsk, MayAsk
  <2> QED BY <2>1, <2>2, <2>3
<1>24. TargetInv'
  <2>1. target'.turn = t /\ target'.not = target.not /\ target'.set
    BY <1>11 DEF TargetOf
  <2>2. page # "away" /\ loaded = "ready" => target.not = pending.not
    BY <1>1, <1>4 DEF TargetInv, Fits
  <2> QED BY <1>11, <1>12, <1>13, <1>14, <1>20, <2>1, <2>2 DEF TargetInv, Fits, IdOf
<1>25. CallsInv'
  <2>1. \A q \in Call : q # s => calls'[q] = calls[q]
    BY <1>1, <1>11 DEF TypeOK, CallsType
  <2>2. \A q \in Call : recon # q \/ calls[q].live
    BY <1>1 DEF CallsInv, CallInv
  <2>3. ASSUME NEW q \in Call, q # s PROVE CallInv(q)'
    <3>1. CASE recon # q
      BY <1>1, <1>6, <1>11, <1>12, <1>16, <2>1, <2>3, <3>1, OtherCall
    <3>2. CASE recon = q
      BY <1>1, <1>6, <2>2, <2>3, <3>2 DEF CallsInv, CallInv, Superseded
    <3> QED BY <3>1, <3>2
  <2>4. calls'[s] = Heard(calls[s], c, t, b)
    BY <1>1, <1>11 DEF TypeOK, CallsType
  <2>5. /\ calls'[s].at = "events" /\ calls'[s].live /\ calls'[s].kind = calls[s].kind /\ calls'[s].chat = c /\ calls'[s].turn = t
        /\ calls'[s].key = calls[s].key /\ calls'[s].text = calls[s].text /\ calls'[s].not = calls[s].not
    BY <1>2, <2>4 DEF Heard
  <2>6. StreamCall(calls[s])'
    <3>1. (pending.kind = "retry" => t = pending'.turn) /\ t = IdOf(pending')
      BY <1>11, <1>13, <1>14
    <3> QED BY <1>3, <1>11, <1>12, <1>14, <2>5, <3>1 DEF StreamCall
  <2>7. "events" \in Streaming /\ "events" \notin Reconciling
    BY DEF Streaming, Reconciling
  <2>8. LiveInv(s)'
    BY <1>4, <1>11, <1>12, <1>13, <1>20, <2>5, <2>6, <2>7 DEF LiveInv
  <2>9. CallInv(s)'
    BY <1>3, <1>4, <1>12, <2>5, <2>7, <2>8 DEF CallInv, StreamCall
  <2> QED BY <2>3, <2>9 DEF CallsInv
<1>26. PostsInv'
  <2>1. \A q \in Call : q # s => calls'[q] = calls[q]
    BY <1>1, <1>11 DEF TypeOK, CallsType
  <2> QED BY <1>1, <1>2, <1>12, <2>1, PostsLeft
<1>27. NamesInv'
  <2>1. \A d \in {0} \cup Chat : stored'[d].kind = "prompt" => Used(stored'[d].key, stored'[d].text, HomeOf(d)')
    <3> SUFFICES ASSUME NEW d \in {0} \cup Chat, stored'[d].kind = "prompt"
                 PROVE Used(stored'[d].key, stored'[d].text, HomeOf(d)')
      OBVIOUS
    <3>1. CASE d = c
      BY <1>14, <1>16, <1>21, <3>1 DEF HomeOf
    <3>2. CASE d # c
      BY <1>21, <3>2, StoredIsUsed DEF HomeOf
    <3> QED BY <3>1, <3>2
  <2> QED BY <1>1, <1>12, <2>1, NamesKept, PostsAreUsed
<1> QED BY <1>19, <1>22, <1>23, <1>24, <1>25, <1>26, <1>27 DEF IInv, PageInv

\* A step in which call s starts to reconcile, or goes on to.
LEMMA ReconcileKeeps ==
  ASSUME IInv, NEW s \in Call, NEW kind \in {"exec", "reconcile"}, NEW t \in {0} \cup Key, NEW n \in {0} \cup Reply,
         NEW stop \in BOOLEAN, NEW poll \in BOOLEAN, Reconcile(s, kind, active, t, n, stop, poll),
         active # 0, page # "away", Started(t),
         UNCHANGED <<turn, latest, faults, asked, typed, opened, page, chat, going, active, loaded>>,
         pending' \in Request, pending' = stored'[active], pending'.kind # "none" => t \in {0, IdOf(pending)'} /\ n = pending'.not,
         StorageInv', stored' \in [{0} \cup Chat -> Request],
         \A d \in {0} \cup Chat : stored'[d].kind = "prompt" => Used(stored'[d].key, stored'[d].text, HomeOf(d)'),
         shown' = shown \/ shown' = LastRow(active),
         posts' = Unheard({s}) \/ (posts' = posts /\ ~(calls[s].live /\ calls[s].at \in {"way", "cancelling"})),
         \A q \in Call : q # s /\ calls[q].live => Superseded(calls[q]) \/ q = recon,
         stream' = NoCall
  PROVE  IInv'
<1>1. TypeOK /\ PageInv /\ NamesInv /\ CallsInv /\ PostsInv /\ RouteInv /\ TurnsInv
  BY DEF IInv, PageInv, NamesInv
<1>2. active \in Chat /\ active \in {0} \cup Chat
  BY <1>1 DEF TypeOK, ViewType
<1>3. LastRow(active) \in Row /\ Started(LastRow(active).turn) /\ LastRow(active).chat \in {0, active}
      /\ (LastRow(active).failed => LastRow(active).turn # 0)
  BY <1>1, <1>2, LastRowIs
<1>4. calls' \in [Call -> CallState] /\ target' \in Target /\ recon' \in Call \cup {NoCall}
      /\ phase' \in {"idle", "streaming", "settling", "required"}
  <2>1. /\ s \in Call /\ kind \in {"exec", "reconcile"} /\ active \in {0} \cup Chat /\ t \in {0} \cup Key
        /\ n \in {0} \cup Reply /\ stop \in BOOLEAN /\ poll \in BOOLEAN /\ TypeOK
        /\ Reconcile(s, kind, active, t, n, stop, poll)
    BY <1>1, <1>2
  <2> QED BY ONLY <2>1, ReconcileTypes
<1>5. \A q \in Call : q # s => calls'[q].live = calls[q].live /\ calls'[q].at = calls[q].at /\ calls'[q].key = calls[q].key
  <2>1. \A q \in Call : q # s => calls'[q] = calls[q] \/ calls'[q] = [calls[q] EXCEPT !.cut = TRUE]
    BY <1>1 DEF Reconcile, Aborted, TypeOK, CallsType
  <2>2. \A q \in Call : calls[q] \in CallState
    BY <1>1 DEF TypeOK, CallsType
  <2> QED BY <2>1, <2>2 DEF CallState
<1>6. PostsInv' /\ posts' \subseteq Post
  BY <1>1, <1>5, PostsLeft
<1>7. TypeOK'
  BY <1>1, <1>3, <1>4, <1>6 DEF TypeOK, ServerType, RouteType, ViewType, CallsType
<1>8. \A q \in Call : stream' # q
  BY CallAssumption
<1>9. CallsInv' /\ PhaseInv'
  BY <1>1, <1>8, CallReconciles
<1>10. NamesInv'
  <2>1. \A p \in posts' : p.kind \in {"initial", "send"} => Used(p.key, p.text, HomeOfPost(p))
    BY PostsAreUsed, LateAreUsed
  <2> QED BY <1>1, <2>1, NamesKept
<1>11. (\A r : RequestOK(r) => RequestOK(r)') /\ (\A x : Started(x) => Started(x)')
  BY RequestsKept
<1>12. target' = TargetOf(t, n) /\ phase' # "idle"
  BY DEF Reconcile
<1>13. TargetInv'
  BY <1>11, <1>12 DEF TargetInv, TargetOf, Fits
<1>14. RouteInv' /\ FreeToAsk'
  BY <1>1, <1>12 DEF RouteInv, FreeToAsk, MayAsk
<1>15. ShownInv' /\ OwnMessages'
  BY <1>1, <1>3, <1>11 DEF PageInv, ShownInv, OwnMessages
<1> QED BY <1>6, <1>7, <1>9, <1>10, <1>13, <1>14, <1>15 DEF IInv, PageInv

\* A step in which call s, that worked for the page, ends.
LEMMA EndKeeps ==
  ASSUME IInv, NEW s \in Call, calls[s].live, ~Superseded(calls[s]), calls' = [calls EXCEPT ![s] = Idle],
         UNCHANGED <<turn, latest, asked, typed, opened, page, chat, active, loaded>>, faults' \in 0..MaxFaults,
         going' \in {0} \cup Chat, going' # 0 => page = "new",
         stream' = (IF stream = s THEN NoCall ELSE stream) \/ (stream' = stream /\ stream # s),
         recon' = (IF recon = s THEN NoCall ELSE recon) \/ (recon' = recon /\ calls[s].at \notin Reconciling),
         posts' = Unheard({s}) \/ (posts' = posts /\ ~(calls[s].live /\ calls[s].at \in {"way", "cancelling"})),
         stored' = stored \/ (\E cs : stored' = Without(cs)),
         pending' = pending \/ pending' = NoRequest, page # "away" => pending' = stored'[active],
         phase' \in {"idle", "required"}, phase' = "idle" => pending'.kind = "none",
         target' = target \/ (target' = NoTarget /\ pending'.kind = "none"),
         shown' = shown \/ (active # 0 /\ shown' = LastRow(active))
  PROVE  IInv'
<1>1. TypeOK /\ PageInv /\ NamesInv /\ CallsInv /\ PostsInv /\ RouteInv /\ TurnsInv /\ StorageInv /\ TargetInv
  BY DEF IInv, PageInv, NamesInv
<1>2. active # 0 => active \in Chat
  BY <1>1 DEF TypeOK, ViewType
<1>3. active # 0 => LastRow(active) \in Row /\ Started(LastRow(active).turn) /\ LastRow(active).chat \in {0, active}
                   /\ (LastRow(active).failed => LastRow(active).turn # 0)
  BY <1>1, <1>2, LastRowIs
<1>4. Idle \in CallState /\ NoRequest \in Request /\ NoRequest.kind = "none" /\ NoTarget \in Target /\ NoTarget.turn = 0
  BY DEF Idle, CallState, NoRequest, Request, NoTarget, Target
<1>5. \A q \in Call : q # s => calls'[q] = calls[q]
  BY <1>1 DEF TypeOK, CallsType
<1>6. PostsInv' /\ posts' \subseteq Post
  BY <1>1, <1>5, PostsLeft
<1>7. (\A r : RequestOK(r) => RequestOK(r)') /\ (\A x : Started(x) => Started(x)')
  BY RequestsKept
<1>8. StorageInv' /\ stored' \in [{0} \cup Chat -> Request]
  <2>1. CASE stored' = stored
    BY <1>1, <1>7, <2>1 DEF StorageInv, TypeOK, CallsType
  <2>2. CASE \E cs : stored' = Without(cs)
    BY <1>1, <2>2, StorageWithout
  <2> QED BY <2>1, <2>2
<1>9. NamesInv'
  BY <1>1, NamesLeft
<1>10. CallsInv' /\ PhaseInv'
  BY <1>1, CallEnds
<1>11. TypeOK'
  BY <1>1, <1>3, <1>4, <1>6, <1>8 DEF TypeOK, ServerType, RouteType, ViewType, CallsType
<1>12. RouteInv'
  BY <1>1 DEF RouteInv
<1>13. FreeToAsk'
  BY DEF FreeToAsk, MayAsk
<1>14. ShownInv' /\ OwnMessages'
  BY <1>1, <1>3, <1>7 DEF PageInv, ShownInv, OwnMessages
<1>15. TargetInv'
  BY <1>1, <1>4, <1>7 DEF TargetInv, Started, Fits, IdOf
<1> QED BY <1>6, <1>8, <1>9, <1>10, <1>11, <1>12, <1>13, <1>14, <1>15 DEF IInv, PageInv

\* The end of a stream, whatever ended it.
LEMMA ConcludeKeeps ==
  ASSUME IInv, NEW s \in Call, calls[s].live, calls[s].at \in Streaming, NEW poll \in BOOLEAN, Conclude(s, poll)
  PROVE  IInv'
<1>1. TypeOK /\ StorageInv /\ PageInv /\ RouteInv
  BY DEF IInv, PageInv
<1>2. /\ calls[s].chat = active /\ active \in {0} \cup Chat /\ page # "away" /\ stream = s /\ ~Superseded(calls[s]) /\ recon # s
      /\ calls[s].turn \in {0} \cup Key /\ calls[s].not \in {0} \cup Reply /\ Started(calls[s].turn)
      /\ calls[s].turn \in {0, IdOf(pending)} /\ calls[s].not = pending.not /\ pending \in Request /\ pending = stored[active]
  BY StreamFacts
<1>3. \A q \in Call : q # s /\ calls[q].live => Superseded(calls[q])
  BY StreamFacts
<1>4. /\ UNCHANGED <<turn, latest, faults, asked, typed, opened, page, chat, going, active, loaded, pending, shown, stored>>
      /\ stream' = NoCall /\ posts' = Unheard({s})
  BY <1>2 DEF Conclude, Serving, server, route
<1>5. faults' \in 0..MaxFaults /\ going' \in {0} \cup Chat /\ (going' # 0 => page = "new")
  BY <1>1, <1>4 DEF TypeOK, ServerType, RouteType, RouteInv
<1>6. CASE active = 0
  <2>1. phase' = "required" /\ calls' = [calls EXCEPT ![s] = Idle] /\ UNCHANGED <<target, recon>>
    BY <1>2, <1>6 DEF Conclude
  <2>2. calls[s].at \notin Reconciling
    BY KindsDiffer DEF Kinds
  <2> QED BY <1>2, <1>4, <1>5, <2>1, <2>2, EndKeeps
<1>7. CASE active # 0
  <2>1. Reconcile(s, "exec", active, calls[s].turn, calls[s].not, pending.stop, poll)
    BY <1>2, <1>7 DEF Conclude
  <2>2. pending.stop \in BOOLEAN /\ stored' \in [{0} \cup Chat -> Request]
    BY <1>1, <1>2, <1>4 DEF Request, TypeOK, CallsType
  <2>3. StorageInv'
    BY <1>1, <1>4, RequestsKept DEF StorageInv
  <2>4. \A d \in {0} \cup Chat : stored'[d].kind = "prompt" => Used(stored'[d].key, stored'[d].text, HomeOf(d)')
    BY <1>4, StoredIsUsed DEF HomeOf
  <2>5. pending'.kind # "none" => calls[s].turn \in {0, IdOf(pending)'} /\ calls[s].not = pending'.not
    BY <1>2, <1>4 DEF IdOf
  <2> QED BY <1>2, <1>3, <1>4, <1>7, <2>1, <2>2, <2>3, <2>4, <2>5, ReconcileKeeps
<1> QED BY <1>6, <1>7

LEMMA StreamKeeps ==
  ASSUME IInv, NEW s \in Call, StreamEnds(s) \/ StreamBreaks(s)
  PROVE  IInv'
<1>1. calls[s].live /\ calls[s].at \in Streaming
  BY DEF StreamEnds, StreamBreaks, Expecting, Current, Streaming
<1>2. Conclude(s, TRUE) \/ Conclude(s, FALSE)
  BY DEF StreamEnds, StreamBreaks
<1> QED BY <1>1, <1>2, ConcludeKeeps

\* The server refused the request of the page.
LEMMA RefusedKeeps ==
  ASSUME IInv, NEW s \in Call, Refused(s)
  PROVE  IInv'
<1>1. TypeOK /\ PageInv /\ NamesInv /\ CallsInv /\ PostsInv /\ StorageInv /\ RouteInv /\ TargetInv
  BY DEF IInv, PageInv, NamesInv
<1>2. calls[s].live /\ calls[s].at = "refused" /\ "refused" \in Streaming
  BY DEF Refused, Expecting, Current, Streaming
<1>3. /\ calls[s].chat = active /\ active \in {0} \cup Chat /\ page # "away" /\ stream = s /\ ~Superseded(calls[s]) /\ recon # s
      /\ IsPending(s) /\ phase = "streaming" /\ calls[s].kind = "exec" /\ Started(calls[s].turn)
  BY <1>2, StreamFacts
<1>4. \A q \in Call : q # s => stream # q /\ (calls[q].live => Superseded(calls[q]))
  BY <1>2, StreamFacts
<1>5. /\ pending' = NoRequest /\ stored' = Without(ClearedWith(active))
      /\ UNCHANGED <<turn, latest, faults, asked, typed, opened, posts, page, chat, going, active, loaded, target, shown, recon>>
  BY <1>3 DEF Refused, Serving, server, route
<1>6. faults' \in 0..MaxFaults /\ going' \in {0} \cup Chat /\ (going' # 0 => page = "new")
  BY <1>1, <1>5 DEF TypeOK, ServerType, RouteType, RouteInv
<1>7. /\ StorageInv' /\ stored' \in [{0} \cup Chat -> Request]
      /\ \A d \in {0} \cup Chat : stored'[d] = IF d \in ClearedWith(active) THEN NoRequest ELSE stored[d]
  BY <1>1, <1>5, StorageWithout
<1>8. NoRequest \in Request /\ NoRequest.kind = "none" /\ pending' = stored'[active]
  BY <1>3, <1>5, <1>7 DEF NoRequest, Request, ClearedWith
<1>9. calls[s].at \notin Reconciling /\ ~(calls[s].live /\ calls[s].at \in {"way", "cancelling"})
  BY <1>2, KindsDiffer DEF Kinds
<1>10. CASE active = 0
  <2>1. phase' = "idle" /\ stream' = NoCall /\ calls' = [calls EXCEPT ![s] = Idle]
    BY <1>3, <1>10 DEF Refused
  <2> QED BY <1>2, <1>3, <1>5, <1>6, <1>8, <1>9, <2>1, EndKeeps
<1>11. CASE active # 0
  <2>1. calls' = [calls EXCEPT ![s].at = "reread"] /\ UNCHANGED <<phase, stream>>
    BY <1>3, <1>11 DEF Refused
  <2>2. calls[s] \in CallState /\ calls'[s] = [calls[s] EXCEPT !.at = "reread"] /\ \A q \in Call : q # s => calls'[q] = calls[q]
    BY <1>1, <2>1 DEF TypeOK, CallsType
  <2>3. calls' \in [Call -> CallState]
    BY <1>1, <2>1, <2>2 DEF CallState, TypeOK, CallsType
  <2>4. TypeOK'
    BY <1>1, <1>5, <1>7, <1>8, <2>1, <2>3 DEF TypeOK, ServerType, RouteType, ViewType, CallsType
  <2>5. CallsInv' /\ PhaseInv'
    <3>1. \A q \in Call : q # s => recon # q
      BY <1>1, <1>4 DEF CallsInv, CallInv, Superseded
    <3>2. \A q \in Call : q # s => CallInv(q)'
      BY <1>1, <1>4, <1>5, <2>1, <2>2, <3>1, OtherCall
    <3>3. /\ calls'[s].at = "reread" /\ calls'[s].live /\ calls'[s].kind = "exec" /\ calls'[s].chat = active
          /\ calls'[s].turn = calls[s].turn
      BY <1>2, <1>3, <2>2 DEF CallState
    <3>4. RereadCall(calls[s])'
      BY <1>3, <1>5, <1>8, <1>11, <2>1, <3>3 DEF RereadCall
    <3>5. CallInv(s)'
      BY <1>3, <1>5, <2>1, <3>3, <3>4, KindsDiffer DEF CallInv, LiveInv, Kinds, Started
    <3>6. PhaseInv'
      BY <1>1, <1>5, <2>1 DEF PageInv, PhaseInv
    <3> QED BY <3>2, <3>5, <3>6 DEF CallsInv
  <2>6. PostsInv'
    BY <1>1, <1>5, <1>9, <2>2, PostsLeft
  <2>7. NamesInv'
    BY <1>1, <1>5, NamesLeft
  <2>8. RouteInv' /\ ShownInv' /\ OwnMessages' /\ FreeToAsk' /\ TargetInv'
    BY <1>1, <1>5, <1>8, RequestsKept DEF PageInv, RouteInv, ShownInv, OwnMessages, FreeToAsk, TargetInv, Fits
  <2> QED BY <1>7, <2>4, <2>5, <2>6, <2>7, <2>8 DEF IInv, PageInv
<1> QED BY <1>10, <1>11

LEMMA RereadKeeps ==
  ASSUME IInv, NEW s \in Call, Reread(s) \/ RereadLost(s)
  PROVE  IInv'
<1>1. TypeOK /\ CallsInv /\ CallInv(s) /\ LiveInv(s) /\ RouteInv /\ TurnsInv
  BY DEF IInv, PageInv, NamesInv, CallsInv, CallInv
<1>2. calls[s].live /\ calls[s].at = "reread"
  BY DEF Reread, RereadLost, Expecting, Current
<1>3. calls[s].chat = active /\ page # "away" /\ stream = s /\ pending.kind = "none" /\ active # 0 /\ active \in Chat
  BY <1>1, <1>2 DEF LiveInv, RereadCall, TypeOK, ViewType
<1>4. ~Superseded(calls[s]) /\ recon # s /\ calls[s].at \notin Reconciling
  BY <1>1, <1>2, KindsDiffer DEF Superseded, Kinds, CallInv
<1>5. \A q \in Call : q # s /\ calls[q].live => Superseded(calls[q])
  BY <1>1, <1>2, <1>4, OnlyOne
<1>6. /\ UNCHANGED <<turn, latest, asked, typed, opened, posts, page, chat, going, active, loaded, pending, stored>>
      /\ stream' = NoCall
  BY <1>3 DEF Reread, RereadLost, Serving, server, route
<1>7. faults' \in 0..MaxFaults
  <2>1. faults' = faults \/ (faults < MaxFaults /\ faults' = faults + 1)
    BY DEF Reread, RereadLost, Serving
  <2> QED BY <1>1, <2>1, BoundsAssumption DEF TypeOK, ServerType
<1>8. going' \in {0} \cup Chat /\ (going' # 0 => page = "new") /\ pending' = stored'[active]
  BY <1>1, <1>3, <1>6 DEF TypeOK, RouteType, RouteInv
<1>9. ~(calls[s].live /\ calls[s].at \in {"way", "cancelling"})
  BY <1>2
<1>10. CASE calls' = [calls EXCEPT ![s] = Idle] /\ recon' = recon /\ phase' \in {"idle", "required"}
            /\ target' \in {target, NoTarget} /\ shown' \in {shown, LastRow(active)}
  BY <1>2, <1>3, <1>4, <1>6, <1>7, <1>8, <1>9, <1>10, EndKeeps
<1>11. CASE latest[active] # 0 /\ Reconcile(s, "reconcile", active, latest[active], 0, FALSE, TRUE) /\ shown' = LastRow(active)
            /\ faults' = faults
  <2>1. latest[active] \in {0} \cup Key /\ Started(latest[active])
    BY <1>1, <1>3, <1>11 DEF TypeOK, ServerType, TurnsInv, Started
  <2>2. StorageInv' /\ stored' \in [{0} \cup Chat -> Request] /\ pending' \in Request
    BY <1>1, <1>6, RequestsKept DEF IInv, PageInv, StorageInv, TypeOK, CallsType, ViewType
  <2>3. \A d \in {0} \cup Chat : stored'[d].kind = "prompt" => Used(stored'[d].key, stored'[d].text, HomeOf(d)')
    BY <1>6, StoredIsUsed DEF HomeOf
  <2> QED BY <1>3, <1>5, <1>6, <1>8, <1>9, <1>11, <2>1, <2>2, <2>3, ReconcileKeeps
<1> QED BY <1>3, <1>10, <1>11 DEF Reread, RereadLost, Serving, aborts

-----------------------------------------------------------------------------
(* reconcile.                                                              *)

\* What holds of a call that reconciles for the page.
LEMMA SettleFacts ==
  ASSUME IInv, NEW s \in Call, calls[s].live, ~calls[s].cut, calls[s].at \in Reconciling
  PROVE  /\ calls[s].chat = active /\ active \in Chat /\ active # 0 /\ page # "away" /\ recon = s /\ stream # s
         /\ phase = "settling" /\ calls[s].turn # 0 /\ calls[s].turn \in Key /\ Started(calls[s].turn)
         /\ SettleCall(calls[s]) /\ Fits(calls[s].turn, calls[s].not) /\ pending = stored[active]
         /\ ~Superseded(calls[s])
         /\ \A q \in Call : q # s => stream # q /\ recon # q /\ (calls[q].live => Superseded(calls[q]))
<1>1. TypeOK /\ CallsInv /\ CallInv(s) /\ LiveInv(s) /\ RouteInv /\ calls[s] \in CallState
  BY DEF IInv, PageInv, CallsInv, CallInv, TypeOK, CallsType
<1>2. calls[s].chat = active /\ page # "away" /\ recon = s /\ SettleCall(calls[s]) /\ Started(calls[s].turn)
  BY <1>1 DEF LiveInv
<1>3. active \in Chat /\ active # 0 /\ calls[s].turn # 0 /\ calls[s].turn \in Key /\ phase = "settling" /\ Fits(calls[s].turn, calls[s].not)
  BY <1>1, <1>2 DEF SettleCall, TypeOK, ViewType, CallState
<1>4. ~Superseded(calls[s]) /\ stream # s
  BY <1>1, KindsDiffer DEF Superseded, CallInv, Kinds
<1>5. \A q \in Call : q # s /\ calls[q].live => Superseded(calls[q])
  BY <1>1, <1>4, OnlyOne
<1>6. \A q \in Call : q # s => stream # q /\ recon # q
  BY <1>1, <1>2, <1>5, KindsDiffer DEF CallsInv, CallInv, Superseded, Kinds
<1> QED BY <1>1, <1>2, <1>3, <1>4, <1>5, <1>6 DEF RouteInv

\* The return of a call that reconciles, found or not.
LEMMA ReturnIs ==
  ASSUME IInv, NEW s \in Call, calls[s].live, calls[s].chat = active, active \in Chat, active # 0, NEW cs, Return(s, cs)
  PROVE  /\ going' \in {0} \cup Chat /\ (going' # 0 => page = "new")
         /\ \E ds : stored' = Without(ds) /\ cs \subseteq ds /\ ds \subseteq cs \cup {0}
<1>1. going \in {0} \cup Chat /\ (going # 0 => page = "new")
  BY DEF IInv, PageInv, RouteInv, TypeOK, RouteType
<1> QED BY <1>1 DEF Return, Navigates

LEMMA ConfirmedKeeps ==
  ASSUME IInv, NEW s \in Call, Confirmed(s)
  PROVE  IInv'
<1>1. TypeOK /\ StorageInv
  BY DEF IInv, PageInv
<1>2. calls[s].live /\ ~calls[s].cut /\ calls[s].at \in Reconciling /\ ~(calls[s].live /\ calls[s].at \in {"way", "cancelling"})
  BY DEF Confirmed, Reconciles, Current, Reconciling
<1>3. calls[s].chat = active /\ active \in Chat /\ active # 0 /\ recon = s /\ stream # s /\ ~Superseded(calls[s])
  BY <1>2, SettleFacts
<1>4. /\ pending' = NoRequest /\ phase' = "idle" /\ target' = NoTarget /\ shown' = LastRow(active)
      /\ Return(s, ClearedWith(active)) /\ UNCHANGED <<turn, latest, faults, asked, typed, opened, posts, active, loaded, stream>>
  BY <1>3 DEF Confirmed, Serving, server
<1>5. going' \in {0} \cup Chat /\ (going' # 0 => page = "new")
  BY <1>2, <1>3, <1>4, ReturnIs
<1>6. PICK ds : stored' = Without(ds) /\ ClearedWith(active) \subseteq ds
  BY <1>2, <1>3, <1>4, ReturnIs
<1>7. calls' = [calls EXCEPT ![s] = Idle] /\ recon' = (IF recon = s THEN NoCall ELSE recon) /\ UNCHANGED <<page, chat>>
  BY <1>4 DEF Return
<1>8. NoRequest.kind = "none" /\ faults' \in 0..MaxFaults
  BY <1>1, <1>4 DEF NoRequest, TypeOK, ServerType
<1>9. pending' = stored'[active]
  BY <1>3, <1>4, <1>6 DEF Without, ClearedWith
<1> QED BY <1>2, <1>3, <1>4, <1>5, <1>6, <1>7, <1>8, <1>9, EndKeeps

LEMMA GivesUpKeeps ==
  ASSUME IInv, NEW s \in Call, GivesUp(s)
  PROVE  IInv'
<1>1. TypeOK /\ StorageInv
  BY DEF IInv, PageInv
<1>2. calls[s].live /\ ~calls[s].cut /\ calls[s].at \in Reconciling /\ ~(calls[s].live /\ calls[s].at \in {"way", "cancelling"})
  BY DEF GivesUp, Reconciles, Current, Reconciling
<1>3. /\ calls[s].chat = active /\ active \in Chat /\ active # 0 /\ recon = s /\ stream # s /\ ~Superseded(calls[s])
      /\ pending = stored[active] /\ page # "away"
  BY <1>2, SettleFacts
<1>4. /\ phase' = "required" /\ Return(s, {})
      /\ UNCHANGED <<turn, latest, asked, typed, opened, posts, active, loaded, pending, target, shown, stream>>
  BY DEF GivesUp, server
<1>5. going' \in {0} \cup Chat /\ (going' # 0 => page = "new")
  BY <1>2, <1>3, <1>4, ReturnIs
<1>6. PICK ds : stored' = Without(ds) /\ ds \subseteq {0}
  BY <1>2, <1>3, <1>4, ReturnIs
<1>7. calls' = [calls EXCEPT ![s] = Idle] /\ recon' = (IF recon = s THEN NoCall ELSE recon) /\ UNCHANGED <<page, chat>>
  BY <1>4 DEF Return
<1>8. faults' \in 0..MaxFaults
  BY <1>1, BoundsAssumption DEF GivesUp, TypeOK, ServerType
<1>9. pending' = stored'[active]
  BY <1>3, <1>4, <1>6 DEF Without
<1> QED BY <1>2, <1>3, <1>4, <1>5, <1>6, <1>7, <1>8, <1>9, EndKeeps

\* A reconcile goes on.
LEMMA GoesOn ==
  ASSUME IInv, NEW s \in Call, calls[s].live, ~calls[s].cut, calls[s].at \in Reconciling, NEW at \in Reconciling,
         calls' = [calls EXCEPT ![s].at = at],
         UNCHANGED <<turn, latest, asked, typed, opened, page, chat, going, view, stream, recon, stored>>,
         faults' \in 0..MaxFaults, posts' \subseteq Post, PostsInv', NamesInv'
  PROVE  IInv'
<1>1. TypeOK /\ PageInv /\ CallsInv
  BY DEF IInv, PageInv
<1>2. calls[s] \in CallState /\ calls'[s] = [calls[s] EXCEPT !.at = at] /\ \A q \in Call : q # s => calls'[q] = calls[q]
  BY <1>1 DEF TypeOK, CallsType
<1>3. /\ calls'[s].kind = calls[s].kind /\ calls'[s].at = at /\ calls'[s].live /\ calls'[s].cut = calls[s].cut
      /\ calls'[s].chat = calls[s].chat /\ calls'[s].turn = calls[s].turn /\ calls'[s].not = calls[s].not
      /\ calls'[s] \in CallState
  BY <1>2 DEF CallState
<1>4. calls' \in [Call -> CallState]
  BY <1>1, <1>2, <1>3 DEF TypeOK, CallsType
<1>5. TypeOK'
  BY <1>1, <1>4 DEF TypeOK, ServerType, RouteType, ViewType, CallsType, view
<1>6. SettleCall(calls[s]) /\ recon = s /\ stream # s /\ Started(calls[s].turn) /\ calls[s].chat = active /\ page # "away"
  BY SettleFacts
<1>7. CallInv(s)'
  <2>1. SettleCall(calls[s])'
    BY <1>3, <1>6 DEF SettleCall, view, Fits, IdOf
  <2>2. calls'[s].kind # "none"
    BY <1>3, <1>6 DEF SettleCall
  <2> QED BY <1>3, <1>6, <2>1, <2>2, KindsDiffer DEF CallInv, LiveInv, Kinds, Started, view
<1>8. \A q \in Call : q # s => CallInv(q)'
  <2>1. \A q \in Call : q # s => stream # q /\ recon # q /\ (calls[q].live => Superseded(calls[q]))
    BY SettleFacts
  <2> QED BY <1>1, <1>2, <2>1, OtherCall DEF view
<1>9. CallsInv' /\ PhaseInv'
  BY <1>1, <1>7, <1>8 DEF CallsInv, PageInv, PhaseInv, view
<1>10. StorageInv' /\ RouteInv' /\ ShownInv' /\ OwnMessages' /\ FreeToAsk' /\ TargetInv'
  BY <1>1, RequestsKept
     DEF PageInv, StorageInv, RouteInv, ShownInv, OwnMessages, FreeToAsk, MayAsk, TargetInv, Fits, IdOf, view
<1> QED BY <1>5, <1>9, <1>10 DEF IInv, PageInv

LEMMA PollsKeeps ==
  ASSUME IInv, NEW s \in Call, PollsOn(s)
  PROVE  IInv'
<1>1. TypeOK /\ PostsInv /\ NamesInv
  BY DEF IInv, PageInv
<1>2. calls[s].live /\ ~calls[s].cut /\ calls[s].at \in {"canceled", "poll"}
  BY DEF PollsOn, Reconciles, Current
<1>3. PICK at \in {"poll", "once", "waiting"} : calls' = [calls EXCEPT ![s].at = at]
  BY DEF PollsOn
<1>4. calls[s].at \in Reconciling /\ at \in Reconciling /\ at # "cancelling" /\ at # "way"
  BY <1>2, <1>3 DEF Reconciling
<1>5. UNCHANGED <<turn, latest, asked, typed, opened, posts, page, chat, going, view, stream, recon, stored>>
  BY DEF PollsOn, server, route, aborts
<1>6. faults' \in 0..MaxFaults
  BY <1>1, BoundsAssumption DEF PollsOn, TypeOK, ServerType
<1>7. PostsInv' /\ posts' \subseteq Post
  <2>1. \A q \in Call : q # s => calls'[q] = calls[q]
    BY <1>1, <1>3 DEF TypeOK, CallsType
  <2> QED BY <1>1, <1>2, <1>5, <2>1, PostsLeft
<1>8. NamesInv'
  BY <1>1, <1>5, NamesLeft
<1> QED BY <1>2, <1>3, <1>4, <1>5, <1>6, <1>7, <1>8, GoesOn

LEMMA CancelsKeeps ==
  ASSUME IInv, NEW s \in Call, Cancels(s)
  PROVE  IInv'
<1>1. TypeOK /\ PostsInv /\ NamesInv
  BY DEF IInv, PageInv
<1>2. calls[s].live /\ ~calls[s].cut /\ calls[s].at = "saved" /\ calls[s].at \in Reconciling /\ "cancelling" \in Reconciling
  BY DEF Cancels, Reconciles, Current, Reconciling
<1>3. PICK new : new = CancelOf(s)
  OBVIOUS
<1>4. /\ calls' = [calls EXCEPT ![s].at = "cancelling"] /\ posts' = posts \cup {new}
      /\ UNCHANGED <<turn, latest, faults, asked, typed, opened, page, chat, going, view, stream, recon, stored>>
  BY <1>3 DEF Cancels, Serving, server, route, aborts
<1>5. faults' \in 0..MaxFaults
  BY <1>1, <1>4 DEF TypeOK, ServerType
<1>6. /\ new.call = s /\ new.kind = "cancel" /\ new.chat = calls[s].chat /\ new.key = 0 /\ new.text = 0
      /\ new.turn = calls[s].turn /\ new.not = 0
  BY <1>3 DEF CancelOf
<1>7. new \in Post
  BY <1>1, <1>3 DEF CancelOf, Post, TypeOK, CallsType, CallState
<1>8. posts \subseteq Post /\ posts' \subseteq Post
  BY <1>1, <1>4, <1>7 DEF TypeOK, ServerType
<1>9. s # NoCall /\ \A q \in Call : q # s => calls'[q] = calls[q]
  BY <1>1, <1>4, CallAssumption DEF TypeOK, CallsType
<1>10. \A p \in posts : p.call \in Call \cup {NoCall} /\ PostOK(p) /\ Waits(p) /\ p.call # s
  BY <1>1, <1>2, <1>8, <1>9 DEF PostsInv, Waits, Post
<1>11. calls[s].turn # 0 /\ calls[s].chat # 0 /\ Started(calls[s].turn)
  BY <1>2, SettleFacts
<1>12. calls'[s].at = "cancelling" /\ calls'[s].live
  BY <1>1, <1>2, <1>4 DEF TypeOK, CallsType, CallState
<1>13. \A p \in posts : PostOK(p)' /\ Waits(p)'
  BY <1>4, <1>9, <1>10 DEF PostOK, Started, Waits
<1>14. PostOK(new)' /\ Waits(new)'
  BY <1>4, <1>6, <1>11, <1>12 DEF PostOK, Started, Waits
<1>15. PostsInv'
  <2>1. \A p \in posts' : PostOK(p)' /\ Waits(p)'
    BY <1>4, <1>13, <1>14
  <2>2. \A p, q \in posts' : p.call # NoCall /\ p.call = q.call => p = q
    BY <1>1, <1>4, <1>6, <1>10 DEF PostsInv
  <2> QED BY <2>1, <2>2 DEF PostsInv
<1>16. NamesInv'
  BY <1>1, <1>4, <1>6, NamesLeft
<1> QED BY <1>2, <1>4, <1>5, <1>8, <1>15, <1>16, GoesOn

\* A call that the page no longer waits for ends.
LEMMA BystanderEnds ==
  ASSUME TypeOK, CallsInv, NEW s \in Call, stream # s, recon # s, calls' = [calls EXCEPT ![s] = Idle],
         UNCHANGED <<turn, page, view, stream, recon>>
  PROVE  CallsInv' /\ calls' \in [Call -> CallState]
<1>1. calls'[s] = Idle /\ (\A q \in Call : q # s => calls'[q] = calls[q]) /\ Idle \in CallState /\ Idle.live = FALSE
  BY DEF TypeOK, CallsType, Idle, CallState
<1>2. calls' \in [Call -> CallState]
  BY <1>1 DEF TypeOK, CallsType
<1>3. CallInv(s)'
  BY <1>1 DEF CallInv, LiveInv
<1>4. ASSUME NEW q \in Call, q # s PROVE CallInv(q)'
  <2>1. calls'[q] = calls[q] /\ CallInv(q)
    BY <1>1, <1>4 DEF CallsInv
  <2>2. \A x \in Call : calls'[x].live => calls[x].live
    BY <1>1
  <2>3. LiveInv(q)'
    BY <2>1, <2>2
       DEF CallInv, LiveInv, view, StreamCall, RereadCall, SettleCall, LoadCall, Started, Fits, IdOf
  <2> QED BY <2>1, <2>3 DEF CallInv
<1> QED BY <1>2, <1>3, <1>4 DEF CallsInv

LEMMA OvertakenKeeps ==
  ASSUME IInv, NEW s \in Call, Overtaken(s)
  PROVE  IInv'
<1>1. TypeOK /\ PageInv /\ NamesInv /\ CallsInv /\ PostsInv /\ StorageInv /\ RouteInv /\ CallInv(s) /\ LiveInv(s)
  BY DEF IInv, PageInv, CallsInv, CallInv
<1>2. calls[s].live /\ calls[s].cut /\ calls[s].at \in Reconciling /\ posts' = Unheard({s}) /\ Return(s, {})
      /\ UNCHANGED <<turn, latest, faults, asked, typed, opened, view, stream>>
  BY DEF Overtaken, Serving, server
<1>3. calls[s].chat = active /\ active \in Chat /\ active # 0 /\ page # "away" /\ recon # s /\ stream # s
  BY <1>1, <1>2, KindsDiffer DEF LiveInv, SettleCall, CallInv, Kinds, TypeOK, ViewType
<1>4. going' \in {0} \cup Chat /\ (going' # 0 => page = "new")
  BY <1>2, <1>3, ReturnIs
<1>5. PICK ds : stored' = Without(ds) /\ ds \subseteq {0}
  <2>1. calls[s].live /\ calls[s].chat = active /\ active \in Chat /\ active # 0 /\ Return(s, {})
    BY <1>2, <1>3
  <2>2. \E ds : stored' = Without(ds) /\ {} \subseteq ds /\ ds \subseteq {} \cup {0}
    BY <2>1, ReturnIs
  <2> QED BY <2>2
<1>6. calls' = [calls EXCEPT ![s] = Idle] /\ recon' = recon /\ UNCHANGED <<page, chat>>
  BY <1>2, <1>3 DEF Return
<1>7. CallsInv' /\ calls' \in [Call -> CallState]
  BY <1>1, <1>2, <1>3, <1>6, BystanderEnds
<1>8. StorageInv' /\ stored' \in [{0} \cup Chat -> Request]
  BY <1>1, <1>2, <1>5, StorageWithout
<1>9. \A q \in Call : q # s => calls'[q] = calls[q]
  BY <1>1, <1>6 DEF TypeOK, CallsType
<1>10. PostsInv' /\ posts' \subseteq Post
  BY <1>1, <1>2, <1>9, PostsLeft
<1>11. NamesInv'
  BY <1>1, <1>2, <1>5, NamesLeft
<1>12. TypeOK'
  BY <1>1, <1>2, <1>4, <1>6, <1>7, <1>8, <1>10, ZenonT(40) DEF TypeOK, ServerType, RouteType, ViewType, CallsType, view
<1>13. RouteInv'
  BY <1>1, <1>2, <1>3, <1>4, <1>5, <1>6 DEF RouteInv, view, Without
<1>14. ShownInv' /\ OwnMessages' /\ FreeToAsk' /\ TargetInv' /\ PhaseInv'
  BY <1>1, <1>2, <1>6 DEF PageInv, ShownInv, OwnMessages, FreeToAsk, MayAsk, TargetInv, Fits, IdOf, PhaseInv, Started, view
<1> QED BY <1>7, <1>8, <1>10, <1>11, <1>12, <1>13, <1>14 DEF IInv, PageInv

LEMMA IgnoredKeeps ==
  ASSUME IInv, NEW s \in Call, Ignored(s)
  PROVE  IInv'
<1>1. TypeOK /\ PageInv /\ NamesInv /\ CallsInv /\ PostsInv /\ CallInv(s)
  BY DEF IInv, PageInv, CallsInv
<1>2. /\ ~calls[s].live /\ calls' = [calls EXCEPT ![s] = Idle]
      /\ UNCHANGED <<turn, latest, posts, faults, asked, typed, opened, page, chat, going, view, stream, recon, stored>>
  BY DEF Ignored, server, client, route, aborts
<1>3. stream # s /\ recon # s
  BY <1>1, <1>2 DEF CallInv
<1>4. CallsInv' /\ calls' \in [Call -> CallState]
  BY <1>1, <1>2, <1>3, BystanderEnds
<1>5. \A q \in Call : q # s => calls'[q] = calls[q]
  BY <1>1, <1>2 DEF TypeOK, CallsType
<1>6. PostsInv'
  BY <1>1, <1>2, <1>5, PostsLeft
<1>7. NamesInv'
  BY <1>1, <1>2, NamesLeft
<1>8. TypeOK'
  BY <1>1, <1>2, <1>4 DEF TypeOK, ServerType, RouteType, ViewType, CallsType, view
<1>9. StorageInv' /\ RouteInv' /\ ShownInv' /\ OwnMessages' /\ FreeToAsk' /\ TargetInv' /\ PhaseInv'
  BY <1>1, <1>2, RequestsKept
     DEF PageInv, StorageInv, RouteInv, ShownInv, OwnMessages, FreeToAsk, MayAsk, TargetInv, Fits, IdOf, PhaseInv, view
<1> QED BY <1>4, <1>6, <1>7, <1>8, <1>9 DEF IInv, PageInv

-----------------------------------------------------------------------------
(* The user.                                                               *)

\* The page sends request r, new or again.
LEMMA ExecuteKeeps ==
  ASSUME IInv, NEW s \in Call, calls[s].kind = "none", NEW r \in Request, RequestOK(r), r.kind # "none",
         active = 0 => r.kind # "retry", Execute(s, r, active, calls, posts), page # "away", loaded = "ready",
         phase \in {"idle", "required"}, pending' = r, stored' = [stored EXCEPT ![active] = r],
         target' \in Target, target'.set, Started(target'.turn), target'.turn \in {0, IdOf(r)}, target'.not = r.not,
         UNCHANGED <<turn, latest, faults, opened, page, chat, going, active, loaded, recon>>,
         asked' \in {0} \cup Key, typed' \in {0} \cup Key,
         shown' \in Row, shown'.chat = shown.chat, shown'.turn = shown.turn, shown'.failed => shown.failed, NamesInv'
  PROVE  IInv'
<1>1. TypeOK /\ PageInv /\ CallsInv /\ PostsInv /\ RouteInv /\ StorageInv
  BY DEF IInv, PageInv
<1>2. calls[s] = Idle
  BY <1>1 DEF CallsInv, CallInv
<1>3. ~(calls[s].live /\ calls[s].at \in {"way", "cancelling"})
  BY <1>2 DEF Idle
<1>4. \A q \in Call : stream # q /\ recon # q /\ (calls[q].live => Superseded(calls[q]))
  BY <1>1, NoneAtRest
<1>5. calls' \in [Call -> CallState] /\ posts' \in SUBSET Post /\ stream' \in Call \cup {NoCall}
      /\ phase' \in {"idle", "streaming", "settling", "required"}
  BY <1>1, ExecuteTypes
<1>6. CallsInv' /\ PhaseInv' /\ PostsInv'
  BY <1>1, <1>3, <1>4, CallExecutes
<1>7. active \in {0} \cup Chat /\ stored' \in [{0} \cup Chat -> Request]
      /\ \A d \in {0} \cup Chat : stored'[d] = IF d = active THEN r ELSE stored[d]
  BY <1>1 DEF TypeOK, ViewType, CallsType
<1>8. TypeOK'
  BY <1>1, <1>5, <1>7 DEF TypeOK, ServerType, RouteType, ViewType, CallsType
<1>9. (\A x : RequestOK(x) => RequestOK(x)') /\ (\A x : Started(x) => Started(x)')
  BY RequestsKept
<1>10. StorageInv' /\ RouteInv'
  BY <1>1, <1>7, <1>9 DEF StorageInv, RouteInv
<1>11. ShownInv' /\ OwnMessages' /\ FreeToAsk' /\ TargetInv'
  <2>1. phase' # "idle"
    BY DEF Execute
  <2>2. ShownInv' /\ OwnMessages' /\ FreeToAsk'
    BY <1>1, <1>9, <2>1 DEF PageInv, ShownInv, OwnMessages, FreeToAsk, MayAsk
  <2>3. TargetInv'
    BY <1>9 DEF TargetInv, Fits, IdOf
  <2> QED BY <2>2, <2>3
<1> QED BY <1>6, <1>8, <1>10, <1>11 DEF IInv, PageInv

\* A new prompt gets a key that means nothing yet, and a text that was not typed before.
LEMMA NamesSent ==
  ASSUME TypeOK, NamesInv, NEW k, k = asked + 1, asked < MaxKeys, NEW x, x = typed + 1, NEW new, NEW s,
         NEW r, r = [kind |-> "prompt", key |-> k, text |-> x, turn |-> 0, not |-> 0, stop |-> FALSE],
         new = PostOf(s, r, active), posts' = posts \cup {new}, stored' = [stored EXCEPT ![active] = r],
         UNCHANGED <<turn, latest>>, asked' = k, typed' = x
  PROVE  NamesInv' /\ x \in Key /\ k \in Key
<1>1. k \in Key /\ turn[k].status = "none" /\ asked \in Nat /\ typed \in Nat /\ typed <= asked
  BY FreshKey DEF NamesInv, Counted
<1>2. x \in Key /\ x <= k /\ Key \subseteq Nat /\ k \in Chat
  BY <1>1, Numbers, BoundsAssumption DEF Key
<1>3. PICK h : h = IF active = 0 THEN k ELSE active
  OBVIOUS
<1>4. active \in {0} \cup Chat /\ \A d \in {0} \cup Chat : stored'[d] = IF d = active THEN r ELSE stored[d]
  BY DEF TypeOK, ViewType, CallsType
<1>5. \A d \in {0} \cup Chat : d # active => HomeOf(d)' = HomeOf(d)
  BY <1>4 DEF HomeOf
<1>6. \A d \in {0} \cup Chat : d = active => HomeOf(d)' = h
  BY <1>3, <1>4 DEF HomeOf
<1>7. new.key = k /\ new.text = x /\ HomeOfPost(new) = h
  BY <1>3 DEF PostOf, HomeOfPost
<1>8. \A j, y, d : Used(j, y, d)' => Used(j, y, d) \/ (j = k /\ y = x /\ d = h)
  <2> SUFFICES ASSUME NEW j, NEW y, NEW d, Used(j, y, d)' PROVE Used(j, y, d) \/ (j = k /\ y = x /\ d = h)
    OBVIOUS
  <2>1. CASE turn'[j].status # "none" /\ turn'[j].text = y /\ turn'[j].chat = d
    BY <2>1 DEF Used
  <2>2. ASSUME NEW p \in posts', p.kind \in {"initial", "send"} /\ p.key = j /\ p.text = y /\ HomeOfPost(p) = d
        PROVE Used(j, y, d) \/ (j = k /\ y = x /\ d = h)
    <3>1. CASE p = new
      BY <1>7, <2>2, <3>1
    <3>2. CASE p \in posts
      BY <2>2, <3>2, PostsAreUsed
    <3> QED BY <2>2, <3>1, <3>2
  <2>3. ASSUME NEW e \in {0} \cup Chat, stored'[e].kind = "prompt" /\ stored'[e].key = j /\ stored'[e].text = y /\ HomeOf(e)' = d
        PROVE Used(j, y, d) \/ (j = k /\ y = x /\ d = h)
    <3>1. CASE e = active
      BY <1>4, <1>6, <2>3, <3>1
    <3>2. CASE e # active
      BY <1>4, <1>5, <2>3, <3>2 DEF Used
    <3> QED BY <3>1, <3>2
  <2> QED BY <2>1, <2>2, <2>3 DEF Used, HomeOfPost
<1>9. \A j \in Key, y \in {0} \cup Key, d \in Chat : Used(j, y, d) => j # k /\ y # x
  <2> SUFFICES ASSUME NEW j \in Key, NEW y \in {0} \cup Key, NEW d \in Chat, Used(j, y, d) PROVE j # k /\ y # x
    OBVIOUS
  <2>1. j <= asked /\ y <= typed /\ j \in Nat /\ y \in Nat
    BY <1>2 DEF NamesInv, Counted
  <2> QED BY <1>1, <2>1
<1>10. OneMeaning'
  <2> SUFFICES ASSUME NEW j \in Key, NEW i \in Key, NEW y \in {0} \cup Key, NEW z \in {0} \cup Key, NEW d \in Chat, NEW e \in Chat,
                      Used(j, y, d)', Used(i, z, e)'
               PROVE (j = i => d = e) /\ (y # 0 /\ y = z => j = i)
    BY DEF OneMeaning
  <2>1. CASE Used(j, y, d) /\ Used(i, z, e)
    BY <2>1 DEF NamesInv, OneMeaning
  <2>2. CASE Used(j, y, d) /\ i = k /\ z = x
    BY <1>9, <2>2
  <2>3. CASE Used(i, z, e) /\ j = k /\ y = x
    BY <1>9, <2>3
  <2>4. CASE j = k /\ d = h /\ i = k /\ e = h
    BY <2>4
  <2> QED BY <1>8, <2>1, <2>2, <2>3, <2>4
<1>11. Counted'
  <2>1. typed' <= asked'
    BY <1>1, <1>2
  <2>2. ASSUME NEW j \in Key, NEW y \in {0} \cup Key, NEW d \in Chat, Used(j, y, d)' PROVE j <= k /\ y <= x
    <3>1. CASE Used(j, y, d)
      <4>1. j <= asked /\ y <= typed /\ j \in Nat /\ y \in Nat
        BY <1>2, <3>1 DEF NamesInv, Counted
      <4> QED BY <1>1, <4>1
    <3>2. CASE j = k /\ y = x
      BY <1>1, <1>2, <3>2
    <3> QED BY <1>8, <2>2, <3>1, <3>2
  <2> QED BY <2>1, <2>2 DEF Counted
<1>12. TurnsInv'
  BY DEF NamesInv, TurnsInv
<1> QED BY <1>1, <1>2, <1>10, <1>11, <1>12 DEF NamesInv

LEMMA SendKeeps ==
  ASSUME IInv, Send
  PROVE  IInv'
<1>1. TypeOK /\ NamesInv /\ FreeToAsk
  BY DEF IInv, PageInv
<1>2. page # "away" /\ loaded = "ready" /\ phase = "idle" /\ asked < MaxKeys
  BY DEF Send, MayAsk
<1>3. PICK k : k = asked + 1
  OBVIOUS
<1>4. PICK x : x = typed + 1
  OBVIOUS
<1>5. PICK r : r = [kind |-> "prompt", key |-> k, text |-> x, turn |-> 0, not |-> 0, stop |-> FALSE]
  OBVIOUS
<1>6. Starts(r) /\ asked' = k /\ typed' = x /\ shown' = shown
  BY <1>3, <1>4, <1>5 DEF Send
<1>7. PICK s \in Free(calls) : Execute(s, r, active, calls, posts)
  BY <1>6 DEF Starts
<1>8. s \in Call /\ calls[s].kind = "none"
  BY DEF Free
<1>9. PICK new : new = PostOf(s, r, active)
  OBVIOUS
<1>10. /\ pending' = r /\ stored' = [stored EXCEPT ![active] = r] /\ target' = TargetOf(r.turn, r.not)
       /\ UNCHANGED <<turn, latest, faults, opened, page, chat, going, active, loaded, recon>>
  BY <1>6 DEF Starts, server, route
<1>11. posts' = posts \cup {new}
  BY <1>7, <1>9 DEF Execute
<1>12. NamesInv' /\ x \in Key /\ k \in Key
  BY <1>1, <1>2, <1>3, <1>4, <1>5, <1>6, <1>9, <1>10, <1>11, NamesSent
<1>13. r \in Request /\ RequestOK(r) /\ r.kind = "prompt" /\ IdOf(r) = k /\ r.turn = 0 /\ r.not = 0
  BY <1>5, <1>12, Numbers DEF Request, RequestOK, Started, IdOf, Key
<1>14. target' \in Target /\ target'.set /\ Started(target'.turn) /\ target'.turn = 0 /\ target'.not = r.not
  BY <1>10, <1>13 DEF TargetOf, Target, Started
<1>15. asked' \in {0} \cup Key /\ typed' \in {0} \cup Key /\ shown' \in Row
  BY <1>1, <1>6, <1>12 DEF TypeOK, ViewType
<1> QED BY <1>2, <1>6, <1>7, <1>8, <1>10, <1>12, <1>13, <1>14, <1>15, ExecuteKeeps

\* The names of a request that was there before, or that retries a reply, when it is sent.
LEMMA NamesResent ==
  ASSUME TypeOK, NamesInv, NEW s, NEW r \in Request, NEW new, new = PostOf(s, r, active),
         r.kind = "prompt" => r = stored[active],
         active = 0 => r.kind # "retry", r.kind # "none", posts' = posts \cup {new}, stored' = [stored EXCEPT ![active] = r],
         UNCHANGED <<turn, latest, asked, typed>>
  PROVE  NamesInv'
<1>1. active \in {0} \cup Chat /\ \A d \in {0} \cup Chat : stored'[d] = IF d = active THEN r ELSE stored[d]
  BY DEF TypeOK, ViewType, CallsType
<1>2. r.kind = "prompt" => Used(r.key, r.text, HomeOf(active))
  BY <1>1, StoredIsUsed
<1>3. new.kind \in {"initial", "send"} => Used(new.key, new.text, HomeOfPost(new))
  BY <1>2 DEF PostOf, HomeOfPost, HomeOf, Request
<1>4. \A d \in {0} \cup Chat : stored'[d].kind = "prompt" => Used(stored'[d].key, stored'[d].text, HomeOf(d)')
  BY <1>1, <1>2, StoredIsUsed DEF HomeOf
<1>5. \A p \in posts' : p.kind \in {"initial", "send"} => Used(p.key, p.text, HomeOfPost(p))
  BY <1>3, PostsAreUsed
<1> QED BY <1>4, <1>5, NamesKept

LEMMA RetryReplyKeeps ==
  ASSUME IInv, RetryReply
  PROVE  IInv'
<1>1. TypeOK /\ NamesInv /\ ShownInv
  BY DEF IInv, PageInv
<1>2. page # "away" /\ loaded = "ready" /\ phase = "idle" /\ active # 0 /\ shown.failed
  BY DEF RetryReply, MayAsk
<1>3. shown.turn \in Key /\ shown.turn # 0 /\ shown.reply \in {0} \cup Reply /\ shown.chat \in {0} \cup Chat /\ Started(shown.turn)
  BY <1>1, <1>2 DEF ShownInv, TypeOK, ViewType, Row
<1>4. PICK r : r = [kind |-> "retry", key |-> 0, text |-> 0, turn |-> shown.turn, not |-> shown.reply, stop |-> FALSE]
  OBVIOUS
<1>5. Starts(r) /\ UNCHANGED <<asked, typed>> /\ shown' = [chat |-> shown.chat, turn |-> shown.turn, reply |-> 0, failed |-> FALSE]
  BY <1>4 DEF RetryReply
<1>6. PICK s \in Free(calls) : Execute(s, r, active, calls, posts)
  BY <1>5 DEF Starts
<1>7. s \in Call /\ calls[s].kind = "none"
  BY DEF Free
<1>8. PICK new : new = PostOf(s, r, active)
  OBVIOUS
<1>9. /\ pending' = r /\ stored' = [stored EXCEPT ![active] = r] /\ target' = TargetOf(r.turn, r.not)
      /\ UNCHANGED <<turn, latest, faults, opened, page, chat, going, active, loaded, recon>>
  BY <1>5 DEF Starts, server, route
<1>10. posts' = posts \cup {new}
  BY <1>6, <1>8 DEF Execute
<1>11. r \in Request /\ RequestOK(r) /\ r.kind = "retry" /\ IdOf(r) = r.turn
  BY <1>3, <1>4 DEF Request, RequestOK, IdOf
<1>12. NamesInv'
  BY <1>1, <1>2, <1>5, <1>8, <1>9, <1>10, <1>11, NamesResent
<1>13. target' \in Target /\ target'.set /\ Started(target'.turn) /\ target'.turn = r.turn /\ target'.not = r.not
  BY <1>3, <1>4, <1>9 DEF TargetOf, Target, Started
<1>14. asked' \in {0} \cup Key /\ typed' \in {0} \cup Key
  BY <1>1, <1>5 DEF TypeOK, ServerType
<1>15. shown' \in Row /\ shown'.chat = shown.chat /\ shown'.turn = shown.turn /\ ~shown'.failed
  BY <1>3, <1>5 DEF Row
<1> QED BY <1>2, <1>6, <1>7, <1>9, <1>11, <1>12, <1>13, <1>14, <1>15, ExecuteKeeps

LEMMA RetryKeeps ==
  ASSUME IInv, Retry
  PROVE  IInv'
<1>1. TypeOK /\ PageInv /\ NamesInv /\ CallsInv /\ RouteInv /\ StorageInv /\ TargetInv
  BY DEF IInv, PageInv
<1>2. page # "away" /\ loaded = "ready" /\ phase = "required" /\ target.set
  BY DEF Retry
<1>3. \A q \in Call : stream # q /\ recon # q /\ (calls[q].live => Superseded(calls[q]))
  BY <1>1, <1>2, NoneAtRest
<1>4. target \in Target /\ target.turn \in {0} \cup Key /\ target.not \in {0} \cup Reply /\ Started(target.turn)
      /\ (pending.kind # "none" => target.turn \in {0, IdOf(pending)} /\ target.not = pending.not)
  BY <1>1, <1>2 DEF TypeOK, ViewType, Target, TargetInv, Fits
<1>5. pending \in Request /\ pending = stored[active] /\ RequestOK(pending) /\ active \in {0} \cup Chat
      /\ stored \in [{0} \cup Chat -> Request] /\ pending.stop \in BOOLEAN
  BY <1>1, <1>2 DEF TypeOK, ViewType, CallsType, RouteInv, StorageInv, Request
<1>6. active = 0 => pending.kind # "retry"
  BY <1>1, <1>5 DEF StorageInv
<1>7. UNCHANGED <<turn, latest, faults, asked, typed, opened, page, chat, going, active, loaded, pending, stored>>
  BY DEF Retry, Serving, server, route
<1>8. PICK s \in Free(calls) :
       \/ /\ ~Resends(pending) /\ active # 0
          /\ Reconcile(s, "reconcile", active, target.turn, target.not, pending.stop, TRUE)
          /\ UNCHANGED <<posts, shown, stream>>
       \/ /\ Resends(pending)
          /\ Execute(s, Resent(pending), active, calls, posts)
          /\ shown' = Dropped(shown, pending)
          /\ UNCHANGED <<target, recon>>
  BY DEF Retry
<1>9. s \in Call /\ calls[s].kind = "none" /\ calls[s] = Idle
  BY <1>1 DEF Free, CallsInv, CallInv
<1>10. ~(calls[s].live /\ calls[s].at \in {"way", "cancelling"})
  BY <1>9 DEF Idle
<1>11. CASE /\ active # 0 /\ Reconcile(s, "reconcile", active, target.turn, target.not, pending.stop, TRUE)
            /\ UNCHANGED <<posts, shown, stream>>
  <2>1. StorageInv' /\ stored' \in [{0} \cup Chat -> Request] /\ pending' \in Request /\ pending' = stored'[active]
    BY <1>1, <1>5, <1>7, RequestsKept DEF StorageInv
  <2>2. \A d \in {0} \cup Chat : stored'[d].kind = "prompt" => Used(stored'[d].key, stored'[d].text, HomeOf(d)')
    BY <1>7, StoredIsUsed DEF HomeOf
  <2>3. pending'.kind # "none" => target.turn \in {0, IdOf(pending)'} /\ target.not = pending'.not
    BY <1>4, <1>7 DEF IdOf
  <2>4. stream' = NoCall
    BY <1>1, <1>3, <1>11 DEF TypeOK, CallsType
  <2> QED BY <1>2, <1>3, <1>4, <1>5, <1>7, <1>9, <1>10, <1>11, <2>1, <2>2, <2>3, <2>4, ReconcileKeeps
<1>12. CASE /\ Resends(pending) /\ Execute(s, pending, active, calls, posts) /\ shown' = Dropped(shown, pending)
            /\ UNCHANGED <<target, recon>>
  <2>1. PICK new : new = PostOf(s, pending, active)
    OBVIOUS
  <2>2. posts' = posts \cup {new} /\ pending.kind # "none"
    BY <1>12, <2>1 DEF Execute, Resends
  <2>3. stored' = [stored EXCEPT ![active] = pending] /\ pending' = pending
    BY <1>5, <1>7
  <2>4. NamesInv'
    BY <1>1, <1>5, <1>6, <1>7, <2>1, <2>2, <2>3, NamesResent
  <2>5. target' \in Target /\ target'.set /\ Started(target'.turn) /\ target'.turn \in {0, IdOf(pending)} /\ target'.not = pending.not
    BY <1>2, <1>4, <1>12, <2>2
  <2>6. shown' \in Row /\ shown'.chat = shown.chat /\ shown'.turn = shown.turn /\ (shown'.failed => shown.failed)
    BY <1>1, <1>5, <1>12, DroppedIs DEF TypeOK, ViewType
  <2>7. asked' \in {0} \cup Key /\ typed' \in {0} \cup Key
    BY <1>1, <1>7 DEF TypeOK, ServerType
  <2> QED BY <1>2, <1>5, <1>6, <1>7, <1>9, <1>12, <2>2, <2>3, <2>4, <2>5, <2>6, <2>7, ExecuteKeeps
<1> QED BY <1>8, <1>11, <1>12 DEF Resent

LEMMA StopKeeps ==
  ASSUME IInv, Stop
  PROVE  IInv'
<1>1. TypeOK /\ PageInv /\ NamesInv /\ CallsInv /\ PostsInv /\ RouteInv /\ StorageInv /\ TargetInv
  BY DEF IInv, PageInv
<1>2. /\ page # "away" /\ loaded = "ready" /\ phase \in {"streaming", "settling"} /\ pending.kind # "none"
      /\ UNCHANGED <<turn, latest, faults, asked, typed, opened, posts, page, chat, going, active, loaded, shown, stream>>
  BY DEF Stop, Serving, server, route
<1>3. PICK r : r = Stopped(pending)
  OBVIOUS
<1>4. pending' = r /\ stored' = [stored EXCEPT ![active] = r]
  BY <1>3 DEF Stop
<1>5. /\ pending \in Request /\ pending = stored[active] /\ RequestOK(pending) /\ active \in {0} \cup Chat
      /\ (active = 0 => pending.kind # "retry")
  BY <1>1, <1>2 DEF TypeOK, ViewType, RouteInv, StorageInv
<1>6. /\ r \in Request /\ r.kind = pending.kind /\ r.key = pending.key /\ r.text = pending.text /\ r.turn = pending.turn
      /\ r.not = pending.not /\ r.stop = TRUE /\ IdOf(r) = IdOf(pending)
  BY <1>3, <1>5 DEF Stopped, Request, IdOf
<1>7. RequestOK(r)
  BY <1>2, <1>5, <1>6 DEF RequestOK
<1>8. stored' \in [{0} \cup Chat -> Request] /\ \A d \in {0} \cup Chat : stored'[d] = IF d = active THEN r ELSE stored[d]
  BY <1>1, <1>4, <1>5, <1>6 DEF TypeOK, CallsType
<1>9. StorageInv' /\ pending' = stored'[active]
  BY <1>1, <1>2, <1>4, <1>5, <1>6, <1>7, <1>8, RequestsKept DEF StorageInv
<1>10. \A d \in {0} \cup Chat : stored'[d].kind = "prompt" => Used(stored'[d].key, stored'[d].text, HomeOf(d)')
  BY <1>5, <1>6, <1>8, StoredIsUsed DEF HomeOf
<1>11. CASE stream # NoCall /\ calls' = [calls EXCEPT ![stream].cut = TRUE] /\ UNCHANGED <<phase, target, recon>>
  <2>1. PICK s \in Call : s = stream
    BY <1>1, <1>11 DEF TypeOK, CallsType
  <2>2. calls[s] \in CallState /\ calls'[s] = [calls[s] EXCEPT !.cut = TRUE] /\ \A q \in Call : q # s => calls'[q] = calls[q]
    BY <1>1, <1>11, <2>1 DEF TypeOK, CallsType
  <2>3. /\ calls'[s].kind = calls[s].kind /\ calls'[s].at = calls[s].at /\ calls'[s].live = calls[s].live
        /\ calls'[s].chat = calls[s].chat /\ calls'[s].turn = calls[s].turn /\ calls'[s].not = calls[s].not
        /\ calls'[s].key = calls[s].key /\ calls'[s].text = calls[s].text /\ calls'[s] \in CallState
    BY <2>2 DEF CallState
  <2>4. CallInv(s) /\ calls[s].live /\ calls[s].kind = "exec" /\ calls[s].at \in Streaming \cup {"reread"}
    BY <1>1, <2>1 DEF CallsInv, CallInv
  <2>5. LiveInv(s) /\ calls[s].at \in Streaming /\ StreamCall(calls[s])
    BY <1>2, <2>4 DEF CallInv, LiveInv, RereadCall
  <2>6. \A q \in Call : q # s => stream # q /\ recon # q /\ (calls[q].live => Superseded(calls[q]))
    <3>1. \A q \in Call : q # s => stream # q /\ (calls[q].live => Superseded(calls[q]))
      BY <2>4, <2>5, StreamFacts
    <3> QED BY <1>1, <3>1 DEF CallsInv, CallInv, Superseded
  <2>7. recon # s
    BY <2>4, <2>5, KindsDiffer DEF CallInv, Kinds
  <2>8. CallInv(s)'
    <3>1. StreamCall(calls[s])'
      BY <1>2, <1>4, <1>6, <1>11, <2>3, <2>5 DEF StreamCall, IdOf
    <3>2. calls'[s].at \notin Reconciling /\ calls'[s].at # "reread" /\ calls'[s].at # "load" /\ calls'[s].at # "done"
      BY <2>3, <2>5, KindsDiffer DEF Kinds
    <3>3. LiveInv(s)'
      BY <1>2, <2>1, <2>3, <2>4, <2>5, <3>1, <3>2 DEF LiveInv, Started
    <3> QED BY <1>2, <1>11, <2>3, <2>4, <2>7, <3>3 DEF CallInv
  <2>9. \A q \in Call : q # s => CallInv(q)'
    BY <1>1, <1>2, <1>11, <2>2, <2>6, OtherCall
  <2>10. CallsInv' /\ PhaseInv'
    BY <1>1, <1>2, <1>11, <2>8, <2>9 DEF CallsInv, PageInv, PhaseInv
  <2>11. calls' \in [Call -> CallState]
    BY <1>1, <1>11, <2>1, <2>2, <2>3 DEF TypeOK, CallsType
  <2>12. TypeOK'
    BY <1>1, <1>2, <1>4, <1>6, <1>8, <1>11, <2>11 DEF TypeOK, ServerType, RouteType, ViewType, CallsType
  <2>13. PostsInv'
    <3>1. \A q \in Call : calls'[q].live = calls[q].live /\ calls'[q].at = calls[q].at /\ calls'[q].key = calls[q].key
      BY <2>2, <2>3
    <3>2. \A p \in posts : p.call \in Call \cup {NoCall}
      BY <1>1 DEF TypeOK, ServerType, Post
    <3>3. \A p \in posts : PostOK(p)' /\ Waits(p)'
      BY <1>1, <1>2, <3>1, <3>2 DEF PostsInv, PostOK, Waits, Started
    <3> QED BY <1>1, <1>2, <3>3 DEF PostsInv
  <2>14. NamesInv'
    BY <1>1, <1>2, <1>10, PostsAreUsed, NamesKept
  <2>15. RouteInv'
    BY <1>1, <1>2, <1>9 DEF RouteInv
  <2>16. ShownInv' /\ OwnMessages' /\ FreeToAsk'
    BY <1>1, <1>2, <1>11, RequestsKept DEF PageInv, ShownInv, OwnMessages, FreeToAsk, MayAsk
  <2>17. TargetInv'
    BY <1>1, <1>2, <1>4, <1>6, <1>11, RequestsKept DEF TargetInv, Fits, IdOf
  <2> QED BY <1>9, <2>10, <2>12, <2>13, <2>14, <2>15, <2>16, <2>17 DEF IInv, PageInv
<1>12. ASSUME stream = NoCall, active # 0, NEW s \in Free(calls),
              Reconcile(s, "reconcile", active, target.turn, target.not, TRUE, TRUE)
       PROVE  IInv'
  <2>1. s \in Call /\ calls[s] = Idle
    BY <1>1 DEF Free, CallsInv, CallInv
  <2>2. ~(calls[s].live /\ calls[s].at \in {"way", "cancelling"})
    BY <2>1 DEF Idle
  <2>3. target.turn \in {0} \cup Key /\ target.not \in {0} \cup Reply /\ Started(target.turn)
        /\ target.turn \in {0, IdOf(pending)} /\ target.not = pending.not
    BY <1>1, <1>2 DEF TypeOK, ViewType, Target, TargetInv, Fits
  <2>4. pending'.kind # "none" => target.turn \in {0, IdOf(pending)'} /\ target.not = pending'.not
    BY <1>4, <1>6, <2>3 DEF IdOf
  <2>5. phase = "settling" /\ \A q \in Call : stream # q
    BY <1>1, <1>2, <1>12, CallAssumption DEF PageInv, PhaseInv
  <2>6. ASSUME NEW q \in Call, calls[q].live PROVE Superseded(calls[q]) \/ q = recon
    <3>1. LiveInv(q) /\ calls[q].at \in {"done", "load", "reread"} \cup Streaming \cup Reconciling
      BY <1>1 DEF CallsInv, CallInv, TypeOK, CallsType, CallState
    <3> QED BY <2>5, <2>6, <3>1 DEF LiveInv, LoadCall, Superseded
  <2>7. pending' \in Request /\ stream' = NoCall
    BY <1>2, <1>4, <1>6, <1>12
  <2> QED BY <1>2, <1>8, <1>9, <1>10, <1>12, <2>1, <2>2, <2>3, <2>4, <2>6, <2>7, ReconcileKeeps
<1> QED BY <1>11, <1>12 DEF Stop

-----------------------------------------------------------------------------
(* The invariant.                                                          *)

LEMMA InitInv == Init => IInv
<1> SUFFICES ASSUME Init PROVE IInv
  OBVIOUS
<1>1. Idle \in CallState /\ Idle.live = FALSE /\ NoRequest \in Request /\ NoRequest.kind = "none" /\ NoTurn \in Turn
      /\ NoTurn.status = "none" /\ NoTarget \in Target /\ NoTarget.turn = 0 /\ NoRow \in Row /\ NoRow.turn = 0
      /\ NoRow.failed = FALSE /\ NoRow.chat = 0
  BY DEF Idle, CallState, NoRequest, Request, NoTurn, Turn, NoTarget, Target, NoRow, Row
<1>2. \A s \in Call : calls[s] = Idle /\ s # NoCall
  BY CallAssumption DEF Init
<1>3. (\A c \in {0} \cup Chat : stored[c] = NoRequest) /\ (\A k \in Key : turn[k] = NoTurn) /\ (\A c \in Chat : latest[c] = 0)
  BY DEF Init
<1>4. TypeOK
  BY <1>1, BoundsAssumption, BoundsOfUserAssumption DEF Init, TypeOK, ServerType, RouteType, ViewType, CallsType
<1>5. StorageInv /\ RouteInv /\ ShownInv /\ TargetInv
  BY <1>1, <1>3 DEF Init, StorageInv, RequestOK, Started, RouteInv, ShownInv, TargetInv, NoRequest
<1>6. CallsInv /\ PhaseInv
  BY <1>1, <1>2 DEF Init, CallsInv, CallInv, LiveInv, PhaseInv
<1>7. PostsInv /\ FreeToAsk /\ OwnMessages
  BY <1>1 DEF Init, PostsInv, FreeToAsk, OwnMessages
<1>8. \A k \in Key : \A x, c : ~Used(k, x, c)
  BY <1>1, <1>3 DEF Init, Used
<1>9. NamesInv
  BY <1>1, <1>3, <1>8 DEF Init, NamesInv, OneMeaning, Counted, TurnsInv
<1> QED BY <1>4, <1>5, <1>6, <1>7, <1>9 DEF IInv, PageInv

LEMMA StutterKeeps ==
  ASSUME IInv, UNCHANGED vars
  PROVE  IInv'
<1>1. UNCHANGED <<turn, latest, posts, faults, asked, typed, opened, page, chat, going, active, loaded, phase, pending, target, shown,
                  stream, recon, calls, stored>>
  BY DEF vars, server, route, view, aborts
<1>2. TypeOK'
  BY <1>1 DEF IInv, TypeOK, ServerType, RouteType, ViewType, CallsType
<1>3. StorageInv' /\ RouteInv' /\ ShownInv' /\ OwnMessages' /\ FreeToAsk' /\ TargetInv' /\ PhaseInv'
  BY <1>1, RequestsKept DEF IInv, PageInv, StorageInv, RouteInv, ShownInv, OwnMessages, FreeToAsk, MayAsk, TargetInv, Fits, IdOf, PhaseInv
<1>4. CallsInv'
  BY <1>1 DEF IInv, PageInv, CallsInv, CallInv, LiveInv, StreamCall, RereadCall, SettleCall, LoadCall, Started, Fits, IdOf
<1>5. PostsInv'
  BY <1>1 DEF IInv, PageInv, PostsInv, PostOK, Waits, Started
<1>6. NamesInv'
  BY <1>1, NamesLeft DEF IInv
<1> QED BY <1>2, <1>3, <1>4, <1>5, <1>6 DEF IInv, PageInv

\* Every step of the server, of the page and of its user keeps the invariant.
LEMMA NextKeeps ==
  ASSUME IInv, [Next]_vars
  PROVE  IInv'
<1>1. CASE Server
  BY <1>1, ServerKeeps
<1>2. CASE Arrive \/ Go \/ Reload
  BY <1>2, RouteKeeps
<1>3. CASE Send \/ RetryReply \/ Stop \/ Retry
  BY <1>3, SendKeeps, RetryReplyKeeps, StopKeeps, RetryKeeps
<1>4. ASSUME NEW s \in Call, Deliver(s) PROVE IInv'
  BY <1>4, LoadKeeps, HeadersKeeps, StreamKeeps, RefusedKeeps, RereadKeeps, ConfirmedKeeps, CancelsKeeps, PollsKeeps,
     GivesUpKeeps, OvertakenKeeps, IgnoredKeeps DEF Deliver
<1>5. CASE UNCHANGED vars
  BY <1>5, StutterKeeps
<1> QED BY <1>1, <1>2, <1>3, <1>4, <1>5 DEF Next, User

\* The invariant holds in every state, for any number of keys, attempts, faults, pages and calls.
THEOREM Invariance == Spec => []IInv
<1>1. IInv /\ [Next]_vars => IInv'
  BY NextKeeps
<1> QED BY InitInv, <1>1, PTL DEF Spec

-----------------------------------------------------------------------------
(* What follows.                                                           *)

\* Every variable of the page, of its calls and of the server keeps its type.
THEOREM TypeCorrect == Spec => []TypeOK
<1>1. IInv => TypeOK
  BY DEF IInv
<1> QED BY Invariance, <1>1, PTL

\* A page that lets the user ask waits for nothing: generationPhase is idle only when no request is pending.
THEOREM AsksWhenFree == Spec => []FreeToAsk
<1>1. IInv => FreeToAsk
  BY DEF IInv, PageInv
<1> QED BY Invariance, <1>1, PTL

\* The messages on the page are of the chat that is active, whichever load or reread delivered them.
THEOREM ShowsItsOwn == Spec => []OwnMessages
<1>1. IInv => OwnMessages
  BY DEF IInv, PageInv
<1> QED BY Invariance, <1>1, PTL

\* At most one call of executeChatRequest has its request out: streamAbortRef knows every stream there is to abort.
THEOREM StreamsAlone == Spec => []OneStream
<1>1. IInv => OneStream
  BY DEF IInv, PageInv, CallsInv, CallInv, LiveInv, OneStream
<1> QED BY Invariance, <1>1, PTL

\* While the page says that it streams or settles, streamAbortRef or reconciliationAbortRef is a call that does.
THEOREM WorksAsItSays == Spec => []Working
<1>1. ASSUME IInv PROVE Working
  <2>1. CallsInv /\ PhaseInv /\ stream \in Call \cup {NoCall} /\ recon \in Call \cup {NoCall}
    BY <1>1 DEF IInv, PageInv, TypeOK, CallsType
  <2> QED BY <2>1 DEF PhaseInv, CallsInv, CallInv, Working
<1> QED BY Invariance, <1>1, PTL

\* A prompt that was typed once is one turn, however often the page, its reloads and its retries send it.
THEOREM OneTurnForAPrompt == Spec => []NoPromptTwice
<1>1. ASSUME IInv PROVE NoPromptTwice
  <2> SUFFICES ASSUME NEW k \in Key, NEW j \in Key, turn[k].text # 0, turn[k].text = turn[j].text PROVE k = j
    BY DEF NoPromptTwice
  <2>1. \A i \in Key : turn[i].text # 0 => turn[i].status # "none" /\ turn[i].chat \in Chat /\ turn[i].text \in {0} \cup Key
    BY <1>1 DEF IInv, NamesInv, TurnsInv, NoTurn, TypeOK, ServerType, Turn
  <2>2. Used(k, turn[k].text, turn[k].chat) /\ Used(j, turn[j].text, turn[j].chat)
    BY <2>1 DEF Used
  <2>3. \A i, h \in Key, x \in {0} \cup Key, d, e \in Chat : Used(i, x, d) /\ Used(h, x, e) /\ x # 0 => i = h
    BY <1>1 DEF IInv, NamesInv, OneMeaning
  <2> QED BY <2>1, <2>2, <2>3
<1> QED BY Invariance, <1>1, PTL

-----------------------------------------------------------------------------
(* What a step may do to the requests in session storage.                  *)

\* The outcome of the request of the active chat is the reply that the page found.
LEMMA FoundIsKnown ==
  ASSUME IInv, NEW t, NEW n, active # 0, Found(active, t, n), t \in {0, IdOf(stored[active])}, n = stored[active].not,
         stored[active].kind # "none"
  PROVE  Known(active, stored[active])
<1>1. stored[active] \in Request /\ RequestOK(stored[active])
  BY DEF IInv, PageInv, StorageInv, TypeOK, ViewType, CallsType
<1>2. t # 0 /\ t = IdOf(stored[active]) /\ turn[t].chat = active /\ Ended(t) /\ turn[t].reply # n
  BY DEF Found
<1>3. t \in Key
  BY <1>1, <1>2 DEF IdOf, Request
<1> QED BY <1>2, <1>3 DEF Known, IdOf

\* Requests that were removed: those of another chat are not touched.
LEMMA Removed ==
  ASSUME NEW cs, stored' = Without(cs), NEW c \in Chat
  PROVE  stored'[c] = (IF c \in cs THEN NoRequest ELSE stored[c])
BY DEF Without

LEMMA StoredMoves ==
  ASSUME IInv, [Next]_vars, NEW c \in Chat
  PROVE  \/ stored'[c] = stored[c]
         \/ stored'[c] = NoRequest /\ Known(c, stored[c])
         \/ Same(stored[c], stored'[c]) /\ (stored[c].stop => stored'[c].stop)
         \/ stored'[c].key = c /\ page = "new"
         \/ stored[c] = NoRequest
<1> DEFINE Moves == \/ stored'[c] = stored[c]
                    \/ stored'[c] = NoRequest /\ Known(c, stored[c])
                    \/ Same(stored[c], stored'[c]) /\ (stored[c].stop => stored'[c].stop)
                    \/ stored'[c].key = c /\ page = "new"
                    \/ stored[c] = NoRequest
<1>1. TypeOK /\ PageInv /\ NamesInv /\ StorageInv /\ RouteInv /\ c # 0 /\ active \in {0} \cup Chat /\ stored \in [{0} \cup Chat -> Request]
  BY Numbers DEF IInv, PageInv, TypeOK, ViewType, CallsType
<1>2. stored[c].kind = "none" => stored[c] = NoRequest
  BY <1>1 DEF StorageInv, RequestOK
<1>3. page # "away" => pending = stored[active]
  BY <1>1 DEF RouteInv
<1>4. ASSUME NEW cs, stored' = Without(cs), cs \subseteq {0} PROVE Moves
  BY <1>1, <1>4, Removed
<1>5. ASSUME NEW cs, stored' = Without(cs), cs \subseteq {0, active}, active # 0, Known(active, stored[active]) PROVE Moves
  <2>1. CASE c = active
    <3>1. stored'[c] = NoRequest \/ stored'[c] = stored[c]
      BY <1>5, Removed
    <3> QED BY <1>5, <2>1, <3>1
  <2>2. CASE c # active
    <3>1. stored'[c] = stored[c]
      BY <1>1, <1>5, <2>2, Removed
    <3> QED BY <3>1
  <2> QED BY <2>1, <2>2
<1>6. CASE Server \/ UNCHANGED vars
  <2>1. stored' = stored
    BY <1>6 DEF Server, Take, Lose, Generate, Crash, OtherRetry, OtherPrompt, client, vars
  <2> QED BY <2>1
<1>7. CASE Arrive \/ Go \/ Reload
  <2>1. stored' = stored \/ stored' = Left
    BY <1>7 DEF Arrive, Go, Reload, OpenNew, OpenChat, Close
  <2> QED BY <1>4, <2>1 DEF Left
<1>8. CASE Send \/ RetryReply
  <2>1. \E r : stored' = [stored EXCEPT ![active] = r]
    BY <1>8 DEF Send, RetryReply, Starts
  <2>2. pending.kind = "none" /\ page # "away"
    BY <1>1, <1>8 DEF PageInv, FreeToAsk, Send, RetryReply, MayAsk
  <2> QED BY <1>1, <1>2, <1>3, <2>1, <2>2
<1>9. CASE Stop
  <2>1. stored' = [stored EXCEPT ![active] = Stopped(pending)] /\ page # "away"
    BY <1>9 DEF Stop
  <2>2. Same(pending, Stopped(pending)) /\ Stopped(pending).stop
    BY DEF Same, Stopped
  <2> QED BY <1>1, <1>3, <2>1, <2>2
<1>10. CASE Retry
  BY <1>10 DEF Retry
<1>11. ASSUME NEW s \in Call, Deliver(s) PROVE Moves
  <2>1. CASE LoadAnswer(s)
    <3>1. CASE UNCHANGED stored
      BY <3>1
    <3>2. CASE pending.kind # "none" /\ Found(calls[s].chat, pending.turn, pending.not) /\ stored' = Without(ClearedWith(calls[s].chat))
      <4>1. calls[s].live /\ calls[s].at = "load"
        BY <2>1 DEF LoadAnswer, Expecting, Current
      <4>2. calls[s].chat = active /\ page # "away" /\ active # 0
        BY <1>1, <4>1 DEF PageInv, CallsInv, CallInv, LiveInv, LoadCall
      <4>3. pending.turn \in {0, IdOf(pending)}
        BY <1>1, <1>3, <4>2 DEF StorageInv, RequestOK, IdOf, Request
      <4>4. Known(active, stored[active])
        BY <1>3, <3>2, <4>2, <4>3, FoundIsKnown
      <4>5. ClearedWith(active) \subseteq {0, active}
        BY DEF ClearedWith
      <4> QED BY <1>5, <3>2, <4>2, <4>4, <4>5
    <3> QED BY <2>1, <3>1, <3>2 DEF LoadAnswer
  <2>2. CASE Refused(s)
    <3>1. calls[s].live /\ calls[s].at = "refused" /\ "refused" \in Streaming
      BY <2>2 DEF Refused, Expecting, Current, Streaming
    <3>2. calls[s].chat = active /\ IsPending(s) /\ page # "away"
      BY <3>1, StreamFacts
    <3>3. stored' = Without(ClearedWith(active)) /\ ClearedWith(active) \subseteq {0, active}
      BY <2>2, <3>2 DEF Refused, ClearedWith
    <3>4. Known(active, stored[active])
      BY <1>3, <3>1, <3>2 DEF Known, IsPending
    <3> QED BY <1>4, <1>5, <3>3, <3>4
  <2>3. CASE Confirmed(s)
    <3>1. calls[s].live /\ ~calls[s].cut /\ calls[s].at \in Reconciling
      BY <2>3 DEF Confirmed, Reconciles, Current, Reconciling
    <3>2. calls[s].chat = active /\ active # 0 /\ page # "away" /\ Fits(calls[s].turn, calls[s].not)
      BY <3>1, SettleFacts
    <3>3. Found(active, calls[s].turn, calls[s].not) /\ \E ds : stored' = Without(ds) /\ ds \subseteq {0, active}
      BY <2>3, <3>2 DEF Confirmed, IsFound, Return, ClearedWith
    <3>4. CASE pending.kind = "none"
      BY <1>1, <1>2, <1>3, <3>2, <3>3, <3>4, Removed
    <3>5. CASE pending.kind # "none"
      <4>1. Known(active, stored[active])
        BY <1>3, <3>2, <3>3, <3>5, FoundIsKnown DEF Fits
      <4> QED BY <1>5, <3>2, <3>3, <4>1
    <3> QED BY <3>4, <3>5
  <2>4. CASE GivesUp(s) \/ Overtaken(s)
    <3>1. \E ds : stored' = Without(ds) /\ ds \subseteq {0}
      BY <2>4 DEF GivesUp, Overtaken, Return
    <3> QED BY <1>4, <3>1
  <2>5. CASE Headers(s)
    <3>1. calls[s].live /\ calls[s].at = "head" /\ "head" \in Streaming
      BY <2>5 DEF Headers, Expecting, Current, Streaming
    <3>2. /\ calls[s].chat = active /\ IsPending(s) /\ page # "away" /\ StreamCall(calls[s])
          /\ pending \in Request /\ RequestOK(pending) /\ pending.kind \in {"prompt", "retry"} /\ Started(calls[s].turn)
          /\ calls[s].key \in {0} \cup Key /\ calls[s].turn \in {0} \cup Key /\ (active = 0 => pending.kind = "prompt")
      BY <1>1, <3>1, StreamFacts DEF PageInv, CallsInv, CallInv, LiveInv
    <3>3. PICK t : t = IF calls[s].key # 0 THEN calls[s].key ELSE calls[s].turn
      OBVIOUS
    <3>4. PICK request : request = [pending EXCEPT !.turn = t]
      OBVIOUS
    <3>5. stored' = [stored EXCEPT ![IF active = 0 THEN turn[t].chat ELSE active] = request]
      BY <2>5, <3>2, <3>3, <3>4 DEF Headers
    <3>6. /\ request.kind = pending.kind /\ request.key = pending.key /\ request.not = pending.not /\ request.stop = pending.stop
          /\ request.turn = t /\ (pending.kind = "retry" => t = pending.turn) /\ (pending.kind = "prompt" => t = pending.key /\ t \in Key)
      BY <3>2, <3>3, <3>4 DEF Request, StreamCall, RequestOK
    <3>7. CASE active # 0
      <4>1. Same(pending, request)
        BY <3>6 DEF Same
      <4> QED BY <1>1, <1>3, <3>2, <3>5, <3>6, <3>7, <4>1
    <3>8. CASE active = 0
      <4>1. pending.kind = "prompt" /\ t = pending.key /\ t \in Key /\ turn[t].status # "none" /\ page = "new"
        <5>1. page = "new"
          BY <1>1, <3>2, <3>8 DEF RouteInv, TypeOK, RouteType
        <5>2. pending.kind = "prompt" /\ t = pending.key /\ t \in Key /\ pending.key # 0 /\ calls[s].key = pending.key
          BY <3>2, <3>6, <3>8 DEF IsPending, RequestOK
        <5> QED BY <3>1, <3>2, <5>1, <5>2 DEF StreamCall
      <4>2. turn[t].text \in {0} \cup Key /\ turn[t].chat \in Chat
        BY <1>1, <4>1 DEF NamesInv, TurnsInv, TypeOK, ServerType, Turn
      <4>3. Used(t, turn[t].text, turn[t].chat)
        BY <4>1 DEF Used
      <4>4. Used(t, pending.text, t) /\ pending.text \in {0} \cup Key /\ t \in Chat
        BY <1>1, <1>3, <3>2, <3>8, <4>1, StoredIsUsed, Numbers DEF HomeOf, Request
      <4>5. \A k \in Key, x, y \in {0} \cup Key, d, e \in Chat : Used(k, x, d) /\ Used(k, y, e) => d = e
        BY <1>1 DEF NamesInv, OneMeaning
      <4>6. turn[t].chat = t
        BY <4>1, <4>2, <4>3, <4>4, <4>5
      <4> QED BY <1>1, <3>5, <3>6, <3>8, <4>1, <4>6
    <3> QED BY <3>7, <3>8
  <2>6. CASE LoadLost(s) \/ StreamEnds(s) \/ StreamBreaks(s) \/ Reread(s) \/ RereadLost(s) \/ Cancels(s) \/ PollsOn(s) \/ Ignored(s)
    <3>1. stored' = stored
      BY <2>6 DEF LoadLost, StreamEnds, StreamBreaks, Conclude, Reread, RereadLost, Cancels, PollsOn, Ignored, client
    <3> QED BY <3>1
  <2> QED BY <1>11, <2>1, <2>2, <2>3, <2>4, <2>5, <2>6 DEF Deliver
<1> QED BY <1>6, <1>7, <1>8, <1>9, <1>10, <1>11 DEF Next, User

\* The request of a chat is in session storage until its outcome is known, through reloads, other pages and failures;
\* only the first prompt of the chat, left over from New chat, takes its place.
THEOREM KeepsRequests == Spec => KeptUntilKnown
<1>1. ASSUME IInv, [Next]_vars
      PROVE  \A c \in Chat : stored[c].kind # "none" =>
               Same(stored[c], stored'[c]) \/ stored'[c].key = c \/ Known(c, stored[c])
  <2> SUFFICES ASSUME NEW c \in Chat, stored[c].kind # "none"
               PROVE Same(stored[c], stored'[c]) \/ stored'[c].key = c \/ Known(c, stored[c])
    OBVIOUS
  <2>1. stored[c] # NoRequest
    BY DEF NoRequest
  <2>2. stored'[c] = stored[c] => Same(stored[c], stored'[c])
    BY DEF Same
  <2> QED BY <1>1, <2>1, <2>2, StoredMoves
<1> QED BY Invariance, <1>1, PTL DEF Spec, KeptUntilKnown

\* A stop that was stored for a chat stays with its request while the page shows a chat, so that a reload finds it.
THEOREM KeepsStops == Spec => StopKept
<1>1. ASSUME IInv, [Next]_vars
      PROVE  page = "chat" /\ page' = "chat" =>
               \A c \in Chat : stored[c].stop /\ Same(stored[c], stored'[c]) => stored'[c].stop
  <2> SUFFICES ASSUME page = "chat", NEW c \in Chat, stored[c].stop, Same(stored[c], stored'[c]) PROVE stored'[c].stop
    OBVIOUS
  <2>1. stored[c] # NoRequest /\ stored[c].kind # "none"
    <3>1. NoRequest.stop = FALSE
      BY DEF NoRequest
    <3>2. stored[c].kind = "none" => stored[c] = NoRequest
      BY <1>1 DEF IInv, PageInv, StorageInv, RequestOK
    <3> QED BY <3>1, <3>2
  <2>2. stored'[c] # NoRequest
    BY <2>1 DEF Same, NoRequest
  <2> QED BY <1>1, <2>1, <2>2, StoredMoves
<1> QED BY Invariance, <1>1, PTL DEF Spec, StopKept

-----------------------------------------------------------------------------
(* The service keeps a conversation in every chat.                         *)

\* A turn nobody ended is the last of its chat.
LiveIsLatest == \A k \in Key : turn[k].status \in {"running", "lost"} => latest[turn[k].chat] = k

\* The history of a chat lists turns of it, each once, and ends with the latest.
OrderInv ==
  /\ order \in [Chat -> Seq(Key)]
  /\ \A c \in Chat : latest[c] = IF order[c] = <<>> THEN 0 ELSE order[c][Len(order[c])]
  /\ \A c \in Chat : \A i \in 1 .. Len(order[c]) :
       turn[order[c][i]].chat = c /\ turn[order[c][i]].status # "none"
  /\ \A c \in Chat : \A i, j \in 1 .. Len(order[c]) : order[c][i] = order[c][j] => i = j

TalkInv == IInv /\ LiveIsLatest /\ OrderInv

\* What the service does to one turn: an open one goes on or ends, and a failed one is asked again.
Moves(k, t) ==
  /\ latest' = latest /\ turn' = [turn EXCEPT ![k] = t]
  /\ latest[turn[k].chat] = k /\ t.chat = turn[k].chat
  /\ \/ turn[k].status \in {"running", "lost"} /\ t.status # "none"
     \/ turn[k].status = "failed" /\ t.status = "running"

\* Each step leaves the turns alone, moves the latest one of a chat, or starts the next one.
LEMMA ServerMoves ==
  ASSUME IInv, LiveIsLatest, [Next]_vars
  PROVE  \/ turn' = turn /\ latest' = latest
         \/ \E k \in Key : \E t \in Turn : Moves(k, t)
         \/ \E c \in Chat, k \in Key, x \in {0} \cup Key : turn[k].status = "none" /\ StartTurn(c, k, x)
<1>1. turn \in [Key -> Turn] /\ latest \in [Chat -> {0} \cup Key] /\ TypeOK /\ PageInv /\ NamesInv
  BY DEF IInv, TypeOK, ServerType
<1>2. ASSUME NEW k \in Key, turn[k].status = "lost", Reclaim(k), latest' = latest
      PROVE  \E t \in Turn : Moves(k, t)
  <2>1. PICK t : t = IF turn[k].reply < MaxReplies THEN Running(turn[k].chat, turn[k].text, turn[k].reply + 1)
                                                   ELSE [turn[k] EXCEPT !.status = "failed"]
    OBVIOUS
  <2>2. turn' = [turn EXCEPT ![k] = t] /\ t.chat = turn[k].chat /\ t.status \in {"running", "failed"}
    BY <1>1, <1>2, <2>1 DEF Reclaim, Running, Turn
  <2>3. turn' \in [Key -> Turn]
    BY <1>1, <1>2, ReclaimTypes
  <2>4. t \in Turn
    BY <1>1, <2>2, <2>3
  <2> QED BY <1>2, <2>2, <2>4 DEF Moves, LiveIsLatest
<1>3. ASSUME NEW k \in Key, NEW end \in {"complete", "failed", "canceled", "lost"}, turn[k].status \in {"running", "lost"},
             turn' = [turn EXCEPT ![k].status = end], latest' = latest
      PROVE  \E t \in Turn : Moves(k, t)
  <2>1. PICK t : t = [turn[k] EXCEPT !.status = end]
    OBVIOUS
  <2>2. t \in Turn /\ t.chat = turn[k].chat /\ t.status = end
    BY <1>1, <2>1 DEF Turn, Terminal
  <2>3. turn' = [turn EXCEPT ![k] = t]
    BY <1>3, <2>1
  <2> QED BY <1>3, <2>2, <2>3 DEF Moves, LiveIsLatest
<1>4. ASSUME NEW k \in Key, NEW c, NEW n, turn[k].status = "failed", latest[turn[k].chat] = k, c = turn[k].chat,
             n \in Reply, turn' = [turn EXCEPT ![k] = Running(c, @.text, n)], latest' = latest
      PROVE  \E t \in Turn : Moves(k, t)
  <2>1. PICK t : t = Running(c, turn[k].text, n)
    OBVIOUS
  <2>2. t \in Turn /\ t.chat = turn[k].chat /\ t.status = "running"
    BY <1>1, <1>4, <2>1 DEF Turn, Running
  <2>3. turn' = [turn EXCEPT ![k] = t]
    BY <1>4, <2>1
  <2> QED BY <1>4, <2>2, <2>3 DEF Moves
<1>5. ASSUME NEW p \in posts, Take(p)
      PROVE  \/ turn' = turn /\ latest' = latest
             \/ \E k \in Key : \E t \in Turn : Moves(k, t)
             \/ \E c \in Chat, k \in Key, x \in {0} \cup Key : turn[k].status = "none" /\ StartTurn(c, k, x)
  <2>1. p.key \in {0} \cup Key /\ p.turn \in {0} \cup Key /\ p.text \in {0} \cup Key
        /\ p.chat \in {0} \cup Chat /\ p.not \in {0} \cup Reply /\ PostOK(p)
    BY <1>1 DEF PageInv, PostsInv, TypeOK, ServerType, Post
  <2>2. CASE TakePrompt(p)
    <3>1. p.key \in Key /\ turn[p.key].status = "none" /\ (p.kind = "send" => p.chat \in Chat) /\ Key \subseteq Chat
      BY <2>1, <2>2, Numbers DEF TakePrompt, PostOK
    <3>2. (turn' = turn /\ latest' = latest) \/ StartTurn(IF p.kind = "initial" THEN p.key ELSE p.chat, p.key, p.text)
      BY <2>2 DEF TakePrompt, server
    <3>3. (IF p.kind = "initial" THEN p.key ELSE p.chat) \in Chat
      BY <2>2, <3>1 DEF TakePrompt
    <3> QED BY <2>1, <3>1, <3>2, <3>3
  <2>3. CASE ReplayPrompt(p)
    <3>1. p.key \in Key /\ latest' = latest
      BY <2>1, <2>3 DEF ReplayPrompt, PostOK
    <3>2. CASE turn[p.key].status = "lost"
      <4>1. Reclaim(p.key)
        BY <2>3, <3>2 DEF ReplayPrompt
      <4> QED BY <1>2, <3>1, <3>2, <4>1
    <3>3. CASE turn[p.key].status # "lost"
      BY <2>3, <3>1, <3>3 DEF ReplayPrompt
    <3> QED BY <3>2, <3>3
  <2>4. CASE TakeRetry(p)
    <3>1. p.turn \in Key /\ p.chat \in Chat /\ latest' = latest
      BY <2>1, <2>4 DEF TakeRetry, PostOK
    <3>2. CASE turn' = turn
      BY <3>1, <3>2
    <3>3. CASE turn[p.turn].status = "lost" /\ Reclaim(p.turn)
      BY <1>2, <3>1, <3>3
    <3>4. CASE /\ turn[p.turn].status = "failed" /\ turn[p.turn].reply = p.not
               /\ latest[p.chat] = p.turn /\ p.not < MaxReplies
               /\ turn' = [turn EXCEPT ![p.turn] = Running(p.chat, @.text, p.not + 1)]
      <4>1. turn[p.turn].chat = p.chat /\ 0 \notin Key
        BY <1>1, <3>1, <3>4 DEF NamesInv, TurnsInv, Key
      <4>2. p.not + 1 \in Reply
        BY <2>1, <3>4, BoundsAssumption DEF Reply
      <4> QED BY <1>4, <3>1, <3>4, <4>1, <4>2
    <3> QED BY <2>4, <3>2, <3>3, <3>4 DEF TakeRetry
  <2>5. CASE TakeCancel(p)
    <3>1. p.turn \in Key /\ latest' = latest /\ turn[p.turn].status # "none" /\ 0 \notin Key
      BY <2>1, <2>5 DEF TakeCancel, PostOK, Started, Key
    <3>2. CASE Ended(p.turn)
      BY <2>5, <3>1, <3>2 DEF TakeCancel
    <3>3. CASE ~Ended(p.turn)
      <4>1. turn[p.turn].status \in {"running", "lost"}
        BY <1>1, <3>1, <3>3 DEF Ended, Turn
      <4>2. turn' = [turn EXCEPT ![p.turn].status = "canceled"]
        BY <2>5, <3>3 DEF TakeCancel
      <4> QED BY <1>3, <3>1, <4>1, <4>2
    <3> QED BY <3>2, <3>3
  <2> QED BY <1>5, <2>2, <2>3, <2>4, <2>5 DEF Take
<1>6. ASSUME NEW k \in Key, Generate(k) \/ Crash(k) \/ OtherRetry(k)
      PROVE  \E t \in Turn : Moves(k, t)
  <2>1. CASE Generate(k)
    BY <1>3, <2>1 DEF Generate
  <2>2. CASE Crash(k)
    BY <1>3, <2>2 DEF Crash
  <2>3. CASE OtherRetry(k)
    <3>1. turn[k].reply + 1 \in Reply
      BY <1>1, <2>3, BoundsAssumption DEF OtherRetry, Turn, Reply
    <3>2. turn' = [turn EXCEPT ![k] = Running(turn[k].chat, @.text, turn[k].reply + 1)]
      BY <1>1, <2>3 DEF OtherRetry
    <3> QED BY <1>4, <2>3, <3>1, <3>2 DEF OtherRetry
  <2> QED BY <1>6, <2>1, <2>2, <2>3
<1>7. ASSUME NEW c \in Chat, OtherPrompt(c)
      PROVE  \E k \in Key, x \in {0} \cup Key : turn[k].status = "none" /\ StartTurn(c, k, x)
  <2>1. asked + 1 \in Key /\ turn[asked + 1].status = "none"
    BY <1>1, <1>7, FreshKey DEF OtherPrompt
  <2> QED BY <1>7, <2>1 DEF OtherPrompt
<1>8. CASE Server
  <2>1. ASSUME NEW p \in posts, Lose(p)
        PROVE  turn' = turn /\ latest' = latest
    BY <2>1 DEF Lose, server
  <2>2. CASE \E p \in posts : Take(p) \/ Lose(p)
    BY <1>5, <2>1, <2>2
  <2>3. CASE \E k \in Key : Generate(k) \/ Crash(k) \/ OtherRetry(k)
    BY <1>6, <2>3
  <2>4. CASE \E c \in Chat : OtherPrompt(c)
    BY <1>7, <2>4
  <2> QED BY <1>8, <2>2, <2>3, <2>4 DEF Server
<1>9. CASE UNCHANGED vars
  BY <1>9 DEF vars, server
<1>10. CASE Arrive \/ User
  <2>1. turn' = turn /\ latest' = latest
    BY <1>10 DEF Arrive, User, Go, OpenNew, OpenChat, Close, Left, Reload, Send, Starts, RetryReply, Stop, Retry, Serving, server, client
  <2> QED BY <2>1
<1>11. ASSUME NEW s \in Call, Deliver(s)
       PROVE  turn' = turn /\ latest' = latest
  BY <1>11 DEF Deliver, LoadAnswer, LoadLost, Headers, StreamEnds, StreamBreaks, Conclude, Refused, Reread, RereadLost,
       Confirmed, GivesUp, Cancels, PollsOn, Overtaken, Ignored, Serving, server, client
<1> QED BY <1>8, <1>9, <1>10, <1>11 DEF Next

\* The history of a chat whose latest turn stays, and of one with a next turn.
LEMMA HistoryIs ==
  ASSUME OrderInv, order' = Listed, NEW c \in Chat
  PROVE  /\ order[c] \in Seq(Key)
         /\ latest'[c] = latest[c] => order'[c] = order[c]
         /\ latest'[c] # latest[c] => order'[c] = Append(order[c], latest'[c])
BY DEF OrderInv, Listed

\* A chat whose turns do not change has the same talk.
LEMMA SameTalk ==
  ASSUME OrderInv, NEW c \in Chat, order'[c] = order[c],
         \A i \in 1 .. Len(order[c]) : turn'[order[c][i]].status = turn[order[c][i]].status
  PROVE  Talk(c)' = Talk(c)
BY DEF Talk, Seen

\* The talk of a chat lists what its history does.
LEMMA TalkIs ==
  ASSUME NEW c, order[c] \in Seq(Key)
  PROVE  /\ Len(Talk(c)) = Len(order[c]) /\ DOMAIN Talk(c) = 1 .. Len(order[c])
         /\ \A i \in 1 .. Len(order[c]) : Talk(c)[i] = [prompt |-> order[c][i], reply |-> Seen(order[c][i])]
<1>1. Len(order[c]) \in Nat
  OBVIOUS
<1> QED BY <1>1 DEF Talk

\* The talk of a chat whose last reply changes.
LEMMA RepliedIs ==
  ASSUME NEW c, order[c] \in Seq(Key), order[c] # <<>>, NEW r
  PROVE  C(c)!Reply(Talk(c), r) =
           [i \in 1 .. Len(order[c]) |->
              [prompt |-> order[c][i], reply |-> IF i = Len(order[c]) THEN r ELSE Seen(order[c][i])]]
<1>1. PICK n, list : n = Len(order[c]) /\ list = Talk(c)
  OBVIOUS
<1>2. n \in Nat \ {0} /\ Len(Talk(c)) = n
  BY <1>1, TalkIs
<1>3. list = [i \in 1 .. n |-> [prompt |-> order[c][i], reply |-> Seen(order[c][i])]]
  BY <1>1 DEF Talk
<1>4. [list[n] EXCEPT !.reply = r] = [prompt |-> order[c][n], reply |-> r]
  <2>1. list[n] = [prompt |-> order[c][n], reply |-> Seen(order[c][n])]
    BY <1>2, <1>3
  <2> QED BY <2>1
<1>5. [list EXCEPT ![n].reply = r] = [i \in 1 .. n |-> IF i = n THEN [list[n] EXCEPT !.reply = r] ELSE list[i]]
  BY <1>2, <1>3
<1>6. \A i \in 1 .. n : (IF i = n THEN [list[n] EXCEPT !.reply = r] ELSE list[i])
                        = [prompt |-> order[c][i], reply |-> IF i = n THEN r ELSE Seen(order[c][i])]
  BY <1>3, <1>4
<1> QED BY <1>1, <1>2, <1>5, <1>6 DEF C!Reply

\* A turn that goes on, ends, or is asked again is the last of its chat's talk.
LEMMA MoveConverses ==
  ASSUME TalkInv, NEW k \in Key, NEW t \in Turn, Moves(k, t), order' = Listed
  PROVE  LiveIsLatest' /\ OrderInv' /\ \A c \in Chat : [C(c)!Next]_(C(c)!vars)
<1>1. turn \in [Key -> Turn] /\ latest \in [Chat -> {0} \cup Key] /\ 0 \notin Key
  BY DEF TalkInv, IInv, TypeOK, ServerType, Key
<1>2. /\ \A j \in Key : turn'[j].chat = turn[j].chat /\ (j # k => turn'[j] = turn[j])
      /\ turn'[k] = t /\ t.status # "none" /\ turn[k].status # "none" /\ latest' = latest
  BY <1>1 DEF Moves
<1>a. PICK d : d = turn[k].chat
  OBVIOUS
<1>3. order' = order
  BY <1>2, HistoryIs DEF TalkInv, OrderInv, Listed
<1>4. OrderInv'
  BY <1>2, <1>3 DEF TalkInv, OrderInv
<1>5. LiveIsLatest'
  BY <1>2 DEF TalkInv, LiveIsLatest, Moves
<1>6. ASSUME NEW c \in Chat, c # d
      PROVE  Talk(c)' = Talk(c)
  <2>1. \A i \in 1 .. Len(order[c]) : turn'[order[c][i]].status = turn[order[c][i]].status
    BY <1>2, <1>a, <1>6 DEF TalkInv, OrderInv
  <2> QED BY <1>3, <2>1, SameTalk DEF TalkInv
<1>7. d \in Chat => C(d)!Next \/ Talk(d)' = Talk(d)
  <2> SUFFICES ASSUME d \in Chat PROVE C(d)!Next \/ Talk(d)' = Talk(d)
    OBVIOUS
  <2>1. PICK n : n = Len(order[d])
    OBVIOUS
  <2>2. order[d] \in Seq(Key) /\ n \in Nat \ {0} /\ order[d][n] = k
    BY <1>1, <1>a, <2>1 DEF TalkInv, OrderInv, Moves
  <2>3. \A i \in 1 .. n : i # n => order[d][i] # k
    BY <2>1, <2>2 DEF TalkInv, OrderInv
  <2>4. /\ Len(Talk(d)) = n /\ DOMAIN Talk(d) = 1 .. n
        /\ \A i \in 1 .. n : Talk(d)[i] = [prompt |-> order[d][i], reply |-> Seen(order[d][i])]
    BY <2>1, <2>2, TalkIs
  <2>5. PICK r : r = Seen(k)'
    OBVIOUS
  <2>6. Talk(d)' = C(d)!Reply(Talk(d), r)
    <3>1. \A i \in 1 .. n : i # n => turn'[order[d][i]] = turn[order[d][i]]
      <4>1. \A i \in 1 .. n : order[d][i] \in Key
        BY <2>1, <2>2
      <4> QED BY <1>2, <2>3, <4>1
    <3>2. Talk(d)' = [i \in 1 .. n |-> [prompt |-> order[d][i], reply |-> IF i = n THEN r ELSE Seen(order[d][i])]]
      BY <1>3, <2>1, <2>2, <2>5, <3>1 DEF Talk, Seen
    <3> QED BY <2>1, <2>2, <3>2, RepliedIs
  <2>7. CASE turn[k].status \in {"running", "lost"}
    <3>1. Talk(d)[n].reply = "PENDING" /\ C(d)!Waiting(Talk(d))
      BY <2>2, <2>4, <2>7 DEF Seen, C!Waiting
    <3>2. r = "PENDING" \/ r \in C(d)!Answers
      BY <2>5 DEF Seen, C!Answers
    <3>3. CASE r = "PENDING"
      <4>1. Seen(k) = "PENDING" /\ r = Seen(k)
        BY <2>7, <3>3 DEF Seen
      <4>2. \A i \in 1 .. Len(order[d]) : turn'[order[d][i]] = turn[order[d][i]] \/ order[d][i] = k
        BY <1>2, <2>2
      <4>3. \A i \in 1 .. Len(order[d]) : Seen(order[d][i])' = Seen(order[d][i])
        BY <1>3, <2>5, <4>1, <4>2 DEF Seen
      <4> QED BY <1>3, <4>3 DEF Talk
    <3>4. CASE r \in C(d)!Answers
      BY <2>6, <3>1, <3>4 DEF C!Next, C!Answer
    <3> QED BY <3>2, <3>3, <3>4
  <2>8. CASE turn[k].status = "failed" /\ t.status = "running"
    <3>1. Talk(d)[n].reply = "FAILED" /\ Talk(d) # <<>> /\ r = "PENDING"
      BY <1>2, <2>2, <2>4, <2>5, <2>8 DEF Seen
    <3> QED BY <2>4, <2>6, <3>1 DEF C!Next, C!AskAgain
  <2> QED BY <2>7, <2>8 DEF Moves
<1> QED BY <1>4, <1>5, <1>6, <1>7 DEF C!vars

\* A sequence and one more item.
LEMMA AppendIs ==
  ASSUME NEW S, NEW s \in Seq(S), NEW x \in S
  PROVE  Append(s, x) = [i \in 1 .. Len(s) + 1 |-> IF i = Len(s) + 1 THEN x ELSE s[i]]
<1>1. /\ Append(s, x) \in Seq(S) /\ Len(Append(s, x)) = Len(s) + 1 /\ Append(s, x)[Len(s) + 1] = x
      /\ \A i \in 1 .. Len(s) : Append(s, x)[i] = s[i]
  BY AppendProperties
<1>2. Len(s) \in Nat
  BY LenProperties
<1>3. Append(s, x) \in [1 .. Len(Append(s, x)) -> S]
  BY <1>1, LenProperties
<1>4. PICK n, longer : n = Len(s) /\ longer = Append(s, x)
  OBVIOUS
<1>5. longer \in [1 .. n + 1 -> S]
  BY <1>1, <1>3, <1>4
<1>6. longer = [i \in 1 .. n + 1 |-> longer[i]]
  BY <1>5
<1>7. \A i \in 1 .. n + 1 : longer[i] = IF i = n + 1 THEN x ELSE s[i]
  BY <1>1, <1>2, <1>4
<1> QED BY <1>4, <1>6, <1>7

\* A talk is a sequence of prompts and what became of them.
LEMMA TalkType ==
  ASSUME NEW c, order[c] \in Seq(Key), NEW r \in {"PENDING", "COMPLETE", "FAILED", "CANCELED"}
  PROVE  /\ Talk(c) \in Seq([prompt : Key, reply : {"PENDING", "COMPLETE", "FAILED", "CANCELED"}])
         /\ order[c] # <<>> => C(c)!Reply(Talk(c), r) \in Seq([prompt : Key, reply : {"PENDING", "COMPLETE", "FAILED", "CANCELED"}])
<1>0. Len(order[c]) \in Nat
  OBVIOUS
<1>1. PICK n, P : n = Len(order[c]) /\ n \in Nat /\ P = [prompt : Key, reply : {"PENDING", "COMPLETE", "FAILED", "CANCELED"}]
  BY <1>0
<1>2. \A i \in 1 .. n : order[c][i] \in Key /\ Seen(order[c][i]) \in {"PENDING", "COMPLETE", "FAILED", "CANCELED"}
  BY <1>1 DEF Seen
<1>3. Talk(c) \in [1 .. n -> P]
  BY <1>1, <1>2 DEF Talk
<1>4. order[c] # <<>> => C(c)!Reply(Talk(c), r) \in [1 .. n -> P]
  BY <1>1, <1>2, RepliedIs
<1>5. [1 .. n -> P] \subseteq Seq(P)
  <2>1. Seq(P) = UNION {[1 .. m -> P] : m \in Nat}
    BY SeqDef
  <2> QED BY <1>1, <2>1
<1> QED BY <1>1, <1>3, <1>4, <1>5

\* The next turn of a chat is its next prompt; one whose generation was lost is failed before it.
LEMMA StartConverses ==
  ASSUME TalkInv, NEW c \in Chat, NEW k \in Key, NEW x, turn[k].status = "none", StartTurn(c, k, x), order' = Listed
  PROVE  LiveIsLatest' /\ OrderInv' /\ \A e \in Chat : [C(e)!Next]_(C(e)!vars)
<1>1. turn \in [Key -> Turn] /\ latest \in [Chat -> {0} \cup Key] /\ 0 \notin Key
  BY DEF TalkInv, IInv, TypeOK, ServerType, Key
<1>2. PICK n : n = Len(order[c])
  OBVIOUS
<1>3. /\ order[c] \in Seq(Key) /\ n \in Nat
      /\ latest[c] = IF order[c] = <<>> THEN 0 ELSE order[c][n]
      /\ \A i \in 1 .. n : order[c][i] \in Key /\ turn[order[c][i]].chat = c /\ turn[order[c][i]].status # "none" /\ order[c][i] # k
      /\ \A i, j \in 1 .. n : order[c][i] = order[c][j] => i = j
  BY <1>1, <1>2 DEF TalkInv, OrderInv
<1>4. latest[c] # k /\ (latest[c] # 0 => n \in 1 .. n /\ order[c] # <<>> /\ latest[c] \in Key /\ turn[latest[c]].chat = c)
  BY <1>1, <1>2, <1>3
<1>5. latest' = [latest EXCEPT ![c] = k] /\ ~HasTurn(c, "running")
  BY DEF StartTurn
<1>6. /\ turn'[k] = Running(c, x, 1)
      /\ \A j \in Key : j # k => /\ turn'[j].chat = turn[j].chat
                               /\ turn'[j].status = IF j = latest[c] /\ HasTurn(c, "lost") THEN "failed" ELSE turn[j].status
  BY <1>1 DEF StartTurn, Turn
<1>7. /\ order'[c] = Append(order[c], k)
      /\ \A e \in Chat : e # c => order'[e] = order[e] /\ latest'[e] = latest[e]
  BY <1>1, <1>4, <1>5 DEF TalkInv, OrderInv, Listed
<1>8. Append(order[c], k) = [i \in 1 .. n + 1 |-> IF i = n + 1 THEN k ELSE order[c][i]]
      /\ Append(order[c], k) \in Seq(Key) /\ Len(Append(order[c], k)) = n + 1
  BY <1>2, <1>3, AppendIs
<1>9. OrderInv'
  <2>1. order' \in [Chat -> Seq(Key)]
    BY <1>7, <1>8 DEF TalkInv, OrderInv, Listed
  <2>2. \A e \in Chat : latest'[e] = IF order'[e] = <<>> THEN 0 ELSE order'[e][Len(order'[e])]
    BY <1>1, <1>3, <1>5, <1>7, <1>8 DEF TalkInv, OrderInv
  <2>3. ASSUME NEW e \in Chat, NEW i \in 1 .. Len(order'[e])
        PROVE  turn'[order'[e][i]].chat = e /\ turn'[order'[e][i]].status # "none"
    <3>1. CASE e = c
      BY <1>3, <1>6, <1>7, <1>8, <2>3, <3>1 DEF Running
    <3>2. CASE e # c
      <4>1. order[e][i] \in Key /\ order[e][i] # k /\ turn[order[e][i]].chat = e /\ turn[order[e][i]].status # "none"
        BY <1>7, <2>3, <3>2 DEF TalkInv, OrderInv
      <4> QED BY <1>6, <1>7, <3>2, <4>1
    <3> QED BY <3>1, <3>2
  <2>4. ASSUME NEW e \in Chat, NEW i \in 1 .. Len(order'[e]), NEW j \in 1 .. Len(order'[e]), order'[e][i] = order'[e][j]
        PROVE  i = j
    <3>1. CASE e = c
      BY <1>3, <1>7, <1>8, <2>4, <3>1
    <3>2. CASE e # c
      BY <1>7, <2>4, <3>2 DEF TalkInv, OrderInv
    <3> QED BY <3>1, <3>2
  <2> QED BY <2>1, <2>2, <2>3, <2>4 DEF OrderInv
<1>10. LiveIsLatest'
  <2>1. ASSUME NEW j \in Key, turn'[j].status \in {"running", "lost"}, j # k
        PROVE  latest'[turn'[j].chat] = j
    <3>1. turn[j].status \in {"running", "lost"} /\ turn'[j].chat = turn[j].chat /\ ~(j = latest[c] /\ HasTurn(c, "lost"))
      BY <1>6, <2>1
    <3>2. latest[turn[j].chat] = j
      BY <3>1 DEF TalkInv, LiveIsLatest
    <3>3. turn[j].chat # c
      BY <1>1, <1>5, <3>1, <3>2 DEF HasTurn
    <3> QED BY <1>5, <3>1, <3>2, <3>3
  <2>2. latest'[turn'[k].chat] = k
    BY <1>1, <1>5, <1>6 DEF Running
  <2> QED BY <2>1, <2>2 DEF LiveIsLatest
<1>11. ASSUME NEW e \in Chat, e # c
       PROVE  Talk(e)' = Talk(e)
  <2>1. ASSUME NEW i \in 1 .. Len(order[e])
        PROVE  turn'[order[e][i]].status = turn[order[e][i]].status
    <3>1. order[e][i] \in Key /\ order[e][i] # k /\ turn[order[e][i]].chat = e
      BY <2>1 DEF TalkInv, OrderInv
    <3>2. ~(order[e][i] = latest[c] /\ HasTurn(c, "lost"))
      BY <1>4, <1>11, <3>1 DEF HasTurn
    <3> QED BY <1>6, <3>1, <3>2
  <2> QED BY <1>7, <1>11, <2>1, SameTalk DEF TalkInv
<1>12. C(c)!Next
  <2>1. /\ Len(Talk(c)) = n /\ DOMAIN Talk(c) = 1 .. n
        /\ \A i \in 1 .. n : Talk(c)[i] = [prompt |-> order[c][i], reply |-> Seen(order[c][i])]
    BY <1>2, <1>3, TalkIs
  <2>2. C(c)!IsNew(k)
    BY <1>3, <2>1 DEF C!IsNew
  <2>3. Talk(c)' = [i \in 1 .. n + 1 |->
                      [prompt |-> IF i = n + 1 THEN k ELSE order[c][i],
                       reply |-> IF i = n + 1 THEN "PENDING"
                                 ELSE IF i = n /\ HasTurn(c, "lost") THEN "FAILED" ELSE Seen(order[c][i])]]
    <3>1. PICK old, next : old = order[c] /\ next = order'[c]
      OBVIOUS
    <3>2. Talk(c)' = [i \in 1 .. n + 1 |-> [prompt |-> next[i], reply |-> Seen(next[i])']]
      BY <1>7, <1>8, <3>1 DEF Talk
    <3>3. next[n + 1] = k /\ Seen(k)' = "PENDING"
      BY <1>3, <1>6, <1>7, <1>8, <3>1 DEF Seen, Running
    <3>4. ASSUME NEW i \in 1 .. n
          PROVE  next[i] = old[i]
                 /\ Seen(old[i])' = IF i = n /\ HasTurn(c, "lost") THEN "FAILED" ELSE Seen(old[i])
      <4>1. next[i] = old[i] /\ old[i] \in Key /\ old[i] # k
        BY <1>3, <1>7, <1>8, <3>1
      <4>2. order[c] # <<>> /\ n \in 1 .. n
        BY <1>2, <1>3
      <4>3. old[i] = latest[c] <=> i = n
        BY <1>3, <3>1, <4>2
      <4>4. turn'[old[i]].status = IF i = n /\ HasTurn(c, "lost") THEN "failed" ELSE turn[old[i]].status
        BY <1>6, <4>1, <4>3
      <4> QED BY <4>1, <4>4 DEF Seen
    <3>5. \A i \in 1 .. n : order[c][i] = old[i]
      BY <3>1
    <3> QED BY <1>3, <3>2, <3>3, <3>4, <3>5
  <2>4. PICK item : item = [prompt |-> k, reply |-> "PENDING"]
    OBVIOUS
  <2>5. item \in [prompt : Key, reply : {"PENDING", "COMPLETE", "FAILED", "CANCELED"}]
    BY <2>4
  <2>6. CASE HasTurn(c, "lost")
    <3>1. C(c)!Waiting(Talk(c))
      BY <1>3, <1>4, <2>1, <2>6 DEF HasTurn, Seen, C!Waiting
    <3>2. PICK list : list = C(c)!Reply(Talk(c), "FAILED")
      OBVIOUS
    <3>3. list = [i \in 1 .. n |-> [prompt |-> order[c][i], reply |-> IF i = n THEN "FAILED" ELSE Seen(order[c][i])]]
      BY <1>2, <1>3, <1>4, <2>6, <3>2, RepliedIs DEF HasTurn
    <3>4. list \in Seq([prompt : Key, reply : {"PENDING", "COMPLETE", "FAILED", "CANCELED"}])
      BY <1>3, <1>4, <2>6, <3>2, TalkType DEF HasTurn
    <3>5. Append(list, item) = [i \in 1 .. n + 1 |-> IF i = n + 1 THEN item ELSE list[i]]
      BY <1>3, <2>5, <3>3, <3>4, AppendIs
    <3>6. Talk(c)' = Append(list, item)
      BY <1>3, <2>3, <2>4, <2>6, <3>3, <3>5
    <3> QED BY <2>2, <2>4, <3>1, <3>2, <3>6 DEF C!Next, C!AskOver, C!Ask
  <2>7. CASE ~HasTurn(c, "lost")
    <3>1. ~C(c)!Waiting(Talk(c))
      <4> SUFFICES ASSUME C(c)!Waiting(Talk(c)) PROVE FALSE
        OBVIOUS
      <4>1. n \in 1 .. n /\ order[c] # <<>> /\ Seen(order[c][n]) = "PENDING"
        <5>1. Talk(c) # <<>> /\ Talk(c)[n].reply = "PENDING"
          BY <2>1 DEF C!Waiting
        <5>2. n # 0
          BY <1>2, <1>3, <5>1 DEF Talk
        <5>3. n \in 1 .. n /\ order[c] # <<>>
          BY <1>2, <1>3, <5>2
        <5> QED BY <2>1, <5>1, <5>3
      <4>2. latest[c] = order[c][n] /\ latest[c] # 0 /\ turn[latest[c]] \in Turn /\ turn[latest[c]].status # "none"
        BY <1>1, <1>3, <4>1
      <4>3. turn[latest[c]].status \in {"running", "lost"}
        BY <4>1, <4>2 DEF Seen, Turn, Terminal
      <4> QED BY <1>5, <2>7, <4>2, <4>3 DEF HasTurn
    <3>2. Append(Talk(c), item) = [i \in 1 .. n + 1 |-> IF i = n + 1 THEN item ELSE Talk(c)[i]]
      <4>1. PICK list, P : list = Talk(c) /\ P = [prompt : Key, reply : {"PENDING", "COMPLETE", "FAILED", "CANCELED"}]
        OBVIOUS
      <4>2. list \in Seq(P) /\ item \in P
        BY <1>3, <2>5, <4>1, TalkType
      <4>3. Append(list, item) = [i \in 1 .. Len(list) + 1 |-> IF i = Len(list) + 1 THEN item ELSE list[i]]
        BY <4>2, AppendIs
      <4> QED BY <2>1, <4>1, <4>3
    <3>3. Talk(c)' = Append(Talk(c), item)
      BY <1>3, <2>1, <2>3, <2>4, <2>7, <3>2
    <3> QED BY <2>2, <2>4, <3>1, <3>3 DEF C!Next, C!AskNext, C!Ask
  <2> QED BY <2>6, <2>7
<1> QED BY <1>9, <1>10, <1>11, <1>12 DEF C!vars

\* Every step of the service keeps the history of each chat and is a step of its conversation.
LEMMA TalkMoves ==
  ASSUME TalkInv, [TalkNext]_talkVars
  PROVE  TalkInv' /\ \A c \in Chat : [C(c)!Next]_(C(c)!vars)
<1>1. IInv' /\ [Next]_vars
  <2>1. CASE TalkNext
    BY <2>1, NextKeeps DEF TalkInv, TalkNext
  <2>2. CASE UNCHANGED talkVars
    BY <2>2, StutterKeeps DEF TalkInv, talkVars
  <2> QED BY <2>1, <2>2
<1>2. order' = Listed
  <2>1. CASE TalkNext
    BY <2>1 DEF TalkNext
  <2>2. CASE UNCHANGED talkVars
    <3>1. order' = order /\ latest' = latest
      BY <2>2 DEF talkVars, vars, server
    <3> QED BY <3>1 DEF TalkInv, OrderInv, Listed
  <2> QED BY <2>1, <2>2
<1>3. ASSUME turn' = turn, latest' = latest
      PROVE  LiveIsLatest' /\ OrderInv' /\ \A c \in Chat : [C(c)!Next]_(C(c)!vars)
  <2>1. order' = order
    BY <1>2, <1>3 DEF TalkInv, OrderInv, Listed
  <2>2. \A c \in Chat : Talk(c)' = Talk(c)
    BY <1>3, <2>1 DEF Talk, Seen
  <2>3. LiveIsLatest' /\ OrderInv'
    BY <1>3, <2>1 DEF TalkInv, LiveIsLatest, OrderInv
  <2> QED BY <2>2, <2>3 DEF C!vars
<1>4. LiveIsLatest' /\ OrderInv' /\ \A c \in Chat : [C(c)!Next]_(C(c)!vars)
  <2>1. \/ turn' = turn /\ latest' = latest
        \/ \E k \in Key : \E t \in Turn : Moves(k, t)
        \/ \E c \in Chat, k \in Key, x \in {0} \cup Key : turn[k].status = "none" /\ StartTurn(c, k, x)
    BY <1>1, ServerMoves DEF TalkInv
  <2>2. ASSUME NEW k \in Key, NEW t \in Turn, Moves(k, t)
        PROVE  LiveIsLatest' /\ OrderInv' /\ \A c \in Chat : [C(c)!Next]_(C(c)!vars)
    BY <1>2, <2>2, MoveConverses
  <2>3. ASSUME NEW c \in Chat, NEW k \in Key, NEW x \in {0} \cup Key, turn[k].status = "none", StartTurn(c, k, x)
        PROVE  LiveIsLatest' /\ OrderInv' /\ \A e \in Chat : [C(e)!Next]_(C(e)!vars)
    BY <1>2, <2>3, StartConverses
  <2> QED BY <1>3, <2>1, <2>2, <2>3
<1> QED BY <1>1, <1>4 DEF TalkInv

LEMMA TalkStarts ==
  ASSUME TalkInit
  PROVE  TalkInv /\ \A c \in Chat : C(c)!Init
<1>1. IInv
  BY InitInv DEF TalkInit
<1>2. order = [c \in Chat |-> <<>>] /\ latest = [c \in Chat |-> 0] /\ turn = [k \in Key |-> NoTurn]
  BY DEF TalkInit, Init
<1>3. LiveIsLatest /\ OrderInv
  BY <1>2 DEF LiveIsLatest, OrderInv, NoTurn
<1>4. \A c \in Chat : Talk(c) = <<>>
  BY <1>2 DEF Talk
<1> QED BY <1>1, <1>3, <1>4 DEF TalkInv, C!Init

\* In every chat a turn that is running or lost is the last one, and its history lists each turn once,
\* whatever the page and other devices send.
THEOREM TalkInvariance == TalkSpec => []TalkInv
<1>1. TalkInit => TalkInv
  BY TalkStarts
<1>2. TalkInv /\ [TalkNext]_talkVars => TalkInv'
  BY TalkMoves
<1> QED BY <1>1, <1>2, PTL DEF TalkSpec

\* What the page sends, again after lost answers, after reloads and from other devices, reaches every chat as
\* a conversation: each prompt once, each reply to the last prompt, none after a complete or stopped one.
THEOREM ChatsConverse == TalkSpec => ChatsAreConversations
<1>1. TalkInit => \A c \in Chat : C(c)!Init
  BY TalkStarts
<1>2. TalkInv /\ [TalkNext]_talkVars => \A c \in Chat : [C(c)!Next]_(C(c)!vars)
  BY TalkMoves
<1> QED BY <1>1, <1>2, TalkInvariance, PTL DEF TalkSpec, ChatsAreConversations

\* Each chat by itself implements what ChatTurn implements for one.
THEOREM EachChatConverses ==
  ASSUME NEW c \in Chat
  PROVE  TalkSpec => C(c)!Spec
<1>1. TalkInit => C(c)!Init
  BY TalkStarts
<1>2. TalkInv /\ [TalkNext]_talkVars => [C(c)!Next]_(C(c)!vars)
  BY TalkMoves
<1> QED BY <1>1, <1>2, TalkInvariance, PTL DEF TalkSpec, C!Spec

\* The history records and decides nothing: without it the page and the service are those of ChatPage.
LEMMA HistoryOnlyRecords == TalkSpec => Spec
<1>1. TalkInit => Init
  BY DEF TalkInit
<1>2. [TalkNext]_talkVars => [Next]_vars
  BY DEF TalkNext, talkVars
<1> QED BY <1>1, <1>2, PTL DEF TalkSpec, Spec
=============================================================================
