----------------------------- MODULE TabSession -----------------------------
(***************************************************************************)
(* The session of one browser tab: the token store, the shared refresh of  *)
(* the API client, sign-out, and the authorization server whose refresh    *)
(* tokens rotate on every use and which revokes a session when an old one  *)
(* comes back.                                                             *)
(*                                                                         *)
(* A sign-in is numbered, and so are the token pairs it hands out: pair k  *)
(* of a sign-in is replaced by pair k + 1 when the server rotates it.  A   *)
(* run is one evaluation of runRefresh, of at most two requests.  Pages    *)
(* are documents: leaving one drops every promise of it, never a request   *)
(* that is already on its way.                                             *)
(***************************************************************************)
EXTENDS Naturals

CONSTANTS
  User,     \* people who sign in through this tab
  None,     \* no user
  Call,     \* slots for concurrent calls of the page
  MaxRuns,  \* bound on refresh runs
  MaxSignIns \* bound on sign-ins

ASSUME NoneAssumption == None \notin User
ASSUME BoundsAssumption == MaxRuns \in Nat /\ MaxSignIns \in Nat

VARIABLES
  page,       \* the document shown, or where it is about to navigate
  sess,       \* number of the last sign-in, 0 before the first
  user,       \* who signed in
  kept,       \* the tab's storage holds the tokens of the last sign-in
  held,       \* per sign-in, the pair the tab stored last
  expired,    \* the client's clock has passed the stored access token
  chat,       \* whose chat drafts and pending turns the storage holds
  mark,       \* uliss.chatOwner: for whom a session that ended kept them
  leave,      \* a sign-out is waiting for the revocation
  refreshing, \* the run every caller shares, 0 when there is none
  begun,      \* runs begun so far
  runs,       \* per run: its progress
  wire,       \* per run and attempt: the refresh request, or its answer while somebody waits for it
  calls,      \* per slot: the call of the page it serves
  auth,       \* per sign-in: the authorization on the server
  reused,     \* history: the server revoked the sign-in for a reused token
  lossy       \* history: a run of the sign-in ended after a failed attempt, or the retry grace ended during it

client == <<page, kept, held, expired, refreshing, begun, runs, calls>>
storage == <<chat, mark, leave, sess, user>>
server == <<auth, reused>>
vars == <<client, storage, server, wire, lossy>>

Run == 1..MaxRuns
SignIn == 1..MaxSignIns
Attempt == {1, 2}
Live == {"app", "toLogin", "toSignedOut"}

NoCall == [pc |-> "idle", session |-> FALSE, tok |-> 0, refused |-> 0, asked |-> 0, run |-> 0]
NoRequest == [at |-> "none", n |-> 0]
NoRun == [phase |-> "unused", attempt |-> 1, tok |-> 0, got |-> 0, of |-> 0]

RunState == [phase: {"unused", "sent", "pause", "ok", "error", "ended"},
             attempt: Attempt, tok: Nat, got: Nat, of: 0..MaxSignIns]
Request == [at: {"none", "way", "loaded", "ok", "refused"}, n: Nat]
CallState == [pc: {"idle", "after", "await", "sent", "resent"}, session: BOOLEAN,
              tok: Nat, refused: Nat, asked: 0..MaxRuns, run: 0..MaxRuns]
Authorization == [alive: BOOLEAN, cur: Nat, grace: BOOLEAN]

TypeOK ==
  /\ page \in Live \cup {"login", "signedOut"}
  /\ sess \in 0..MaxSignIns
  /\ user \in [SignIn -> User \cup {None}]
  /\ kept \in BOOLEAN /\ expired \in BOOLEAN
  /\ held \in [SignIn -> Nat]
  /\ chat \in User \cup {None} /\ mark \in User \cup {None}
  /\ leave \in {"no", "asked", "revoked"}
  /\ refreshing \in 0..MaxRuns /\ begun \in 0..MaxRuns
  /\ runs \in [Run -> RunState]
  /\ wire \in [Run \X Attempt -> Request]
  /\ calls \in [Call -> CallState]
  /\ auth \in [SignIn -> Authorization]
  /\ reused \in [SignIn -> BOOLEAN] /\ lossy \in [SignIn -> BOOLEAN]

Init ==
  /\ page = "login" /\ sess = 0 /\ user = [s \in SignIn |-> None]
  /\ kept = FALSE /\ expired = FALSE /\ held = [s \in SignIn |-> 0]
  /\ chat = None /\ mark = None /\ leave = "no"
  /\ refreshing = 0 /\ begun = 0
  /\ runs = [r \in Run |-> NoRun]
  /\ wire = [q \in Run \X Attempt |-> NoRequest]
  /\ calls = [c \in Call |-> NoCall]
  /\ auth = [s \in SignIn |-> [alive |-> FALSE, cur |-> 0, grace |-> FALSE]]
  /\ reused = [s \in SignIn |-> FALSE] /\ lossy = [s \in SignIn |-> FALSE]

-----------------------------------------------------------------------------
(* The session owner: signInAgain, getAccessToken, refreshOnce.            *)

\* signInAgain with endSessionKeepingChatState: the chat state stays for its user, the page goes to the login.
SignInAgain ==
  /\ mark' = IF kept THEN user[sess] ELSE mark
  /\ kept' = FALSE
  /\ page' = "toLogin"
  /\ UNCHANGED <<chat, leave, sess, user>>

\* The first request of a new run carries the stored refresh token.
StartRun(c, how) ==
  LET r == begun + 1
  IN /\ begun < MaxRuns
     /\ begun' = r
     /\ refreshing' = r
     /\ runs' = [runs EXCEPT ![r] = [phase |-> "sent", attempt |-> 1, tok |-> held[sess], got |-> 0, of |-> sess]]
     /\ wire' = [wire EXCEPT ![<<r, 1>>] = [at |-> "way", n |-> 0]]
     /\ calls' = [calls EXCEPT ![c] = [how EXCEPT !.pc = "await", !.run = r]]

\* getAccessToken(rejected): wait for the shared refresh, use the stored token, or start the refresh.
GetAccessToken(c, how, rejected) ==
  \/ /\ refreshing # 0
     /\ calls' = [calls EXCEPT ![c] = [how EXCEPT !.pc = "await", !.run = refreshing]]
     /\ UNCHANGED <<page, kept, refreshing, begun, runs, wire, storage>>
  \/ /\ refreshing = 0 /\ ~kept
     /\ SignInAgain
     /\ calls' = [calls EXCEPT ![c] = NoCall]
     /\ UNCHANGED <<refreshing, begun, runs, wire>>
  \/ /\ refreshing = 0 /\ kept /\ held[sess] # rejected /\ ~expired
     /\ calls' = [calls EXCEPT ![c] = IF how.session THEN NoCall
                                      ELSE [how EXCEPT !.pc = IF rejected = 0 THEN "sent" ELSE "resent",
                                                       !.tok = held[sess]]]
     /\ UNCHANGED <<page, kept, refreshing, begun, runs, wire, storage>>
  \/ /\ refreshing = 0 /\ kept /\ (held[sess] = rejected \/ expired)
     /\ StartRun(c, how)
     /\ UNCHANGED <<page, kept, storage>>

\* authFetch begins.
Fetch(c) ==
  /\ page \in Live /\ calls[c].pc = "idle"
  /\ GetAccessToken(c, NoCall, 0)
  /\ UNCHANGED <<held, expired, server, lossy>>

\* Variant: refreshSession joins the refresh already in flight.
RefreshSessionJoins(c) ==
  /\ page \in Live /\ calls[c].pc = "idle"
  /\ GetAccessToken(c, [NoCall EXCEPT !.session = TRUE, !.asked = begun], IF kept THEN held[sess] ELSE 0)
  /\ UNCHANGED <<held, expired, server, lossy>>

\* refreshSession begins: a refresh already in flight may be older than the change on the server.
RefreshSession(c) ==
  /\ page \in Live /\ calls[c].pc = "idle"
  /\ LET how == [NoCall EXCEPT !.session = TRUE, !.asked = begun]
     IN IF refreshing # 0
        THEN /\ calls' = [calls EXCEPT ![c] = [how EXCEPT !.pc = "after", !.run = refreshing]]
             /\ UNCHANGED <<page, kept, refreshing, begun, runs, wire, storage>>
        ELSE GetAccessToken(c, how, IF kept THEN held[sess] ELSE 0)
  /\ UNCHANGED <<held, expired, server, lossy>>

\* refreshSession goes on after the earlier refresh, however it ended.
Reask(c) ==
  /\ page \in Live /\ calls[c].pc = "after"
  /\ runs[calls[c].run].phase \in {"ok", "error", "ended"}
  /\ GetAccessToken(c, calls[c], IF kept THEN held[sess] ELSE 0)
  /\ UNCHANGED <<held, expired, server, lossy>>

\* A caller of the shared run gets its token, or its error.
Resume(c) ==
  /\ page \in Live /\ calls[c].pc = "await"
  /\ LET run == runs[calls[c].run]
     IN /\ run.phase \in {"ok", "error", "ended"}
        /\ calls' = [calls EXCEPT ![c] =
             IF run.phase = "ok" /\ ~calls[c].session
             THEN [calls[c] EXCEPT !.pc = IF calls[c].refused = 0 THEN "sent" ELSE "resent", !.tok = run.got]
             ELSE NoCall]
  /\ UNCHANGED <<page, kept, held, expired, refreshing, begun, runs, wire, storage, server, lossy>>

\* A service answered, or the request failed: the caller of authFetch has its outcome.
Answered(c) ==
  /\ page \in Live /\ calls[c].pc \in {"sent", "resent"}
  /\ calls' = [calls EXCEPT ![c] = NoCall]
  /\ UNCHANGED <<page, kept, held, expired, refreshing, begun, runs, wire, storage, server, lossy>>

\* A service refused the token: once it is worth another one, twice the session is over.
Refused(c) ==
  /\ page \in Live
  /\ \/ /\ calls[c].pc = "sent"
        /\ GetAccessToken(c, [calls[c] EXCEPT !.refused = calls[c].tok], calls[c].tok)
     \/ /\ calls[c].pc = "resent"
        /\ SignInAgain
        /\ calls' = [calls EXCEPT ![c] = NoCall]
        /\ UNCHANGED <<refreshing, begun, runs, wire>>
  /\ UNCHANGED <<held, expired, server, lossy>>

\* The stored access token comes close to its expiry.
Expire ==
  /\ kept /\ ~expired
  /\ expired' = TRUE
  /\ UNCHANGED <<page, kept, held, refreshing, begun, runs, calls, storage, server, wire, lossy>>

-----------------------------------------------------------------------------
(* runRefresh and refreshWithRetry.                                        *)

Waiting(r) == page \in Live /\ runs[r].phase = "sent"
Current(r) == <<r, runs[r].attempt>>

\* The client stops waiting: an answer is read or lost with that, a request on its way stays there.
StopWaiting(r) == wire' = [wire EXCEPT ![Current(r)] = IF wire[Current(r)].at \in {"way", "loaded"} THEN @ ELSE NoRequest]

\* Variant: the settled promise stays the shared one.
SettledStaysShared(r, phase, got) ==
  /\ runs' = [runs EXCEPT ![r].phase = phase, ![r].got = got]
  /\ refreshing' = refreshing
  /\ lossy' = IF phase = "error" \/ runs[r].attempt = 2 THEN [lossy EXCEPT ![runs[r].of] = TRUE] ELSE lossy

\* The run ends: the promise settles and the next caller may start another.
Settled(r, phase, got) ==
  /\ runs' = [runs EXCEPT ![r].phase = phase, ![r].got = got]
  /\ refreshing' = IF refreshing = r THEN 0 ELSE refreshing
  /\ lossy' = IF phase = "error" \/ runs[r].attempt = 2 THEN [lossy EXCEPT ![runs[r].of] = TRUE] ELSE lossy

\* The new pair arrives and is stored.
RunOk(r) ==
  LET got == wire[Current(r)]
  IN /\ Waiting(r) /\ got.at = "ok"
     /\ kept' = TRUE /\ expired' = FALSE
     /\ held' = [held EXCEPT ![runs[r].of] = got.n]
     /\ Settled(r, "ok", got.n) /\ StopWaiting(r)
     /\ UNCHANGED <<page, begun, calls, storage, server>>

\* 400 or 401: the refresh token itself was refused.
RunRefused(r) ==
  /\ Waiting(r) /\ wire[Current(r)].at = "refused"
  /\ SignInAgain
  /\ Settled(r, "ended", 0) /\ StopWaiting(r)
  /\ UNCHANGED <<held, expired, begun, calls, server>>

\* Variant: the second failure ends the session too.
RunFailsForGood(r) ==
  /\ Waiting(r) /\ StopWaiting(r)
  /\ IF runs[r].attempt = 1
     THEN /\ runs' = [runs EXCEPT ![r].phase = "pause"]
          /\ UNCHANGED <<refreshing, lossy, page, kept, storage>>
     ELSE SignInAgain /\ Settled(r, "error", 0)
  /\ UNCHANGED <<held, expired, begun, calls, server>>

\* No answer, or 5xx: the first time it is worth a repeat after a pause, the second time the caller is told.
RunFails(r) ==
  /\ Waiting(r) /\ StopWaiting(r)
  /\ IF runs[r].attempt = 1
     THEN /\ runs' = [runs EXCEPT ![r].phase = "pause"]
          /\ UNCHANGED <<refreshing, lossy>>
     ELSE Settled(r, "error", 0)
  /\ UNCHANGED <<page, kept, held, expired, begun, calls, storage, server>>

\* Any other client error is not repeated.
RunClientError(r) ==
  /\ Waiting(r) /\ StopWaiting(r)
  /\ Settled(r, "error", 0)
  /\ UNCHANGED <<page, kept, held, expired, begun, calls, storage, server>>

\* REFRESH_RETRY_DELAY_MS is over: the same refresh token is sent once more.
RunRepeat(r) ==
  /\ page \in Live /\ runs[r].phase = "pause"
  /\ runs' = [runs EXCEPT ![r].phase = "sent", ![r].attempt = 2]
  /\ wire' = [wire EXCEPT ![<<r, 2>>] = [at |-> "way", n |-> 0]]
  /\ UNCHANGED <<page, kept, held, expired, refreshing, begun, calls, storage, server, lossy>>

-----------------------------------------------------------------------------
(* The authorization server.                                               *)

\* The answer of a request; nobody reads it when its page or its attempt is over.
Reply(q, at, n) ==
  IF runs[q[1]].phase = "sent" /\ runs[q[1]].attempt = q[2] THEN [at |-> at, n |-> n] ELSE NoRequest

\* Variant: no retry grace.
LoadStrict(q) ==
  LET s == runs[q[1]].of
      known == runs[q[1]].tok = auth[s].cur
  IN /\ wire[q].at = "way"
     /\ wire' = [wire EXCEPT ![q] = IF auth[s].alive /\ known THEN [at |-> "loaded", n |-> auth[s].cur]
                                    ELSE Reply(q, "refused", 0)]
     /\ auth' = [auth EXCEPT ![s].alive = auth[s].alive /\ known]
     /\ reused' = [reused EXCEPT ![s] = reused[s] \/ (auth[s].alive /\ ~known)]
     /\ UNCHANGED <<client, storage, lossy>>

\* findByToken: the stored token, or the one it just replaced within RETRY_GRACE; any older one revokes the session.
Load(q) ==
  LET s == runs[q[1]].of
      t == runs[q[1]].tok
      known == t = auth[s].cur \/ (t + 1 = auth[s].cur /\ auth[s].grace)
  IN /\ wire[q].at = "way"
     /\ wire' = [wire EXCEPT ![q] = IF auth[s].alive /\ known THEN [at |-> "loaded", n |-> auth[s].cur]
                                    ELSE Reply(q, "refused", 0)]
     /\ auth' = [auth EXCEPT ![s].alive = auth[s].alive /\ known]
     /\ reused' = [reused EXCEPT ![s] = reused[s] \/ (auth[s].alive /\ ~known)]
     /\ UNCHANGED <<client, storage, lossy>>

\* save: the rotation is written only when nobody rotated the authorization since it was loaded; the loser gets a 503,
\* which the mediator in front of the browser repeats with the same token a few times.
Save(q) ==
  LET s == runs[q[1]].of
      m == auth[s].cur + 1
  IN /\ wire[q].at = "loaded"
     /\ IF auth[s].alive /\ auth[s].cur = wire[q].n
        THEN /\ auth' = [auth EXCEPT ![s].cur = m, ![s].grace = TRUE]
             /\ wire' = [wire EXCEPT ![q] = Reply(q, "ok", m)]
        ELSE /\ wire' \in {[wire EXCEPT ![q] = [at |-> "way", n |-> 0]], [wire EXCEPT ![q] = NoRequest]}
             /\ UNCHANGED auth
     /\ UNCHANGED <<client, storage, reused, lossy>>

\* The grant policy refuses an authorization that ended after it was loaded.
Refuse(q) ==
  /\ wire[q].at = "loaded" /\ ~auth[runs[q[1]].of].alive
  /\ wire' = [wire EXCEPT ![q] = Reply(q, "refused", 0)]
  /\ UNCHANGED <<client, storage, server, lossy>>

\* A request that never reaches the server.
Drop(q) ==
  /\ wire[q].at = "way"
  /\ wire' = [wire EXCEPT ![q] = NoRequest]
  /\ UNCHANGED <<client, storage, server, lossy>>

\* A run of the sign-in is under way with the token that was just replaced, the one the grace is for.
Outlived(s) == \E r \in Run : runs[r].of = s /\ runs[r].phase \in {"sent", "pause"} /\ runs[r].tok # auth[s].cur

\* RETRY_GRACE after the last rotation is over, whatever the tab and its requests are doing.
GraceEnds(s) ==
  /\ auth[s].grace
  /\ auth' = [auth EXCEPT ![s].grace = FALSE]
  /\ lossy' = [lossy EXCEPT ![s] = @ \/ Outlived(s)]
  /\ UNCHANGED <<client, storage, reused, wire>>

\* The session lifetime is over, the user is disabled, or the authorization was removed from elsewhere.
Retire(s) ==
  /\ auth[s].alive
  /\ auth' = [auth EXCEPT ![s].alive = FALSE]
  /\ UNCHANGED <<client, storage, reused, wire, lossy>>

-----------------------------------------------------------------------------
(* Pages, sign-in and sign-out.                                            *)

\* The page keeps a draft or a pending turn of its user.
WriteChat ==
  /\ page \in Live /\ chat # user[sess]
  /\ chat' = user[sess]
  /\ UNCHANGED <<client, mark, leave, sess, user, server, wire, lossy>>

\* logout of AuthContext: the revocation is sent first.
SignOut ==
  /\ page = "app" /\ leave = "no"
  /\ leave' = "asked"
  /\ UNCHANGED <<client, chat, mark, sess, user, server, wire, lossy>>

\* The service revokes the authorization; it finds a rotated-out token too.
Revoke ==
  /\ leave = "asked"
  /\ leave' = "revoked"
  /\ auth' = [auth EXCEPT ![sess].alive = FALSE]
  /\ UNCHANGED <<client, chat, mark, sess, user, reused, wire, lossy>>

\* clearSession, announceSignOut, and the navigation to the end of the session.
SignOutDone ==
  /\ page \in Live /\ leave # "no"
  /\ leave' = "no"
  /\ kept' = FALSE /\ chat' = None /\ mark' = None
  /\ page' = "toSignedOut"
  /\ UNCHANGED <<held, expired, refreshing, begun, runs, calls, sess, user, server, wire, lossy>>

\* Another tab signed out.
SignOutElsewhere ==
  /\ page \in Live \cup {"signedOut"} /\ sess # 0
  /\ kept' = FALSE /\ chat' = None /\ mark' = None
  /\ page' = IF kept /\ page \in Live THEN "toSignedOut" ELSE page
  /\ UNCHANGED <<held, expired, refreshing, begun, runs, calls, leave, sess, user, server, wire, lossy>>

\* The document goes: its promises with it, requests on their way stay on their way.
Unload(next) ==
  /\ page' = next
  /\ runs' = [r \in Run |-> IF runs[r].phase \in {"sent", "pause"} THEN [runs[r] EXCEPT !.phase = "ended"] ELSE runs[r]]
  /\ lossy' = [s \in SignIn |-> lossy[s] \/ \E r \in Run : runs[r].of = s /\ runs[r].phase \in {"sent", "pause"}]
  /\ wire' = [q \in Run \X Attempt |-> IF wire[q].at \in {"way", "loaded"} THEN wire[q] ELSE NoRequest]
  /\ refreshing' = 0
  /\ calls' = [c \in Call |-> NoCall]
  /\ leave' = "no"
  /\ UNCHANGED <<kept, held, expired, begun, chat, mark, sess, user, server>>

Leave ==
  \/ page = "toLogin" /\ Unload("login")
  \/ page = "toSignedOut" /\ Unload("signedOut")
  \/ page = "app" /\ kept /\ Unload("app")

\* The tab opens the app again: RequireAuth lets a stored session in and sends any other to the login, as the
\* sign-in button of the signed-out page does.
OpenApp ==
  /\ page \in {"signedOut", "login"}
  /\ page' \in IF kept THEN {"app", "login"} ELSE {"login"}
  /\ page' # page
  /\ UNCHANGED <<kept, held, expired, refreshing, begun, runs, calls, storage, server, wire, lossy>>

\* Variant: chat state that somebody is marked for stays, whoever signs in.
SignedInForAnyone(u) ==
  LET s == sess + 1
  IN /\ page = "login" /\ sess < MaxSignIns
     /\ sess' = s /\ user' = [user EXCEPT ![s] = u]
     /\ auth' = [auth EXCEPT ![s] = [alive |-> TRUE, cur |-> 1, grace |-> FALSE]]
     /\ held' = [held EXCEPT ![s] = 1]
     /\ kept' = TRUE /\ expired' = FALSE
     /\ chat' = IF mark # None THEN chat ELSE None
     /\ mark' = None
     /\ page' = "app"
     /\ UNCHANGED <<leave, refreshing, begun, runs, calls, reused, wire, lossy>>

\* Callback: the code is exchanged, claimChatState keeps chat state only for the user it is marked for.
SignedIn(u) ==
  LET s == sess + 1
  IN /\ page = "login" /\ sess < MaxSignIns
     /\ sess' = s /\ user' = [user EXCEPT ![s] = u]
     /\ auth' = [auth EXCEPT ![s] = [alive |-> TRUE, cur |-> 1, grace |-> FALSE]]
     /\ held' = [held EXCEPT ![s] = 1]
     /\ kept' = TRUE /\ expired' = FALSE
     /\ chat' = IF mark = u THEN chat ELSE None
     /\ mark' = None
     /\ page' = "app"
     /\ UNCHANGED <<leave, refreshing, begun, runs, calls, reused, wire, lossy>>

CallStep(c) == Fetch(c) \/ RefreshSession(c) \/ Reask(c) \/ Resume(c) \/ Answered(c) \/ Refused(c)
RunStep(r) == RunOk(r) \/ RunRefused(r) \/ RunFails(r) \/ RunClientError(r) \/ RunRepeat(r)
ServerStep(q) == Load(q) \/ Save(q) \/ Refuse(q) \/ Drop(q)

Next ==
  \/ \E c \in Call : CallStep(c)
  \/ \E r \in Run : RunStep(r)
  \/ \E q \in Run \X Attempt : ServerStep(q)
  \/ \E s \in SignIn : GraceEnds(s) \/ Retire(s)
  \/ Expire \/ WriteChat \/ SignOut \/ Revoke \/ SignOutDone \/ SignOutElsewhere \/ Leave \/ OpenApp
  \/ \E u \in User : SignedIn(u)

Spec == Init /\ [][Next]_vars

\* The browser answers or fails every request in the end and runs every timer and callback of the page it shows.
Fairness ==
  /\ \A c \in Call : WF_vars(Reask(c)) /\ WF_vars(Resume(c)) /\ WF_vars(Answered(c) \/ Refused(c))
  /\ \A r \in Run : WF_vars(RunStep(r))

LiveSpec == Spec /\ Fairness

-----------------------------------------------------------------------------
(* Properties.                                                             *)

\* Reuse detection turns against the tab itself only after a loss: the server revokes a sign-in for a reused refresh
\* token only after a refresh of it ended with a failed attempt or left the page unanswered, or was still under way
\* when the grace of its rotation ended.  A first lost answer noticed in time is recovered by the one repeat, in
\* whatever order the two requests are served and repeated.
RevokedOnlyAfterLoss == \A s \in SignIn : reused[s] => lossy[s]

\* The second try of a refused call carries a newer access token than the first, whoever refreshed it.
RetryUsesNewerToken == \A c \in Call : calls[c].pc = "resent" => calls[c].tok > calls[c].refused

\* refreshSession never settles for a refresh that began before it was asked.
FreshSession == \A c \in Call : calls[c].pc = "await" /\ calls[c].session => calls[c].run > calls[c].asked

\* No sign-in ever sees chat drafts or pending turns of another user, however the previous session ended.
ChatBelongsToUser == page \in Live /\ kept => chat \in {None, user[sess]}

\* A session ends on its own only when the server no longer refreshes it or a service refused a call twice: a failed
\* refresh keeps the tokens.
EndsForCause ==
  [][kept /\ ~kept' /\ page' = "toLogin" =>
       \/ ~auth[sess].alive
       \/ \E c \in Call : calls[c].pc = "resent" /\ calls'[c].pc = "idle"]_vars

\* Every caller that waits for the shared refresh gets an answer, and the refresh does not stay shared for ever.
WaitersEnd ==
  /\ (refreshing # 0) ~> (refreshing = 0)
  /\ \A c \in Call : (calls[c].pc = "await") ~> (calls[c].pc # "await")
=============================================================================
