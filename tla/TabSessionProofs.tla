-------------------------- MODULE TabSessionProofs --------------------------
(***************************************************************************)
(* The safety properties of TabSession hold for any users, calls and       *)
(* bounds.  The inductive invariant says which run is active, what a run   *)
(* and its requests know of the server, and, for a sign-in that lost no    *)
(* answer, how far the server's rotation can be ahead of the stored pair.  *)
(***************************************************************************)
EXTENDS TabSession, TLAPS

Active(r) == runs[r].phase \in {"sent", "pause"}
Pending(q) == wire[q].at \in {"way", "loaded"}

\* The page, the sign-in and the shared run belong together.
PageInv ==
  /\ sess = 0 => ~kept /\ page = "login"
  /\ page \notin Live => refreshing = 0 /\ \A c \in Call : calls[c] = NoCall
  /\ refreshing # 0 => refreshing = begun /\ Active(refreshing)
  /\ sess # 0 => held[sess] > 0

\* A run belongs to a sign-in, only the shared one is active, and it was begun with the stored pair.
RunInv(r) ==
  /\ runs[r].of <= sess
  /\ r > begun <=> runs[r].phase = "unused"
  /\ r <= begun => runs[r].of # 0
  /\ runs[r].attempt = 1 => wire[<<r, 2>>] = NoRequest
  /\ runs[r].phase = "pause" => runs[r].attempt = 1
  /\ runs[r].phase = "unused" => wire[<<r, 1>>] = NoRequest /\ runs[r].attempt = 1
  /\ Active(r) => r = refreshing /\ runs[r].of = sess /\ runs[r].tok = held[sess]
  /\ runs[r].phase = "ok" => runs[r].got > runs[r].tok /\ runs[r].got <= held[runs[r].of]

\* What a request or an answer on the wire knows of the authorization.
WireInv(r, a) ==
  /\ wire[<<r, a>>].at # "none" => runs[r].of # 0 /\ runs[r].tok <= auth[runs[r].of].cur
  /\ wire[<<r, a>>].at = "refused" => ~auth[runs[r].of].alive
  /\ wire[<<r, a>>].at = "ok" => /\ wire[<<r, a>>].n > runs[r].tok
                                 /\ wire[<<r, a>>].n <= auth[runs[r].of].cur
  /\ wire[<<r, a>>].at = "loaded" => wire[<<r, a>>].n <= auth[runs[r].of].cur
  /\ wire[<<r, a>>].at \in {"ok", "refused"} => runs[r].phase = "sent" /\ runs[r].attempt = a

\* A call and the run it waits for.
CallInv(c) ==
  /\ calls[c].pc \in {"after", "await"} =>
       /\ calls[c].run \in Run /\ calls[c].run <= begun
       /\ runs[calls[c].run].of = sess
       /\ Active(calls[c].run) => calls[c].run = refreshing
  /\ calls[c].asked <= begun
  /\ calls[c].pc = "after" => calls[c].session /\ calls[c].run = calls[c].asked /\ calls[c].refused = 0
  /\ calls[c].pc = "await" =>
       IF calls[c].session THEN calls[c].run > calls[c].asked
       ELSE calls[c].refused <= runs[calls[c].run].tok
  /\ calls[c].pc = "sent" => calls[c].refused = 0 /\ ~calls[c].session /\ calls[c].tok \in 1..held[sess]
  /\ calls[c].pc = "resent" => calls[c].tok > calls[c].refused

\* A sign-in none of whose refreshes was lost or late: its rotation is ahead of the stored pair by the requests of the shared run alone.
ExactInv(s) ==
  /\ reused[s] => lossy[s]
  /\ s > sess => auth[s].cur = 0 /\ ~lossy[s]
  /\ s <= sess => held[s] <= auth[s].cur
  /\ s <= sess /\ ~lossy[s] =>
       /\ \A r \in Run, a \in Attempt : runs[r].of = s /\ Pending(<<r, a>>) => r = refreshing
       /\ (refreshing = 0 \/ runs[refreshing].of # s) => auth[s].cur = held[s]

\* The shared run of such a sign-in: one save per request, and the second only within the grace.
SharedInv ==
  refreshing # 0 /\ ~lossy[sess] =>
    LET h == held[sess]
        cur == auth[sess].cur
        one == Pending(<<refreshing, 1>>)
        two == Pending(<<refreshing, 2>>)
    IN /\ cur <= h + 2
       /\ cur > h => auth[sess].grace /\ ~(one /\ two)
       /\ cur = h + 2 => ~one /\ ~two /\ runs[refreshing].attempt = 2
       /\ runs[refreshing].attempt = 1 /\ cur = h + 1 => ~one
       /\ runs[refreshing].attempt = 1 /\ wire[<<refreshing, 1>>].at = "ok" => wire[<<refreshing, 1>>].n = cur
       /\ runs[refreshing].attempt = 1 /\ wire[<<refreshing, 1>>].at = "refused" => cur = h

\* Chat state and its owner mark are of the last user.
ChatInv ==
  /\ sess = 0 => chat = None /\ mark = None
  /\ sess # 0 => chat \in {None, user[sess]} /\ mark \in {None, user[sess]}

\* What holds whatever the page and its calls do.
CoreInv ==
  /\ \A r \in Run : RunInv(r)
  /\ \A r \in Run, a \in Attempt : WireInv(r, a)
  /\ \A s \in SignIn : ExactInv(s)
  /\ SharedInv

CallsInv == \A c \in Call : CallInv(c)

\* The parts of TypeOK: what the page's own steps change, and the rest.
PageType ==
  /\ page \in Live \cup {"login", "signedOut"}
  /\ user \in [SignIn -> User \cup {None}]
  /\ kept \in BOOLEAN /\ expired \in BOOLEAN
  /\ chat \in User \cup {None} /\ mark \in User \cup {None}
  /\ leave \in {"no", "asked", "revoked"}

CoreType ==
  /\ sess \in 0..MaxSignIns
  /\ held \in [SignIn -> Nat]
  /\ refreshing \in 0..MaxRuns /\ begun \in 0..MaxRuns
  /\ runs \in [Run -> RunState]
  /\ wire \in [Run \X Attempt -> Request]
  /\ auth \in [SignIn -> Authorization]
  /\ reused \in [SignIn -> BOOLEAN] /\ lossy \in [SignIn -> BOOLEAN]

CallsType == calls \in [Call -> CallState]

IInv == TypeOK /\ PageInv /\ ChatInv /\ CoreInv /\ CallsInv

core == <<refreshing, begun, runs, wire, held, sess, auth, reused, lossy>>

USE NoneAssumption, BoundsAssumption DEF Run, SignIn, Attempt, Live

-----------------------------------------------------------------------------
(* Steps that leave the runs and the server alone.                         *)

LEMMA TypeParts ==
  /\ TypeOK <=> PageType /\ CoreType /\ CallsType
  /\ TypeOK' <=> PageType' /\ CoreType' /\ CallsType'
BY DEF TypeOK, PageType, CoreType, CallsType

LEMMA TypeStutters ==
  /\ CoreType /\ UNCHANGED core => CoreType'
  /\ CallsType /\ UNCHANGED calls => CallsType'
BY DEF core, CoreType, CallsType

LEMMA SignedInUser ==
  ASSUME PageType, CoreType, sess # 0
  PROVE  sess \in SignIn /\ user[sess] \in User \cup {None}
BY DEF PageType, CoreType

LEMMA CoreStutters == CoreInv /\ UNCHANGED core => CoreInv'
BY DEF CoreInv, core, RunInv, WireInv, ExactInv, SharedInv, Active, Pending

LEMMA CallsStutter ==
  CallsInv /\ UNCHANGED <<calls, begun, sess, refreshing>> /\ UNCHANGED runs /\ UNCHANGED held => CallsInv'
BY DEF CallsInv, CallInv, Active

\* One call changes; the others keep what they had.
LEMMA OneCallChanges ==
  ASSUME CallsInv, TypeOK, NEW c \in Call, NEW to,
         calls' = [calls EXCEPT ![c] = to],
         UNCHANGED <<begun, sess, refreshing, runs, held>>,
         CallInv(c)'
  PROVE  CallsInv'
<1>1. ASSUME NEW d \in Call, d # c PROVE CallInv(d)'
  BY <1>1 DEF CallsInv, CallInv, Active, TypeOK
<1>2. QED BY <1>1 DEF CallsInv

LEMMA InitHolds == Init => IInv
<1> SUFFICES ASSUME Init PROVE IInv OBVIOUS
<1> USE DEF Init, NoCall, NoRun, NoRequest
<1>1. TypeOK
  <2>1. NoRun \in RunState /\ NoCall \in CallState /\ NoRequest \in Request
    BY DEF RunState, Request, CallState
  <2>2. [alive |-> FALSE, cur |-> 0, grace |-> FALSE] \in Authorization
    BY DEF Authorization
  <2>3. PageType BY DEF PageType
  <2>4. CoreType /\ CallsType BY <2>1, <2>2 DEF CoreType, CallsType
  <2>5. QED BY <2>3, <2>4, TypeParts
<1>2. PageInv /\ ChatInv BY DEF PageInv, ChatInv
<1>3. CoreInv BY DEF CoreInv, RunInv, WireInv, ExactInv, SharedInv, Active, Pending
<1>4. CallsInv BY DEF CallsInv, CallInv
<1>5. QED BY <1>1, <1>2, <1>3, <1>4 DEF IInv

LEMMA PageOnlySteps ==
  ASSUME IInv, Expire \/ WriteChat \/ SignOut \/ SignOutDone \/ SignOutElsewhere \/ OpenApp
  PROVE  IInv'
<1> USE DEF client, storage, server
<1>0. PageType /\ CoreType /\ CallsType /\ PageInv /\ ChatInv /\ CoreInv /\ CallsInv
  BY TypeParts DEF IInv
<1>1. UNCHANGED core /\ UNCHANGED calls /\ UNCHANGED user
  BY DEF core, Expire, WriteChat, SignOut, SignOutDone, SignOutElsewhere, OpenApp
<1>2. page \in Live => sess # 0
  BY <1>0 DEF PageInv
<1>8. sess # 0 => user[sess] \in User \cup {None}
  BY <1>0, SignedInUser
<1>3. PageType'
  BY <1>0, <1>1, <1>2, <1>8 DEF PageType, Expire, WriteChat, SignOut, SignOutDone, SignOutElsewhere, OpenApp
<1>4. ChatInv'
  BY <1>0, <1>1, <1>2, <1>8 DEF core, ChatInv, Expire, WriteChat, SignOut, SignOutDone, SignOutElsewhere, OpenApp
<1>5. PageInv'
  <2>1. page' \notin Live => page \notin Live \/ page' = page
    BY DEF Expire, WriteChat, SignOut, SignOutDone, SignOutElsewhere, OpenApp
  <2>2. sess = 0 => ~kept' /\ page' = "login"
    BY <1>0 DEF PageInv, Expire, WriteChat, SignOut, SignOutDone, SignOutElsewhere, OpenApp
  <2>3. QED BY <1>0, <1>1, <2>1, <2>2 DEF PageInv, core, Active
<1>6. QED BY <1>0, <1>1, <1>3, <1>4, <1>5, CoreStutters, CallsStutter, TypeParts, TypeStutters DEF core, IInv

-----------------------------------------------------------------------------
(* The steps of a call.                                                    *)

LEMMA SignInAgainKeeps ==
  ASSUME PageType, CoreType, PageInv, ChatInv, SignInAgain, page \in Live, expired' \in BOOLEAN
  PROVE  ChatInv' /\ PageType' /\ page' \in Live /\ ~kept'
<1>1. sess # 0 /\ user[sess] \in User \cup {None}
  BY SignedInUser DEF PageInv
<1>2. mark' \in {mark, user[sess]} /\ kept' = FALSE /\ page' = "toLogin" /\ UNCHANGED <<chat, leave, sess, user>>
  BY DEF SignInAgain
<1>3. QED BY <1>1, <1>2 DEF ChatInv, PageType

\* The first request of a run.
FirstRequest(r) == [phase |-> "sent", attempt |-> 1, tok |-> held[sess], got |-> 0, of |-> sess]

LEMMA StartRunCore ==
  ASSUME CoreType, PageInv, CoreInv, sess # 0, refreshing = 0,
         NEW c \in Call, NEW how, StartRun(c, how), UNCHANGED <<held, sess, auth, reused, lossy>>
  PROVE  /\ CoreType' /\ CoreInv'
         /\ refreshing' = begun' /\ begun' = begun + 1 /\ begun' \in Run
         /\ runs'[begun'].phase = "sent" /\ runs'[begun'].of = sess /\ runs'[begun'].tok = held[sess]
         /\ \A r \in Run : r # begun' => runs'[r] = runs[r]
<1> DEFINE n == begun + 1
<1>1. n \in Run /\ begun \in Nat /\ begun' = n /\ refreshing' = n
  BY DEF StartRun, CoreType
<1>2. /\ runs' = [runs EXCEPT ![n] = FirstRequest(n)]
      /\ wire' = [wire EXCEPT ![<<n, 1>>] = [at |-> "way", n |-> 0]]
  BY DEF StartRun, FirstRequest
<1>3. FirstRequest(n) \in RunState /\ [at |-> "way", n |-> 0] \in Request
  BY SignedInUser DEF FirstRequest, RunState, Request, CoreType
<1>4. CoreType'
  BY <1>1, <1>2, <1>3 DEF CoreType
<1>5. /\ runs'[n] = FirstRequest(n)
      /\ \A r \in Run : r # n => runs'[r] = runs[r]
  BY <1>1, <1>2 DEF CoreType
<1>6. /\ wire'[<<n, 1>>] = [at |-> "way", n |-> 0]
      /\ \A r \in Run, a \in Attempt : r # n \/ a # 1 => wire'[<<r, a>>] = wire[<<r, a>>]
  BY <1>1, <1>2 DEF CoreType
<1>7. runs[n].phase = "unused" /\ runs[n].attempt = 1 /\ wire[<<n, 2>>] = NoRequest
  <2>1. RunInv(n) BY <1>1 DEF CoreInv
  <2>2. QED BY <1>1, <2>1 DEF RunInv
<1>8. sess \in SignIn /\ held[sess] \in Nat /\ held[sess] <= auth[sess].cur /\ (~lossy[sess] => auth[sess].cur = held[sess])
  <2>1. sess \in SignIn /\ held[sess] \in Nat BY DEF CoreType
  <2>2. ExactInv(sess) BY <2>1 DEF CoreInv
  <2>3. QED BY <2>1, <2>2 DEF ExactInv
<1>9. ASSUME NEW r \in Run PROVE ~Active(r)
  <2>1. RunInv(r) BY DEF CoreInv
  <2>2. QED BY <2>1 DEF RunInv
<1>10. ASSUME NEW r \in Run PROVE RunInv(r)'
  <2>1. RunInv(r) BY DEF CoreInv
  <2>2. QED BY <1>1, <1>5, <1>6, <1>7, <1>8, <1>9, <2>1 DEF RunInv, FirstRequest, Active
<1>11. ASSUME NEW r \in Run, NEW a \in Attempt PROVE WireInv(r, a)'
  <2>1. WireInv(r, a) BY DEF CoreInv
  <2>2. CASE r # n
    BY <1>5, <1>6, <2>1, <2>2 DEF WireInv
  <2>3. CASE r = n
    BY <1>1, <1>5, <1>6, <1>7, <1>8, <2>3 DEF WireInv, FirstRequest, NoRequest
  <2>4. QED BY <2>2, <2>3
<1>12. ASSUME NEW s \in SignIn PROVE ExactInv(s)'
  <2>1. ExactInv(s) BY DEF CoreInv
  <2>2. ASSUME NEW r \in Run, NEW a \in Attempt, runs'[r].of = s, Pending(<<r, a>>)', ~lossy[s], s <= sess
        PROVE  r = n
    <3> SUFFICES ASSUME r # n PROVE FALSE OBVIOUS
    <3>1. runs[r].of = s /\ Pending(<<r, a>>)
      BY <1>5, <1>6, <2>2 DEF Pending
    <3>2. r = refreshing
      BY <2>1, <2>2, <3>1 DEF ExactInv
    <3>3. QED BY <3>2
  <2>3. refreshing' = n /\ runs'[n].of = sess
    BY <1>1, <1>5 DEF FirstRequest
  <2>4. QED BY <1>1, <1>8, <2>1, <2>2, <2>3 DEF ExactInv
<1>13. SharedInv'
  BY <1>1, <1>5, <1>6, <1>7, <1>8 DEF SharedInv, Pending, FirstRequest, NoRequest
<1>14. CoreInv'
  BY <1>10, <1>11, <1>12, <1>13 DEF CoreInv
<1>15. runs'[n].phase = "sent" /\ runs'[n].of = sess /\ runs'[n].tok = held[sess]
  BY <1>5 DEF FirstRequest
<1>16. QED BY <1>1, <1>4, <1>5, <1>14, <1>15

\* What getAccessToken is called with: the token a service refused, or the run that must not be reused.
HowOk(how, rejected) ==
  /\ how \in CallState /\ rejected \in Nat
  /\ how.asked <= begun
  /\ IF how.session THEN refreshing # 0 => how.asked < refreshing
     ELSE how.refused = rejected /\ rejected <= held[sess]

LEMMA GetAccessTokenKeeps ==
  ASSUME IInv, NEW c \in Call, NEW how, NEW rejected, GetAccessToken(c, how, rejected), HowOk(how, rejected),
         page \in Live, UNCHANGED <<held, expired, server, lossy>>
  PROVE  IInv'
<1> USE DEF storage, server
<1>0. PageType /\ CoreType /\ CallsType /\ PageInv /\ ChatInv /\ CoreInv /\ CallsInv
  BY TypeParts DEF IInv
<1>1. sess \in SignIn /\ sess # 0 /\ held[sess] \in Nat /\ held[sess] > 0 /\ begun \in Nat /\ refreshing \in 0..MaxRuns
  BY <1>0 DEF PageInv, CoreType
<1>2. ASSUME NEW to, calls' = [calls EXCEPT ![c] = to], to \in CallState,
             UNCHANGED <<page, kept, refreshing, begun, runs, wire, storage>>,
             CallInv(c)'
      PROVE  IInv'
  <2>1. CallsType' BY <1>0, <1>2 DEF CallsType
  <2>2. PageType' /\ PageInv' /\ ChatInv'
    BY <1>0, <1>2 DEF PageType, PageInv, ChatInv, Active
  <2>3. UNCHANGED core BY <1>2 DEF core
  <2>4. CallsInv' BY <1>0, <1>2, OneCallChanges DEF IInv
  <2>5. QED BY <1>0, <2>1, <2>2, <2>3, <2>4, CoreStutters, TypeStutters, TypeParts DEF IInv
<1>3. CASE /\ refreshing # 0
           /\ calls' = [calls EXCEPT ![c] = [how EXCEPT !.pc = "await", !.run = refreshing]]
           /\ UNCHANGED <<page, kept, refreshing, begun, runs, wire, storage>>
  <2> DEFINE to == [how EXCEPT !.pc = "await", !.run = refreshing]
  <2>1. to \in CallState BY <1>1 DEF HowOk, CallState
  <2>2. calls'[c] = to BY <1>0, <1>3 DEF CallsType
  <2>3. refreshing = begun /\ Active(refreshing) /\ refreshing \in Run
    BY <1>0, <1>1, <1>3 DEF PageInv
  <2>4. RunInv(refreshing) BY <1>0, <2>3 DEF CoreInv
  <2>5. CallInv(c)'
    <3>1. calls'[c].pc = "await" /\ calls'[c].run = refreshing /\ calls'[c].session = how.session
          /\ calls'[c].asked = how.asked /\ calls'[c].refused = how.refused
      BY <2>2 DEF HowOk, CallState
    <3>2. runs[refreshing].of = sess /\ runs[refreshing].tok = held[sess]
      BY <2>3, <2>4 DEF RunInv
    <3>3. QED BY <1>1, <1>3, <2>3, <3>1, <3>2 DEF CallInv, HowOk, Active
  <2>6. QED BY <1>2, <1>3, <2>1, <2>5
<1>4. CASE /\ refreshing = 0 /\ ~kept
           /\ SignInAgain
           /\ calls' = [calls EXCEPT ![c] = NoCall]
           /\ UNCHANGED <<refreshing, begun, runs, wire>>
  <2>1. ChatInv' /\ PageType' /\ page' \in Live /\ ~kept'
    BY <1>0, <1>4, SignInAgainKeeps DEF PageType
  <2>2. UNCHANGED <<sess, user>> BY <1>4 DEF SignInAgain
  <2>3. NoCall \in CallState BY DEF NoCall, CallState
  <2>4. CallsType' /\ calls'[c] = NoCall BY <1>0, <1>4, <2>3 DEF CallsType
  <2>5. CallInv(c)' BY <1>1, <1>4, <2>4 DEF CallInv, NoCall
  <2>6. CallsInv' BY <1>0, <1>4, <2>2, <2>5, OneCallChanges DEF IInv
  <2>7. PageInv' BY <1>0, <1>1, <1>4, <2>1, <2>2 DEF PageInv, Active
  <2>8. UNCHANGED core BY <1>4, <2>2 DEF core
  <2>9. QED BY <1>0, <2>1, <2>4, <2>6, <2>7, <2>8, CoreStutters, TypeStutters, TypeParts DEF IInv
<1>5. CASE /\ refreshing = 0 /\ kept /\ held[sess] # rejected /\ ~expired
           /\ calls' = [calls EXCEPT ![c] = IF how.session THEN NoCall
                                            ELSE [how EXCEPT !.pc = IF rejected = 0 THEN "sent" ELSE "resent",
                                                             !.tok = held[sess]]]
           /\ UNCHANGED <<page, kept, refreshing, begun, runs, wire, storage>>
  <2> DEFINE next == [how EXCEPT !.pc = IF rejected = 0 THEN "sent" ELSE "resent", !.tok = held[sess]]
  <2>1. CASE how.session
    <3>1. NoCall \in CallState BY DEF NoCall, CallState
    <3>2. calls' = [calls EXCEPT ![c] = NoCall] /\ calls'[c] = NoCall BY <1>0, <1>5, <2>1 DEF CallsType
    <3>3. calls'[c].pc = "idle" /\ calls'[c].asked = 0 BY <3>2 DEF NoCall
    <3>4. begun' = begun BY <1>5
    <3>5. CallInv(c)' BY <1>1, <3>3, <3>4 DEF CallInv
    <3>6. QED BY <1>2, <1>5, <3>1, <3>2, <3>5
  <2>2. CASE ~how.session
    <3>1. next \in CallState BY <1>1 DEF HowOk, CallState
    <3>2. calls' = [calls EXCEPT ![c] = next] /\ calls'[c] = next BY <1>0, <1>5, <2>2 DEF CallsType
    <3>3. calls'[c].pc = (IF rejected = 0 THEN "sent" ELSE "resent") /\ calls'[c].tok = held[sess]
          /\ calls'[c].asked = how.asked /\ calls'[c].refused = rejected /\ ~calls'[c].session
      BY <2>2, <3>2, ZenonT(40) DEF HowOk, CallState
    <3>4. begun' = begun /\ how.asked <= begun /\ UNCHANGED <<sess, held>> BY <1>5 DEF HowOk
    <3>5. CallInv(c)'
      <4>1. CASE rejected = 0 BY <1>1, <2>2, <3>3, <3>4, <4>1 DEF CallInv
      <4>2. CASE rejected # 0
        <5>1. held[sess] > rejected BY <1>1, <1>5, <2>2 DEF HowOk
        <5>2. QED BY <1>1, <2>2, <3>3, <3>4, <4>2, <5>1 DEF CallInv
      <4>3. QED BY <4>1, <4>2
    <3>6. QED BY <1>2, <1>5, <3>1, <3>2, <3>5
  <2>3. QED BY <2>1, <2>2
<1>6. CASE /\ refreshing = 0 /\ kept /\ (held[sess] = rejected \/ expired)
           /\ StartRun(c, how)
           /\ UNCHANGED <<page, kept, storage>>
  <2> DEFINE n == begun + 1
             to == [how EXCEPT !.pc = "await", !.run = n]
  <2>0. UNCHANGED <<held, sess, auth, reused, lossy>> BY <1>6
  <2>1. /\ CoreType' /\ CoreInv' /\ n \in Run
        /\ refreshing' = n /\ begun' = n
        /\ runs'[n].phase = "sent" /\ runs'[n].of = sess /\ runs'[n].tok = held[sess]
        /\ \A r \in Run : r # n => runs'[r] = runs[r]
    BY <1>0, <1>1, <1>6, <2>0, StartRunCore
  <2>2. calls' = [calls EXCEPT ![c] = to] BY <1>6 DEF StartRun
  <2>3. to \in CallState
    <3>1. n \in 0..MaxRuns BY <1>1, <2>1
    <3>2. how \in CallState BY DEF HowOk
    <3>3. QED BY <3>1, <3>2 DEF CallState
  <2>4. CallsType' /\ calls'[c] = to BY <1>0, <2>2, <2>3 DEF CallsType
  <2>5. PageType' /\ ChatInv' BY <1>0, <1>6 DEF PageType, ChatInv
  <2>6. PageInv' BY <1>0, <1>1, <1>6, <2>1 DEF PageInv, Active
  <2>7. CallInv(c)'
    BY <1>1, <1>6, <2>1, <2>4 DEF CallInv, HowOk, CallState, Active
  <2>8. ASSUME NEW d \in Call, d # c PROVE CallInv(d)'
    <3>1. calls'[d] = calls[d] /\ calls[d] \in CallState BY <1>0, <2>2, <2>8 DEF CallsType
    <3>2. CallInv(d) BY <1>0 DEF CallsInv
    <3>3. ASSUME calls[d].pc \in {"after", "await"}
          PROVE  ~Active(calls[d].run) /\ calls[d].run # n /\ calls[d].run \in Run
      BY <1>1, <1>6, <3>2, <3>3 DEF CallInv
    <3>4. QED BY <1>1, <1>6, <2>1, <3>1, <3>2, <3>3 DEF CallInv, CallState, Active
  <2>9. QED BY <2>1, <2>4, <2>5, <2>6, <2>7, <2>8, TypeParts DEF IInv, CallsInv
<1>7. QED BY <1>3, <1>4, <1>5, <1>6 DEF GetAccessToken

LEMMA CallSteps ==
  ASSUME IInv, NEW c \in Call, CallStep(c)
  PROVE  IInv'
<1> USE DEF storage, server
<1>0. PageType /\ CoreType /\ CallsType /\ PageInv /\ ChatInv /\ CoreInv /\ CallsInv
  BY TypeParts DEF IInv
<1>1. page \in Live /\ UNCHANGED <<held, expired, server, lossy>>
  BY DEF CallStep, Fetch, RefreshSession, Reask, Resume, Answered, Refused
<1>2. sess \in SignIn /\ sess # 0 /\ held[sess] \in Nat /\ held[sess] > 0 /\ begun \in Nat /\ refreshing \in 0..MaxRuns
  BY <1>0, <1>1 DEF PageInv, CoreType
<1>3. CallInv(c) /\ calls[c] \in CallState
  BY <1>0 DEF CallsInv, CallsType
<1>4. NoCall \in CallState
  BY DEF NoCall, CallState
<1>5. ASSUME NEW to, calls' = [calls EXCEPT ![c] = to], to \in CallState,
             UNCHANGED <<page, kept, refreshing, begun, runs, wire, storage>>,
             CallInv(c)'
      PROVE  IInv'
  <2>1. CallsType' BY <1>0, <1>5 DEF CallsType
  <2>2. PageType' /\ PageInv' /\ ChatInv'
    BY <1>0, <1>1, <1>5 DEF PageType, PageInv, ChatInv, Active
  <2>3. UNCHANGED core BY <1>1, <1>5 DEF core
  <2>4. CallsInv' BY <1>0, <1>1, <1>5, OneCallChanges DEF IInv
  <2>5. QED BY <1>0, <2>1, <2>2, <2>3, <2>4, CoreStutters, TypeStutters, TypeParts DEF IInv
<1>6. CASE Fetch(c)
  <2>1. HowOk(NoCall, 0) BY <1>2, <1>4 DEF HowOk, NoCall
  <2>2. QED BY <1>1, <1>6, <2>1, GetAccessTokenKeeps DEF Fetch
<1>7. CASE RefreshSession(c)
  <2> DEFINE how == [NoCall EXCEPT !.session = TRUE, !.asked = begun]
             to == [how EXCEPT !.pc = "after", !.run = refreshing]
  <2>0. begun \in 0..MaxRuns BY <1>0 DEF CoreType
  <2>1. how \in CallState /\ how.asked = begun /\ how.session = TRUE
    <3>1. how \in CallState BY <1>4, <2>0 DEF CallState
    <3>2. how.asked = begun /\ how.session = TRUE BY <1>4 DEF CallState
    <3>3. QED BY <3>1, <3>2
  <2>2. CASE refreshing # 0
    <3>1. /\ calls' = [calls EXCEPT ![c] = to]
          /\ UNCHANGED <<page, kept, refreshing, begun, runs, wire, storage>>
      BY <1>7, <2>2 DEF RefreshSession
    <3>2. to \in CallState BY <1>2, <2>1 DEF CallState
    <3>3. refreshing = begun /\ Active(refreshing) /\ refreshing \in Run
      BY <1>0, <1>2, <2>2 DEF PageInv
    <3>4. runs[refreshing].of = sess
      BY <1>0, <3>3 DEF CoreInv, RunInv
    <3>5. calls'[c].pc = "after" /\ calls'[c].run = refreshing /\ calls'[c].session
          /\ calls'[c].asked = begun /\ calls'[c].refused = 0
      BY <1>0, <3>1 DEF NoCall, CallState, CallsType
    <3>6. CallInv(c)' BY <1>2, <3>1, <3>3, <3>4, <3>5 DEF CallInv
    <3>7. QED BY <1>5, <3>1, <3>2, <3>6
  <2>3. CASE refreshing = 0
    <3> DEFINE rej == IF kept THEN held[sess] ELSE 0
    <3>1. GetAccessToken(c, how, rej) BY <1>7, <2>3 DEF RefreshSession
    <3>2. HowOk(how, rej) BY <1>2, <2>1, <2>3 DEF HowOk
    <3>3. QED BY <1>1, <3>1, <3>2, GetAccessTokenKeeps
  <2>4. QED BY <2>2, <2>3
<1>8. CASE Reask(c)
  <2> DEFINE rej == IF kept THEN held[sess] ELSE 0
  <2>1. GetAccessToken(c, calls[c], rej) /\ ~Active(calls[c].run) /\ calls[c].pc = "after"
    BY <1>8 DEF Reask, Active
  <2>2. calls[c].session /\ calls[c].run = calls[c].asked /\ calls[c].asked <= begun
    BY <1>3, <2>1 DEF CallInv
  <2>3. refreshing # 0 => refreshing = begun /\ Active(refreshing)
    BY <1>0 DEF PageInv
  <2>4. calls[c].asked \in Nat BY <1>3 DEF CallState
  <2>5. refreshing # 0 => calls[c].asked < refreshing
    <3>1. refreshing # 0 => calls[c].asked # refreshing BY <2>1, <2>2, <2>3
    <3>2. QED BY <1>2, <2>2, <2>3, <2>4, <3>1
  <2>6. HowOk(calls[c], rej) BY <1>2, <1>3, <2>2, <2>5 DEF HowOk
  <2>7. QED BY <1>1, <2>1, <2>6, GetAccessTokenKeeps
<1>9. CASE Resume(c)
  <2> DEFINE run == runs[calls[c].run]
             to == [calls[c] EXCEPT !.pc = IF calls[c].refused = 0 THEN "sent" ELSE "resent", !.tok = run.got]
  <2>1. /\ UNCHANGED <<page, kept, refreshing, begun, runs, wire, storage>>
        /\ calls[c].pc = "await"
        /\ calls' = [calls EXCEPT ![c] = IF run.phase = "ok" /\ ~calls[c].session THEN to ELSE NoCall]
    BY <1>9 DEF Resume
  <2>2. CASE run.phase = "ok" /\ ~calls[c].session
    <3>1. calls[c].run \in Run /\ run.of = sess /\ calls[c].refused <= run.tok /\ calls[c].asked <= begun
      BY <1>3, <2>1, <2>2 DEF CallInv
    <3>2. run.got > run.tok /\ run.got <= held[sess] /\ run \in RunState
      BY <1>0, <2>2, <3>1 DEF CoreInv, RunInv, CoreType
    <3>3. run.got \in Nat /\ run.tok \in Nat /\ calls[c].refused \in Nat
      BY <1>3, <3>2 DEF RunState, CallState
    <3>4. to \in CallState BY <1>3, <3>3 DEF CallState
    <3>5. calls' = [calls EXCEPT ![c] = to] BY <2>1, <2>2
    <3>6. calls'[c].pc = (IF calls[c].refused = 0 THEN "sent" ELSE "resent") /\ calls'[c].tok = run.got
          /\ calls'[c].refused = calls[c].refused /\ calls'[c].asked = calls[c].asked /\ ~calls'[c].session
      BY <1>0, <1>3, <2>2, <3>5 DEF CallState, CallsType
    <3>7. CallInv(c)'
      BY <1>1, <1>2, <2>1, <3>1, <3>2, <3>3, <3>6 DEF CallInv
    <3>8. QED BY <1>5, <2>1, <3>4, <3>5, <3>7
  <2>3. CASE ~(run.phase = "ok" /\ ~calls[c].session)
    <3>1. calls' = [calls EXCEPT ![c] = NoCall] BY <2>1, <2>3
    <3>2. calls'[c].pc = "idle" /\ calls'[c].asked = 0 BY <1>0, <3>1 DEF NoCall, CallsType
    <3>3. CallInv(c)' BY <1>2, <2>1, <3>2 DEF CallInv
    <3>4. QED BY <1>4, <1>5, <2>1, <3>1, <3>3
  <2>4. QED BY <2>2, <2>3
<1>10. CASE Answered(c)
  <2>1. /\ UNCHANGED <<page, kept, refreshing, begun, runs, wire, storage>>
        /\ calls' = [calls EXCEPT ![c] = NoCall]
    BY <1>10 DEF Answered
  <2>2. calls'[c].pc = "idle" /\ calls'[c].asked = 0 BY <1>0, <2>1 DEF NoCall, CallsType
  <2>3. CallInv(c)' BY <1>2, <2>1, <2>2 DEF CallInv
  <2>4. QED BY <1>4, <1>5, <2>1, <2>3
<1>11. CASE Refused(c)
  <2>1. CASE /\ calls[c].pc = "sent"
             /\ GetAccessToken(c, [calls[c] EXCEPT !.refused = calls[c].tok], calls[c].tok)
    <3> DEFINE how == [calls[c] EXCEPT !.refused = calls[c].tok]
    <3>1. ~calls[c].session /\ calls[c].tok \in 1..held[sess] /\ calls[c].asked <= begun
      BY <1>3, <2>1 DEF CallInv
    <3>2. how \in CallState /\ how.asked = calls[c].asked /\ how.refused = calls[c].tok /\ ~how.session
      BY <1>3, <3>1 DEF CallState
    <3>3. HowOk(how, calls[c].tok) BY <1>2, <3>1, <3>2 DEF HowOk
    <3>4. QED BY <1>1, <2>1, <3>3, GetAccessTokenKeeps
  <2>2. CASE /\ calls[c].pc = "resent"
             /\ SignInAgain
             /\ calls' = [calls EXCEPT ![c] = NoCall]
             /\ UNCHANGED <<refreshing, begun, runs, wire>>
    <3>1. ChatInv' /\ PageType' /\ page' \in Live /\ ~kept'
      BY <1>0, <1>1, <2>2, SignInAgainKeeps DEF PageType
    <3>2. UNCHANGED <<sess, user>> BY <2>2 DEF SignInAgain
    <3>3. CallsType' /\ calls'[c] = NoCall BY <1>0, <1>4, <2>2 DEF CallsType
    <3>4. CallInv(c)' BY <1>2, <2>2, <3>3 DEF CallInv, NoCall
    <3>5. CallsInv' BY <1>0, <1>1, <2>2, <3>2, <3>4, OneCallChanges DEF IInv
    <3>6. PageInv' BY <1>0, <1>1, <1>2, <2>2, <3>1, <3>2 DEF PageInv, Active
    <3>7. UNCHANGED core BY <1>1, <2>2, <3>2 DEF core
    <3>8. QED BY <1>0, <3>1, <3>3, <3>5, <3>6, <3>7, CoreStutters, TypeStutters, TypeParts DEF IInv
  <2>3. QED BY <1>11, <2>1, <2>2 DEF Refused
<1>12. QED BY <1>6, <1>7, <1>8, <1>9, <1>10, <1>11 DEF CallStep

-----------------------------------------------------------------------------
(* The steps of a run.                                                     *)

\* The active run is the shared one, of the last sign-in, begun with the pair the tab still holds.
LEMMA ActiveRun ==
  ASSUME PageInv, CoreType, CoreInv, NEW r \in Run, Active(r)
  PROVE  /\ r = refreshing /\ r = begun /\ sess \in SignIn /\ runs[r].of = sess /\ runs[r].tok = held[sess]
         /\ held[sess] \in Nat /\ auth[sess].cur \in Nat /\ held[sess] <= auth[sess].cur
         /\ runs[r].attempt \in Attempt
<1>1. RunInv(r) BY DEF CoreInv
<1>2. r = refreshing /\ r = begun /\ runs[r].of = sess /\ runs[r].tok = held[sess]
  BY <1>1 DEF RunInv, PageInv
<1>3. sess # 0 BY <1>1, <1>2 DEF RunInv
<1>4. sess \in SignIn /\ held[sess] \in Nat /\ auth[sess] \in Authorization /\ runs[r] \in RunState
  BY <1>3 DEF CoreType
<1>5. ExactInv(sess) BY <1>4 DEF CoreInv
<1>6. QED BY <1>2, <1>4, <1>5 DEF ExactInv, Authorization, RunState

\* How a run may end: with the pair it was answered, refused, or without an answer.
Ends(r, phase, got) ==
  \/ phase = "error" /\ got = 0 /\ held' = held
  \/ phase = "ended" /\ got = 0 /\ held' = held /\ wire[Current(r)].at = "refused"
  \/ /\ phase = "ok" /\ wire[Current(r)].at = "ok" /\ got = wire[Current(r)].n
     /\ held' = [held EXCEPT ![runs[r].of] = got]

LEMMA SettledCore ==
  ASSUME CoreType, PageInv, CoreInv, NEW r \in Run, Waiting(r), NEW phase, NEW got,
         Settled(r, phase, got), StopWaiting(r), Ends(r, phase, got), UNCHANGED <<begun, sess, auth, reused>>
  PROVE  /\ CoreType' /\ CoreInv' /\ refreshing' = 0
         /\ held'[sess] >= held[sess] /\ held'[sess] \in Nat
         /\ \A x \in Run : runs'[x].of = runs[x].of /\ runs'[x].tok = runs[x].tok /\ (Active(x)' => Active(x) /\ x # r)
<1> DEFINE a == runs[r].attempt
           q == <<r, a>>
           s == sess
<1>1. /\ r = refreshing /\ r = begun /\ s \in SignIn /\ runs[r].of = s /\ runs[r].tok = held[s]
      /\ held[s] \in Nat /\ auth[s].cur \in Nat /\ held[s] <= auth[s].cur /\ a \in Attempt /\ runs[r].phase = "sent"
  BY ActiveRun DEF Active, Waiting
<1>2. RunInv(r) /\ WireInv(r, 1) /\ WireInv(r, 2) /\ WireInv(r, a)
  BY <1>1 DEF CoreInv
<1>3. /\ wire' = [wire EXCEPT ![q] = IF wire[q].at \in {"way", "loaded"} THEN wire[q] ELSE NoRequest]
      /\ wire \in [Run \X Attempt -> Request] /\ NoRequest \in Request
  BY DEF StopWaiting, Current, CoreType, NoRequest, Request
<1>4. /\ wire'[q] = (IF wire[q].at \in {"way", "loaded"} THEN wire[q] ELSE NoRequest)
      /\ \A x \in Run, b \in Attempt : <<x, b>> # q => wire'[<<x, b>>] = wire[<<x, b>>]
  BY <1>1, <1>3
<1>5. /\ runs' = [runs EXCEPT ![r].phase = phase, ![r].got = got]
      /\ refreshing' = 0
      /\ lossy' = IF phase = "error" \/ a = 2 THEN [lossy EXCEPT ![s] = TRUE] ELSE lossy
  BY <1>1 DEF Settled
<1>6. wire[q] \in Request /\ phase \in {"ok", "error", "ended"} /\ got \in Nat
  BY <1>1, <1>3 DEF Ends, Current, Request
<1>7. /\ runs'[r].phase = phase /\ runs'[r].got = got /\ runs'[r].attempt = a /\ runs'[r].tok = runs[r].tok /\ runs'[r].of = s
      /\ \A x \in Run : x # r => runs'[x] = runs[x]
      /\ runs' \in [Run -> RunState]
  BY <1>1, <1>5, <1>6, ZenonT(40) DEF CoreType, RunState
<1>8. /\ \A t \in SignIn : t # s => held'[t] = held[t]
      /\ held' \in [SignIn -> Nat] /\ held'[s] >= held[s] /\ held'[s] <= auth[s].cur
      /\ phase = "ok" => got = held'[s] /\ got > held[s] /\ wire[q].at = "ok" /\ got = wire[q].n
      /\ phase = "ended" => wire[q].at = "refused"
      /\ phase # "ok" => held'[s] = held[s]
  <2>1. held \in [SignIn -> Nat] BY DEF CoreType
  <2>2. CASE phase # "ok" BY <1>1, <2>1, <2>2 DEF Ends, Current
  <2>3. CASE phase = "ok"
    <3>1. wire[q].at = "ok" /\ got = wire[q].n /\ held' = [held EXCEPT ![s] = got]
      BY <1>1, <2>3 DEF Ends, Current
    <3>2. got > held[s] /\ got <= auth[s].cur BY <1>1, <1>2, <3>1 DEF WireInv
    <3>3. QED BY <1>1, <1>6, <2>1, <2>3, <3>1, <3>2
  <2>4. QED BY <2>2, <2>3
<1>9. /\ \A t \in SignIn : lossy[t] => lossy'[t]
      /\ phase = "error" \/ a = 2 => lossy'[s]
      /\ lossy' \in [SignIn -> BOOLEAN]
      /\ \A t \in SignIn : t # s => lossy'[t] = lossy[t]
  <2>1. lossy \in [SignIn -> BOOLEAN] BY DEF CoreType
  <2>2. QED BY <1>1, <1>5, <2>1
<1>10. CoreType'
  <2>1. wire' \in [Run \X Attempt -> Request] BY <1>3
  <2>2. QED BY <1>5, <1>7, <1>8, <1>9, <2>1 DEF CoreType
<1>11. ASSUME NEW x \in Run, Active(x)' PROVE Active(x) /\ x # r
  BY <1>6, <1>7, <1>11 DEF Active
<1>12. ASSUME NEW x \in Run PROVE RunInv(x)'
  <2>1. RunInv(x) /\ runs[x] \in RunState BY DEF CoreInv, CoreType
  <2>2. Active(x) => x = r
    BY <1>1, <2>1 DEF RunInv
  <2>3. CASE x = r
    <3>1. a = 1 => wire'[<<r, 2>>] = NoRequest
      BY <1>1, <1>2, <1>4 DEF RunInv
    <3>2. ~Active(r)' BY <1>11
    <3>3. QED BY <1>1, <1>2, <1>6, <1>7, <1>8, <2>3, <3>1, <3>2 DEF RunInv
  <2>4. CASE x # r
    <3>1. runs'[x] = runs[x] /\ wire'[<<x, 1>>] = wire[<<x, 1>>] /\ wire'[<<x, 2>>] = wire[<<x, 2>>]
      BY <1>1, <1>4, <1>7, <2>4
    <3>2. ~Active(x)' BY <1>11, <2>2, <2>4
    <3>3. runs[x].phase = "ok" => runs[x].got <= held'[runs[x].of]
      <4> SUFFICES ASSUME runs[x].phase = "ok" PROVE runs[x].got <= held'[runs[x].of] OBVIOUS
      <4>1. runs[x].got <= held[runs[x].of] /\ runs[x].of \in SignIn /\ runs[x].got \in Nat
        <5>1. runs[x].of \in 0..MaxSignIns /\ runs[x].got \in Nat BY <2>1 DEF RunState
        <5>2. begun \in Nat /\ ~(x > begun) BY <2>1 DEF RunInv, CoreType
        <5>3. runs[x].of # 0 BY <2>1, <5>2 DEF RunInv
        <5>4. QED BY <2>1, <5>1, <5>3 DEF RunInv
      <4>2. held[runs[x].of] \in Nat /\ held'[runs[x].of] \in Nat /\ held'[runs[x].of] >= held[runs[x].of]
        <5>1. CASE runs[x].of = s BY <1>1, <1>8, <5>1
        <5>2. CASE runs[x].of # s
          <6>1. held'[runs[x].of] = held[runs[x].of] BY <1>8, <4>1, <5>2
          <6>2. held[runs[x].of] \in Nat BY <4>1 DEF CoreType
          <6>3. QED BY <6>1, <6>2
        <5>3. QED BY <5>1, <5>2
      <4>3. QED BY <4>1, <4>2
    <3>4. QED BY <2>1, <3>1, <3>2, <3>3 DEF RunInv
  <2>5. QED BY <2>3, <2>4
<1>13. ASSUME NEW x \in Run, NEW b \in Attempt PROVE WireInv(x, b)'
  <2>1. WireInv(x, b) BY DEF CoreInv
  <2>2. runs'[x].of = runs[x].of /\ runs'[x].tok = runs[x].tok /\ UNCHANGED auth
    BY <1>1, <1>7
  <2>3. CASE <<x, b>> = q
    BY <1>4, <2>1, <2>2, <2>3 DEF WireInv, NoRequest
  <2>4. CASE x # r
    BY <1>4, <1>7, <2>1, <2>4 DEF WireInv
  <2>5. CASE x = r /\ b # a
    <3>1. wire'[<<x, b>>] = wire[<<x, b>>] /\ wire[<<x, b>>].at \notin {"ok", "refused"}
      BY <1>1, <1>4, <2>1, <2>5 DEF WireInv
    <3>2. QED BY <2>1, <2>2, <3>1 DEF WireInv
  <2>6. QED BY <2>3, <2>4, <2>5
<1>14. ASSUME NEW t \in SignIn PROVE ExactInv(t)'
  <2>1. ExactInv(t) /\ held[t] \in Nat /\ auth[t] \in Authorization BY DEF CoreInv, CoreType
  <2>2. t # s => held'[t] = held[t] /\ lossy'[t] = lossy[t] BY <1>8, <1>9
  <2>3. held'[t] <= auth[t].cur \/ t > s
    <3>1. CASE t = s BY <1>8, <3>1
    <3>2. CASE t # s BY <1>1, <2>1, <2>2, <3>2 DEF ExactInv
    <3>3. QED BY <3>1, <3>2
  <2>4. reused[t] => lossy'[t] BY <1>9, <2>1 DEF ExactInv
  <2>5. t > s => auth[t].cur = 0 /\ ~lossy'[t] BY <1>1, <2>1, <2>2 DEF ExactInv
  <2>6. ASSUME t <= s, ~lossy'[t]
        PROVE  auth[t].cur = held'[t] /\ \A x \in Run, b \in Attempt : ~(runs'[x].of = t /\ Pending(<<x, b>>)')
    <3>1. ~lossy[t] BY <1>9, <2>6
    <3>2. \A x \in Run, b \in Attempt : runs[x].of = t /\ Pending(<<x, b>>) => x = r
      BY <1>1, <2>1, <2>6, <3>1 DEF ExactInv
    <3>3. \A x \in Run, b \in Attempt : Pending(<<x, b>>)' => Pending(<<x, b>>)
      <4>1. ASSUME NEW x \in Run, NEW b \in Attempt PROVE Pending(<<x, b>>)' => Pending(<<x, b>>)
        <5>1. CASE <<x, b>> = q BY <1>4, <5>1 DEF Pending, NoRequest
        <5>2. CASE <<x, b>> # q BY <1>4, <5>2 DEF Pending
        <5>3. QED BY <5>1, <5>2
      <4>2. QED BY <4>1
    <3>4. CASE t # s
      BY <1>1, <1>7, <2>1, <2>2, <2>6, <3>1, <3>2, <3>3, <3>4 DEF ExactInv
    <3>5. CASE t = s
      <4>1. a = 1 /\ phase # "error" BY <1>1, <1>9, <2>6, <3>5
      <4>2. SharedInv /\ refreshing # 0 /\ ~lossy[sess] BY <1>1, <3>1, <3>5 DEF CoreInv
      <4>3. auth[s].cur = held'[s]
        <5>1. CASE phase = "ok"
          BY <1>1, <1>8, <4>1, <4>2, <5>1 DEF SharedInv
        <5>2. CASE phase = "ended"
          BY <1>1, <1>8, <4>1, <4>2, <5>2 DEF SharedInv
        <5>3. QED BY <1>6, <4>1, <5>1, <5>2
      <4>4. wire[q].at \in {"ok", "refused"} BY <1>6, <1>8, <4>1
      <4>5. ~Pending(<<r, 1>>)' /\ ~Pending(<<r, 2>>)'
        BY <1>1, <1>2, <1>4, <4>1, <4>4 DEF Pending, NoRequest, RunInv
      <4>6. ASSUME NEW x \in Run, NEW b \in Attempt, runs'[x].of = t, Pending(<<x, b>>)' PROVE FALSE
        <5>1. x = r BY <1>7, <3>2, <3>3, <3>5, <4>6
        <5>2. QED BY <4>5, <4>6, <5>1
      <4>7. QED BY <3>5, <4>3, <4>6
    <3>6. QED BY <3>4, <3>5
  <2>7. QED BY <2>3, <2>4, <2>5, <2>6 DEF ExactInv
<1>15. SharedInv' BY <1>5 DEF SharedInv
<1>16. CoreInv' BY <1>12, <1>13, <1>14, <1>15 DEF CoreInv
<1>17. \A x \in Run : runs'[x].of = runs[x].of /\ runs'[x].tok = runs[x].tok
  BY <1>1, <1>7
<1>18. QED BY <1>5, <1>8, <1>10, <1>11, <1>16, <1>17, <1>1

\* The calls of the page live through the end of a run.
LEMMA CallsKept ==
  ASSUME CoreType, CallsType, CallsInv, UNCHANGED <<calls, begun, sess>>, refreshing' = 0, sess \in SignIn,
         held'[sess] >= held[sess], held'[sess] \in Nat, held[sess] \in Nat,
         \A x \in Run : /\ runs'[x].of = runs[x].of /\ runs'[x].tok = runs[x].tok
                        /\ Active(x)' => Active(x) /\ x # refreshing
  PROVE  CallsInv'
<1> SUFFICES ASSUME NEW c \in Call PROVE CallInv(c)' BY DEF CallsInv
<1>1. CallInv(c) /\ calls'[c] = calls[c] /\ calls[c] \in CallState
  BY DEF CallsInv, CallsType
<1>2. ASSUME calls[c].pc \in {"after", "await"}
      PROVE  /\ calls[c].run \in Run
             /\ runs'[calls[c].run].of = sess /\ runs'[calls[c].run].tok = runs[calls[c].run].tok /\ ~Active(calls[c].run)'
  <2>1. calls[c].run \in Run BY <1>1, <1>2 DEF CallInv
  <2>2. QED BY <1>1, <1>2, <2>1 DEF CallInv
<1>3. calls[c].pc = "sent" => calls[c].tok \in 1..held'[sess]
  BY <1>1 DEF CallInv, CallState
<1>4. ASSUME calls[c].pc \in {"after", "await"}
      PROVE  /\ calls'[c].run \in Run /\ calls'[c].run <= begun'
             /\ runs'[calls'[c].run].of = sess' /\ ~Active(calls[c].run)'
  BY <1>1, <1>2, <1>4 DEF CallInv
<1>5. ~calls[c].session /\ calls[c].pc = "await" => calls'[c].refused <= runs'[calls'[c].run].tok
  <2> SUFFICES ASSUME ~calls[c].session, calls[c].pc = "await"
               PROVE  calls'[c].refused <= runs'[calls'[c].run].tok
    OBVIOUS
  <2>1. calls[c].refused <= runs[calls[c].run].tok BY <1>1 DEF CallInv
  <2>2. QED BY <1>1, <1>2, <2>1
<1>6. UNCHANGED <<begun, sess>> OBVIOUS
<1>7. QED BY <1>1, <1>3, <1>4, <1>5, <1>6 DEF CallInv

LEMMA RunEnds ==
  ASSUME IInv, NEW r \in Run, RunOk(r) \/ RunRefused(r) \/ RunClientError(r) \/ (RunFails(r) /\ runs[r].attempt # 1)
  PROVE  IInv'
<1> USE DEF storage, server
<1>0. PageType /\ CoreType /\ CallsType /\ PageInv /\ ChatInv /\ CoreInv /\ CallsInv
  BY TypeParts DEF IInv
<1>1. PICK phase, got : Settled(r, phase, got) /\ Ends(r, phase, got)
  <2>1. CASE RunOk(r) BY <2>1 DEF RunOk, Ends
  <2>2. CASE RunRefused(r) BY <2>2 DEF RunRefused, Ends
  <2>3. CASE RunClientError(r) BY <2>3 DEF RunClientError, Ends
  <2>4. CASE RunFails(r) /\ runs[r].attempt # 1 BY <2>4 DEF RunFails, Ends
  <2>5. QED BY <2>1, <2>2, <2>3, <2>4
<1>2. Waiting(r) /\ StopWaiting(r) /\ UNCHANGED <<begun, sess, auth, reused, user, calls>>
  BY DEF RunOk, RunRefused, RunClientError, RunFails, SignInAgain
<1>3. Active(r) /\ page \in Live BY <1>2 DEF Active, Waiting
<1>4. r = refreshing /\ sess \in SignIn /\ held[sess] \in Nat /\ held[sess] > 0 /\ sess # 0
  BY <1>0, <1>3, ActiveRun DEF PageInv
<1>5. /\ CoreType' /\ CoreInv' /\ refreshing' = 0
      /\ held'[sess] >= held[sess] /\ held'[sess] \in Nat
      /\ \A x \in Run : runs'[x].of = runs[x].of /\ runs'[x].tok = runs[x].tok /\ (Active(x)' => Active(x) /\ x # r)
  BY <1>0, <1>1, <1>2, SettledCore
<1>6. CallsInv'
  BY <1>0, <1>2, <1>4, <1>5, CallsKept
<1>7. CallsType' BY <1>0, <1>2 DEF CallsType
<1>8. PageType' /\ ChatInv' /\ page' \in Live
  <2>1. CASE RunRefused(r)
    <3>1. SignInAgain /\ expired' \in BOOLEAN BY <1>0, <2>1 DEF RunRefused, PageType
    <3>2. QED BY <1>0, <1>3, <3>1, SignInAgainKeeps
  <2>2. CASE ~RunRefused(r)
    <3>1. UNCHANGED <<page, chat, mark, leave, sess, user>> /\ kept' \in BOOLEAN /\ expired' \in BOOLEAN
      BY <1>0, <2>2 DEF RunOk, RunClientError, RunFails, PageType
    <3>2. QED BY <1>0, <1>3, <3>1 DEF PageType, ChatInv
  <2>3. QED BY <2>1, <2>2
<1>9. PageInv' BY <1>2, <1>4, <1>5, <1>8 DEF PageInv
<1>10. QED BY <1>5, <1>6, <1>7, <1>8, <1>9, TypeParts DEF IInv

\* The run goes on: it pauses after the first failure, and repeats its request after the pause.
Continued(r, phase, attempt, q, to) ==
  /\ runs[r].attempt = 1
  /\ \/ phase = "pause" /\ attempt = 1 /\ q = <<r, 1>> /\ runs[r].phase = "sent"
        /\ to = (IF wire[q].at \in {"way", "loaded"} THEN wire[q] ELSE NoRequest)
        /\ runs' = [runs EXCEPT ![r].phase = "pause"]
     \/ phase = "sent" /\ attempt = 2 /\ q = <<r, 2>> /\ runs[r].phase = "pause"
        /\ to = [at |-> "way", n |-> 0]
        /\ runs' = [runs EXCEPT ![r].phase = "sent", ![r].attempt = 2]
  /\ wire' = [wire EXCEPT ![q] = to]

LEMMA ContinuedCore ==
  ASSUME CoreType, PageInv, CoreInv, NEW r \in Run, Active(r), NEW phase, NEW attempt, NEW q, NEW to,
         Continued(r, phase, attempt, q, to),
         UNCHANGED <<refreshing, begun, held, sess, auth, reused, lossy>>
  PROVE  /\ CoreType' /\ CoreInv'
         /\ \A x \in Run : runs'[x].of = runs[x].of /\ runs'[x].tok = runs[x].tok /\ (Active(x)' <=> Active(x))
<1> DEFINE s == sess
<1>1. /\ r = refreshing /\ r = begun /\ s \in SignIn /\ runs[r].of = s /\ runs[r].tok = held[s]
      /\ held[s] \in Nat /\ auth[s].cur \in Nat /\ held[s] <= auth[s].cur /\ runs[r].attempt = 1
  BY ActiveRun DEF Continued
<1>2. RunInv(r) /\ WireInv(r, 1) /\ WireInv(r, 2) BY DEF CoreInv
<1>3. NoRequest \in Request /\ [at |-> "way", n |-> 0] \in Request /\ wire \in [Run \X Attempt -> Request]
      /\ runs \in [Run -> RunState]
  BY DEF NoRequest, Request, CoreType
<1>4. /\ q \in {<<r, 1>>, <<r, 2>>} /\ to \in Request /\ phase \in {"pause", "sent"} /\ attempt \in Attempt
      /\ phase = "pause" => attempt = 1
  BY <1>3 DEF Continued
<1>14. \A x \in Run, b \in Attempt : x # r => <<x, b>> # q
  BY <1>4
<1>5. /\ runs'[r].phase = phase /\ runs'[r].attempt = attempt /\ runs'[r].of = s
      /\ runs'[r].tok = held[s] /\ runs'[r].got = runs[r].got
      /\ \A x \in Run : x # r => runs'[x] = runs[x]
      /\ runs' \in [Run -> RunState]
  <2>1. CASE runs' = [runs EXCEPT ![r].phase = "pause"] /\ phase = "pause" /\ attempt = 1
    BY <1>1, <1>3, <2>1 DEF RunState
  <2>2. CASE runs' = [runs EXCEPT ![r].phase = "sent", ![r].attempt = 2] /\ phase = "sent" /\ attempt = 2
    BY <1>1, <1>3, <2>2, SMTT(20) DEF RunState
  <2>3. QED BY <2>1, <2>2 DEF Continued
<1>6. /\ wire'[q] = to
      /\ \A x \in Run, b \in Attempt : <<x, b>> # q => wire'[<<x, b>>] = wire[<<x, b>>]
      /\ wire' \in [Run \X Attempt -> Request]
  BY <1>3, <1>4 DEF Continued
<1>7. CoreType' BY <1>5, <1>6 DEF CoreType
<1>8. \A x \in Run : runs'[x].of = runs[x].of /\ runs'[x].tok = runs[x].tok /\ (Active(x)' <=> Active(x))
  BY <1>1, <1>4, <1>5 DEF Active
<1>9. ASSUME NEW x \in Run PROVE RunInv(x)'
  <2>1. RunInv(x) BY DEF CoreInv
  <2>2. CASE x # r
    <3>1. wire'[<<x, 1>>] = wire[<<x, 1>>] /\ wire'[<<x, 2>>] = wire[<<x, 2>>] BY <1>4, <1>6, <2>2
    <3>2. QED BY <1>5, <1>8, <2>1, <2>2, <3>1 DEF RunInv
  <2>3. CASE x = r
    <3>1. attempt = 1 => wire'[<<r, 2>>] = NoRequest
      BY <1>1, <1>2, <1>6 DEF RunInv, Continued
    <3>2. QED BY <1>1, <1>2, <1>4, <1>5, <2>3, <3>1 DEF RunInv
  <2>4. QED BY <2>2, <2>3
<1>10. ASSUME NEW x \in Run, NEW b \in Attempt PROVE WireInv(x, b)'
  <2>1. WireInv(x, b) BY DEF CoreInv
  <2>2. UNCHANGED auth /\ runs'[x].of = runs[x].of /\ runs'[x].tok = runs[x].tok BY <1>8
  <2>3. CASE <<x, b>> = q
    <3>1. x = r /\ wire'[<<x, b>>] = to BY <1>4, <1>6, <2>3
    <3>2. to.at \in {"none", "way", "loaded"} /\ (to.at = "loaded" => wire[<<x, b>>] = to)
      BY <2>3 DEF Continued, NoRequest
    <3>3. QED BY <1>1, <2>1, <2>2, <3>1, <3>2 DEF WireInv
  <2>4. CASE x # r
    <3>1. wire'[<<x, b>>] = wire[<<x, b>>] /\ runs'[x] = runs[x] BY <1>14, <1>5, <1>6, <2>4
    <3>2. QED BY <2>1, <2>2, <3>1 DEF WireInv
  <2>5. CASE x = r /\ <<x, b>> # q
    <3>1. wire'[<<x, b>>] = wire[<<x, b>>] BY <1>6, <2>5
    <3>2. wire[<<x, b>>].at \notin {"ok", "refused"}
      BY <1>1, <2>1, <2>5 DEF WireInv, Continued
    <3>3. QED BY <2>1, <2>2, <3>1, <3>2 DEF WireInv
  <2>6. QED BY <2>3, <2>4, <2>5
<1>11. ASSUME NEW t \in SignIn PROVE ExactInv(t)'
  <2>1. ExactInv(t) BY DEF CoreInv
  <2>2. ASSUME NEW x \in Run, NEW b \in Attempt, x # r PROVE Pending(<<x, b>>)' <=> Pending(<<x, b>>)
    <3>1. wire'[<<x, b>>] = wire[<<x, b>>] BY <1>14, <1>6, <2>2
    <3>2. QED BY <3>1 DEF Pending
  <2>3. QED BY <1>1, <1>8, <2>1, <2>2 DEF ExactInv
<1>12. SharedInv'
  <2> SUFFICES ASSUME ~lossy[s] PROVE SharedInv' BY DEF SharedInv
  <2>1. SharedInv /\ refreshing # 0 BY <1>1 DEF CoreInv
  <2>2. CASE attempt = 1
    <3>1. /\ Pending(<<r, 1>>)' <=> Pending(<<r, 1>>)
          /\ Pending(<<r, 2>>)' <=> Pending(<<r, 2>>)
          /\ wire'[<<r, 1>>].at \notin {"ok", "refused"}
      BY <1>6, <2>2 DEF Continued, Pending, NoRequest
    <3>2. QED BY <1>1, <1>5, <2>1, <2>2, <3>1 DEF SharedInv
  <2>3. CASE attempt = 2
    <3>1. Pending(<<r, 1>>)' <=> Pending(<<r, 1>>)
      BY <1>6, <2>3 DEF Continued, Pending
    <3>2. auth[s].cur <= held[s] + 1
      BY <1>1, <2>1 DEF SharedInv
    <3>3. QED BY <1>1, <1>5, <2>1, <2>3, <3>1, <3>2 DEF SharedInv
  <2>4. QED BY <1>4, <2>2, <2>3
<1>13. QED BY <1>7, <1>8, <1>9, <1>10, <1>11, <1>12 DEF CoreInv

LEMMA RunSteps ==
  ASSUME IInv, NEW r \in Run, RunStep(r)
  PROVE  IInv'
<1> USE DEF storage, server
<1>0. PageType /\ CoreType /\ CallsType /\ PageInv /\ ChatInv /\ CoreInv /\ CallsInv
  BY TypeParts DEF IInv
<1>1. ASSUME NEW phase, NEW attempt, NEW q, NEW to, Continued(r, phase, attempt, q, to), Active(r),
             UNCHANGED <<page, kept, expired, calls, storage, refreshing, begun, held, server, lossy>>
      PROVE  IInv'
  <2>1. /\ CoreType' /\ CoreInv'
        /\ \A x \in Run : runs'[x].of = runs[x].of /\ runs'[x].tok = runs[x].tok /\ (Active(x)' <=> Active(x))
    BY <1>0, <1>1, ContinuedCore
  <2>2. PageType' /\ ChatInv' /\ CallsType' BY <1>0, <1>1 DEF PageType, ChatInv, CallsType
  <2>3. PageInv' BY <1>0, <1>1, <2>1 DEF PageInv, CoreType
  <2>4. ASSUME NEW c \in Call PROVE CallInv(c)'
    <3>1. CallInv(c) BY <1>0 DEF CallsInv
    <3>2. calls[c].run \in Run => runs'[calls[c].run].of = runs[calls[c].run].of
                                  /\ runs'[calls[c].run].tok = runs[calls[c].run].tok
                                  /\ (Active(calls[c].run)' <=> Active(calls[c].run))
      BY <1>1, <2>1
    <3>3. UNCHANGED <<calls, begun, sess, held, refreshing>> BY <1>1
    <3>4. QED BY <3>1, <3>2, <3>3 DEF CallInv
  <2>5. QED BY <2>1, <2>2, <2>3, <2>4, TypeParts DEF IInv, CallsInv
<1>2. CASE RunRepeat(r)
  <2>1. Active(r) /\ runs[r].phase = "pause" BY <1>2 DEF RunRepeat, Active
  <2>2. runs[r].attempt = 1 BY <1>0, <2>1 DEF CoreInv, RunInv
  <2>3. QED BY <1>1, <1>2, <2>1, <2>2 DEF RunRepeat, Continued
<1>3. CASE RunFails(r) /\ runs[r].attempt = 1
  <2> DEFINE to == IF wire[<<r, 1>>].at \in {"way", "loaded"} THEN wire[<<r, 1>>] ELSE NoRequest
  <2>1. Active(r) /\ runs[r].phase = "sent" BY <1>3 DEF RunFails, Waiting, Active
  <2>2. /\ wire' = [wire EXCEPT ![<<r, 1>>] = to]
        /\ runs' = [runs EXCEPT ![r].phase = "pause"]
        /\ UNCHANGED <<page, kept, expired, calls, storage, refreshing, begun, held, server, lossy>>
    BY <1>3 DEF RunFails, StopWaiting, Current
  <2>3. Continued(r, "pause", 1, <<r, 1>>, to) BY <1>3, <2>1, <2>2 DEF Continued
  <2>4. QED BY <1>1, <2>1, <2>2, <2>3
<1>4. QED BY <1>2, <1>3, RunEnds DEF RunStep

-----------------------------------------------------------------------------
(* The steps of the server.                                                *)

\* The sign-in of a pending request; when it lost no answer, the request is of the active run.
LEMMA PendingRequest ==
  ASSUME CoreType, PageInv, CoreInv, NEW r \in Run, NEW a \in Attempt, Pending(<<r, a>>)
  PROVE  /\ runs[r].of \in SignIn /\ runs[r].of <= sess /\ runs[r].tok \in Nat
         /\ auth[runs[r].of] \in Authorization
         /\ ~lossy[runs[r].of] => /\ r = refreshing /\ Active(r) /\ refreshing # 0
                                  /\ runs[r].of = sess /\ runs[r].tok = held[sess]
<1>1. RunInv(r) /\ WireInv(r, a) /\ runs[r] \in RunState BY DEF CoreInv, CoreType
<1>2. runs[r].of \in SignIn /\ runs[r].of <= sess /\ runs[r].tok \in Nat
  BY <1>1 DEF WireInv, Pending, RunState, RunInv
<1>3. auth[runs[r].of] \in Authorization /\ ExactInv(runs[r].of) BY <1>2 DEF CoreType, CoreInv
<1>4. ASSUME ~lossy[runs[r].of]
      PROVE  r = refreshing /\ Active(r) /\ refreshing # 0 /\ runs[r].of = sess /\ runs[r].tok = held[sess]
  <2>1. r = refreshing BY <1>2, <1>3, <1>4 DEF ExactInv
  <2>2. Active(r) BY <2>1 DEF PageInv
  <2>3. QED BY <1>1, <2>1, <2>2 DEF RunInv
<1>5. QED BY <1>2, <1>3, <1>4

\* What the server makes of a pending request: a refusal of an authorization that ended, an answer that rotates the
\* pair, or no change of it.
Served(r, a, to, cell) ==
  LET was == auth[runs[r].of]
  IN /\ to \in Request /\ cell \in Authorization
     /\ (cell.alive => was.alive)
     /\ to.at \in {"ok", "refused"} => runs[r].phase = "sent" /\ runs[r].attempt = a
     /\ \/ /\ cell.cur = was.cur /\ cell.grace = was.grace
           /\ to.at # "ok"
           /\ to.at = "loaded" => to.n <= cell.cur
           /\ to.at = "refused" => ~cell.alive
        \/ /\ cell.cur = was.cur + 1 /\ cell.grace
           /\ to.at \in {"none", "ok"}
           /\ to.at = "ok" => to.n = cell.cur

LEMMA ServedCore ==
  ASSUME CoreType, PageInv, CoreInv, NEW r \in Run, NEW a \in Attempt, Pending(<<r, a>>),
         NEW to, NEW cell, Served(r, a, to, cell),
         wire' = [wire EXCEPT ![<<r, a>>] = to],
         auth' \in [SignIn -> Authorization], auth'[runs[r].of] = cell,
         \A t \in SignIn : t # runs[r].of => auth'[t] = auth[t] /\ reused'[t] = reused[t],
         reused' \in [SignIn -> BOOLEAN], reused'[runs[r].of] => lossy[runs[r].of],
         UNCHANGED <<refreshing, begun, runs, held, sess, lossy>>
  PROVE  CoreType' /\ CoreInv'
<1> DEFINE s == runs[r].of
           q == <<r, a>>
<1>1. /\ s \in SignIn /\ s <= sess /\ runs[r].tok \in Nat /\ auth[s] \in Authorization
      /\ ~lossy[s] => r = refreshing /\ Active(r) /\ refreshing # 0 /\ s = sess /\ runs[r].tok = held[sess]
  BY PendingRequest
<1>2. to \in Request /\ cell \in Authorization BY DEF Served
<1>3. /\ wire'[q] = to
      /\ \A x \in Run, b \in Attempt : <<x, b>> # q => wire'[<<x, b>>] = wire[<<x, b>>]
      /\ wire' \in [Run \X Attempt -> Request]
  BY <1>2 DEF CoreType
<1>4. auth[s].cur \in Nat /\ cell.cur \in Nat /\ cell.cur >= auth[s].cur /\ (cell.alive => auth[s].alive)
  BY <1>1, <1>2 DEF Served, Authorization
<1>5. CoreType' BY <1>3 DEF CoreType
<1>6. RunInv(r) /\ (r <= begun) /\ begun \in Nat
  <2>1. RunInv(r) /\ begun \in Nat BY DEF CoreInv, CoreType
  <2>2. runs[r].phase # "unused"
    <3>1. CASE a = 1 BY <2>1, <3>1 DEF RunInv, Pending, NoRequest
    <3>2. CASE a = 2 BY <2>1, <3>2 DEF RunInv, Pending, NoRequest
    <3>3. QED BY <3>1, <3>2
  <2>3. QED BY <2>1, <2>2 DEF RunInv
<1>7. ASSUME NEW x \in Run PROVE RunInv(x)'
  <2>1. RunInv(x) BY DEF CoreInv
  <2>2. x # r => wire'[<<x, 1>>] = wire[<<x, 1>>] /\ wire'[<<x, 2>>] = wire[<<x, 2>>]
    <3> SUFFICES ASSUME x # r PROVE wire'[<<x, 1>>] = wire[<<x, 1>>] /\ wire'[<<x, 2>>] = wire[<<x, 2>>] OBVIOUS
    <3>1. <<x, 1>> # q /\ <<x, 2>> # q OBVIOUS
    <3>2. QED BY <1>3, <3>1
  <2>3. x = r /\ runs[r].attempt = 1 => wire'[<<x, 2>>] = NoRequest
    <3> SUFFICES ASSUME x = r, runs[r].attempt = 1 PROVE wire'[<<x, 2>>] = NoRequest OBVIOUS
    <3>1. wire[<<r, 2>>] = NoRequest BY <1>6 DEF RunInv
    <3>2. a # 2
      <4> SUFFICES ASSUME a = 2 PROVE FALSE OBVIOUS
      <4>1. wire[<<r, a>>] = NoRequest BY <3>1
      <4>2. QED BY <4>1 DEF Pending, NoRequest
    <3>3. <<r, 2>> # q BY <3>2
    <3>4. QED BY <1>3, <3>1, <3>3
  <2>4. x = r => runs[x].phase # "unused" BY <1>6 DEF RunInv
  <2>5. CASE x = r
    <3>1. UNCHANGED <<runs, begun, sess, refreshing, held>> OBVIOUS
    <3>2. QED BY <2>1, <2>3, <2>4, <2>5, <3>1 DEF RunInv, Active
  <2>6. CASE x # r BY <2>1, <2>2, <2>6 DEF RunInv, Active
  <2>7. QED BY <2>5, <2>6
<1>8. ASSUME NEW x \in Run, NEW b \in Attempt PROVE WireInv(x, b)'
  <2>1. WireInv(x, b) /\ WireInv(r, a) /\ runs[x] \in RunState BY DEF CoreInv, CoreType
  <2>2. CASE <<x, b>> = q
    <3>1. x = r /\ b = a /\ wire'[<<x, b>>] = to BY <1>3, <2>2
    <3>2. s # 0 /\ runs[r].tok <= auth[s].cur BY <2>1 DEF WireInv, Pending
    <3>3. runs[r].tok <= cell.cur BY <1>1, <1>4, <3>2
    <3>4. to.at = "ok" => to.n > runs[r].tok /\ to.n <= cell.cur
      <4>1. to.at = "ok" => to.n = cell.cur /\ cell.cur = auth[s].cur + 1 BY DEF Served
      <4>2. QED BY <1>1, <1>4, <3>2, <4>1
    <3>5. /\ to.at = "refused" => ~cell.alive
          /\ to.at = "loaded" => to.n <= cell.cur
          /\ to.at \in {"ok", "refused"} => runs[r].phase = "sent" /\ runs[r].attempt = a
      BY DEF Served
    <3>6. UNCHANGED runs OBVIOUS
    <3>7. QED BY <3>1, <3>2, <3>3, <3>4, <3>5, <3>6 DEF WireInv
  <2>3. CASE <<x, b>> # q
    <3>1. wire'[<<x, b>>] = wire[<<x, b>>] /\ UNCHANGED runs BY <1>3, <2>3
    <3>2. CASE wire[<<x, b>>].at = "none" BY <3>1, <3>2 DEF WireInv
    <3>3. CASE wire[<<x, b>>].at # "none"
      <4>1. runs[x].of \in SignIn /\ runs[x].tok \in Nat /\ wire[<<x, b>>].n \in Nat
        <5>1. runs[x].of \in 0..MaxSignIns /\ runs[x].tok \in Nat /\ wire[<<x, b>>] \in Request
          BY <2>1 DEF RunState, CoreType
        <5>2. runs[x].of # 0 BY <2>1, <3>3 DEF WireInv
        <5>3. QED BY <5>1, <5>2 DEF Request
      <4>2. /\ auth[runs[x].of].cur \in Nat /\ auth'[runs[x].of].cur \in Nat
            /\ auth'[runs[x].of].cur >= auth[runs[x].of].cur
            /\ (auth'[runs[x].of].alive => auth[runs[x].of].alive)
        <5>1. CASE runs[x].of = s BY <1>4, <5>1
        <5>2. CASE runs[x].of # s
          <6>1. auth'[runs[x].of] = auth[runs[x].of] /\ auth[runs[x].of] \in Authorization
            BY <4>1, <5>2 DEF CoreType
          <6>2. QED BY <6>1 DEF Authorization
        <5>3. QED BY <5>1, <5>2
      <4>3. QED BY <2>1, <3>1, <3>3, <4>1, <4>2, SMTT(20) DEF WireInv
    <3>4. QED BY <3>2, <3>3
  <2>4. QED BY <2>2, <2>3
<1>9. ASSUME NEW x \in Run, NEW b \in Attempt PROVE Pending(<<x, b>>)' => Pending(<<x, b>>)
  <2>1. CASE <<x, b>> = q BY <2>1
  <2>2. CASE <<x, b>> # q BY <1>3, <2>2 DEF Pending
  <2>3. QED BY <2>1, <2>2
<1>10. ASSUME NEW t \in SignIn PROVE ExactInv(t)'
  <2>1. ExactInv(t) /\ held[t] \in Nat BY DEF CoreInv, CoreType
  <2>2. UNCHANGED <<refreshing, runs, held, sess, lossy>> OBVIOUS
  <2>3. CASE t # s
    <3>1. auth'[t] = auth[t] /\ reused'[t] = reused[t] BY <2>3
    <3>2. QED BY <1>9, <2>1, <2>2, <3>1 DEF ExactInv
  <2>4. CASE t = s
    <3>1. held[t] <= auth'[t].cur BY <1>1, <1>4, <2>1, <2>4 DEF ExactInv
    <3>2. reused'[t] => lossy'[t] BY <2>2, <2>4
    <3>3. ~lossy[t] => ~(refreshing = 0 \/ runs[refreshing].of # t) BY <1>1, <2>4
    <3>4. ~lossy[t] => \A x \in Run, b \in Attempt : (runs[x].of = t /\ Pending(<<x, b>>))' => x = refreshing'
      BY <1>1, <1>9, <2>1, <2>2, <2>4 DEF ExactInv
    <3>5. ~(t > sess) BY <1>1, <2>4 DEF CoreType
    <3>6. QED BY <2>2, <3>1, <3>2, <3>3, <3>4, <3>5 DEF ExactInv
  <2>5. QED BY <2>3, <2>4
<1>11. SharedInv'
  <2> SUFFICES ASSUME refreshing # 0, ~lossy[sess] PROVE SharedInv' BY DEF SharedInv
  <2>1. SharedInv /\ refreshing \in Run /\ Active(refreshing) BY DEF CoreInv, CoreType, PageInv
  <2>2. runs[refreshing].of = sess /\ sess \in SignIn BY <2>1, ActiveRun
  <2>3. held[sess] \in Nat /\ auth[sess].cur \in Nat BY <2>2 DEF CoreType, Authorization
  <2>4. UNCHANGED <<refreshing, runs, held, sess, lossy>> OBVIOUS
  <2>5. CASE s # sess
    <3>1. r # refreshing BY <2>2, <2>5
    <3>2. <<refreshing, 1>> # q /\ <<refreshing, 2>> # q BY <3>1
    <3>3. wire'[<<refreshing, 1>>] = wire[<<refreshing, 1>>] /\ wire'[<<refreshing, 2>>] = wire[<<refreshing, 2>>]
      BY <1>3, <2>1, <3>2
    <3>4. auth'[sess] = auth[sess] BY <2>2, <2>5
    <3>5. QED BY <2>1, <2>4, <3>3, <3>4 DEF SharedInv, Pending
  <2>6. CASE s = sess
    <3>1. r = refreshing BY <1>1, <2>6
    <3>2. auth'[sess] = cell BY <2>6
    <3>3. CASE a = 1
      <4>1. wire'[<<r, 1>>] = to /\ wire'[<<r, 2>>] = wire[<<r, 2>>] BY <1>3, <3>3
      <4>2. /\ Pending(<<r, 1>>) /\ (Pending(<<r, 1>>)' <=> to.at \in {"way", "loaded"})
            /\ (Pending(<<r, 2>>)' <=> Pending(<<r, 2>>))
        BY <3>3, <4>1 DEF Pending, Served
      <4>3. runs[r].attempt = 1 => ~Pending(<<r, 2>>) BY <1>6 DEF RunInv, Pending, NoRequest
      <4>4. \/ /\ cell.cur = auth[sess].cur /\ (auth[sess].grace => cell.grace)
               /\ to.at # "ok"
            \/ /\ cell.cur = auth[sess].cur + 1 /\ cell.grace /\ to.at \in {"none", "ok"}
               /\ to.at = "ok" => to.n = cell.cur
        BY <2>6 DEF Served
      <4>5. /\ auth[sess].cur \in {held[sess], held[sess] + 1}
            /\ auth[sess].cur > held[sess] => auth[sess].grace /\ ~Pending(<<r, 2>>) /\ runs[r].attempt # 1
        <5>1. held[sess] <= auth[sess].cur BY <2>1, ActiveRun
        <5>2. /\ auth[sess].cur <= held[sess] + 2
              /\ auth[sess].cur > held[sess] => auth[sess].grace /\ ~(Pending(<<r, 1>>) /\ Pending(<<r, 2>>))
              /\ auth[sess].cur = held[sess] + 2 => ~Pending(<<r, 1>>)
              /\ runs[r].attempt = 1 /\ auth[sess].cur = held[sess] + 1 => ~Pending(<<r, 1>>)
          BY <2>1, <3>1 DEF SharedInv
        <5>3. auth[sess].cur # held[sess] + 2 /\ auth[sess].cur <= held[sess] + 2 BY <4>2, <5>2
        <5>4. auth[sess].cur \in {held[sess], held[sess] + 1}
          <6>1. PICK h \in Nat, k \in Nat : h = held[sess] /\ k = auth[sess].cur BY <2>3
          <6>2. h <= k /\ k <= h + 2 /\ k # h + 2 BY <5>1, <5>3, <6>1
          <6>3. k = h \/ k = h + 1 BY <6>2
          <6>4. QED BY <6>1, <6>3
        <5>5. QED BY <2>3, <4>2, <5>2, <5>4
      <4>6. /\ cell.cur <= held[sess] + 2
            /\ cell.cur > held[sess] => cell.grace
            /\ cell.cur > held[sess] => to.at \notin {"way", "loaded"} \/ ~Pending(<<r, 2>>)
            /\ cell.cur = held[sess] + 2 => to.at \notin {"way", "loaded"} /\ ~Pending(<<r, 2>>) /\ runs[r].attempt # 1
            /\ runs[r].attempt = 1 /\ cell.cur = held[sess] + 1 => to.at \notin {"way", "loaded"}
            /\ runs[r].attempt = 1 /\ to.at = "ok" => to.n = cell.cur
            /\ runs[r].attempt = 1 /\ to.at = "refused" => cell.cur = held[sess]
        BY <2>3, <4>4, <4>5, SMTT(20)
      <4>7. runs'[refreshing'].attempt = runs[r].attempt /\ auth'[sess'].cur = cell.cur /\ held'[sess'] = held[sess]
            /\ (auth'[sess'].grace <=> cell.grace) /\ runs[r].attempt \in Attempt
        BY <2>4, <3>1, <3>2 DEF CoreType, RunState
      <4>8. QED BY <2>4, <3>1, <4>1, <4>2, <4>6, <4>7 DEF SharedInv
    <3>4. CASE a = 2
      <4>1. wire'[<<r, 2>>] = to /\ wire'[<<r, 1>>] = wire[<<r, 1>>] BY <1>3, <3>4
      <4>2. /\ Pending(<<r, 2>>) /\ (Pending(<<r, 2>>)' <=> to.at \in {"way", "loaded"})
            /\ (Pending(<<r, 1>>)' <=> Pending(<<r, 1>>))
        BY <3>4, <4>1 DEF Pending, Served
      <4>3. runs[r].attempt = 2
        <5>1. runs[r].attempt # 1 BY <1>6, <4>2 DEF RunInv, Pending, NoRequest
        <5>2. runs[r] \in RunState BY DEF CoreType
        <5>3. QED BY <5>1, <5>2 DEF RunState
      <4>4. \/ cell.cur = auth[sess].cur /\ (auth[sess].grace => cell.grace)
            \/ cell.cur = auth[sess].cur + 1 /\ cell.grace /\ to.at \notin {"way", "loaded"}
        BY <2>6 DEF Served
      <4>5. /\ auth[sess].cur <= held[sess] + 2
            /\ auth[sess].cur > held[sess] => auth[sess].grace /\ ~Pending(<<r, 1>>)
            /\ auth[sess].cur # held[sess] + 2
        BY <2>1, <3>1, <4>2 DEF SharedInv
      <4>6. /\ cell.cur <= held[sess] + 2
            /\ cell.cur > held[sess] => cell.grace
        BY <2>3, <4>4, <4>5
      <4>7. cell.cur = held[sess] + 2 => to.at \notin {"way", "loaded"} /\ ~Pending(<<r, 1>>)
        BY <2>3, <4>4, <4>5
      <4>8. cell.cur > held[sess] => to.at \notin {"way", "loaded"} \/ ~Pending(<<r, 1>>)
        BY <2>3, <4>4, <4>5
      <4>9. runs'[refreshing'].attempt = 2 /\ auth'[sess'].cur = cell.cur /\ held'[sess'] = held[sess]
            /\ (auth'[sess'].grace <=> cell.grace)
        BY <2>4, <3>1, <3>2, <4>3
      <4>10. QED BY <2>4, <3>1, <3>2, <4>2, <4>6, <4>7, <4>8, <4>9 DEF SharedInv
    <3>5. QED BY <3>3, <3>4
  <2>7. QED BY <2>5, <2>6
<1>12. QED BY <1>5, <1>7, <1>8, <1>10, <1>11 DEF CoreInv

LEMMA ServerSteps ==
  ASSUME IInv, NEW r \in Run, NEW a \in Attempt, ServerStep(<<r, a>>)
  PROVE  IInv'
<1> USE DEF storage, client, server
<1> DEFINE q == <<r, a>>
           s == runs[r].of
           t == runs[r].tok
<1>0. PageType /\ CoreType /\ CallsType /\ PageInv /\ ChatInv /\ CoreInv /\ CallsInv
  BY TypeParts DEF IInv
<1>1. UNCHANGED <<client, storage, lossy>>
  BY DEF ServerStep, Load, Save, Refuse, Drop
<1>2. Pending(q)
  BY DEF ServerStep, Load, Save, Refuse, Drop, Pending
<1>3. /\ s \in SignIn /\ s <= sess /\ t \in Nat /\ auth[s] \in Authorization
      /\ ~lossy[s] => r = refreshing /\ Active(r) /\ refreshing # 0 /\ s = sess /\ t = held[sess]
  BY <1>0, <1>2, PendingRequest
<1>4. auth \in [SignIn -> Authorization] /\ reused \in [SignIn -> BOOLEAN] /\ ExactInv(s)
      /\ auth[s].cur \in Nat /\ auth[s].alive \in BOOLEAN /\ wire[q] \in Request
  BY <1>0, <1>3 DEF CoreType, CoreInv, Authorization
<1>5. ASSUME CoreInv', CoreType' PROVE IInv'
  <2>1. PageType' /\ PageInv' /\ ChatInv' /\ CallsType'
    BY <1>0, <1>1 DEF PageType, PageInv, ChatInv, CallsType, Active
  <2>2. CallsInv' BY <1>0, <1>1, CallsStutter
  <2>3. QED BY <1>5, <2>1, <2>2, TypeParts DEF IInv
<1>6. UNCHANGED <<refreshing, begun, runs, held, sess, lossy>> BY <1>1
<1>7. ASSUME NEW at, NEW n, at \in {"ok", "refused"}, n \in Nat
      PROVE  /\ Reply(q, at, n) \in Request
             /\ Reply(q, at, n).at \in {"none", at}
             /\ Reply(q, at, n).at # "none" => Reply(q, at, n).n = n /\ runs[r].phase = "sent" /\ runs[r].attempt = a
  BY <1>7 DEF Reply, Request, NoRequest
<1>8. CASE Load(q)
  <2> DEFINE known == t = auth[s].cur \/ (t + 1 = auth[s].cur /\ auth[s].grace)
             to == IF auth[s].alive /\ known THEN [at |-> "loaded", n |-> auth[s].cur] ELSE Reply(q, "refused", 0)
             cell == [auth[s] EXCEPT !.alive = auth[s].alive /\ known]
  <2>1. /\ wire' = [wire EXCEPT ![q] = to]
        /\ auth' = [auth EXCEPT ![s] = cell]
        /\ reused' = [reused EXCEPT ![s] = reused[s] \/ (auth[s].alive /\ ~known)]
    BY <1>8 DEF Load
  <2>2. cell \in Authorization /\ cell.cur = auth[s].cur /\ cell.grace = auth[s].grace
        /\ (cell.alive <=> (auth[s].alive /\ known))
    BY <1>3 DEF Authorization
  <2>3. to \in Request /\ to.at \in {"none", "loaded", "refused"}
        /\ (to.at = "loaded" => to.n = auth[s].cur)
        /\ (to.at = "refused" => ~(auth[s].alive /\ known) /\ runs[r].phase = "sent" /\ runs[r].attempt = a)
    <3>1. CASE auth[s].alive /\ known BY <1>4, <3>1 DEF Request
    <3>2. CASE ~(auth[s].alive /\ known)
      <4>1. to = Reply(q, "refused", 0) BY <3>2
      <4>2. QED BY <1>7, <3>2, <4>1
    <3>3. QED BY <3>1, <3>2
  <2>4. Served(r, a, to, cell) BY <1>4, <2>2, <2>3, SMTT(20) DEF Served
  <2>5. ~lossy[s] => known
    <3> SUFFICES ASSUME ~lossy[s] PROVE known OBVIOUS
    <3>1. r = refreshing /\ s = sess /\ t = held[sess] /\ Active(r) /\ SharedInv /\ refreshing # 0
      BY <1>0, <1>3 DEF CoreInv
    <3>2. held[sess] <= auth[sess].cur /\ held[sess] \in Nat /\ auth[sess].cur \in Nat
      BY <1>0, <3>1, ActiveRun
    <3>3. /\ auth[sess].cur <= held[sess] + 2
          /\ auth[sess].cur > held[sess] => auth[sess].grace
          /\ auth[sess].cur = held[sess] + 2 => ~Pending(<<r, 1>>) /\ ~Pending(<<r, 2>>)
      BY <3>1 DEF SharedInv
    <3>4. auth[sess].cur # held[sess] + 2
      <4>1. CASE a = 1 BY <1>2, <3>3, <4>1
      <4>2. CASE a = 2 BY <1>2, <3>3, <4>2
      <4>3. QED BY <4>1, <4>2
    <3>5. QED BY <3>1, <3>2, <3>3, <3>4
  <2>6. reused' \in [SignIn -> BOOLEAN] /\ (reused'[s] => lossy[s])
        /\ \A x \in SignIn : x # s => reused'[x] = reused[x]
    <3>1. reused[s] => lossy[s] BY <1>4 DEF ExactInv
    <3>2. QED BY <1>3, <1>4, <2>1, <2>5, <3>1
  <2>7. auth' \in [SignIn -> Authorization] /\ auth'[s] = cell /\ \A x \in SignIn : x # s => auth'[x] = auth[x]
    BY <1>3, <1>4, <2>1, <2>2
  <2> HIDE DEF to, cell, known
  <2>8. \A x \in SignIn : x # runs[r].of => auth'[x] = auth[x] /\ reused'[x] = reused[x]
    BY <2>6, <2>7
  <2>9. auth' \in [SignIn -> Authorization] /\ auth'[runs[r].of] = cell /\ wire' = [wire EXCEPT ![<<r, a>>] = to]
    BY <2>1, <2>7
  <2>10. reused' \in [SignIn -> BOOLEAN] /\ (reused'[runs[r].of] => lossy[runs[r].of])
    BY <2>6
  <2>11. CoreType /\ PageInv /\ CoreInv BY <1>0
  <2>12. CoreType' /\ CoreInv'
    BY <1>2, <1>6, <2>4, <2>8, <2>9, <2>10, <2>11, ServedCore
  <2>13. QED BY <1>5, <2>12
<1>9. ASSUME NEW to, NEW cell, Served(r, a, to, cell), wire' = [wire EXCEPT ![q] = to],
             auth' = [auth EXCEPT ![s] = cell], UNCHANGED reused
      PROVE  IInv'
  <2>1. cell \in Authorization BY <1>9 DEF Served
  <2>2. auth' \in [SignIn -> Authorization] /\ auth'[s] = cell /\ \A x \in SignIn : x # s => auth'[x] = auth[x]
    BY <1>3, <1>4, <1>9, <2>1
  <2>3. reused' \in [SignIn -> BOOLEAN] /\ (reused'[s] => lossy[s])
        /\ \A x \in SignIn : x # s => reused'[x] = reused[x]
    BY <1>4, <1>9 DEF ExactInv
  <2>4. \A x \in SignIn : x # runs[r].of => auth'[x] = auth[x] /\ reused'[x] = reused[x]
    BY <2>2, <2>3
  <2>5. auth' \in [SignIn -> Authorization] /\ auth'[runs[r].of] = cell /\ wire' = [wire EXCEPT ![<<r, a>>] = to]
        /\ Served(r, a, to, cell)
    BY <1>9, <2>2
  <2>6. reused' \in [SignIn -> BOOLEAN] /\ (reused'[runs[r].of] => lossy[runs[r].of])
    BY <2>3
  <2>7. CoreType /\ PageInv /\ CoreInv BY <1>0
  <2>8. CoreType' /\ CoreInv'
    BY <1>2, <1>6, <2>4, <2>5, <2>6, <2>7, ServedCore
  <2>9. QED BY <1>5, <2>8
<1>10. auth = [auth EXCEPT ![s] = auth[s]]
  BY <1>4
<1>11. NoRequest \in Request /\ NoRequest.at = "none" BY DEF NoRequest, Request
<1>12. CASE Save(q)
  <2>1. CASE auth[s].alive /\ auth[s].cur = wire[q].n
    <3> DEFINE m == auth[s].cur + 1
               cell == [auth[s] EXCEPT !.cur = m, !.grace = TRUE]
               to == Reply(q, "ok", m)
    <3>1. auth' = [auth EXCEPT ![s] = cell] /\ wire' = [wire EXCEPT ![q] = to] /\ UNCHANGED reused
      BY <1>12, <2>1 DEF Save
    <3>2. cell \in Authorization /\ cell.cur = auth[s].cur + 1 /\ cell.grace /\ (cell.alive => auth[s].alive)
      <4>1. m \in Nat BY <1>4
      <4> HIDE DEF m
      <4>2. cell \in Authorization BY <1>3, <4>1 DEF Authorization
      <4>3. cell.cur = m /\ cell.grace = TRUE /\ cell.alive = auth[s].alive BY <1>3 DEF Authorization
      <4>4. QED BY <4>2, <4>3 DEF m
    <3>3. to \in Request /\ to.at \in {"none", "ok"}
          /\ (to.at = "ok" => to.n = auth[s].cur + 1 /\ runs[r].phase = "sent" /\ runs[r].attempt = a)
      BY <1>4, <1>7
    <3> HIDE DEF cell, to
    <3>4. Served(r, a, to, cell) BY <1>4, <3>2, <3>3 DEF Served
    <3>5. QED BY <1>9, <3>1, <3>4
  <2>2. CASE ~(auth[s].alive /\ auth[s].cur = wire[q].n)
    <3> DEFINE again == [at |-> "way", n |-> 0]
    <3>1. PICK to \in {again, NoRequest} : wire' = [wire EXCEPT ![q] = to] /\ auth' = auth /\ UNCHANGED reused
      BY <1>12, <2>2 DEF Save
    <3>2. to \in Request /\ to.at \in {"way", "none"} BY <1>11 DEF Request
    <3>3. Served(r, a, to, auth[s]) BY <1>4, <1>3, <3>2 DEF Served
    <3>4. QED BY <1>9, <1>10, <3>1, <3>3
  <2>3. QED BY <2>1, <2>2
<1>13. CASE Refuse(q)
  <2> DEFINE to == Reply(q, "refused", 0)
  <2>1. wire' = [wire EXCEPT ![q] = to] /\ auth' = auth /\ UNCHANGED reused /\ ~auth[s].alive
    BY <1>13 DEF Refuse
  <2>2. to \in Request /\ to.at \in {"none", "refused"}
        /\ (to.at = "refused" => runs[r].phase = "sent" /\ runs[r].attempt = a)
    BY <1>7
  <2> HIDE DEF to
  <2>3. Served(r, a, to, auth[s]) BY <1>3, <1>4, <2>1, <2>2 DEF Served
  <2>4. QED BY <1>9, <1>10, <2>1, <2>3
<1>14. CASE Drop(q)
  <2>1. wire' = [wire EXCEPT ![q] = NoRequest] /\ auth' = auth /\ UNCHANGED reused
    BY <1>14 DEF Drop
  <2>2. Served(r, a, NoRequest, auth[s]) BY <1>3, <1>4, <1>11 DEF Served
  <2>3. QED BY <1>9, <1>10, <2>1, <2>2
<1>15. QED BY <1>8, <1>12, <1>13, <1>14 DEF ServerStep

\* An authorization ends, or its grace does: a refresh that still needs it is remembered.
LEMMA AuthOnly ==
  ASSUME CoreType, PageInv, CoreInv, auth' \in [SignIn -> Authorization],
         \A t \in SignIn : /\ auth'[t].cur = auth[t].cur
                           /\ auth'[t].alive => auth[t].alive
                           /\ auth[t].grace => auth'[t].grace \/ (Outlived(t) => lossy'[t])
                           /\ lossy[t] => lossy'[t]
                           /\ lossy'[t] => lossy[t] \/ Outlived(t),
         lossy' \in [SignIn -> BOOLEAN],
         UNCHANGED <<refreshing, begun, runs, wire, held, sess, reused>>
  PROVE  CoreType' /\ CoreInv'
<1>1. CoreType' BY DEF CoreType
<1>2. ASSUME NEW r \in Run PROVE RunInv(r)'
  BY DEF CoreInv, RunInv, Active
<1>3. ASSUME NEW r \in Run, NEW a \in Attempt PROVE WireInv(r, a)'
  <2>1. WireInv(r, a) /\ runs[r] \in RunState BY DEF CoreInv, CoreType
  <2>2. runs[r].of # 0 => runs[r].of \in SignIn BY <2>1 DEF RunState
  <2>3. runs[r].of # 0 => auth'[runs[r].of].cur = auth[runs[r].of].cur
                          /\ (auth'[runs[r].of].alive => auth[runs[r].of].alive)
    BY <2>2
  <2>4. QED BY <2>1, <2>3 DEF WireInv
<1>4. ASSUME NEW t \in SignIn PROVE ExactInv(t)'
  <2>1. ExactInv(t) BY DEF CoreInv
  <2>2. t > sess => ~Outlived(t)
    <3>1. ASSUME NEW r \in Run PROVE runs[r].of <= sess /\ runs[r].of \in Nat /\ sess \in Nat
      <4>1. RunInv(r) /\ runs[r] \in RunState BY DEF CoreInv, CoreType
      <4>2. QED BY <4>1 DEF CoreType, RunInv, RunState
    <3>2. QED BY <3>1 DEF Outlived
  <2>3. QED BY <2>1, <2>2 DEF ExactInv, Pending
<1>5. SharedInv'
  <2> SUFFICES ASSUME refreshing # 0, sess \in SignIn, ~lossy'[sess] PROVE SharedInv'
    <3>1. refreshing # 0 => sess \in SignIn BY ActiveRun DEF PageInv, CoreType
    <3>2. QED BY <3>1 DEF SharedInv
  <2>1. refreshing \in Run /\ Active(refreshing) /\ SharedInv BY DEF CoreInv, CoreType, PageInv
  <2>2. runs[refreshing].of = sess /\ runs[refreshing].tok = held[sess] BY <2>1, ActiveRun DEF CoreInv, RunInv
  <2>3. auth'[sess].cur = auth[sess].cur /\ ~lossy[sess] OBVIOUS
  <2>4. auth[sess].cur > held[sess] => Outlived(sess)
    <3>1. held[sess] \in Nat /\ auth[sess].cur \in Nat BY DEF CoreType, Authorization
    <3>2. QED BY <2>1, <2>2, <3>1 DEF Outlived, Active
  <2>5. auth[sess].cur > held[sess] /\ auth[sess].grace => auth'[sess].grace BY <2>4
  <2>6. QED BY <2>1, <2>3, <2>5 DEF SharedInv, Pending
<1>6. QED BY <1>1, <1>2, <1>3, <1>4, <1>5 DEF CoreInv

LEMMA AuthOnlySteps ==
  ASSUME IInv, Revoke \/ \E s \in SignIn : GraceEnds(s) \/ Retire(s)
  PROVE  IInv'
<1> USE DEF client, storage
<1>0. PageType /\ CoreType /\ CallsType /\ PageInv /\ ChatInv /\ CoreInv /\ CallsInv
  BY TypeParts DEF IInv
<1>1. UNCHANGED <<client, chat, mark, sess, user, reused, wire>> /\ leave' \in {leave, "revoked"}
  BY DEF Revoke, GraceEnds, Retire
<1>2. auth \in [SignIn -> Authorization] /\ lossy \in [SignIn -> BOOLEAN] BY <1>0 DEF CoreType
<1>3. /\ auth' \in [SignIn -> Authorization]
      /\ \A t \in SignIn : /\ auth'[t].cur = auth[t].cur
                           /\ auth'[t].alive => auth[t].alive
                           /\ auth[t].grace => auth'[t].grace \/ (Outlived(t) => lossy'[t])
                           /\ lossy[t] => lossy'[t]
                           /\ lossy'[t] => lossy[t] \/ Outlived(t)
      /\ lossy' \in [SignIn -> BOOLEAN]
  <2>1. CASE Revoke
    <3>1. auth' = [auth EXCEPT ![sess].alive = FALSE] /\ lossy' = lossy BY <2>1 DEF Revoke
    <3>2. QED BY <1>2, <3>1 DEF Authorization
  <2>2. ASSUME NEW s \in SignIn, GraceEnds(s) PROVE <1>3!1 /\ <1>3!2 /\ <1>3!3
    <3>2. /\ auth' = [auth EXCEPT ![s].grace = FALSE]
          /\ lossy' = [lossy EXCEPT ![s] = @ \/ Outlived(s)]
      BY <2>2 DEF GraceEnds
    <3>3. /\ lossy' \in [SignIn -> BOOLEAN]
          /\ lossy'[s] <=> lossy[s] \/ Outlived(s)
          /\ \A t \in SignIn : t # s => lossy'[t] = lossy[t]
      BY <1>2, <3>2
    <3>4. /\ auth' \in [SignIn -> Authorization]
          /\ \A t \in SignIn : auth'[t].cur = auth[t].cur /\ (auth'[t].alive => auth[t].alive)
          /\ \A t \in SignIn : t # s => auth'[t] = auth[t]
      BY <1>2, <3>2 DEF Authorization
    <3>5. QED BY <3>3, <3>4
  <2>3. ASSUME NEW s \in SignIn, Retire(s) PROVE <1>3!1 /\ <1>3!2 /\ <1>3!3
    <3>1. auth' = [auth EXCEPT ![s].alive = FALSE] /\ lossy' = lossy BY <2>3 DEF Retire
    <3>2. QED BY <1>2, <3>1 DEF Authorization
  <2>4. QED BY <2>1, <2>2, <2>3
<1>4. UNCHANGED <<refreshing, begun, runs, wire, held, sess, reused>> BY <1>1
<1>5. CoreType' /\ CoreInv' BY <1>0, <1>3, <1>4, AuthOnly
<1>6. PageType' /\ ChatInv' /\ CallsType' /\ PageInv'
  BY <1>0, <1>1 DEF PageType, ChatInv, CallsType, PageInv, Active
<1>7. CallsInv' BY <1>0, <1>1, CallsStutter
<1>8. QED BY <1>5, <1>6, <1>7, TypeParts DEF IInv

-----------------------------------------------------------------------------
(* Pages and sign-ins.                                                     *)

LEMMA LeaveSteps ==
  ASSUME IInv, Leave
  PROVE  IInv'
<1>0. PageType /\ CoreType /\ CallsType /\ PageInv /\ ChatInv /\ CoreInv /\ CallsInv
  BY TypeParts DEF IInv
<1>1. PICK next \in {"login", "signedOut", "app"} : Unload(next) /\ page \in Live
  BY DEF Leave
<1>2. sess \in SignIn /\ sess # 0 /\ begun \in Nat BY <1>0, <1>1 DEF PageInv, CoreType
<1>3. /\ UNCHANGED <<kept, held, expired, begun, chat, mark, sess, user, auth, reused>>
      /\ page' = next /\ refreshing' = 0 /\ leave' = "no"
      /\ calls' = [c \in Call |-> NoCall]
  BY <1>1 DEF Unload, server
<1>4. \A r \in Run : runs[r] \in RunState BY <1>0 DEF CoreType
<1>5. ASSUME NEW r \in Run
      PROVE  /\ runs'[r] \in RunState /\ runs'[r].of = runs[r].of /\ runs'[r].tok = runs[r].tok
             /\ runs'[r].got = runs[r].got /\ runs'[r].attempt = runs[r].attempt
             /\ runs'[r].phase = (IF Active(r) THEN "ended" ELSE runs[r].phase)
  <2>1. runs'[r] = IF Active(r) THEN [runs[r] EXCEPT !.phase = "ended"] ELSE runs[r]
    BY <1>1 DEF Unload, Active
  <2>2. CASE Active(r) BY <1>4, <2>1, <2>2 DEF RunState
  <2>3. CASE ~Active(r) BY <1>4, <2>1, <2>3 DEF RunState
  <2>4. QED BY <2>2, <2>3
<1>6. runs' \in [Run -> RunState]
  <2>1. runs' = [r \in Run |-> runs'[r]] BY <1>1 DEF Unload
  <2>2. QED BY <1>5, <2>1
<1>7. ASSUME NEW s \in SignIn
      PROVE  /\ lossy'[s] \in BOOLEAN
             /\ lossy'[s] <=> lossy[s] \/ \E r \in Run : runs[r].of = s /\ Active(r)
  <2>1. lossy'[s] = (lossy[s] \/ \E r \in Run : runs[r].of = s /\ Active(r))
    BY <1>1 DEF Unload, Active
  <2>2. lossy[s] \in BOOLEAN BY <1>0 DEF CoreType
  <2>3. QED BY <2>1, <2>2
<1>8. lossy' \in [SignIn -> BOOLEAN]
  <2>1. lossy' = [s \in SignIn |-> lossy'[s]] BY <1>1 DEF Unload
  <2>2. QED BY <1>7, <2>1
<1>9. ASSUME NEW r \in Run, NEW a \in Attempt
      PROVE  /\ wire'[<<r, a>>] = IF Pending(<<r, a>>) THEN wire[<<r, a>>] ELSE NoRequest
             /\ wire[<<r, a>>] \in Request
  BY <1>0, <1>1 DEF Unload, Pending, CoreType
<1>10. wire' \in [Run \X Attempt -> Request]
  <2>1. NoRequest \in Request BY DEF NoRequest, Request
  <2>2. wire \in [Run \X Attempt -> Request] BY <1>0 DEF CoreType
  <2>3. QED BY <1>1, <2>1, <2>2 DEF Unload
<1>11. CoreType' BY <1>0, <1>3, <1>6, <1>8, <1>10 DEF CoreType
<1>12. ASSUME NEW r \in Run PROVE RunInv(r)'
  <2>1. RunInv(r) BY <1>0 DEF CoreInv
  <2>2. /\ wire[<<r, 1>>] = NoRequest => wire'[<<r, 1>>] = NoRequest
        /\ wire[<<r, 2>>] = NoRequest => wire'[<<r, 2>>] = NoRequest
    BY <1>9
  <2>3. ~(runs'[r].phase \in {"sent", "pause"}) BY <1>5 DEF Active
  <2>4. QED BY <1>3, <1>5, <2>1, <2>2, <2>3 DEF RunInv, Active
<1>13. ASSUME NEW r \in Run, NEW a \in Attempt PROVE WireInv(r, a)'
  <2>1. WireInv(r, a) BY <1>0 DEF CoreInv
  <2>2. CASE Pending(<<r, a>>)
    BY <1>3, <1>5, <1>9, <2>1, <2>2 DEF WireInv, Pending
  <2>3. CASE ~Pending(<<r, a>>)
    <3>1. wire'[<<r, a>>] = NoRequest BY <1>9, <2>3
    <3>2. wire'[<<r, a>>].at = "none" BY <3>1 DEF NoRequest
    <3>3. QED BY <3>2 DEF WireInv
  <2>4. QED BY <2>2, <2>3
<1>14. ASSUME NEW s \in SignIn PROVE ExactInv(s)'
  <2>1. ExactInv(s) BY <1>0 DEF CoreInv
  <2>2. ASSUME s > sess PROVE ~lossy'[s]
    <3>1. \A r \in Run : runs[r].of # s
      <4>1. ASSUME NEW r \in Run PROVE runs[r].of # s
        <5>1. RunInv(r) /\ runs[r] \in RunState BY <1>0, <1>4 DEF CoreInv
        <5>2. runs[r].of <= sess /\ runs[r].of \in Nat BY <5>1 DEF RunInv, RunState
        <5>3. QED BY <1>2, <2>2, <5>2
      <4>2. QED BY <4>1
    <3>2. QED BY <1>7, <2>1, <2>2, <3>1 DEF ExactInv
  <2>3. ASSUME s <= sess, ~lossy'[s]
        PROVE  /\ auth[s].cur = held[s]
               /\ \A r \in Run, a \in Attempt : ~(runs[r].of = s /\ Pending(<<r, a>>))
    <3>1. ~lossy[s] /\ \A r \in Run : ~(runs[r].of = s /\ Active(r)) BY <1>7, <2>3
    <3>2. refreshing = 0 \/ (refreshing \in Run /\ Active(refreshing)) BY <1>0 DEF PageInv, CoreType
    <3>3. refreshing = 0 \/ runs[refreshing].of # s BY <3>1, <3>2
    <3>4. auth[s].cur = held[s] BY <2>1, <2>3, <3>1, <3>3 DEF ExactInv
    <3>5. ASSUME NEW r \in Run, NEW a \in Attempt, runs[r].of = s, Pending(<<r, a>>) PROVE FALSE
      <4>1. r = refreshing BY <2>1, <2>3, <3>1, <3>5 DEF ExactInv
      <4>2. QED BY <3>3, <3>5, <4>1
    <3>6. QED BY <3>4, <3>5
  <2>4. \A r \in Run, a \in Attempt : (runs[r].of = s /\ Pending(<<r, a>>))' => runs[r].of = s /\ Pending(<<r, a>>)
    <3>1. ASSUME NEW r \in Run, NEW a \in Attempt PROVE Pending(<<r, a>>)' => Pending(<<r, a>>)
      <4>1. CASE Pending(<<r, a>>) BY <4>1
      <4>2. CASE ~Pending(<<r, a>>)
        <5>1. wire'[<<r, a>>] = NoRequest BY <1>9, <4>2
        <5>2. QED BY <5>1 DEF Pending, NoRequest
      <4>3. QED BY <4>1, <4>2
    <3>2. \A r \in Run : runs'[r].of = runs[r].of BY <1>5
    <3>3. QED BY <3>1, <3>2
  <2>5. reused[s] => lossy'[s] BY <1>7, <2>1 DEF ExactInv
  <2>6. QED BY <1>3, <2>1, <2>2, <2>3, <2>4, <2>5 DEF ExactInv
<1>15. SharedInv' BY <1>3 DEF SharedInv
<1>16. CallsType' /\ CallsInv'
  <2>1. NoCall \in CallState BY DEF NoCall, CallState
  <2>2. \A c \in Call : calls'[c] = NoCall BY <1>3
  <2>3. CallsType' BY <1>3, <2>1 DEF CallsType
  <2>4. CallsInv' BY <1>2, <1>3, <2>2 DEF CallsInv, CallInv, NoCall
  <2>5. QED BY <2>3, <2>4
<1>17. PageType' /\ ChatInv' /\ PageInv'
  <2>1. PageType' /\ ChatInv' BY <1>0, <1>3 DEF PageType, ChatInv
  <2>2. PageInv' BY <1>0, <1>2, <1>3 DEF PageInv
  <2>3. QED BY <2>1, <2>2
<1>18. QED BY <1>11, <1>12, <1>13, <1>14, <1>15, <1>16, <1>17, TypeParts DEF IInv, CoreInv

LEMMA SignedInSteps ==
  ASSUME IInv, NEW u \in User, SignedIn(u)
  PROVE  IInv'
<1> DEFINE s == sess + 1
           fresh == [alive |-> TRUE, cur |-> 1, grace |-> FALSE]
<1>0. PageType /\ CoreType /\ CallsType /\ PageInv /\ ChatInv /\ CoreInv /\ CallsInv
  BY TypeParts DEF IInv
<1>1. /\ page = "login" /\ s \in SignIn /\ sess \in Nat
      /\ sess' = s /\ user' = [user EXCEPT ![s] = u]
      /\ auth' = [auth EXCEPT ![s] = fresh]
      /\ held' = [held EXCEPT ![s] = 1]
      /\ kept' = TRUE /\ expired' = FALSE /\ mark' = None /\ page' = "app"
      /\ chat' = IF mark = u THEN chat ELSE None
      /\ UNCHANGED <<leave, refreshing, begun, runs, calls, reused, wire, lossy>>
  BY <1>0 DEF SignedIn, CoreType
<1>2. refreshing = 0 /\ (\A c \in Call : calls[c] = NoCall) /\ begun \in Nat
  BY <1>0, <1>1 DEF PageInv, CoreType
<1>3. /\ held'[s] = 1 /\ auth'[s] = fresh /\ user'[s] = u
      /\ \A t \in SignIn : t # s => held'[t] = held[t] /\ auth'[t] = auth[t] /\ user'[t] = user[t]
      /\ held' \in [SignIn -> Nat] /\ auth' \in [SignIn -> Authorization] /\ user' \in [SignIn -> User \cup {None}]
  BY <1>0, <1>1 DEF PageType, CoreType, Authorization
<1>4. CoreType' BY <1>0, <1>1, <1>3 DEF CoreType
<1>5. PageType' BY <1>0, <1>1, <1>3 DEF PageType
<1>6. ChatInv'
  <2>1. chat' \in {None, u}
    <3>1. CASE mark = u
      <4>1. u # None BY NoneAssumption
      <4>2. chat \in {None, mark} BY <1>0, <3>1, <4>1 DEF ChatInv
      <4>3. QED BY <1>1, <3>1, <4>2
    <3>2. CASE mark # u BY <1>1, <3>2
    <3>3. QED BY <3>1, <3>2
  <2>2. QED BY <1>1, <1>3, <2>1 DEF ChatInv
<1>7. PageInv' BY <1>1, <1>2, <1>3 DEF PageInv
<1>8. ASSUME NEW r \in Run PROVE runs[r].of \in 0..sess /\ ~Active(r) /\ RunInv(r)
  <2>1. RunInv(r) /\ runs[r] \in RunState BY <1>0 DEF CoreInv, CoreType
  <2>2. runs[r].of <= sess /\ runs[r].of \in Nat BY <2>1 DEF RunInv, RunState
  <2>3. Active(r) => r = 0 BY <1>2, <2>1 DEF RunInv
  <2>4. QED BY <1>1, <2>1, <2>2, <2>3
<1>9. ASSUME NEW r \in Run PROVE RunInv(r)'
  <2>1. runs[r].phase = "ok" => held'[runs[r].of] = held[runs[r].of]
    <3> SUFFICES ASSUME runs[r].phase = "ok" PROVE held'[runs[r].of] = held[runs[r].of] OBVIOUS
    <3>1. RunInv(r) BY <1>8
    <3>2. runs[r].of # 0 BY <1>2, <3>1 DEF RunInv
    <3>3. runs[r].of \in SignIn /\ runs[r].of # s BY <1>1, <1>8, <3>2
    <3>4. QED BY <1>3, <3>3
  <2>2. runs[r].of <= s BY <1>1, <1>8
  <2>3. QED BY <1>1, <1>8, <2>1, <2>2 DEF RunInv, Active
<1>10. ASSUME NEW r \in Run, NEW a \in Attempt PROVE WireInv(r, a)'
  <2>1. WireInv(r, a) BY <1>0 DEF CoreInv
  <2>2. runs[r].of # 0 => auth'[runs[r].of] = auth[runs[r].of]
    <3>1. runs[r].of # 0 => runs[r].of \in SignIn /\ runs[r].of # s BY <1>1, <1>8
    <3>2. QED BY <1>3, <3>1
  <2>3. CASE wire[<<r, a>>].at = "none" BY <1>1, <2>3 DEF WireInv
  <2>4. CASE wire[<<r, a>>].at # "none"
    <3>1. UNCHANGED <<wire, runs>> BY <1>1
    <3>2. auth'[runs[r].of] = auth[runs[r].of] BY <2>1, <2>2, <2>4 DEF WireInv
    <3>3. QED BY <2>1, <3>1, <3>2 DEF WireInv
  <2>5. QED BY <2>3, <2>4
<1>11. ASSUME NEW t \in SignIn PROVE ExactInv(t)'
  <2>1. ExactInv(t) BY <1>0 DEF CoreInv
  <2>2. CASE t = s
    <3>1. auth'[t].cur = 1 /\ held'[t] = 1 BY <1>3, <2>2
    <3>2. \A r \in Run : runs[r].of # t
      <4>1. ASSUME NEW r \in Run PROVE runs[r].of # t BY <1>1, <1>8, <2>2
      <4>2. QED BY <4>1
    <3>3. reused[t] => lossy[t] BY <2>1 DEF ExactInv
    <3>4. UNCHANGED <<reused, lossy, refreshing, runs>> /\ sess' = t BY <1>1, <2>2
    <3>5. QED BY <1>2, <3>1, <3>2, <3>3, <3>4 DEF ExactInv
  <2>3. CASE t # s
    <3>1. auth'[t] = auth[t] /\ held'[t] = held[t] BY <1>3, <2>3
    <3>2. (t > sess' => t > sess) /\ (t <= sess' => t <= sess) BY <1>1, <2>3
    <3>3. UNCHANGED <<reused, lossy, refreshing, runs, wire>> BY <1>1
    <3>4. QED BY <1>2, <2>1, <3>1, <3>2, <3>3 DEF ExactInv, Pending
  <2>4. QED BY <2>2, <2>3
<1>12. SharedInv' BY <1>1, <1>2 DEF SharedInv
<1>13. CallsType' /\ CallsInv'
  <2>1. \A c \in Call : calls'[c] = NoCall BY <1>1, <1>2
  <2>2. CallsType' BY <1>0, <1>1 DEF CallsType
  <2>3. CallsInv' BY <1>1, <1>2, <2>1 DEF CallsInv, CallInv, NoCall
  <2>4. QED BY <2>2, <2>3
<1>14. QED BY <1>4, <1>5, <1>6, <1>7, <1>9, <1>10, <1>11, <1>12, <1>13, TypeParts DEF IInv, CoreInv

-----------------------------------------------------------------------------
(* The invariant, and what it gives.                                       *)

LEMMA NextKeeps == IInv /\ [Next]_vars => IInv'
<1> SUFFICES ASSUME IInv, [Next]_vars PROVE IInv' OBVIOUS
<1>1. CASE \E c \in Call : CallStep(c) BY <1>1, CallSteps
<1>2. CASE \E r \in Run : RunStep(r) BY <1>2, RunSteps
<1>3. CASE \E q \in Run \X Attempt : ServerStep(q)
  <2>1. PICK r \in Run, a \in Attempt : ServerStep(<<r, a>>) BY <1>3
  <2>2. QED BY <2>1, ServerSteps
<1>4. CASE \E s \in SignIn : GraceEnds(s) \/ Retire(s) BY <1>4, AuthOnlySteps
<1>5. CASE Expire \/ WriteChat \/ SignOut \/ SignOutDone \/ SignOutElsewhere \/ OpenApp BY <1>5, PageOnlySteps
<1>6. CASE Revoke BY <1>6, AuthOnlySteps
<1>7. CASE Leave BY <1>7, LeaveSteps
<1>8. CASE \E u \in User : SignedIn(u) BY <1>8, SignedInSteps
<1>9. CASE UNCHANGED vars
  <2>1. UNCHANGED core /\ UNCHANGED <<calls, page, kept, expired, chat, mark, leave, sess, user>>
    BY <1>9 DEF vars, client, storage, server, core
  <2>2. PageType /\ CoreType /\ CallsType /\ PageInv /\ ChatInv /\ CoreInv /\ CallsInv
    BY TypeParts DEF IInv
  <2>3. PageType' /\ ChatInv' /\ PageInv' BY <2>1, <2>2 DEF PageType, ChatInv, PageInv, core, Active
  <2>4. CallsInv' BY <2>1, <2>2, CallsStutter DEF core
  <2>5. QED BY <2>1, <2>2, <2>3, <2>4, CoreStutters, TypeStutters, TypeParts DEF IInv
<1>10. QED BY <1>1, <1>2, <1>3, <1>4, <1>5, <1>6, <1>7, <1>8, <1>9 DEF Next

THEOREM Invariance == Spec => []IInv
BY InitHolds, NextKeeps, PTL DEF Spec

\* The variables of the tab, the pages and the server keep their types.
THEOREM TypeCorrect == Spec => []TypeOK
<1>1. IInv => TypeOK BY DEF IInv
<1>2. QED BY Invariance, <1>1, PTL

\* A reused refresh token revokes a sign-in only after a refresh of it failed, was left unanswered, or was still under
\* way when its grace ended: within the grace, the shared refresh, its one repeat and what the mediator repeats never
\* turn against the tab.
THEOREM RevokedForALoss == Spec => []RevokedOnlyAfterLoss
<1>1. IInv => RevokedOnlyAfterLoss BY DEF IInv, CoreInv, ExactInv, RevokedOnlyAfterLoss
<1>2. QED BY Invariance, <1>1, PTL

\* A refused call is repeated with a newer access token, never with the one that was refused.
THEOREM RetryIsNewer == Spec => []RetryUsesNewerToken
<1>1. IInv => RetryUsesNewerToken BY DEF IInv, CallsInv, CallInv, RetryUsesNewerToken
<1>2. QED BY Invariance, <1>1, PTL

\* refreshSession waits for a refresh that began after it was called.
THEOREM SessionIsFresh == Spec => []FreshSession
<1>1. IInv => FreshSession BY DEF IInv, CallsInv, CallInv, FreshSession
<1>2. QED BY Invariance, <1>1, PTL

\* The chat state in the tab's storage is the signed-in user's own.
THEOREM ChatIsOwn == Spec => []ChatBelongsToUser
<1>1. IInv => ChatBelongsToUser BY DEF IInv, PageInv, ChatInv, ChatBelongsToUser
<1>2. QED BY Invariance, <1>1, PTL

LEMMA EndsForCauseStep ==
  ASSUME IInv, [Next]_vars, kept, ~kept', page' = "toLogin"
  PROVE  \/ ~auth[sess].alive
         \/ \E c \in Call : calls[c].pc = "resent" /\ calls'[c].pc = "idle"
<1>0. PageType /\ CoreType /\ CallsType /\ PageInv /\ CoreInv
  BY TypeParts DEF IInv
<1>1. CASE \E c \in Call : CallStep(c)
  <2>1. PICK c \in Call : CallStep(c) BY <1>1
  <2>2. calls[c].pc = "resent" /\ calls' = [calls EXCEPT ![c] = NoCall]
    <3>1. CASE Refused(c) BY <3>1 DEF Refused, GetAccessToken, SignInAgain
    <3>2. CASE ~Refused(c)
      BY <2>1, <3>2 DEF CallStep, Fetch, RefreshSession, Reask, Resume, Answered, GetAccessToken, SignInAgain
    <3>3. QED BY <3>1, <3>2
  <2>3. calls'[c].pc = "idle" BY <1>0, <2>2 DEF CallsType, NoCall
  <2>4. QED BY <2>2, <2>3
<1>2. CASE \E r \in Run : RunStep(r)
  <2>1. PICK r \in Run : RunStep(r) BY <1>2
  <2>2. RunRefused(r)
    BY <2>1 DEF RunStep, RunOk, RunFails, RunClientError, RunRepeat
  <2>3. Active(r) /\ wire[<<r, runs[r].attempt>>].at = "refused"
    BY <2>2 DEF RunRefused, Waiting, Active, Current
  <2>4. runs[r].of = sess /\ runs[r].attempt \in Attempt BY <1>0, <2>3, ActiveRun
  <2>5. WireInv(r, runs[r].attempt) BY <1>0, <2>4 DEF CoreInv
  <2>6. QED BY <2>3, <2>4, <2>5 DEF WireInv
<1>3. CASE SignOutDone \/ SignOutElsewhere
  BY <1>0, <1>3 DEF SignOutDone, SignOutElsewhere, PageType
<1>4. UNCHANGED kept \/ kept' = TRUE
      \/ (\E c \in Call : CallStep(c)) \/ (\E r \in Run : RunStep(r)) \/ SignOutDone \/ SignOutElsewhere
  BY DEF Next, ServerStep, Load, Save, Refuse, Drop, GraceEnds, Retire, Expire, WriteChat, SignOut, Revoke,
         Leave, Unload, OpenApp, SignedIn, client, vars
<1>5. QED BY <1>1, <1>2, <1>3, <1>4

\* A session ends on its own only when its authorization ended on the server, or when a service refused a call twice:
\* no lost answer and no interleaving of callers costs the tab its tokens.
THEOREM SessionEndsForCause == Spec => EndsForCause
<1>1. IInv /\ [Next]_vars =>
        [kept /\ ~kept' /\ page' = "toLogin" =>
           \/ ~auth[sess].alive
           \/ \E c \in Call : calls[c].pc = "resent" /\ calls'[c].pc = "idle"]_vars
  BY EndsForCauseStep
<1>2. QED BY Invariance, <1>1, PTL DEF Spec, EndsForCause
=============================================================================
