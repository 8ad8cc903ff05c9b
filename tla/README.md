# A verification project for uliss

uliss is a set of Spring Boot services (note-service, auth, user, the web
mediator), shared libraries and a React client. This directory holds TLA+ models
of its core, TLC configurations that check them on small instances, and proofs,
checked by TLAPS, that hold for every value of the constants.

Modelled so far: on the server the **turns of a chat** (`ChatTurn`) and the
**transactional outbox** (`Outbox`), each shown to implement an abstract
specification (`Conversation`, `DurableJobs`); of the web client the **session of a
tab** (`TabSession`), the **paged lists** (`KeysetList`), the **chat page**
(`ChatPage`) and the **note page** (`NotePage`), the last two together with the part
of note-service they talk to; and of both sides **where notes live** (`Places`): the
trees of notes and constellations and the tabs that change them. The rest is listed
below with a plan.

In paths below, `N` is
`src/module/note/note-app/src/main/kotlin/io/uliss/note_service` and `W` is
`src/module/web/src`.

## Inventory

### Chat turns and generation (`N/service/ChatTurnService.kt`, `AssistantService.kt`, `N/repository/ChatTurnStore.kt`)

*State.* Rows of `note.chat`, `note.chat_turn` (status, attempt, lease end, one per
idempotency key) and `note.chat_message`; in each instance,
`AssistantService.activeGenerations`.
*Operations.* Send a prompt, retry a reply, stop a turn, delete the chat; a
generation subscribes, renews its lease when it searches notes, finishes, saves.
*Interaction.* Requests lock the chat row. Generations do not, until the foreign key
of the reply they insert needs it. A stop disposes of a generation only on the
instance that received it.
*What is hard.* What a request reads under the chat lock may be stale when it
writes; a superseded generation ends late; generations and requests take row locks
in opposite orders; instances crash.
*What makes it correct.* The transcript stays an ordered conversation; only the
latest attempt writes; a live lease is respected; an abandoned turn never blocks
the chat.

### Transactional outbox (`N/outbox/`)

*State.* Rows of `note.outbox_event` (status, dedup key, attempts, next attempt or
lease end, lease id, version); in each instance, the permits of `OutboxPoller`.
*Operations.* Publish, publish debounced, claim a batch, complete, record a failure
(retry, fail, superseded), fail on claim when attempts are used up.
*Interaction.* Services publish in the transaction of their change. Handlers run
outside of any transaction. A terminal failure handler runs in the transaction that
fails the event.
*What is hard.* A worker outlives its lease; a change is published while an earlier
one is being handled; outcomes read and write in two steps; permits must come back
on every path.
*What makes it correct.* One owner per lease; no change lost; at most
`max-attempts`; the consequence drawn with the failure; every event ends.

### Session of a tab (`W/auth/`, `W/pages/Callback.tsx`, and the auth service)

*State.* Tokens, chat drafts and pending turns in the tab's storage, the owner of
the chat state; in the page, the refresh every caller shares; on the server, one
authorization per sign-in with its current and its previous refresh token.
*Operations.* `authFetch` with a repeat after 401, `refreshSession`, a refresh with
one repeat, sign-in, sign-out here or in another tab, a session that ends by itself.
*What is hard.* A rotated token whose answer is lost; two requests of one refresh on
their way at once; a refresh that is answered after the page has moved on; another
user signing in.
*What makes it correct.* Reuse detection turns against the tab only when a refresh
failed, or outlived the grace of its rotation; a repeat carries a newer token; a
session ends only for a cause; chat state never meets another user.

### Paged lists (`W/ui/list/useKeysetList.ts` and its screens)

*State.* Rows, cursor, status of the tail, the generation of the reload, the request
whose answer is awaited. *Operations.* Reload on a filter or a notified change, next
page when the end is seen, failure of either. *What is hard.* Answers that arrive
after a reload; a list that changes between two pages; a dropped `loadMore`.
*What makes it correct.* No gap and no foreign row; the end of the list is heard;
a reload shows what was changed before it.

### Chat page (`W/chat/`)

*State.* Phase of the page, the pending request in session storage under the chat or
under "new", the reconciliation target, the calls whose answers are awaited.
*Operations.* Send, retry, stop, reconcile with a turn by reading the history,
resume after a reload, go to another chat.
*What is hard.* Each `await` returns to a page that may show another chat; stop,
retry and the end of a stream start reconciliations that overtake each other; a
reload forgets everything but the storage; requests are sent again.
*What makes it correct.* One turn per prompt; a request stays stored until its
outcome is known; the page shows its own chat; what it says it does is done, and ends.

### Note page (`W/notes/NoteDetailPage.tsx`, `NoteEditForm.tsx`, `ResummarizeDialog.tsx`, `W/ui/actions/ItemActions.tsx`)

*State.* What is shown, the run of `load`, the edit form, the two dialogs; on the
server status, version and text of the note and its pending summary requests.
*Operations.* Open, follow the status stream, edit and save, rewrite, rename,
summarize again; other devices edit, delete and ask for summaries, workers write.
*What is hard.* The page is not remounted between two notes; the version a save
carries is changed by renames and reloads; a note settles while no stream is open.
*What makes it correct.* The page shows the note of its URL; lists hear of a note
that settled; a save replaces only what its writer had read; nothing spins for ever.

### Note tree, places and constellations (`N/service/NoteHierarchyService.kt`, `NotePlacementService.kt`, `ConstellationService.kt`, `W/constellations/`)

*State.* `parent_id` of constellations, `parent_note_id` of notes, the rows of
`note_constellation` with their main flag; in the client the tree and the place each
screen read, and its open dialog.
*Operations.* Add, main, remove, under a note, out of it; move, create and delete a
branch; delete a note with its sub-notes, or leave them.
*Interaction.* Every change takes the advisory lock of its user. The three screens
(a note's place, the constellations, a note's menu) each act on what they read.
*What is hard.* A dialog says what is lost and is confirmed later; a moved branch can
bring several places of one note onto one line; a lost main place needs an heir; the
sub-notes of a deleted note inherit.
*What makes it correct.* Two forests; at most one place on a line of the tree, and
one main place; a dialog drawn from what the service holds does what it says; a
deletion with an old count takes no note's last place and no sub-note unasked.

### Components that are not modelled, or in part only

| Component | State | Operations and hard behaviour | What would make it correct |
|---|---|---|---|
| Chat summary lifecycle (`NoteSummaryService`, `SummaryRequestStore`, the summary handlers) | requests, notes, the boundary of summarized messages, the generating flag | create, update, rewrite, redelivery, terminal failure against a late worker, a retry of a summarized reply | each update applied once, over the messages it read; the note always leaves "generating" |
| User profile (`UserProfileService` and handlers) | profile, rebuild draft, rules, dirty notes | batches, halving, rebuild during a refresh, rules saved meanwhile | a rebuild or saved rules are never forgotten; deleted notes stay flagged |
| Notes: pins, model rewrite (the rest is in `NotePage`) | pin times | pin limit, stream of a rewrite | - |
| RAG index | chunks, debounced events | a replacement of chunks races a later one | the chunks are of the latest content |
| Chat CRUD and history views | chats, messages | listing, renaming, paging | a page never skips a message |
| Sky, speech | none of their own | read models, one stateless provider call | - |
| Authorization server (rotation is in `TabSession`) | authorizations, sessions | session limits, cleanup | - |
| Mediator security library | session tokens | login, refresh and logout with retries | a failed connection does not log out |
| User service, onboarding | user rows | small transactions | - |
| Web client, the rest | settings, sky, onboarding, dictation | screens with a request each, canvas and layout code | - |
| Shared libraries, design system, build and infrastructure | none | stateless helpers, rendering, configuration | - |

`PROJECT.json` lists, per component, the files and, under `hazards`, every place
the modelled code can go wrong in a way a test would hardly reach, with the property
that watches it. Four more belong to components of the plan and are not listed there:
a retry that deletes a reply while a summary of it is asked for
(`NoteSummaryService.kt:65`), the boundary of summarized messages that updates,
rewrites and deletions move back and forth (`:265`), a rebuild of the profile that is
started while a batch runs (`UserProfileService.kt:106`), and two index runs of one
note that end in the opposite order (`RagService.kt:29`).

## Modules

| Module | What it is | Stands for |
|---|---|---|
| `Conversation` | what a chat promises its user: prompts asked once and answered in order | abstract |
| `ChatTurn` | the turns of one chat | `ChatTurnService`, `ChatTurnStore`, the part of `AssistantService` that runs and stops generations |
| `DurableJobs` | what the outbox promises a publisher | abstract |
| `Outbox` | publishing, polling, processing | `OutboxService`, `OutboxPoller`, `OutboxEventRepository`, `OutboxEvent` |
| `TabSession` | one tab, its documents and the authorization server | `apiClient`, `authApi`, `tokenStore`, `AuthContext`, `Callback`, `ReuseDetectingAuthorizationService` |
| `KeysetList` | a paged list and the server list behind it | `useKeysetList`, `ListMore` |
| `ChatPage` | the chat page, session storage, the network and the turns of the server | `ChatPage.tsx`, `reconcileChatTurn`, `streamChatReply` |
| `NotePage` | the note page, its dialogs, and the notes of the server | `NoteDetailPage`, `NoteEditForm`, `ResummarizeDialog`, `ItemActions`, `NoteService`, `NoteStatusService` |
| `ChatPageTalk` | `ChatPage` with the history of each chat, which makes it a `Conversation` | the messages of a chat as `getMessages` answers them |
| `Places` | the trees of constellations and notes, the places of notes, and three tabs | `NoteHierarchyService`, `NotePlacementService`, `ConstellationService`, `NotePlacement`, `NoteConstellationSection`, `notePlaceMoves`, `ConstellationsPage`, `DeleteConstellationDialog`, the deletion in `ItemActions` |
| `MC...` | sets and symmetry of the runs | - |
| `...Proofs`, `...Refinement` | proofs | - |

Some modules hold definitions marked *Faulty* or *Variant*. No specification uses
them: each is a mutated form of a definition, which a property has to tell apart.

### ChatTurn and the code

- `turn[k]` is the row of idempotency key `k`: `status`, `attempt`, and whether its
  `lease` is live or expired. `msgs` is the transcript in `created_at` order. A
  reply's id is represented by the attempt that saved it.
- A request is two steps. `Begin` locks the chat row (`FOR UPDATE`) and reads the
  turns into `tx.seen`. `Commit` writes by the statements of `ChatTurnStore`, each a
  conditional `UPDATE` whose `WHERE` is evaluated then: `CanClaim`, `CanFail`,
  `HoldsFence`. Between the two, generations may renew their lease or save. A step
  that writes a turn needs its row free (`RowFree`).
- `ResolveGenerating` is `resolveGeneratingTurn`, `Send`/`SendNew` are
  `resolveTurnRequest`, `Retry` is `resolveRetryRequest`, `Cancel` is `cancelTurn`,
  `Delete` is `lockChatForDeletion` with the deletion that follows it.
- A generation is pending, running, stopping or saving. `Finish` is the `UPDATE` of
  `finishGenerationAttempt` and `Save` its `INSERT` and commit. `Search` is the
  renewal by `NotesSearchTool`. `Dispose` happens after the commit of the stop.
- `Deadlocked` says when a generation and a request wait for each other's row;
  PostgreSQL aborts either.
- `Crash` drops an instance's generations, its registry and its open transaction.

Abstracted: texts, the pages of history (only the message the history ends with
matters), the binding of a key to its prompt (a key used for another prompt is
refused). Lease durations: a lease may end at any time.

### Outbox and the code

- A claim counts as an attempt and gets a fresh lease id, so the attempt number
  stands for the lease id. `due` says that `next_attempt_at` has come, be it the next
  attempt or the end of the lease.
- `Claim` is `OutboxService.claim`: it fails the exhausted events it finds, with their
  consequence, and hands out the others. `Drain`, `Unused`, `Reject` and `EndTask` are
  the permits of `OutboxPoller`.
- `complete` and `recordFailure` are two steps each (`ReadToComplete`/`Complete`,
  `ReadToRecord`/`RecordFailure`): they read under `findLeased` and write at commit
  under the optimistic lock. Nothing but a claim or another outcome moves the version
  of a PROCESSING event, so `SameVersion` is the lease.
- Under a dedup key, `changed` counts the changes published; a task's `saw` is the
  change its handler read; `done` is the latest one finished; `covers` is the latest
  one when the event was last claimed. These three only observe.
- `Breaks` is a transaction that rolls back, or a handler that throws an `Error`.
- The rollback of a retry that hits the unique index on the dedup key is in
  `RecordFailure`; `src/docs/TECH_DEBT.md:704` describes it.

Abstracted: payloads and event types, the length of leases and backoffs, the filter
on handled types during a rolling deployment, and `isPending`/`hasLiveEvent`, which
only the user profile calls.

### TabSession and the code

- A sign-in is numbered, and so are its token pairs; pair `n` is replaced by pair
  `n + 1` when the server rotates it. `held` is the pair the tab stored, `auth[s].cur`
  the server's, `auth[s].grace` whether the previous one is still taken.
- A run is one evaluation of `runRefresh`: a request, a pause, a repeat. `refreshing`
  is the promise all callers share. A request of it is loaded, answered or lost on
  its own (`wire`), also after the page that sent it is gone; the server reads the
  authorization (`Load`) and writes it in two steps.
- A call is one `authFetch` or `refreshSession`: it takes a token, waits for the
  shared refresh, is sent, and is repeated once after a 401.
- `page` is the document: leaving it drops every promise. Sign-out clears the tab,
  revokes, and navigates, in three steps; another tab's sign-out may come between.

Abstracted: clocks. The grace of a retry ends 30 s after the rotation whatever the
tab is doing (`ReuseDetectingAuthorizationService.kt:84`, `:93`), and the browser's
`fetch` has no timeout (`authApi.ts:131`), so `GraceEnds` may come at any time after a
rotation. `lossy` records what a revocation for reuse may then follow: a refresh that
failed, was left, or was under way with the replaced token when its grace ended
(`Outlived`). The mediator between the tab and the server is part of `wire`: the
loser of two rotations gets a 503, which the mediator repeats with the same token up
to three times (`RetryAuthServerCall`) before the tab hears of it, and the request
may also be lost. The microtask between the settling of a run and its callers is a step
of its own, which allows more than a browser does. Not modelled: `retryLoginOnce`,
the errors of a callback, sign-ins within one document.

### KeysetList and the code

- The server list maps items to stamps; a row is an item with the stamp it was read
  with. A page is read in one snapshot and carries the cursor for the next.
- `render` and the effect after it are two steps. `gen` is the generation that
  `useKeysetList` compares when an answer comes; an aborted request is one of an
  older generation. `pending` says that the effect of a change is still to run.
- `more` is the request behind "load more", `tail` what the end of the list shows.
- `changed`, `since`, `heard` only observe: when an item changed, when the first page
  of the rows was read, and the last change the client was told of.

Abstracted: totals, unmounting, and filters (an item belongs to a fixed set of them).
An effect runs before the answer to a request sent since its render (`InTime`).

### ChatPage and the code

- `stored[c]` is session storage: the pending request of chat `c`, and of the new chat
  under 0. `pending`, `target`, `phase`, `loaded` and `shown` are the page's refs and
  state; `route` is the URL, and `going` the navigation after the first headers.
- A call is one asynchronous run of the page: `executeChatRequest`, `reconcile`, the
  load of the history. Its `at` is the `await` it is in. `live` says that its
  handlers still count; a call that was aborted may still run handlers whose answer
  had arrived (`Stale`).
- A request on its way is in `posts`, whether its call is alive or not; `Take` is the
  server's handling, `Lose` its loss. The server knows turns per idempotency key.
- `Reload` empties everything but storage. It also stands for a sign-in in between.
- The reply may end, fail, or lose its instance (`Crash`), on which its lease runs out.

Abstracted: the text of replies, the pages of a history (the latest one always shows
the reply), leases (running or lost), the `initial` flag (no chat id yet), rows
without turn ids, the deletion of a chat, an explicit sign-out.

`ChatPageTalk` adds one variable, `order`: the turns of each chat in the order the
service started them. It is determined by the other variables' steps and no guard
reads it. A turn that runs or whose instance was lost is pending to a reader.

### NotePage and the code

- A text is known by the version of the note that brought it, so "the text of version
  2 under version 3" is a state. `ends` counts how often a note settled.
- `load` is the run of `load` that is not aborted: `way` and `back` are a read, `stream`
  and `event` the status stream. `tries` is the loop's counter, `settled` its flag
  `settledBeforeStream`. A load tells the lists by `Tell`.
- `again.key` is the request key of the open "Summarize again". `dialog` only observes:
  for each key sent, the first key of the dialog that sent it. A dialog that comes
  back over the next note (see the disagreements below) counts as another one.
- A call is a save, a rename or a "Summarize again" with the note and the route it was
  sent from. Its answer comes to a page that may show another note: `strayed` says so.
- `SaveArrives`, `RenameArrives`, `AgainArrives` are `updateNote`, `renameNote` and
  `resummarize`; `OtherChanges`, `OtherAsks`, `OtherDeletes` other devices;
  `WorkerWrites` and `WorkerUpdates` the summary workers.

Abstracted: titles and icons (changing one makes a version), dictation, the linked
chats, pins and deletion from the menu. An operation of the service is one step. A
load that is aborted is gone: the browser cuts its request and nothing of it returns. The
limit of status streams shows as a request that fails.

### Places and the code

- `parent` and `over` are the two trees; `Later` is a constellation not created yet and
  `Gone` what was deleted. `added[n][c]` is the request that put note `n` in `c`: the
  order of `created_at`, by which a lost main place is replaced. `CHOOSE` stands for
  the smaller id of two as old.
- `Up(p, x)`, `x` and everything above it, is the least set that holds `x` and the
  parents of its members; the code walks up, or builds the tree level by level.
- A request is decided in the step that sends it: `lockUserTree` makes it one step,
  and what others change while it is on its way they could have changed before. Its
  answer takes time or is lost. Names that clash, expired sessions and limits are
  requests that are refused and change nothing.
- `AddNote`, `MakeMain`, `RemoveNote` are `NotePlacement`'s; `MoveUnder`, `MoveOut`,
  `DeleteNote` `NoteHierarchyService`'s; `MoveBranch` with `keepOnePlacePerLine`,
  `DeleteBranch` and `Create` `ConstellationService`'s.
- The section reads tree and place by two requests (`ReadTree`, `ReadPlace`) and builds
  what a confirmation says as `notePlaceMoves` does (`asks`); `asks.true` observes
  whether it was drawn from what the service held. `delete` is the dialog of a
  constellation with its count, `menu` the deletion of a note.

Not modelled: names, colours and icons, the notes listed on the page, the sky, and
the index requests a change publishes (they go through `Outbox`).

### Abstract specifications

`Conversation` has no turns, leases or transactions. `ChatTurn` maps `chat` to
`open` and the transcript, paired into prompts and replies, to `talk`
(`ConversationSpec`). `DurableJobs` has no rows, leases or permits. `Outbox` maps
PENDING and PROCESSING to waiting, FAILED to failed or superseded according to
whether the consequence was drawn, attempts to tries, dedup keys to subjects
(`JobsSpec`).

The turns a chat page talks to are a second, coarser model of the same service, with
several chats and other devices. `ChatPageTalk` maps each of its chats to
`Conversation` too (`ChatsAreConversations`): what `ChatPage` assumes of the service is
within what `ChatTurn` guarantees of it.

## Runs

| Run | Instance | Checks | Shows |
|---|---|---|---|
| `chat_turn_two_prompts` | 2 keys, 1 host, attempts 2, 1 search | `TranscriptMatchesTurns`, `HistoryEndsWithPrompt`, `ReplyIsOfLatestAttempt`, `NoCurrentAttemptStopped`, `LiveLeaseHolds`, `ConversationSpec` | racing prompts, retries, stops and deletions leave an ordered conversation; superseded generations stay mute; a late stop hits none that may still save |
| `chat_turn_live` | 2 keys, 2 hosts, attempts 1 | `PromptAccepted` | an abandoned turn never blocks the chat for good |
| `outbox` | 2 events, 1 key, 2 hosts, attempts 2, 2 changes | `NoChangeLost`, `PermitsConserved`, `EndedByHolder`, `JobsSpec`, `EveryEventEnds` | late workers end nothing, debouncing loses nothing, no permit leaks, every event ends |
| `session_refresh` | 1 user, 2 calls, 2 refreshes, one page | `RevokedOnlyAfterLoss`, `FreshSession`, `EndsForCause` | reuse detection turns against the tab only after a refresh that failed or outlived its grace; no caller gets an old token |
| `session_pages` | 2 users, 2 calls, 2 sign-ins, 1 refresh | `ChatBelongsToUser`, `WaitersEnd` | chat state stays with its user; two callers of one refresh both get an answer, and it does not stay shared |
| `lists` | 2 filters, 2 items, pages of 1, 3 requests | `NoGap`, `TailHeard`, `RowsOfShownList`, `FreshAfterReload`, `NothingSpins` | no page is skipped, rows are of the list asked for and fresh, loading ends |
| `chat_page_turns` | 1 key, 2 replies, 1 loss, 4 opens, 1 late answer | `OwnMessages`, `KeptUntilKnown`, `StopKept` | the page shows its own chat and keeps its request and its stop |
| `chat_page_prompts` | 2 keys, 1 reply, 1 loss, 1 open | `NoPromptTwice`, `PromptsEnd`, `Settles`, `ChatsAreConversations` | one turn per prompt; a prompt ends; the page never works for ever; every chat is a conversation |
| `chat_page_stop_lost` | 1 key, 2 opens | `StopRestored`, violated | finding 1 |
| `note_page` | 2 notes, 1 call, 2 keys, 2 opens, 1 loss, versions to 2 | `ShownIsOfRoute`, `ListsHear`, `SavesOverWhatWasRead`, `QueuedOnce` | the note of the URL is shown, lists hear of a settled note, saves know the text, an opened "Summarize again" queues one rewrite |
| `note_page_lost_edit` | 1 note, versions to 3 | `NoLostEdit`, violated | finding 2 |
| `places` | 3 constellations, 3 notes, 2 changes, at most 1 of them by others, 5 starts | `NoCycle`, `OnePlacePerLine`, `OneMainPlace`, `DoesWhatItSays`, `NotesKeepAPlace`, `SubNotesAskedFor`, `StayersKeepTheirPlace` | trees stay trees, places keep to their lines, a dialog drawn from what the service holds does what it says, and no old count deletes what was not asked about |

### Bounds, and why they are enough

- Two keys give a prompt that meets another's live or abandoned turn; a chat has one
  generating turn at most, so a third key adds no new meeting. Two attempts give a
  superseded generation beside its successor. One search is one renewal, the case in
  which an expired lease comes back. Two hosts separate the instance that stops a
  turn from the one that runs it.
- Two events under one key are the least that can supersede each other, two hosts
  the least that can hold an old and a new lease. Two attempts give a first and a
  last one, two changes one that is read and one that is missed.
- Two calls and two refreshes of one page are the least in which a call joins the
  refresh of another, or finds one that has just ended. `OnePage` keeps the refresh run
  on one page; what sign-outs and other tabs add is the other run's part.
- Two users and two sign-ins are one hand-over of the tab. Two calls with one refresh
  are the least in which one starts it and the other joins it, before or after the
  refresh repeats its request. Two constraints cut steps from that run: the first
  user is one of the two (`AliceFirst`; they are interchangeable), and the page of the
  second sign-in makes no calls (`QuietSecondPage`), which would do what those of the
  first page do. Both cut steps without fairness only, so what the run shows of
  liveness is not weakened.
- Two filters with two items and pages of one give a first, a next and a last page,
  a change between them, and a list that is left for another.
- One key and two replies give a prompt with a retry; four opens a way to another
  chat and back; the late answer comes to a page that has gone on. Two keys are a
  prompt beside one of another device.
- Two notes, one of them being written, are the least at which an answer can stray.
  Two keys are what a dialog that made a key for each try would need; a second one is
  looked at only while the user stays at the first note (`SecondKeyOnFirstNote`).
  Two versions give a change by another device; three, in the violated run, a rename
  on top of it and a save.
- In `ChatPagePrompts.cfg` a turn has one attempt, so a chat's last reply is never asked
  for again there. With two attempts the same run, without liveness, passed on its 2.8
  million states; the theorem `ChatsConverse` covers every bound.
- Three constellations are a line of two with one beside it, the least at which a place
  gives way and another stays; three notes a sub-note, the note above it and one more.
  Two changes, one of them possibly of another device, are one that was read or missed
  and one that acts on it; `MaxRequests` is three, as the service's clock starts at the
  one that made the start. The starts differ in which tab is open and in whether the
  third constellation is there yet.
- Bounds are in the guards and named in each module. They bound the models only: the
  proofs hold for every value of all constants.
- All runs but `outbox` set `CHECK_DEADLOCK FALSE`: a deleted chat has nothing left to
  do, and the bounds of the client's modules are used up in the end.

### Fairness

- `ChatTurn!Fairness`: statements go on once their locks are free and PostgreSQL
  resolves lock cycles (`Commit`, `Abort`, `Save`); leases end because time passes;
  a client goes on sending a prompt that was refused. Nothing is assumed of
  generations: they may hang or die.
- `Outbox!Fairness`: time passes (`ComesDue`); the scheduler polls (`Drain`); a claim
  that is retried for ever succeeds in the end (`Claim`, strong); provider calls have
  timeouts and the executor runs what it accepted, so tasks go on (`Process`, weak).
  A terminal failure handler that always throws would break the third: the whole
  claim rolls back each time.
- `TabSession`, `KeysetList`: the browser settles every request, by an answer or a
  failure, and runs the timers, effects and callbacks of the page it shows. The code
  sets no timeout on these requests: that a dead connection is noticed at some time is
  an assumption about the browser and the network, with no bound. Nothing is assumed
  of the user or of other tabs.
- `ChatPageTalk!PatientTalkSpec`: the same, the server handles what reaches it and its
  replies or their leases end; the user retries again and again, where the page
  offers it. Without such a user `PromptsEnd` is false: nothing else resumes.
- `NotePage!FairSpec`: the browser goes on with a load, the service ends every stream
  (after ten minutes) and every summary request ends, as `EveryEventEnds` says of
  the events behind it. Only the violated run `note_page_lost_edit` uses it.

### Findings

1. `StopRestored`. On the page of a new chat, a stop is stored under the new chat's
   key only, once the headers have come; a reload reads the copy without it
   (`ChatPage.tsx:643`). A test says a requested stop is restored after a reload.
2. `NoLostEdit`. A rename answers with a new version and the page keeps the old text
   under it; if another device had changed the text, the next save replaces that
   change with the right version (`NoteDetailPage.tsx:228`). `noteApi.ts:18` says the
   service refuses to overwrite a newer one. `SavesOverWhatWasRead` is what holds.

Other disagreements of code and documents were met while modelling, and are visible
as behaviours of the models, without a run of their own:

- At the attempt limit, `resolveGeneratingTurn` answers AlreadyFinished even if the
  generation renewed its lease meanwhile; `AssistantService.kt:271` asserts that the
  turn cannot be generating (the answer `"error"` of `ChatTurn`).
- A lease can be renewed between the check of `lockChatForDeletion` and the deletion;
  the comment at `ChatTurnService.kt:133` says such a turn must be stopped first.
- A generation that saves and a request that stops or reclaims the turn take two rows
  in opposite orders; if PostgreSQL aborts the generation, its stream fails instead
  of reporting the state of the turn (`AbortGeneration`, `AssistantService.kt:182`).
- "When one is presented again, a copy of the token is in someone else's hands" says
  `ReuseDetectingAuthorizationService.kt:19`. The tab's own repeat does the same when
  the loss of the first answer is noticed more than 30 s after the rotation: the
  session of its user is revoked (`GraceEnds` during a run, then `Load`).
- A refresh in flight at the sign-out stores its tokens after `clearSession`
  (`authApi.ts:34` against `tokenStore.ts:43`), and a call in that moment starts a
  login that replaces the way to the signed-out page (`apiClient.ts:102`).
- `clearPendingChatRequest` removes the request of the new chat when any chat confirms
  a reply (`ChatPage.tsx:267`); a turn whose instance died is waited for by reading
  the history only, so nothing ends it and each Retry asks for the next (`:686`); the
  same after a retry that was stopped before the server took it (`:300`), and after a
  refused prompt whose history did not load (`:287`).
- `MAX_STATUS_RECONNECTS` (`NoteDetailPage.tsx:26`) is passed by when an update starts
  right after another: `continue` steps the counter beyond the `===` test. The page is
  not keyed by its note, so the answer to a save, a rename or "Summarize again" may
  land on the next note, and the dialog reappears over it; after Retry, lists are
  not told of a note that settled meanwhile.

## Proofs

All theorems assume only the named assumptions of the specifications: bounds are
numbers; `Outbox` has finitely many events, numbered by age, at least one permit and
one attempt; `KeysetList` has finitely many items and a page size of at least one;
names for "nothing" are not members of the sets they stand beside; the service starts
`Places` in two forests with one main place for each placed note.

Each proof module defines one inductive invariant (`Inv` or `IInv`), proves
`Init => IInv` and that each action preserves it, and derives the properties. Step
properties (`[][...]_vars`) follow from the invariant before the step.

### ChatTurn

`ChatTurnProofs!Inv` is the conjunction of the checked invariants and of what makes
a stale read harmless:

- `SnapshotHolds`: while a transaction has the chat row, statuses and attempts are as
  it read them; only leases may differ. Without it no write of `Commit` can be
  related to the transcript.
- `GenerationsHold`: attempts are unique and never ahead of their turn, and a
  generation that is saving holds its fence: its uncommitted `UPDATE` has the row.
- `DoomedIsStopped`: what a stop is about to dispose of is canceled, so
  `NoCurrentAttemptStopped` survives `Dispose`.

### Outbox

`OutboxProofs!Inv` adds to `TypeOK` and `PermitsConserved`:

- `RowsHold`: a PENDING event has an attempt left, so an exhausted event that a claim
  finds is PROCESSING and its failure draws a consequence for a worker that was lost.
- `TasksHold`, `LeasesDiffer`: a lease is never ahead of its event and never given
  twice. A claim therefore mutes every earlier worker, and the new tasks are as many
  as the events claimed, which the permits need.
- `ReadInTime`: the worker that holds the lease saw at least what the event covers, as
  it reads after the claim. Its completion makes that change done.
- `ChangesCarried`: strengthens `NoChangeLost`. An event that its holder is about to
  fail as superseded (`Limbo`) does not count as carrying the latest change. When it
  enters that state another event of the key is PENDING and carries the change.

Permits also need that a poll never gets more events than it asked for:
`FoundAtMost` numbers the claimable events by age, an injection into `1 .. n`.

### TabSession

- `RunInv`, `WireInv`: only the shared run is active, and it was begun with the stored
  pair; an answer never carries a pair the server has not given out.
- `ExactInv`, `SharedInv`: for a sign-in none of whose refreshes failed, was left or
  outlived its grace (`lossy`), the server's rotation is ahead of the stored pair by the requests of the shared run alone, at most by two,
  and then within the grace. So what the server loads for a request is the current
  pair or the previous one in its grace, and reuse detection finds nothing.
- `CallInv`: a caller that waits does so for a run that began after its refusal, or,
  for `refreshSession`, after it was called.
- `PageInv`, `ChatInv`: a page that is left has no calls; chat state has the last user.

### KeysetList

- `FirstInv`, `OneFirstPage`: a reload has one first page on its way, and if no change
  is pending it was read after the last one heard.
- `NextInv`: a next page starts at the cursor of the rows on screen, while no reload
  runs; `Covers`: what lies between its cursor and the next one is in it, unless it
  changed since. Together they extend `NoGap` over the joined pages.
- `RefsInv`: the refs of the hook agree with its state, which `TailHeard` needs.

### ChatPage

- `StorageInv`, `RouteInv`, `TargetInv`: the page shown has its request under its own
  chat in storage, and its target fits that request.
- `LiveInv`: a live call belongs to the active chat; the one whose request is out is
  for the pending request; all reconciliations but the one in charge are cut. This
  gives `Working`, `OneStream` and `OwnMessages`.
- `PostsInv`: what is on its way with a live call is what the call waits for.
- `OneMeaning`, `Counted`: a key stands for one prompt in one chat wherever it is, in
  storage, on its way or at the server, and new keys are new. This gives
  `NoPromptTwice`.

For `ChatsAreConversations` two conjuncts are added, over the history:

- `LiveIsLatest`: a turn that runs or was lost is the last of its chat. Without it a
  generation could end, or be stopped, in the middle of the conversation.
- `OrderInv`: the history of a chat lists its turns, each once, the latest last.

`ServerMoves` sorts all steps of page, network and service into three: the turns stay;
the latest turn of a chat moves (`MoveConverses`); a new turn starts, and a lost one
before it fails (`StartConverses`). Each is a step of `Conversation` or a stutter, in
that chat, and a stutter in all others.

### NotePage

- `Fits`: what the page, its form or a call holds of a note under the version it was
  read with is what the service stored as that version. `SavesOverWhatWasRead` is
  this and the version check of `updateNote`.
- `WatchInv`: a load that showed its note unsettled, at the settling it last knew of,
  either still follows a note that has not settled since, or has the lists to tell.
- `KeyInv`, `DialogInv`: keys not handed out are not reserved, a key that is reserved
  queues nothing more, and every request of a dialog carries the dialog's one key.
  Together they are `QueuedOnce`; `DialogInv`, over the history `dialog`, is an invariant
  of its own beside `IInv`.
- `CallsInv`, `PageInv`: answers are for the note that was asked for; without a route
  nothing is shown.

### Places

- `ServiceOK`: two forests, `OnePlace`, `OneMain` and the types. It is inductive by
  itself, as every operation of the service is one step.
- What recursion computes is out of the prover's reach, so `Up` is a least closed set
  and what is proved of it follows from closed sets: `MoveForest`, `CutForest` and
  `LiftForest` say that hanging a branch elsewhere, cutting one off, and lifting the
  children of a removed note keep a forest.
- `AsksOK`: what a confirmation says is the outcome of its request whenever it was drawn
  from what the service holds (`Truth`); any later change of the service clears that.
  `DoesWhatItSays` is this, taken over the step that confirms. It says nothing of a
  dialog whose facts have changed since: the code sends what was confirmed.
- `DeleteOK`: a dialog that deletes a branch it did not count as having notes to move
  sends them to the parent that the page shows. This gives `NotesKeepAPlace`, which
  speaks of the service at the time of the deletion.

### Theorems

| Theorem | States |
|---|---|
| `Invariance`, `TypeCorrect` (six modules), `PlacesProofs`: `InvariantHolds` | the inductive invariant and the types hold |
| `ChatTurnProofs`: `TranscriptAlwaysMatches`, `RepliesAreCurrent`, `StopsAreHarmless`, `HistoryIsRight`, `LiveLeaseAlwaysHolds` | `TranscriptMatchesTurns`, `ReplyIsOfLatestAttempt`, `NoCurrentAttemptStopped`, `HistoryEndsWithPrompt`, `LiveLeaseHolds` |
| `ChatTurnRefinement`: `TurnsImplementConversation` | `ConversationSpec` |
| `OutboxProofs`: `PermitsAlwaysConserved`, `NoChangeEverLost`, `OnlyHoldersEnd`, `EventsImplementJobs` | `PermitsConserved`, `NoChangeLost`, `EndedByHolder`, `JobsSpec` |
| `TabSessionProofs`: `RevokedForALoss`, `RetryIsNewer`, `SessionIsFresh`, `ChatIsOwn`, `SessionEndsForCause` | `RevokedOnlyAfterLoss`, `RetryUsesNewerToken`, `FreshSession`, `ChatBelongsToUser`, `EndsForCause` |
| `KeysetListProofs`: `RowsOfOneList`, `PagesLeaveNoGap`, `TailIsHeard`, `NextPagesOneByOne`, `ReloadIsFresh` | `RowsOfShownList`, `NoGap`, `TailHeard`, `OneNextPage`, `FreshAfterReload` |
| `ChatPageProofs`: `AsksWhenFree`, `ShowsItsOwn`, `StreamsAlone`, `WorksAsItSays`, `OneTurnForAPrompt`, `KeepsRequests`, `KeepsStops` | `FreeToAsk`, `OwnMessages`, `OneStream`, `Working`, `NoPromptTwice`, `KeptUntilKnown`, `StopKept` |
| `ChatPageProofs`: `TalkInvariance`, `ChatsConverse`, `EachChatConverses` | the invariant with the history, `ChatsAreConversations`, and each chat implements `Conversation!Spec` |
| `NotePageProofs`: `ShowsTheRoute`, `ListsHearOfIt`, `SavesKnowTheText`, `DialogQueuesOnce`, with `DialogInvariance` | `ShownIsOfRoute`, `ListsHear`, `SavesOverWhatWasRead`, `QueuedOnce` |
| `PlacesProofs`: `NoCycleHolds`, `OnePlacePerLineHolds`, `OneMainPlaceHolds`, `DoesWhatItSaysHolds`, `NotesKeepAPlaceHolds`, `SubNotesAskedForHolds`, `StayersKeepTheirPlaceHolds`, with `AsksHold` and `DeletesHold` | `NoCycle`, `OnePlacePerLine`, `OneMainPlace`, `DoesWhatItSays`, `NotesKeepAPlace`, `SubNotesAskedFor`, `StayersKeepTheirPlace`, and what open dialogs say |

`HistoryOnlyRecords`, a lemma of `ChatPageProofs`, says that `order` adds nothing to
`ChatPage`. For the three refinements the argument is the same: initial states map to initial states,
and each action, under the invariant, to one abstract action or a stutter.

### Only model-checked

`PromptAccepted`, `EveryEventEnds`, `WaitersEnd`, `NothingSpins`, `PromptsEnd` and
`Settles` are liveness under fairness, out of the prover's reach as is ENABLED. The
two violated properties have counterexamples, not proofs. Every safety property a
passing run checks is also proved. The type invariants, and `OneNextPage`,
`FreeToAsk`, `OneStream`, `Working` and `RetryUsesNewerToken`, which the inductive
invariants contain, are proved for every value of the constants and not repeated by
a run. That the `ChatTurn` of one chat and the turns of `ChatPage` agree is shown
through `Conversation` only, for safety: `ChatPage` does not use `ChatTurn`'s liveness.

## Not modelled, and why

Everything in the table of components above. Some of it carries core logic and is
planned. The rest is stateless (sky, speech, libraries), rendering (much of the web
client, the design system), configuration, or the protocol of a library (Spring
Authorization Server).

## Plan

1. `Conversation`, `ChatTurn`, `DurableJobs`, `Outbox`: done and proved.
2. `TabSession`, `KeysetList`, `ChatPage`, `NotePage`: done and proved.
3. `Places`: done and proved; `ChatPageTalk`: done and proved.
4. The item menu with deletion and pins, and the shared pinned list.
5. `SummaryLifecycle`: requests, workers, the boundary of summarized messages, the
   release of a reply for a retry; composed with `DurableJobs`. An abstract
   specification in which each message is summarized at most once.
6. `UserProfile`: refresh, rebuild, rules, halving, on the same jobs.
7. `RagIndex`: index runs out of order.

Bounds will be as small as above: two or three actors, one subject, two attempts.
