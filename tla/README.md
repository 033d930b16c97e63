# Willow Creek: a TLA+ development of the work-order app

Willow Creek is an iOS app (Swift, UIKit) for an apartment complex. Tenants send
maintenance work orders and messages, the management reviews the orders and
assigns maintenance workers, and the workers post updates and complete the
orders. There is no server code: every device reads and writes Cloud Firestore
through snapshot listeners and merge writes. What the building can rely on is
therefore decided by what each device does with data that was true when it was
read, in callbacks that arrive in an order nobody controls.

Paths below are relative to `src/WillowCreek/WillowCreek/` unless they start with
`Pods/` (relative to `src/WillowCreek/`).

## 1. Inventory

| Component | Code | State it keeps | Operations | Status |
|---|---|---|---|---|
| Work order requests, review, completion | `DashboardViewController+TableView.swift` (listeners of each row), `WorkOrdersViewController.swift`, `WorkOrderViewController.swift`, `UpdateViewController.swift`, `MessageViewController.swift` (work orders) | `workOrders` documents on the server; per device: the navigation stack, the copy of an order each screen holds, checked rows, `addMaintenance` | tap a dashboard row, listener event, tap an order, check/uncheck workers, finish the review, send an order, complete an order, Back | modelled: `WorkOrderLifecycle` |
| Firestore as the app uses it | `Pods/FirebaseFirestore`: `FSTSyncEngine.mm`, `local_documents_view.mm`, `FSTMutation.mm`, `query_listener.mm` | queue of mutation batches, completion blocks, listeners | enqueue, commit, acknowledge, reject, a lost answer, latency-compensated results, listener events, restart with a persisted queue | partly: inside `WorkOrderLifecycle` |
| Firestore client: write path | `FSTSyncEngine.mm`, `remote_store.mm`, `write_stream.mm`, `stream.mm`, `grpc_stream.cc`, `grpc_completion.cc`, `buffered_writer.cc`, `firebase_credentials_provider_apple.mm` | mutation queues on disk, write pipeline, write stream, gRPC call, worker queue, credentials | write, answer, refusal, change of user, token, backoff, idle timer, connectivity change, restart | partly: `WritePipeline`, which implements `WriteQueue` |
| Firestore client: first events of listeners | `remote_store.mm`, `online_state_tracker.cc`, `query_listener.mm`, `FSTSyncEngine.mm`, `FIRDocumentReference.mm` | listeners, views, watch stream, online state tracker | add and remove a listener, stream opens, fails, idles, timeouts, snapshots, target errors | partly: `FirstEvents` |
| Dashboard counts | `DashboardViewController.swift`, the queries of `LoginViewController.swift` | `workOrderCount`, `requestCount` | `workOrderAdded`, `workOrderRequestCountChanged`, `workOrderCompleted`, read at login | modelled: `WorkOrderLifecycle` |
| Dashboard lists | `parseWorkOrders` in `DashboardViewController+TableView.swift` | the one `workOrders` array, a count per parse, tenant listeners | snapshot, tenant answer, tenant change | modelled: `DashboardLists` |
| Login and its chain of listeners | `LoginViewController.swift`, `signOutTapped` | `uid`, `uType`, the counts; nested listeners that are never removed | log in, the answers, listener calls and errors, alerts, the segue, sign out | modelled: `LoginSession` |
| Updates of a work order | `WorkOrdersViewController.swift`, `UpdateViewController.swift`, `MessageViewController.swift` | the `updates` array shared by the listeners of a list screen, the main queue | tap, event, deferred segue, add an update, its answer, Back | modelled: `UpdateThread` |
| Messages and announcements | `parseMessages`, `parseAnnouncements`, `MessagesViewController.swift`, `MessageViewController.swift` | mailboxes, recipient | send, reply | not modelled (section 6) |
| Tenant search | `SearchViewController.swift` | the filtered array | search, pick a tenant | not modelled (section 6) |
| Maintenance roster | `Classes/Maintenance.swift` | names and active counts of the workers | `getMaintenance`, `getActiveWorkOrderCounts` | not modelled: only labels read it |
| Cells, application delegate, storyboard | the `*Cell.swift` files, `AppDelegate.swift`, `Main.storyboard` | none | layout; the segues are the screens' pushes | not modelled |
| Other vendored pods | `Pods/`: gRPC, BoringSSL, leveldb, abseil, nanopb, Protobuf, Firebase Auth | | third-party code below the Firestore client | not modelled, external to the models of the client |

**How they interact.** The login screen reads counts and presents the dashboard.
A dashboard row adds a listener; its events are parsed into a list screen that
is pushed on the navigation stack, wherever the user is at that time. A list
opens an order and its updates. The order's screen (or the composer, or the
update screen) queues a write and keeps a completion block; when the server has
answered, the block pops the stack to the dashboard and, for two of the three
kinds of write, leads to a delegate call that adjusts the dashboard's counts.
Below the app, the Firestore client keeps each account's writes on disk, feeds
them through a pipeline to one write stream, and gives each listener its first
event from a watch stream or, believing to be offline, from its cache. The
server's collection is the only state that devices share.

**What is hard.** Screens act on stale copies; a device sees its own writes before
the server does; an answer may come after its screen is gone or covered, or be
lost and its write sent again; listeners are never removed and each event opens
a screen; two devices, or one device twice, may write the same order; the app may
be killed with writes queued, losing the completion blocks and keeping the
writes; one of several asynchronous reads may fail; blocks queued on the main
queue read an array that others have changed since; a stream's callbacks arrive
after it was closed, or after the account changed. PROJECT.json lists these at
their lines.

**What makes each part correct.** Orders: nobody completes an order that was not
given to them in a review, and no write takes an order back a stage, but for the
tenant's own that is sent again before it is answered. Counts: a tenant's is never
below what the server has and the app was told of, a manager's falls at most once
for each screen whose review was accepted. Lists: one per snapshot, with
the snapshot's rows. Updates: a screen shows the thread of its order. Login: one
account's data on a dashboard, an answer to every login, nothing after sign-out.
Write path: writes reach the server in order under the account that wrote them,
every answer is matched with its write, and none waits for ever. Listen path:
each listener is called at least once.

## 2. The modules

| Module | What it is |
|---|---|
| `OrderLedger` | abstract specification: an order is requested, assigned a non-empty staff, completed; a second review may replace the staff and nothing else; it begins again only while its tenant has no answer |
| `WorkOrderLifecycle` | the devices, their screens and queues, the server's collection; implements `OrderLedger` |
| `MCLifecycle` | its instances for TLC |
| `LifecycleProofs`, `CountProofs`, `TenantProofs` | its theorems: the invariants, the refinement and the stack; the managers' count; the tenants' count |
| `DashboardLists`, `ListProofs` | parsing snapshots into lists, and its theorems |
| `UpdateThread`, `ThreadProofs` | the updates of the orders of a list, and its theorems |
| `MCScreens` | the instance of both: `flow` picks which of the two a behaviour is about, since they share no state |
| `LoginSession`, `MCLogin`, `LoginProofs` | logins, listeners and sign-out, their instance and theorems |
| `WriteQueue` | abstract specification: an ordered queue per account that delivers at least once |
| `WritePipeline`, `PipelineProofs` | the client's write path, which implements `WriteQueue`, and its theorems |
| `FirstEvents`, `WatchProofs` | the client's listen path up to a listener's first event, and its theorems |
| `MCClient` | the instance of both halves of the client: `half` picks which one a behaviour is about |

`PROJECT.json` maps every definition to the lines it stands for.

### WorkOrderLifecycle

State and code:

- `docs[o]` is the server's document, or `None`. Only the fields some query or guard
  reads are kept: address, reviewed, active, maintenance.
- `batch[d]` is a device's mutation queue. `state` goes pending, committed (the server
  has applied it), acked (the completion block ran) or rejected, and from committed back
  to pending when the write has to be sent again; `handler` names the screen whose block
  waits, and becomes 0 when the app is relaunched.
- `listener[d]` are the listeners of the dashboard's rows, with the result each last
  delivered; none is ever removed, as in the code.
- `parses[d]` are the calls of `parseWorkOrders`, each with the rows of its snapshot and
  its local `count`; `workOrders[d]` is the one array they share, as the set of its rows.
- `screens[d]` are all view controllers ever created, `stack[d]` those on the
  navigation stack. A screen is pushed once, so the greatest number is the visible one.
- `dash[d]` are the two counts. History: `baseline`, the counts the dashboard opened with;
  `everAssigned`, the workers an order ever had; `begunAgain`, the orders that were
  added when they were there already.

Actions: `TapDashboardRow`, `DashboardEvent` (the listener, which empties the array and
starts a parse), `TenantRead` (the answer of one tenant's document, and the list that
the last of them pushes with what the array holds by then), `TapListRow` and
`OpenDetail` (the fetch of the updates and the segue), `SelectWorker`, `DeselectWorker`,
`FinishButtonTapped`, `OpenComposer`, `AddressLoaded`, `SendButtonTapped`,
`WorkOrderCompleteButtonTapped`, `ConfirmCompletion`, `CancelCompletion`, `Back`, then
Firestore's `Commit`, `Acknowledge`, `LoseAnswers` and `Reject`, and `Relaunch` (the app is
killed or crashes, and the user signs in again). `viewWillDisappear` is
`WhenTopDisappears`, a part of each action that hides the visible screen: a push, Back,
and the pop in `Acknowledge`.

A write may be committed more than once. The client keeps a stream token, but each new
stream starts without the old one's (`write_stream.mm:64`: no stream resumption), and
what was not answered is still in the queue on disk. So the committed writes become
pending again (`Resent`) whenever a stream goes: when it breaks between the server's
commit and the answer (`LoseAnswers`), when the app is killed (`Relaunch`), and when the
server refuses a write (`Reject`). The last is a permanent error that the client blames on
the oldest unanswered write, which the server may well have applied
(`remote_store.mm:492-516`, and the run `refused_applied`); the others are sent again. For a
review or a completion that is harmless, since they merge. A new order begins again:
the document is replaced, and is put in `begunAgain` (`replayed_order`).

Abstractions, and why they are sound for the properties:

- A device's view is the server's documents overlaid with its unanswered writes. The
  stale document cache is left out; a screen is stale all the same, since it keeps the
  copy it was opened with.
- The writes of one device to one order are of one kind (its role's), so the latest
  stands for the overlay of all.
- The pop in the completion and send blocks is deferred by one main-queue turn; it
  goes to the dashboard from anywhere, so it is taken together with the block.
- The array is a set of rows: their order, repeated rows and a tenant who cannot be read
  are in `DashboardLists`.
- The fetch of updates is one tap and one answer, which may also never come; that its
  listener fires again is in `UpdateThread`.
- Messages and announcements do not touch orders.

### DashboardLists

`workOrders` is the dashboard's array, `parses` the calls of `parseWorkOrders` with
their snapshot and local `count`, `lists` what was pushed. `ParseWorkOrders` is a
non-empty snapshot, `TenantRead` a call of the listener on one order's tenant, the
first or a later one. Orders in `Unreadable` are those whose tenant document gives an
error; the error is printed and counts for nothing. `alone` is history: the parse
has had the array to itself.

### UpdateThread

`thread` is what the phone knows of each order's updates, `updates` the array of the
list screen, `onThread` the listeners its taps added, `main` the blocks waiting on the
main queue, `stack` the screens above the dashboard. `Tap` empties the array and adds a
listener; each event (`FirstEvent`, or one due to `UpdateArrives`, `SendUpdate`,
`UpdateRefused`) is a block that appends the whole thread (`RunEvent`) and queues a
segue for each append that makes the array as long as the thread; `RunSegue` reads the
array as it is then. `SendUpdate` adds a listener on the new document, whose first event
leads, by two more blocks (`RunAdded`, `RunPop`), to the pop, if the composer that sent it
is still on the stack: it asks its own navigation controller, which is nil otherwise
(`MessageViewController.swift:251-255`). An update is a number;
where a new one stands in the thread is open, as clocks of devices differ. `tap` is
history: whether the last tap is still alone.

### LoginSession

`logins` are the calls of `authUser`, `listeners[i][l]` the listeners login `i` has added
at nesting level `l` (how many were not called yet, and whether one that was called is
alive). Each call stores its value in the login screen's variables and adds a
listener one level in, or, at the last level, performs the segue, which UIKit drops
while an alert or a dashboard is presented. A variable's value is abstracted to the
account it was read for. The two `getDocument` calls of a login have no effect in
between and are one step. An error ends all listeners of a query at once, as
Firestore does; Firestore's rules are not in the repository, so a query may be
refused at any time, after a sign-out for instance, or not.

### WritePipeline

`owner`, `queue`, `applied`, `acked`, `refused` are those of `WriteQueue`: who wrote batch
`n`, each account's queue on disk, what the server applied, what the app was told.
`store` is the remote store with its pipeline, the stream's state, handshake, idle timer,
close count and the token requests on their way; `call` is the gRPC call with its
outstanding operations, the buffered writer, the messages on their way and the answers
that came back; `tasks` is the worker queue, on which every callback runs. Each handler
is one action made of the same parts as the code (`FillWritePipeline`, `StartIfNeeded`,
`Close`, `TryStartWrite`), on a record of the store and the call: `WriteMutations`,
`RunToken`, `RunUser`, `RunRead`, `RunWrote`, `RunBroken`, `RunFinished`, `RunCancelled`,
`BackoffElapsed`, `IdleTimeout`, `ConnectivityChange`, `Restart`. External: `CredentialChange`
and `GetTokenAnswer` (Firebase Auth), `ReadDone`, `ReadBroken`, `WriteDone`, `WriteBroken`,
`FinishDone`, `CallBreaks` (gRPC), `ServerTakes`.

Assumed of what is external: the server takes nothing of a call after the call ended;
Auth changes its user and notifies the client in one step; being signed out is one
of the members of `User`, with a queue of its own, as in the code; answers that
arrived before a call broke can still be read. Left out: malformed answers,
`disableNetwork` and shutdown (the app calls neither), the empty last request of
`TearDown`, and the length of delays. `WriteMutations` writes for the user the sync engine knows of,
also between a change of credentials and its task.

### FirstEvents

`listens` are the listeners in order, `views[q]` the view of a query (listened to, not
empty, in sync with the server), `watch` the watch stream with the targets the server
has yet to answer, `tracker` the online state tracker. The actions are `Listen`,
`RemoveListener` (`getDocument` takes its own listener away), `LocalWrite`, `StreamOpens`,
`StreamFails`, `BackoffElapses`, `WatchIdles`, `OnlineStateTimeout`, `NewCredentials`, and of the
server `Acknowledged`, `Snapshot`, `TargetFails`. A handler changes several of these
objects by calling one another's methods; the parts (`SetAndBroadcast`, `UpdateState`,
`HandleWatchStreamStart`, `HandleWatchStreamFailure`, `StartOr`, `Closed`) work on a record of
them. That no callback of a closed stream is handled is `WritePipeline`'s concern, for
the same class `Stream`; here a closed call is gone. Later events, limbo documents,
existence filters and resume tokens are left out.

## 3. Runs

| Run | Instance | What it shows |
|---|---|---|
| `lifecycle_roles` | one tenant whose app may be killed and whose answers may be lost, one manager, one worker, one order, two addresses | the inductive invariants `IndInv` and `KeptInv`, `CompletedWasReviewed`, `ReviewedHasStaff`, `CompleterWasAssigned`, `NeverUndercounts`, and the ledger, over the whole life of an order that may begin again (266,520 states) |
| `lifecycle_desk` | a manager with one request behind two listeners, four screens, two reviews, relaunches and refusals | `DecrementsBacked` and `AcceptedScreenIsGone` with a list that was read before a review and pushed after it, lists stacked on details, a second review, and a review sent twice (749,587) |
| `lifecycle_staff` | a manager who finishes a review twice, with lost answers, a worker who completes, another who may be assigned | `CompleterWasAssigned` and the ledger while the staff changes (430,327) |
| `lifecycle_home` | a tenant, two orders or one sent twice, relaunches, lost answers, and a refusal blamed on the wrong one | `TypeOK`, `NeverUndercounts`, and that every write is answered (150,859) |
| `screens` | two snapshots of up to three orders, one unreadable; or two taps on a list of two orders, two updates | one list per snapshot, its rows when undisturbed, a readable snapshot is shown; a detail opened undisturbed shows its thread, no event opens two, an undisturbed tap opens one (182,914) |
| `login_session` | two logins of a tenant and a worker, the longest and the shortest chain | `DashboardIsOwn`, and `LoginIsAnswered` (72,385) |
| `firestore_client` | three writes of two accounts, the second one refused, two places in the pipeline; or two listeners on two queries | the pipeline is matched with its answers, its credentials and its disk, no assertion fails, `WriteQueue` is implemented, its promises hold (`EveryWriteHasOneFate`, `ReportsInOrder`, `NoWriteOvertakes`), every write settles; every listener is called (112,385) |
| `review_count` | violation | an answer that comes after Back leaves the request count as it was |
| `list_rows` | violation | two parses at once push a list with rows of both snapshots |
| `sign_out` | violation | after sign-out a change of a count presents the dashboard again |
| `replayed_order` | violation | a new order whose answer was lost is sent again and replaces the reviewed order |
| `refused_applied` | violation | a permanent error overtakes answers that were read, and is blamed on a batch the server applied |

The five violations are disagreements between a comment and what the code does;
`findings` in PROJECT.json quotes them.

Deadlock is checked in `lifecycle_roles`, `lifecycle_desk`, `lifecycle_home`, `login_session`,
`review_count` and `sign_out`, where the user can always go on: an app may be relaunched,
a login repeated or signed out. It is not in the others, which stop when a bound is
used up: no relaunch is allowed (`lifecycle_staff`, `replayed_order`), or all snapshots,
taps, writes and listeners were made and answered (`screens`, `list_rows`,
`firestore_client`, `refused_applied`). The liveness properties check that none of these
stops early.

**Bounds.**

- Lifecycle: `MaxTaps`, `MaxParses`, `MaxScreens` and `MaxBatches` bound, per device, the
  dashboard rows tapped, the snapshots parsed, the screens opened and the writes made;
  `MayRelaunch` and `MayLoseAnswers` say
  whose app may be killed and whose stream may break at a bad time (any number of
  times). They are functions of the device, so that each run spends its states where its
  question is. Two screens let a worker or a manager go from list to order; four let a
  second list cover a detail, be opened, and cover again. Two listeners and two parses
  are what a list that is older than a review needs to be pushed after it. Two batches
  are what a double tap, a re-review or a refusal blamed on the wrong write takes. One
  order is enough for the stages, two for the freshness of ids. Two addresses are in the
  runs with a tenant, so that an order sent for another apartment would be seen.
- Screens: `MaxParses` and `MaxCalls` bound snapshots and calls of one tenant listener: two
  overlapping parses and one repeated call are what the array's sharing and the `==`
  test need. `MaxTaps` and `MaxUpdates` bound taps on the list and updates: one update
  there from the start and one more, and two listeners, are what makes an array longer
  than a thread or filled by two events.
- Login: `MaxLogins` and `MaxChanges` bound logins and repeated listener calls: a second
  login with one change is what mixing accounts, or returning after sign-out, takes.
- Client, writes: `MaxBatches` writes exceed the pipeline's places (`MaxPendingWrites`, 10
  in the code, 2 here) by one; one change of credentials and one fault (a broken call, a
  failed token, a connectivity change, a restart) may fall anywhere between the steps of
  the writes. `refused_applied` needs no fault, but a longer pipeline.
- Client, listeners: `MaxListens` and `MaxDrops` bound listeners, and the calls that break
  after they were heard from and the credential changes; a stream that never answers may
  fail for ever. A `FirstEvents` instance with three listeners and one drop, for which
  there is no run, passed too (56,386 states).

The theorems of section 4 hold without these bounds.

**Fairness.** In the lifecycle, `WritesAreAnswered` assumes WF of a device's queue, and
speaks of a device that from some time on is not killed and loses no answers (`StaysUp`),
since either sends the same write again, for as long as it goes on. `WritePipeline` says why the code justifies it: there `EveryWriteSettles` is shown from WF
of the single steps, that is of the worker queue's tasks, of the backoff timer, of an
answer by `getToken`, of the completions of gRPC operations that can complete, and of the
server. What makes it hold is that each close of the stream with a filled pipeline
leads to a new start (`OnWriteStreamClose`, `FillWritePipeline` in `remote_store.mm`), for
as long as it takes; since a network that breaks for ever settles nothing, faults are
bounded. `FirstEventComes` assumes WF of `OnlineStateTimeout` (the tracker's ten seconds,
`kOnlineStateTimeout`), of the backoff timer, that a starting stream opens or fails, and
that an open one answers a target or fails, which the keepalive of 30 seconds
(`grpc_connection.cc:193`) sees to: here nothing needs the server to be there at all.
`EveryReadableParseIsShown`, `TapOpens` and `LoginIsAnswered` assume just that, a first call
of each new listener, and that Auth answers, if only with an error, and the main queue
runs its blocks. Nothing is assumed of users.

## 4. Proofs

All theorems hold for any finite set of orders and any sets of devices, apartments,
accounts, queries and bounds that satisfy the assumptions: `WorkOrderAssumption` (the
roles' devices are disjoint, each tenant has an apartment), `NoneAssumption` (`None` is no
document), `ListAssumption`, `ThreadAssumption` (the bounds are numbers), `LoginAssumption` (each account has a role, `None` is none),
`WatchAssumption` (the bounds are numbers), `PipelineAssumption` (there is an
account, the pipeline has a place, `Hello` is no batch).

| Module | Theorem | Of the specification, always |
|---|---|---|
| `LifecycleProofs` | `Invariant` | `IndInv`, the inductive invariant of what devices know and write |
| | `TypeCorrect`, `ReviewGivesStaff`, `OnlyStaffCompletes` | `TypeOK`, `ReviewedHasStaff`, `CompleterWasAssigned` |
| | `AcceptedScreenNeverReturns` | `AcceptedScreenIsGone` |
| | `OrdersAreKept` | `KeptInv`, what an order keeps unless it begins again |
| | `CompletedOnlyAfterReview`, `Refinement` | `CompletedWasReviewed`, `ImplementsLedger` |
| `CountProofs` | `DecrementsStayBacked` | `DecrementsBacked` |
| `TenantProofs` | `TenantsNeverUndercount` | `NeverUndercounts` |
| `ListProofs` | `ListsTypeCorrect`, `SnapshotPushesOnce`, `QuietListIsRight` | `TypeOK`, `OneListPerParse`, `QuietListIsItsSnapshot` |
| `ThreadProofs` | `ThreadTypeCorrect`, `QuietDetailIsRight`, `EventsOpenOne` | `ThreadTypeOK`, `QuietDetailShowsThread`, `EventOpensOne` |
| `LoginProofs` | `LoginTypeCorrect`, `DashboardStaysOwn` | `LoginTypeOK`, `DashboardIsOwn` |
| `PipelineProofs` | `PipeInvariant` | `PipeInv`, the inductive invariant |
| | `PipelineTypeCorrect`, `PipelineStaysFull` | `PipelineTypeOK`, `PipelineIsFull` |
| | `AnswersStayMatched`, `CredentialsStayOwn`, `AssertionsHold` | `AnswersMatchPipeline`, `OwnCredentials`, `NoAssertionFails` |
| | `PipelineImplementsQueue` | `QueueIsImplemented` |
| | `WritesHaveOneFate`, `WritesAreReportedInOrder`, `WritesDoNotOvertake` | `EveryWriteHasOneFate`, `ReportsInOrder`, `NoWriteOvertakes` |
| `WatchProofs` | `WatchTypeCorrect`, `WatchStaysConsistent`, `WaitsStayTimed` | `WatchTypeOK`, `WatchIsConsistent`, `WaitsAreTimed` |

**Orders.** None of the safety properties is inductive. A completion is a write
without a condition; that the order was reviewed, and given to this worker, was
true when some list was read, long before. `IndInv` says that what screens and queued
writes are about stays true: every order on a screen, tapped, in a parse, in the shared
array or in the queue of a device is one it can have been shown (`Seen(d)`: for a worker, an order the worker was
at some time on), which is never undone, since `everAssigned` only grows. The writes of a
tenant only create, for the tenant's own address, those of a manager carry a non-empty staff, those of a worker only
complete (`SoundBatch`); `SoundHandlers` ties a completion block to the screen it will
change. With that, each `Commit` keeps `SoundDocs` (reviewed exactly with a staff), whatever
is sent again. The proofs go action by action: `LocalStep`, `ScreenOnly`, `PushStep` and
`EnqueueStep` are the lemmas for what groups of actions have in common, and one lemma per
action uses them.

That an order keeps its review is another matter: a creation that is sent again puts
the order back to its beginning (`replayed_order`), and a worker who saw it reviewed may
then complete it. An ordinary kill of the tenant's app is enough for that, so nothing is
assumed against it: `KeptInv` says what is true all the same. An order that ever had staff
is on the server, and is reviewed unless it is in `begunAgain` (`AssignedStaysReviewed`);
a completed one once had staff (`CompletedWasReviewed`); and no two writes of tenants are
of one document (`AddedOnce`), so that only the one write that began an order can begin it
again. The refinement maps `stage` and `staff` to the documents, `given` to `everAssigned`
and `open` to the orders whose creation is unanswered: only these begin again. Its
steps need `KeptInv` for the orders and `AddedOnce` for `open`, from which an answer must
take the order for good. All this holds whoever's app is killed, whoever's answers are
lost and whichever write is blamed for a refusal.

**The stack.** `AcceptedScreenNeverReturns` rests on screens being numbered as they are
created: a push only adds a number that no completion block has yet, and a pop to
the dashboard removes them all.

**The managers' count.** A screen takes the count down as it disappears, when it has
`addMaintenance`. That happens in one place only: `CountInv` says that just the answer of
a review marks the screen that sent it (`Marked`), and that the count fell by no more than
the number of screens with an accepted review (`Backed`). The answer that marks a screen
also takes it off the stack, and by `AcceptedScreenIsGone` for good; so no later push, Back
or pop finds a marked screen on top (lemma `Calm`), and the answer that finds its screen on
the stack is that screen's first. The bound is by screens and not by orders, and cannot be:
a list whose tenants are read slowly is pushed with rows from before the review, whose
screen reviews the order, and takes it off, a second time.

**The tenants' count.** `CoverInv`, for a tenant who lives alone: the count is at least the
number of orders that are `Due`, that is on the server or in writes restored from disk
(`Restored`), without those whose handler in this session has not been told that they
were added (`Unreported`). The restored writes are on the server's side of the balance,
because the dashboard counted them at its start from the local copy (`CountsCover`) and no
block will count them again. An answer makes one order due at most, and counts one; by
`AddedOnce` no other write speaks of that order. A write reported as failed that the server
had applied stays unreported until the next launch counts it.

**Lists.** `SnapshotPushesOnce` rests on a parse's count never falling: a list is pushed
only by the call that makes it equal to the snapshot's size. `QuietListIsRight` needs
that an undisturbed parse has appended one row for each order called, in `Filling`.

**Updates.** That a detail shows its thread spans a tap, a call of its listener, the block
that appends and the block that opens. `LastTapIsClean` follows the last tap through them:
until its listener is called the array is empty and no segue is queued for it; once it
was called, with no event before or since, the array holds the very documents that
the queued segue was queued for. `BlocksHaveListener` is why a new tap's listener has no
block yet. The blocks that a change of the thread queues are given by what they are,
one for each live listener of the order, in the order they were added (`Tells`), so
the proof never counts through a sequence.

**Login.** `OwnListeners`: while no account was read beside the listeners of another, every
listener that may still be called belongs to the account of the screen, and what the
levels outside it read was of that account (`ReadBefore`).

**The write path.** That an answer is matched with its write is a fact about four places
at once: the pipeline, the messages on their way, the answers that came back, and the
completions that wait on the worker queue, some of them for a call that is gone.
`PipeInv` says of each what the others rely on. `QueuesOk`: an account's queue holds its own
batches, oldest first, and the pipeline is its front (`PipelineIsFull`). `TasksOk`: no task has
a close count above the stream's; of those with the present count at most one is the
answer to a token request and at most one a read, and then no other of its kind is
outstanding; so the handlers that do not check whom an answer is for need not.
`UsersOk`: the last change of user on the worker queue is the one in force, so a token
that arrives before it is of the user that the sync engine has. `AnswersOk`: the answers not
handled yet, then what is sent or waits to be, are the pipeline, and the answers are
of batches that were applied. `EndOk`: a call that ended for good met a batch the server
refuses, and every one before it in the pipeline was applied. From these `AnswersMatchPipeline`,
`OwnCredentials` and `NoAssertionFails` follow, and each step is one of `WriteQueue` or leaves
its variables alone: `EndOk` gives `GiveUp` its witness, which need not be the batch given
up (`refused_applied`). The handlers work on a record of store and call, so each part of a
handler has one lemma (`FillFacts`, `WriteAllFacts`, `CloseFacts`), and steps that close the
stream share one (`ClosingSteps`): whatever is on its way is outdated by then.

**What the app can rely on.** The refinement makes a short proof of promises that span the
whole write path. `QueueInv` is an invariant of `WriteQueue`, whose four actions know nothing
of streams: batches are numbered as they are written and an account's queue is
increasing, so what leaves at the head is older than all that stay, and a write that
is in line to be applied has every older one of its account applied, reported or given up.
It needs all three promises at once: that an older write not queued any more was
reported is `Fate`, and that it was applied if it was reported as done is in
`NoWriteOvertakes`. With `PipelineImplementsQueue` they hold of every behaviour of the client.
That a write reported as failed was not applied is no part of it, and false
(`refused_applied`).

**First events.** `AllOk(Current)` is an invariant of the record the handlers work on, so that
each part of a handler has one lemma on what it keeps: the listeners and views agree
(`ListenersOk`), the stream runs exactly while some target needs it (`StreamOk`), the timer
runs only with an unknown state (`TimerOk`). `Timed` is `WaitsAreTimed` and what it needs. It
has an exception, `reverted`: the last target is removed while the stream is starting, and
`remote_store.mm:166-169` sets the state back with the timer; a listener added before the
stream opens or fails has no timer of its own, against `query_listener.mm:108-109` ("it
should become Offline or Online if we wait long enough"). It is called all the same,
by what the stream does next (`FirstEventComes`).

**Only model-checked.** The liveness properties `WritesAreAnswered`, `EveryReadableParseIsShown`,
`TapOpens`, `LoginIsAnswered`, `EveryWriteSettles`, `FirstEventComes`: fairness and ENABLED are
beyond the prover. Every safety property of a passing run has its theorem.

## 5. Plan

Done: all modules of section 2, with the proofs of section 4. Left: a two-apartment
instance of the lifecycle. `NeverUndercounts` speaks of tenants who live alone, and what
two tenants of one apartment see is not stated yet.

## 6. Not modelled

- Messages and announcements: each is one unconditional write that nothing decides on
  later; a mailbox is the parse of one snapshot without a callback in between. Their
  listeners and their composer have the shape of `DashboardLists` and `UpdateThread`, so
  a module of them would repeat those. That a manager's reply goes back to the
  management (`MessagesViewController.swift:69`) is a constant, which one test shows.
- The tenant search: a function of the search text, computed in one call.
- Labels, dates, layout and the order of rows; the roster of workers (a late roster only
  shows fewer names); the package alert, which has no code; push notifications, which
  the app does not have.
- Of Firestore: the query engine and cache eviction, the watch protocol after the first
  event, transactions and deletes, which the app does not use.
- The other vendored pods. They are most of the C and C++ code in the repository, and
  nothing of the app's logic is in them; the models say what is assumed of them.
- A malformed document (a missing field) makes the parsers return early, or a forced
  cast stop the app; the app itself writes every field, so such documents are not in
  the models.
