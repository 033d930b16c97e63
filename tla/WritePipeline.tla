----------------------------- MODULE WritePipeline -----------------------------
(* The Firestore client of one device, from the app's write to the server's    *)
(* verdict on it: the mutation queues on disk, the write pipeline of the       *)
(* remote store, the write stream with its credentials, backoff and idle       *)
(* timer, the gRPC call under it, and the worker queue on which all of their   *)
(* callbacks run.  The gRPC library and the server are external.  A batch is   *)
(* its number; Hello is the handshake request and its answer.                  *)
EXTENDS Naturals, Sequences, SequencesExt

CONSTANTS
    User,               \* the accounts used on the device
    NoToken,            \* the answer of a token request that failed
    Bad,                \* the batches the server refuses for good
    MaxPendingWrites,   \* kMaxPendingWrites
    MaxBatches,         \* bound: writes of the app
    MaxChanges,         \* bound: sign-ins and token refreshes
    MaxFaults           \* bound: broken calls, failed tokens, network changes, crashes

ASSUME PipelineAssumption ==
    /\ User # {} /\ NoToken \notin User
    /\ Bad \subseteq Nat \ {0}
    /\ MaxPendingWrites \in Nat \ {0}
    /\ MaxBatches \in Nat /\ MaxChanges \in Nat /\ MaxFaults \in Nat

VARIABLES
    owner, queue, applied, acked, refused,  \* as in WriteQueue
    auth,       \* the credentials provider's current_user
    changes,    \* its token_counter
    user,       \* the sync engine's _currentUser
    store,      \* the remote store's pipeline and write stream
    call,       \* the write stream's gRPC call
    tasks,      \* the worker queue
    faults      \* faults so far

serverVars == <<applied>>
appVars == <<owner, queue, acked, refused>>
authVars == <<auth, changes>>
pipelineVars == <<owner, queue, applied, acked, refused, auth, changes, user, store,
                  call, tasks, faults>>

Hello == 0

(* The call a closed stream has, and a new one: Read has been issued and the  *)
(* handshake is being written.                                                *)
NoCall == [live |-> FALSE, user |-> NoToken, finished |-> FALSE, ops |-> {},
           busy |-> FALSE, buffer |-> <<>>, wire |-> <<>>, back |-> <<>>, end |-> "open"]

NewCall(u) ==
    [NoCall EXCEPT !.live = TRUE, !.user = u, !.ops = {"read", "write"}, !.busy = TRUE,
                   !.wire = <<Hello>>]

-----------------------------------------------------------------------------
(* The parts of the remote store's handlers.  They work on a record with the  *)
(* store s and the call c, as the handlers do on the objects.                 *)

IsStarted(s) == s.state \in {"Starting", "Backoff", "Open"}

(* BufferedWriter::TryStartWrite and GrpcStream::MaybeWrite *)
TryStartWrite(c) ==
    IF c.buffer = <<>> \/ c.busy THEN c
    ELSE [c EXCEPT !.busy = TRUE, !.ops = @ \union {"write"},
                   !.wire = Append(@, Head(c.buffer)), !.buffer = Tail(@)]

(* Stream::Write of each of the messages *)
WriteAll(r, msgs) ==
    IF msgs = <<>> THEN r
    ELSE [s |-> [r.s EXCEPT !.idle = FALSE],
          c |-> TryStartWrite([r.c EXCEPT !.buffer = @ \o msgs])]

(* StartWriteStream if ShouldStartWriteStream *)
StartIfNeeded(r) ==
    IF IsStarted(r.s) \/ r.s.pipe = <<>> THEN r
    ELSE IF r.s.state = "Error" THEN [r EXCEPT !.s.state = "Backoff"]
    ELSE [r EXCEPT !.s.state = "Starting",
                   !.s.asked = @ \union {[closes |-> r.s.closes, counter |-> changes]}]

(* Mutant of NextBatches: the pipeline is taken to have one place more. *)
NextBatches_OneTooMany(q, pipe) ==
    LET n == IF Len(q) <= MaxPendingWrites THEN Len(q) ELSE MaxPendingWrites + 1
    IN  SubSeq(q, Len(pipe) + 1, n)

(* The batches of q that FillWritePipeline adds: those after the last one it  *)
(* has, as many as fit.                                                       *)
NextBatches(q, pipe) ==
    LET newer == {i \in DOMAIN q : pipe = <<>> \/ q[i] > Last(pipe)}
        first == CHOOSE i \in newer : \A j \in newer : i <= j
        space == MaxPendingWrites - Len(pipe)
    IN  IF newer = {} THEN <<>>
        ELSE SubSeq(q, first, IF first + space - 1 < Len(q) THEN first + space - 1 ELSE Len(q))

FillWritePipeline(r, q) ==
    LET more == NextBatches(q, r.s.pipe)
        full == [r EXCEPT !.s.pipe = @ \o more]
    IN  StartIfNeeded(
            IF r.s.state = "Open" /\ full.s.pipe = <<>> THEN [full EXCEPT !.s.idle = TRUE]
            ELSE IF r.s.state = "Open" /\ r.s.shaken THEN WriteAll(full, more)
            ELSE full)

(* Mutant of Close: the handshake is taken to be done for good. *)
Close_KeepsHandshake(r, state) ==
    [s |-> [r.s EXCEPT !.state = state, !.idle = FALSE, !.closes = @ + 1], c |-> NoCall]

(* Stream::Close, without the callback: the timers are cancelled, the close   *)
(* count invalidates what is on its way, and the call is given up.            *)
Close(r, state) ==
    [s |-> [r.s EXCEPT !.state = state, !.shaken = FALSE, !.idle = FALSE, !.closes = @ + 1],
     c |-> NoCall]

Stop(r) == IF IsStarted(r.s) THEN Close(r, "Initial") ELSE r

(* Mutant of CloseAndRetry: the stream waits for the next write of the app. *)
CloseAndRetry_Waits(r) == Close(r, "Error")

(* The stream closes on an error that says nothing of the writes. *)
CloseAndRetry(r) == StartIfNeeded(Close(r, "Error"))

Dropped(r) == [r EXCEPT !.s.pipe = Tail(@)]

Now == [s |-> store, c |-> call]

Becomes(r) == store' = r.s /\ call' = r.c
-----------------------------------------------------------------------------
PipelineInit ==
    /\ owner = <<>>
    /\ queue = [u \in User |-> <<>>]
    /\ applied = {} /\ acked = {} /\ refused = {}
    /\ auth \in User
    /\ user = auth
    /\ changes = 0
    /\ store = [pipe |-> <<>>, state |-> "Initial", shaken |-> FALSE, idle |-> FALSE,
                closes |-> 0, asked |-> {}]
    /\ call = NoCall
    /\ tasks = <<>>
    /\ faults = 0

(* The app writes, for the user the sync engine knows of when the task runs:  *)
(* the task of a change of credentials may be behind it in the queue.         *)
WriteMutations ==
    /\ Len(owner) < MaxBatches
    /\ owner' = Append(owner, user)
    /\ queue' = [queue EXCEPT ![user] = Append(@, Len(owner) + 1)]
    /\ Becomes(FillWritePipeline(Now, queue'[user]))
    /\ UNCHANGED <<serverVars, acked, refused, authVars, user, tasks, faults>>

(* Somebody signs in, or the token of the user is refreshed. *)
CredentialChange(u) ==
    /\ changes < MaxChanges
    /\ changes' = changes + 1
    /\ auth' = u
    /\ tasks' = Append(tasks, [kind |-> "user", user |-> u])
    /\ UNCHANGED <<serverVars, appVars, user, store, call, faults>>

(* getToken answers: with an error if the credentials changed since it was    *)
(* asked, and perhaps because it could not reach its server.                  *)
GetTokenAnswer(req) ==
    /\ store' = [store EXCEPT !.asked = @ \ {req}]
    /\ \/ /\ tasks' = Append(tasks, [kind |-> "token", closes |-> req.closes,
                                     user |-> IF req.counter = changes THEN auth ELSE NoToken])
          /\ UNCHANGED faults
       \/ /\ faults < MaxFaults
          /\ faults' = faults + 1
          /\ tasks' = Append(tasks, [kind |-> "token", closes |-> req.closes, user |-> NoToken])
    /\ UNCHANGED <<serverVars, appVars, authVars, user, call>>
-----------------------------------------------------------------------------
(* The worker queue runs the task at its head. *)

Run(kind) == tasks # <<>> /\ Head(tasks).kind = kind /\ tasks' = Tail(tasks)

(* Mutant of Cancelled: completions of an earlier call are not. *)
Cancelled_SameCallOnly(t) == call.finished /\ t.kind # "finished"

(* A completion is a no-op once the call it belongs to is closed, or finished *)
(* by another completion.                                                     *)
Cancelled(t) == t.closes # store.closes \/ (call.finished /\ t.kind # "finished")

RunCancelled ==
    /\ \E kind \in {"read", "wrote", "broken", "finished"} : Run(kind)
    /\ Cancelled(Head(tasks))
    /\ UNCHANGED <<serverVars, appVars, authVars, user, store, call, faults>>

(* Mutant of Outdated: the close count is not compared. *)
Outdated_Never(t) == FALSE

(* The answer to a request of a stream that was closed since. *)
Outdated(t) == t.closes # store.closes

(* ResumeStartWithCredentials, OnStreamStart and WriteHandshake *)
RunToken ==
    LET t == Head(tasks) IN
    /\ Run("token")
    /\ \/ Outdated(t) /\ UNCHANGED <<store, call>>
       \/ ~Outdated(t) /\ t.user = NoToken /\ Becomes(CloseAndRetry(Now))
       \/ /\ ~Outdated(t) /\ t.user # NoToken
          /\ store' = [store EXCEPT !.state = "Open", !.idle = FALSE]
          /\ call' = NewCall(t.user)
    /\ UNCHANGED <<serverVars, appVars, authVars, user, faults>>

(* Mutant of RunUser: the pipeline is not cleared. *)
RunUser_KeepsPipeline ==
    /\ Run("user")
    /\ user' = Head(tasks).user
    /\ Becomes(FillWritePipeline(Stop(Now), queue[Head(tasks).user]))
    /\ UNCHANGED <<serverVars, appVars, authVars, faults>>

(* credentialDidChangeWithUser: the local store turns to the queue of the     *)
(* user and the streams are restarted.                                        *)
RunUser ==
    LET u == Head(tasks).user
        stopped == [Stop(Now) EXCEPT !.s.pipe = <<>>]
    IN
    /\ Run("user")
    /\ user' = u
    /\ Becomes(FillWritePipeline(stopped, queue[u]))
    /\ UNCHANGED <<serverVars, appVars, authVars, faults>>

(* Mutant of RunRead: the place that became free is not filled. *)
RunRead_NoRefill ==
    LET next == [Now EXCEPT !.c.ops = @ \union {"read"}] IN
    /\ Run("read")
    /\ ~Cancelled(Head(tasks))
    /\ IF ~store.shaken
       THEN /\ Becomes(WriteAll([next EXCEPT !.s.shaken = TRUE], store.pipe))
            /\ UNCHANGED <<queue, acked>>
       ELSE /\ acked' = acked \union {Head(store.pipe)}
            /\ queue' = [queue EXCEPT ![user] = Tail(@)]
            /\ Becomes(Dropped(next))
    /\ UNCHANGED <<serverVars, owner, refused, authVars, user, faults>>

(* OnRead: the next Read is issued first.  The first answer of a call is the  *)
(* handshake's, every other one is for the first batch of the pipeline.       *)
RunRead ==
    LET next == [Now EXCEPT !.c.ops = @ \union {"read"}] IN
    /\ Run("read")
    /\ ~Cancelled(Head(tasks))
    /\ IF ~store.shaken
       THEN /\ Becomes(WriteAll([next EXCEPT !.s.shaken = TRUE], store.pipe))
            /\ UNCHANGED <<queue, acked>>
       ELSE /\ acked' = acked \union {Head(store.pipe)}
            /\ queue' = [queue EXCEPT ![user] = Tail(@)]
            /\ Becomes(FillWritePipeline(Dropped(next), queue'[user]))
    /\ UNCHANGED <<serverVars, owner, refused, authVars, user, faults>>

(* OnWrite: the next buffered message is written. *)
RunWrote ==
    /\ Run("wrote")
    /\ ~Cancelled(Head(tasks))
    /\ call' = TryStartWrite([call EXCEPT !.busy = FALSE])
    /\ UNCHANGED <<serverVars, appVars, authVars, user, store, faults>>

(* OnOperationFailed: the other operations are cancelled and the call is      *)
(* asked for its status.                                                      *)
RunBroken ==
    /\ Run("broken")
    /\ ~Cancelled(Head(tasks))
    /\ call' = [call EXCEPT !.finished = TRUE, !.ops = {"finish"}]
    /\ UNCHANGED <<serverVars, appVars, authVars, user, store, faults>>

(* Mutant of RunFinished: the app is not told which write was given up. *)
RunFinished_Silent ==
    LET blamed == Head(tasks).end = "permanent" /\ store.shaken /\ store.pipe # <<>> IN
    /\ Run("finished")
    /\ ~Cancelled(Head(tasks))
    /\ IF blamed
       THEN /\ queue' = [queue EXCEPT ![user] = Tail(@)]
            /\ Becomes(FillWritePipeline(Dropped(Close(Now, "Initial")), queue'[user]))
       ELSE Becomes(CloseAndRetry(Now)) /\ UNCHANGED queue
    /\ UNCHANGED <<serverVars, owner, acked, refused, authVars, user, faults>>

(* Mutant of RunFinished: the last batch of the pipeline is blamed. *)
RunFinished_BlamesLast ==
    LET blamed == Head(tasks).end = "permanent" /\ store.shaken /\ store.pipe # <<>>
        last   == Last(store.pipe) IN
    /\ Run("finished")
    /\ ~Cancelled(Head(tasks))
    /\ IF blamed
       THEN /\ refused' = refused \union {last}
            /\ queue' = [queue EXCEPT ![user] = SelectSeq(@, LAMBDA n : n # last)]
            /\ Becomes(FillWritePipeline(
                    [Close(Now, "Initial") EXCEPT !.s.pipe = SelectSeq(@, LAMBDA n : n # last)],
                    queue'[user]))
       ELSE Becomes(CloseAndRetry(Now)) /\ UNCHANGED <<refused, queue>>
    /\ UNCHANGED <<serverVars, owner, acked, authVars, user, faults>>

(* OnStreamFinish and OnWriteStreamClose.  A permanent error of a call whose  *)
(* handshake was done is blamed on the first batch of the pipeline.           *)
RunFinished ==
    LET blamed == Head(tasks).end = "permanent" /\ store.shaken /\ store.pipe # <<>> IN
    /\ Run("finished")
    /\ ~Cancelled(Head(tasks))
    /\ IF blamed
       THEN /\ refused' = refused \union {Head(store.pipe)}
            /\ queue' = [queue EXCEPT ![user] = Tail(@)]
            /\ Becomes(FillWritePipeline(Dropped(Close(Now, "Initial")), queue'[user]))
       ELSE Becomes(CloseAndRetry(Now)) /\ UNCHANGED <<refused, queue>>
    /\ UNCHANGED <<serverVars, owner, acked, authVars, user, faults>>

(* Timers run on the worker queue too, and never once they are cancelled. *)
BackoffElapsed ==
    /\ store.state = "Backoff"
    /\ Becomes(StartIfNeeded([Now EXCEPT !.s.state = "Initial"]))
    /\ UNCHANGED <<serverVars, appVars, authVars, user, tasks, faults>>

IdleTimeout ==
    /\ store.idle
    /\ Becomes(Stop(Now))
    /\ UNCHANGED <<serverVars, appVars, authVars, user, tasks, faults>>

Fault == faults < MaxFaults /\ faults' = faults + 1

(* The connectivity monitor saw a change: FinishAndNotify(Unavailable). *)
ConnectivityChange ==
    /\ call.live
    /\ Fault
    /\ Becomes(CloseAndRetry(Now))
    /\ UNCHANGED <<serverVars, appVars, authVars, user, tasks>>

(* The app is killed and started again: what is not on disk is lost. *)
Restart ==
    /\ Fault
    /\ user' = auth
    /\ tasks' = <<>>
    /\ Becomes(FillWritePipeline(
                   [s |-> [pipe |-> <<>>, state |-> "Initial", shaken |-> FALSE, idle |-> FALSE,
                           closes |-> 0, asked |-> {}],
                    c |-> NoCall], queue[auth]))
    /\ UNCHANGED <<serverVars, appVars, authVars>>
-----------------------------------------------------------------------------
(* gRPC (external): an outstanding operation comes back as a completion.  The *)
(* answers that arrived can be read whatever became of the call.  A write     *)
(* fails only if the call ended before the server took the message, and not   *)
(* before the answer that an outstanding Read would get.                      *)

Posts(op, t) ==
    /\ op \in call.ops
    /\ tasks' = Append(tasks, t)
    /\ UNCHANGED <<serverVars, appVars, authVars, user, store, faults>>

Completion(kind) == [kind |-> kind, closes |-> store.closes]

ReadDone ==
    /\ call.back # <<>>
    /\ Posts("read", [kind |-> "read", closes |-> store.closes, msg |-> Head(call.back)])
    /\ call' = [call EXCEPT !.ops = @ \ {"read"}, !.back = Tail(@)]

ReadBroken ==
    /\ call.back = <<>> /\ call.end # "open"
    /\ Posts("read", Completion("broken"))
    /\ call' = [call EXCEPT !.ops = @ \ {"read"}]

WriteDone ==
    /\ Posts("write", Completion("wrote"))
    /\ call' = [call EXCEPT !.ops = @ \ {"write"}]

WriteBroken ==
    /\ call.end # "open" /\ call.wire # <<>>
    /\ "read" \in call.ops => call.back = <<>>
    /\ Posts("write", Completion("broken"))
    /\ call' = [call EXCEPT !.ops = @ \ {"write"}]

FinishDone ==
    /\ Posts("finish", [kind |-> "finished", closes |-> store.closes, end |-> call.end])
    /\ call' = [call EXCEPT !.ops = {}]

(* The server (external) takes the messages of a call in order, under the     *)
(* call's credentials, and ends the call at the first batch it refuses.       *)
ServerTakes ==
    LET msg == Head(call.wire) IN
    /\ call.live /\ call.end = "open" /\ call.wire # <<>>
    /\ IF msg \in Bad
       THEN call' = [call EXCEPT !.wire = Tail(@), !.end = "permanent"] /\ UNCHANGED applied
       ELSE /\ call' = [call EXCEPT !.wire = Tail(@), !.back = Append(@, msg)]
            /\ applied' = applied \union ({msg} \ {Hello})
    /\ UNCHANGED <<appVars, authVars, user, store, tasks, faults>>

(* The connection breaks: the answers that have not arrived are lost. *)
CallBreaks ==
    /\ call.live /\ call.end = "open"
    /\ Fault
    /\ \E n \in 0..Len(call.back) :
        call' = [call EXCEPT !.end = "transient", !.back = SubSeq(@, 1, n)]
    /\ UNCHANGED <<serverVars, appVars, authVars, user, store, tasks>>
-----------------------------------------------------------------------------
Completes == ReadDone \/ ReadBroken \/ WriteDone \/ WriteBroken \/ FinishDone

RunTask == RunCancelled \/ RunToken \/ RunUser \/ RunRead \/ RunWrote \/ RunBroken \/ RunFinished

TokenAnswers == \E req \in store.asked : GetTokenAnswer(req)

PipelineNext ==
    \/ WriteMutations
    \/ \E u \in User : CredentialChange(u)
    \/ TokenAnswers
    \/ RunTask
    \/ BackoffElapsed \/ IdleTimeout \/ ConnectivityChange \/ Restart
    \/ Completes
    \/ ServerTakes \/ CallBreaks

PipelineSpec == PipelineInit /\ [][PipelineNext]_pipelineVars

(* The worker queue, its timers, getToken, gRPC and the server go on. *)
PipelineFairness ==
    /\ WF_pipelineVars(RunTask)
    /\ WF_pipelineVars(BackoffElapsed)
    /\ WF_pipelineVars(TokenAnswers)
    /\ WF_pipelineVars(ReadDone \/ ReadBroken)
    /\ WF_pipelineVars(WriteDone \/ WriteBroken)
    /\ WF_pipelineVars(FinishDone)
    /\ WF_pipelineVars(ServerTakes)

PipelineLiveSpec == PipelineSpec /\ PipelineFairness
-----------------------------------------------------------------------------
StreamStates == {"Initial", "Starting", "Open", "Error", "Backoff"}

Message == Nat

Store == [pipe : Seq(Nat), state : StreamStates, shaken : BOOLEAN, idle : BOOLEAN,
          closes : Nat, asked : SUBSET [closes : Nat, counter : Nat]]

Call == [live : BOOLEAN, user : User \union {NoToken}, finished : BOOLEAN,
         ops : SUBSET {"read", "write", "finish"}, busy : BOOLEAN, buffer : Seq(Message),
         wire : Seq(Message), back : Seq(Message), end : {"open", "transient", "permanent"}]

Task == [kind : {"user"}, user : User]
            \union [kind : {"token"}, closes : Nat, user : User \union {NoToken}]
            \union [kind : {"read"}, closes : Nat, msg : Message]
            \union [kind : {"wrote", "broken"}, closes : Nat]
            \union [kind : {"finished"}, closes : Nat, end : {"open", "transient", "permanent"}]

PipelineTypeOK ==
    /\ owner \in Seq(User)
    /\ queue \in [User -> Seq(Nat)]
    /\ applied \subseteq Nat /\ acked \subseteq Nat /\ refused \subseteq Nat
    /\ auth \in User /\ user \in User
    /\ changes \in Nat /\ faults \in Nat
    /\ store \in Store /\ Len(store.pipe) <= MaxPendingWrites
    /\ call \in Call
    /\ tasks \in Seq(Task)

(* The pipeline is a cache of the disk: between two tasks it holds the oldest *)
(* batches of the user in force, as many as it has room for.                  *)
PipelineIsFull ==
    LET q == queue[user] IN
    store.pipe = SubSeq(q, 1, IF Len(q) < MaxPendingWrites THEN Len(q) ELSE MaxPendingWrites)

(* The answers of the live call that the client has not handled yet: that of   *)
(* the one Read whose completion is on the worker queue, and those to be read. *)
ReadsToHandle == {i \in DOMAIN tasks : tasks[i].kind = "read" /\ ~Cancelled(tasks[i])}

Unhandled ==
    (IF ReadsToHandle = {} THEN <<>>
     ELSE <<tasks[CHOOSE i \in ReadsToHandle : TRUE].msg>>) \o call.back

(* "This is a response to a write containing mutations and should be          *)
(* correlated to the first write in our write pipeline": whatever was         *)
(* answered, is being sent or waits to be, is the pipeline in its order.      *)
AnswersMatchPipeline ==
    LET expected == IF store.shaken THEN store.pipe ELSE <<Hello>> IN
    call.live /\ ~call.finished =>
        /\ \A i, j \in ReadsToHandle : i = j
        /\ IsPrefix(Unhandled, expected)
        /\ call.end = "open" => Unhandled \o call.wire \o call.buffer = expected

(* The server applies a batch only under the credentials of whoever wrote it. *)
OwnCredentials ==
    \A n \in Range(call.wire) : n = Hello \/ owner[n] = call.user

(* The assertions of the stream, the remote store and the mutation queue that *)
(* the next task meets.                                                       *)
NoAssertionFails ==
    LET t == Head(tasks)
        frontIsOldest == store.pipe # <<>> /\ Head(store.pipe) = Head(queue[user])
    IN
    /\ call.live <=> store.state = "Open"
    /\ store.idle => store.pipe = <<>>
    /\ tasks # <<>> /\ t.kind = "token" /\ ~Outdated(t) => store.state = "Starting"
    /\ tasks # <<>> /\ t.kind = "read" /\ ~Cancelled(t) =>
            /\ IsStarted(store)
            /\ store.shaken => frontIsOldest
    /\ tasks # <<>> /\ t.kind = "finished" /\ ~Cancelled(t) =>
            /\ IsStarted(store)
            /\ t.end # "open"
            /\ t.end = "permanent" => frontIsOldest

(* The write path is an ordered queue that delivers at least once. *)
Queue == INSTANCE WriteQueue
QueueIsImplemented == Queue!QueueSpec

(* So every write has one outcome, whatever breaks and whoever signs in.       *)
EveryWriteHasOneFate == Queue!OneFate

(* The completion blocks of a user's writes run in the order of the writes.    *)
ReportsInOrder == Queue!ReportedInOrder

(* No write of a user overtakes an older one on the server, unless that one is *)
(* reported as failed.                                                         *)
NoWriteOvertakes == Queue!AppliedInOrder

(* A write of the user who is signed in does not stay unsettled.              *)
Unsettled(n) == n <= Len(owner) /\ owner[n] = auth /\ n \notin acked \union refused

EveryWriteSettles == \A n \in 1..MaxBatches : Unsettled(n) ~> ~Unsettled(n)

(* remote_store.mm:501: "If this was a permanent error, the request itself    *)
(* was the problem so it's not going to succeed if we resend it."             *)
RefusedWasNotApplied == refused \intersect applied = {}
===============================================================================
