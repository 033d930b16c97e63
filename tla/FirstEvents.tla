------------------------------ MODULE FirstEvents ------------------------------
(* How a listener of the app gets its first event: from the server through the *)
(* watch stream, or from the cache once the client believes to be offline.     *)
(* The remote store restarts the stream, and its online state tracker gives a  *)
(* silent server ten seconds.  A snapshot listener of the app is never         *)
(* removed; getDocument removes its own on the first event.  All handlers run  *)
(* on the worker queue.  That nothing of a closed stream is handled is shown   *)
(* in WritePipeline, for the same Stream; here a closed call is just gone.     *)
EXTENDS Naturals, Sequences, FiniteSets

CONSTANTS
    Query,      \* the queries the app listens to
    MaxListens, \* bound: listeners added
    MaxDrops    \* bound: credential changes, and calls that break once heard from

ASSUME WatchAssumption == MaxListens \in Nat /\ MaxDrops \in Nat

kMaxWatchStreamFailures == 1

VARIABLES
    listens,    \* the listeners, in the order they were added
    views,      \* the view of each query: listened to, non-empty, in sync
    watch,      \* the watch stream, with the targets the server still has to answer
    tracker,    \* the online state tracker
    reverted,   \* history: the state was set back while the stream was starting
    drops

watchVars == <<listens, views, watch, tracker, reverted, drops>>

NoView == [active |-> FALSE, docs |-> FALSE, synced |-> FALSE]

WatchInit ==
    /\ listens = <<>>
    /\ views = [q \in Query |-> NoView]
    /\ watch = [state |-> "Initial", idle |-> FALSE, sent |-> {}]
    /\ tracker = [state |-> "Unknown", failures |-> 0, timer |-> FALSE]
    /\ reverted = FALSE
    /\ drops = 0

-----------------------------------------------------------------------------
(* The parts of the handlers, on a record r of listens, views, watch, tracker. *)

Current == [listens |-> listens, views |-> views, watch |-> watch, tracker |-> tracker]

Reaches(after) ==
    \E r \in {after} :
        /\ listens' = r.listens
        /\ views' = r.views
        /\ watch' = r.watch
        /\ tracker' = r.tracker

Running(r) == r.watch.state \in {"Starting", "Backoff", "Open"}

Targets(r) == {q \in Query : r.views[q].active}

(* Mutant of Ready: being offline is no reason to answer from the cache. *)
Ready_InSync(l, view, state) == view.synced \/ (~l.once /\ view.docs)

(* ShouldRaiseInitialEvent; getDocument waits for the server while it may come. *)
Ready(l, view, state) ==
    view.synced \/ state = "Offline" \/ (~l.once /\ view.docs)

(* OnViewSnapshot and OnOnlineStateChanged of every listener without an event. *)
RaiseFirst(r) ==
    LET due(l) == l.state = "waiting" /\ Ready(l, r.views[l.query], r.tracker.state)
    IN  [r EXCEPT !.listens = [i \in DOMAIN @ |->
            IF due(@[i]) THEN [@[i] EXCEPT !.state = "raised"] ELSE @[i]]]

(* Going offline, the views are no longer in sync. *)
SetAndBroadcast(r, state) ==
    IF state = r.tracker.state THEN r
    ELSE RaiseFirst([r EXCEPT
            !.tracker.state = state,
            !.views = [q \in Query |-> IF state = "Offline" THEN [@[q] EXCEPT !.synced = FALSE]
                                       ELSE @[q]]])

(* Mutant of UpdateState: the timer is left running. *)
UpdateState_KeepsTimer(r, state) == SetAndBroadcast([r EXCEPT !.tracker.failures = 0], state)

UpdateState(r, state) ==
    SetAndBroadcast([r EXCEPT !.tracker.timer = FALSE, !.tracker.failures = 0], state)

(* Mutant of HandleWatchStreamStart: the timer is for the first stream only. *)
HandleWatchStreamStart_WhenUnknown(r) ==
    IF r.tracker.failures # 0 \/ r.watch.state = "Backoff" THEN r
    ELSE [SetAndBroadcast(r, "Unknown") EXCEPT !.tracker.timer = TRUE]

HandleWatchStreamStart(r) ==
    IF r.tracker.failures # 0 THEN r
    ELSE [SetAndBroadcast(r, "Unknown") EXCEPT !.tracker.timer = TRUE]

HandleWatchStreamFailure(r) ==
    LET failed == [r EXCEPT !.tracker.failures =
                        IF @ < kMaxWatchStreamFailures THEN @ + 1 ELSE @]
    IN  IF r.tracker.state = "Online" THEN SetAndBroadcast(r, "Unknown")
        ELSE IF failed.tracker.failures < kMaxWatchStreamFailures THEN failed
        ELSE SetAndBroadcast([failed EXCEPT !.tracker.timer = FALSE], "Offline")

(* StartWatchStream if ShouldStartWatchStream, otherwise what `otherwise` says. *)
StartOr(r, otherwise) ==
    IF Running(r) \/ Targets(r) = {} THEN otherwise
    ELSE HandleWatchStreamStart(
            [r EXCEPT !.watch.state = IF @ = "Error" THEN "Backoff" ELSE "Starting"])

(* Mutant of Closed: what was asked of the closed stream is still awaited. *)
Closed_KeepsTargets(r, state) == [r EXCEPT !.watch.state = state, !.watch.idle = FALSE]

(* Stream::Close; OnWatchStreamClose is the caller's next step. *)
Closed(r, state) == [r EXCEPT !.watch = [state |-> state, idle |-> FALSE, sent |-> {}]]

-----------------------------------------------------------------------------
(* The app and the worker queue. *)

(* addListener: the first listener of a query makes its view, from the cache.  *)
Listen(q, once) ==
    LET first == ~views[q].active
        added(v) == RaiseFirst([Current EXCEPT
            !.listens = Append(@, [query |-> q, once |-> once, state |-> "waiting"]),
            !.views[q] = v])
        requested(r) == [r EXCEPT !.watch.sent = @ \union {q}, !.watch.idle = FALSE]
    IN
    /\ Len(listens) < MaxListens
    /\ \E v \in IF first THEN [active : {TRUE}, docs : BOOLEAN, synced : {FALSE}] ELSE {views[q]} :
        Reaches(IF ~first THEN added(v)
                ELSE StartOr(added(v), IF watch.state = "Open" THEN requested(added(v)) ELSE added(v)))
    /\ reverted' = (reverted /\ Running(Current))
    /\ UNCHANGED drops

(* ListenOnce removes its listener; the last one of a query takes its target.  *)
RemoveListener(i) ==
    LET q == listens[i].query
        gone == [Current EXCEPT !.listens[i].state = "removed"]
        shared == \E j \in DOMAIN listens \ {i} :
                    listens[j].query = q /\ listens[j].state \in {"waiting", "raised"}
        unwatched == [gone EXCEPT !.views[q] = NoView]
        unused == ~shared /\ Targets(unwatched) = {}
    IN
    /\ listens[i].once /\ listens[i].state = "raised"
    /\ Reaches(IF shared THEN gone
               ELSE IF watch.state = "Open"
               THEN [unwatched EXCEPT !.watch.sent = @ \ {q}, !.watch.idle = unused]
               ELSE IF unused THEN UpdateState(unwatched, "Unknown") ELSE unwatched)
    /\ reverted' = (reverted \/ (unused /\ watch.state \in {"Starting", "Backoff"}))
    /\ UNCHANGED drops

(* The app writes a document that a query matches. *)
LocalWrite(q) ==
    /\ views[q].active /\ ~views[q].docs
    /\ Reaches(RaiseFirst([Current EXCEPT !.views[q].docs = TRUE]))
    /\ UNCHANGED <<reverted, drops>>

(* ResumeStartWithCredentials, OnStreamStart and OnWatchStreamOpen. *)
StreamOpens ==
    /\ watch.state = "Starting"
    /\ watch' = [watch EXCEPT !.state = "Open", !.sent = Targets(Current)]
    /\ UNCHANGED <<listens, views, tracker, reverted, drops>>

(* A token or a call fails; a dead connection does, by its keepalive.          *)
StreamFails ==
    LET closed == Closed(Current, "Error") IN
    /\ watch.state \in {"Starting", "Open"}
    /\ IF tracker.state = "Online" THEN drops < MaxDrops /\ drops' = drops + 1 ELSE UNCHANGED drops
    /\ \E failed \in {HandleWatchStreamFailure(closed)} :
        Reaches(IF Targets(Current) = {} THEN UpdateState(closed, "Unknown")
                ELSE StartOr(failed, failed))
    /\ reverted' = FALSE

(* The stream itself starts again: the tracker is not told. *)
BackoffElapses ==
    /\ watch.state = "Backoff"
    /\ watch' = [watch EXCEPT !.state = "Starting"]
    /\ UNCHANGED <<listens, views, tracker, reverted, drops>>

WatchIdles ==
    /\ watch.idle
    /\ Reaches(UpdateState(Closed(Current, "Initial"), "Unknown"))
    /\ reverted' = FALSE
    /\ UNCHANGED drops

OnlineStateTimeout ==
    /\ tracker.timer
    /\ Reaches(SetAndBroadcast([Current EXCEPT !.tracker.timer = FALSE], "Offline"))
    /\ UNCHANGED <<reverted, drops>>

(* HandleCredentialChange: DisableNetworkInternal and EnableNetwork. *)
NewCredentials ==
    LET stopped == UpdateState(IF Running(Current) THEN Closed(Current, "Initial") ELSE Current, "Unknown") IN
    /\ drops < MaxDrops
    /\ drops' = drops + 1
    /\ Reaches(StartOr(stopped, stopped))
    /\ reverted' = FALSE

-----------------------------------------------------------------------------
(* The server (external), and what OnWatchStreamChange makes of its messages.  *)

Heard == UpdateState(Current, "Online")

(* One that brings no target up to date, like the acknowledgement of a listen. *)
Acknowledged ==
    /\ watch.sent # {}
    /\ Reaches(Heard)
    /\ reverted' = FALSE
    /\ UNCHANGED drops

(* A consistent snapshot with the documents of q. *)
Snapshot(q) ==
    /\ q \in watch.sent
    /\ \E docs \in BOOLEAN :
        Reaches(RaiseFirst([Heard EXCEPT !.watch.sent = @ \ {q}, !.views[q].synced = TRUE,
                                         !.views[q].docs = docs]))
    /\ reverted' = FALSE
    /\ UNCHANGED drops

(* ProcessTargetError: the listeners of q get the error, and are gone. *)
TargetFails(q) ==
    LET concerns(l) == l.query = q /\ l.state \in {"waiting", "raised"} IN
    /\ q \in watch.sent
    /\ Reaches([Heard EXCEPT
            !.watch.sent = @ \ {q},
            !.views[q] = NoView,
            !.listens = [i \in DOMAIN @ |->
                IF concerns(@[i]) THEN [@[i] EXCEPT !.state = "failed"] ELSE @[i]]])
    /\ reverted' = FALSE
    /\ UNCHANGED drops

-----------------------------------------------------------------------------
WatchNext ==
    \/ \E q \in Query :
        \/ \E once \in BOOLEAN : Listen(q, once)
        \/ LocalWrite(q) \/ Snapshot(q) \/ TargetFails(q)
    \/ \E i \in DOMAIN listens : RemoveListener(i)
    \/ StreamOpens \/ StreamFails \/ BackoffElapses \/ WatchIdles
    \/ OnlineStateTimeout \/ NewCredentials \/ Acknowledged

WatchSpec == WatchInit /\ [][WatchNext]_watchVars

(* Timers expire, a stream opens or fails, and an open one answers a target or *)
(* fails: the keepalive of the connection sees to that.                        *)
WatchFairness ==
    /\ WF_watchVars(OnlineStateTimeout)
    /\ WF_watchVars(BackoffElapses)
    /\ WF_watchVars(StreamOpens \/ StreamFails)
    /\ WF_watchVars(\E q \in Query : Snapshot(q) \/ TargetFails(q))
-----------------------------------------------------------------------------
WatchTypeOK ==
    /\ listens \in Seq([query : Query, once : BOOLEAN,
                        state : {"waiting", "raised", "failed", "removed"}])
    /\ views \in [Query -> [active : BOOLEAN, docs : BOOLEAN, synced : BOOLEAN]]
    /\ watch \in [state : {"Open"}, idle : BOOLEAN, sent : SUBSET Query]
            \union [state : {"Initial", "Starting", "Backoff", "Error"}, idle : {FALSE}, sent : {{}}]
    /\ tracker \in [state : {"Unknown", "Online", "Offline"},
                    failures : 0..kMaxWatchStreamFailures, timer : BOOLEAN]
    /\ reverted \in BOOLEAN
    /\ drops \in Nat

(* What the assertions of the tracker, the remote store and the sync engine    *)
(* ask: the timer runs only while the state is unknown, a stream is stopped    *)
(* gracefully only when no target needs it, and every target that is still     *)
(* watched has a view with a listener.                                         *)
WatchIsConsistent ==
    /\ tracker.timer => tracker.state = "Unknown" /\ Running(Current)
    /\ tracker.state = "Online" => tracker.failures = 0
    /\ watch.idle => Targets(Current) = {}
    /\ Targets(Current) # {} => Running(Current)
    /\ watch.sent \subseteq Targets(Current)
    /\ \A q \in Query : views[q].active <=>
            \E i \in DOMAIN listens :
                listens[i].query = q /\ listens[i].state \in {"waiting", "raised"}

(* Whoever waits for a first event waits for a server that was heard from, or  *)
(* at most for the timer.  The exception is the code's: the last target went   *)
(* away, or its getDocument was answered from the cache, while the stream was  *)
(* starting, which takes the timer of the listeners that come before it opens. *)
WaitsAreTimed ==
    \A i \in DOMAIN listens : listens[i].state = "waiting" =>
        tracker.timer \/ tracker.state = "Online" \/ reverted

(* Every listener is called at least once, if only with an error or with what  *)
(* the cache has.                                                              *)
Waits(i) == i \in DOMAIN listens /\ listens[i].state = "waiting"

FirstEventComes == \A i \in 1..MaxListens : Waits(i) ~> ~Waits(i)
===============================================================================
