------------------------------ MODULE WatchProofs ------------------------------
(* Proofs about the first events of listeners: type correctness, what the      *)
(* assertions of the client ask, and that no listener waits without a bound.   *)
EXTENDS FirstEvents, SequenceTheorems, TLAPS

Listener == [query : Query, once : BOOLEAN, state : {"waiting", "raised", "failed", "removed"}]
View == [active : BOOLEAN, docs : BOOLEAN, synced : BOOLEAN]
Stream == [state : {"Open"}, idle : BOOLEAN, sent : SUBSET Query]
            \union [state : {"Initial", "Starting", "Backoff", "Error"}, idle : {FALSE}, sent : {{}}]
Tracker == [state : {"Unknown", "Online", "Offline"},
            failures : 0..kMaxWatchStreamFailures, timer : BOOLEAN]
State == [listens : Seq(Listener), views : [Query -> View], watch : Stream, tracker : Tracker]

(* Every target has a view with a listener. *)
Watched(r) ==
    \A q \in Query : r.views[q].active <=>
        \E i \in DOMAIN r.listens :
            r.listens[i].query = q /\ r.listens[i].state \in {"waiting", "raised"}

(* Offline, every listener is answered at once. *)
NobodyWaitsOffline(r) ==
    \A i \in DOMAIN r.listens : r.listens[i].state = "waiting" => r.tracker.state # "Offline"

(* What a handler that leaves the stream alone keeps of a state. *)
Keeps(after, r) ==
    /\ after \in State
    /\ after.watch = r.watch
    /\ \A q \in Query : after.views[q].active = r.views[q].active
    /\ Watched(r) => Watched(after)
    /\ NobodyWaitsOffline(r) => NobodyWaitsOffline(after)

LEMMA RaiseFirstKeeps ==
    ASSUME NEW r \in State
    PROVE  /\ Keeps(RaiseFirst(r), r)
           /\ NobodyWaitsOffline(RaiseFirst(r))
           /\ RaiseFirst(r).tracker = r.tracker
           /\ RaiseFirst(r).views = r.views
<1> DEFINE due(l) == l.state = "waiting" /\ Ready(l, r.views[l.query], r.tracker.state)
           raised == [i \in DOMAIN r.listens |->
                        IF due(r.listens[i])
                        THEN [query |-> r.listens[i].query, once |-> r.listens[i].once,
                              state |-> "raised"]
                        ELSE r.listens[i]]
<1>1. \A i \in DOMAIN r.listens : r.listens[i] \in Listener
  BY DEF State
<1>2. RaiseFirst(r) = [listens |-> raised, views |-> r.views, watch |-> r.watch,
                       tracker |-> r.tracker]
  <2>1. \A l \in Listener : [l EXCEPT !.state = "raised"]
                = [query |-> l.query, once |-> l.once, state |-> "raised"]
    BY DEF Listener
  <2>2. raised = [i \in DOMAIN r.listens |->
                    IF due(r.listens[i]) THEN [r.listens[i] EXCEPT !.state = "raised"]
                    ELSE r.listens[i]]
    BY <1>1, <2>1
  <2> HIDE DEF raised
  <2>3. RaiseFirst(r) = [r EXCEPT !.listens = raised]
    BY <2>2 DEF RaiseFirst
  <2> QED BY <2>3 DEF State
<1>3. raised \in Seq(Listener)
  <2>1. raised \in [1 .. Len(r.listens) -> Listener]
    BY <1>1 DEF Listener, State
  <2> HIDE DEF raised
  <2> QED BY <2>1, SeqDef DEF State
<1>4. /\ DOMAIN raised = DOMAIN r.listens
      /\ \A i \in DOMAIN r.listens :
            /\ raised[i].query = r.listens[i].query
            /\ raised[i].state = IF due(r.listens[i]) THEN "raised" ELSE r.listens[i].state
  OBVIOUS
<1>5. r.tracker.state = "Offline" => \A i \in DOMAIN r.listens :
            r.listens[i].state = "waiting" => due(r.listens[i])
  BY DEF Ready
<1>6. \A i \in DOMAIN r.listens : due(r.listens[i]) => r.listens[i].state = "waiting"
  OBVIOUS
<1> HIDE DEF raised, due
<1>7. RaiseFirst(r) \in State
  BY <1>2, <1>3 DEF State
<1>8. NobodyWaitsOffline(RaiseFirst(r))
  BY <1>2, <1>4, <1>5 DEF NobodyWaitsOffline
<1>9. Watched(r) => Watched(RaiseFirst(r))
  <2>1. \A i \in DOMAIN r.listens : raised[i].state \in {"waiting", "raised"}
                                    <=> r.listens[i].state \in {"waiting", "raised"}
    BY <1>4, <1>6
  <2> QED BY <2>1, <1>2, <1>4 DEF Watched
<1> QED BY <1>2, <1>7, <1>8, <1>9 DEF Keeps

-----------------------------------------------------------------------------
(* The parts of the handlers. *)

(* Who watches what depends on the listeners and on the active views alone. *)
LEMMA WatchedMoves ==
    ASSUME NEW r, NEW s, s.listens = r.listens, Watched(r),
           \A q \in Query : s.views[q].active = r.views[q].active
    PROVE  Watched(s)
BY DEF Watched

(* The state is written, and whoever is answered by it is answered. *)
LEMMA SetAndBroadcastKeeps ==
    ASSUME NEW r \in State, NEW s \in {"Unknown", "Online", "Offline"}
    PROVE  /\ Keeps(SetAndBroadcast(r, s), r)
           /\ SetAndBroadcast(r, s).tracker
                = [state |-> s, failures |-> r.tracker.failures, timer |-> r.tracker.timer]
<1> DEFINE view(q) == IF s = "Offline" THEN [r.views[q] EXCEPT !.synced = FALSE] ELSE r.views[q]
           views2 == [q \in Query |-> view(q)]
           set == [listens |-> r.listens, views |-> views2, watch |-> r.watch,
                   tracker |-> [state |-> s, failures |-> r.tracker.failures,
                                timer |-> r.tracker.timer]]
<1>1. \A q \in Query : view(q) \in View /\ view(q).active = r.views[q].active
  BY DEF State, View
<1>2. views2 \in [Query -> View] /\ \A q \in Query : views2[q].active = r.views[q].active
  BY <1>1
<1>3. CASE s = r.tracker.state
  <2>1. SetAndBroadcast(r, s) = r
    BY <1>3 DEF SetAndBroadcast
  <2>2. r.tracker = [state |-> s, failures |-> r.tracker.failures, timer |-> r.tracker.timer]
    BY <1>3 DEF State, Tracker
  <2> QED BY <2>1, <2>2 DEF Keeps
<1>4. CASE s # r.tracker.state
  <2>1. SetAndBroadcast(r, s) = RaiseFirst([r EXCEPT !.tracker.state = s, !.views = views2])
    BY <1>4, Zenon DEF SetAndBroadcast
  <2> HIDE DEF view, views2
  <2>2. [r EXCEPT !.tracker.state = s, !.views = views2] = set
    <3>1. [r.tracker EXCEPT !.state = s]
            = [state |-> s, failures |-> r.tracker.failures, timer |-> r.tracker.timer]
      BY DEF State, Tracker
    <3>2. [r EXCEPT !.tracker.state = s]
            = [listens |-> r.listens, views |-> r.views, watch |-> r.watch,
               tracker |-> [r.tracker EXCEPT !.state = s]]
      BY DEF State
    <3>3. [r EXCEPT !.tracker.state = s, !.views = views2]
            = [[r EXCEPT !.tracker.state = s] EXCEPT !.views = views2]
      OBVIOUS
    <3>4. \A t : [[listens |-> r.listens, views |-> r.views, watch |-> r.watch, tracker |-> t]
                    EXCEPT !.views = views2]
            = [listens |-> r.listens, views |-> views2, watch |-> r.watch, tracker |-> t]
      OBVIOUS
    <3>5. [r EXCEPT !.tracker.state = s, !.views = views2]
            = [listens |-> r.listens, views |-> views2, watch |-> r.watch,
               tracker |-> [r.tracker EXCEPT !.state = s]]
      BY <3>2, <3>3, <3>4, Zenon
    <3> QED BY <3>1, <3>5, Zenon
  <2>3. set \in State
    BY <1>2 DEF State, Tracker
  <2>4. Watched(r) => Watched(set)
    BY <1>2 DEF Watched
  <2>5. /\ set.watch = r.watch
        /\ set.tracker = [state |-> s, failures |-> r.tracker.failures, timer |-> r.tracker.timer]
        /\ \A q \in Query : set.views[q].active = r.views[q].active
    BY <1>2
  <2> HIDE DEF set
  <2>6. Keeps(RaiseFirst(set), set) /\ NobodyWaitsOffline(RaiseFirst(set))
        /\ RaiseFirst(set).tracker = set.tracker
    BY <2>3, RaiseFirstKeeps
  <2>7. SetAndBroadcast(r, s) = RaiseFirst(set)
    BY <2>1, <2>2, Zenon
  <2> QED BY <2>4, <2>5, <2>6, <2>7 DEF Keeps
<1> QED BY <1>3, <1>4

(* The record r with another tracker, and with another stream. *)
Tracked(r, t) == [listens |-> r.listens, views |-> r.views, watch |-> r.watch, tracker |-> t]
Streamed(r, w) == [listens |-> r.listens, views |-> r.views, watch |-> w, tracker |-> r.tracker]

LEMMA TrackerIsWritten ==
    ASSUME NEW r \in State
    PROVE  /\ \A b \in BOOLEAN : [r EXCEPT !.tracker.timer = b]
                = Tracked(r, [state |-> r.tracker.state, failures |-> r.tracker.failures, timer |-> b])
           /\ \A n \in 0..1 : [r EXCEPT !.tracker.failures = n]
                = Tracked(r, [state |-> r.tracker.state, failures |-> n, timer |-> r.tracker.timer])
<1>1. \A b \in BOOLEAN : [r.tracker EXCEPT !.timer = b]
        = [state |-> r.tracker.state, failures |-> r.tracker.failures, timer |-> b]
  BY DEF State, Tracker
<1>2. \A n \in 0..1 : [r.tracker EXCEPT !.failures = n]
        = [state |-> r.tracker.state, failures |-> n, timer |-> r.tracker.timer]
  BY DEF State, Tracker
<1>3. \A b \in BOOLEAN : [r EXCEPT !.tracker.timer = b] = Tracked(r, [r.tracker EXCEPT !.timer = b])
  BY DEF State, Tracked
<1>4. \A n \in 0..1 : [r EXCEPT !.tracker.failures = n] = Tracked(r, [r.tracker EXCEPT !.failures = n])
  BY DEF State, Tracked
<1> QED BY <1>1, <1>2, <1>3, <1>4, Zenon

(* A handler that starts by writing failures and timer. *)
LEMMA TrackedKeeps ==
    ASSUME NEW r \in State, NEW t \in Tracker, t.state = r.tracker.state
    PROVE  Keeps(Tracked(r, t), r) /\ Tracked(r, t).tracker = t
BY DEF Tracked, Keeps, State, Watched, NobodyWaitsOffline

LEMMA KeepsOn ==
    ASSUME NEW r, NEW s, NEW t, Keeps(s, r), Keeps(t, s)
    PROVE  Keeps(t, r)
BY DEF Keeps

LEMMA UpdateStateKeeps ==
    ASSUME NEW r \in State, NEW s \in {"Unknown", "Online", "Offline"}
    PROVE  /\ Keeps(UpdateState(r, s), r)
           /\ UpdateState(r, s).tracker = [state |-> s, failures |-> 0, timer |-> FALSE]
<1> DEFINE t1 == [state |-> r.tracker.state, failures |-> r.tracker.failures, timer |-> FALSE]
           t2 == [state |-> r.tracker.state, failures |-> 0, timer |-> FALSE]
<1>1. t1 \in Tracker /\ t2 \in Tracker
  BY DEF State, Tracker, kMaxWatchStreamFailures
<1>2. [r EXCEPT !.tracker.timer = FALSE] = Tracked(r, t1) /\ Tracked(r, t1) \in State
  BY <1>1, TrackerIsWritten, TrackedKeeps DEF Keeps
<1>3. [Tracked(r, t1) EXCEPT !.tracker.failures = 0] = Tracked(r, t2)
  <2>1. [Tracked(r, t1) EXCEPT !.tracker.failures = 0] = Tracked(Tracked(r, t1), t2)
    <3> DEFINE u == Tracked(r, t1)
    <3>1. u \in State /\ 0 \in 0..1
      BY <1>2
    <3>2. u.tracker.state = r.tracker.state /\ u.tracker.timer = FALSE
      BY DEF Tracked
    <3> HIDE DEF u
    <3>3. [u EXCEPT !.tracker.failures = 0]
            = Tracked(u, [state |-> u.tracker.state, failures |-> 0, timer |-> u.tracker.timer])
      BY <3>1, TrackerIsWritten, Zenon
    <3>4. [state |-> u.tracker.state, failures |-> 0, timer |-> u.tracker.timer] = t2
      BY <3>2, Zenon
    <3>5. [u EXCEPT !.tracker.failures = 0] = Tracked(u, t2)
      BY <3>3, <3>4, Zenon
    <3> QED BY <3>5, Zenon DEF u
  <2> QED BY <2>1 DEF Tracked
<1>4. [r EXCEPT !.tracker.timer = FALSE, !.tracker.failures = 0]
        = [[r EXCEPT !.tracker.timer = FALSE] EXCEPT !.tracker.failures = 0]
  OBVIOUS
<1>5. UpdateState(r, s) = SetAndBroadcast(Tracked(r, t2), s)
  BY <1>2, <1>3, <1>4, Zenon DEF UpdateState
<1>6. Keeps(Tracked(r, t2), r) /\ Tracked(r, t2).tracker = t2
  BY <1>1, TrackedKeeps
<1> HIDE DEF t1, t2
<1>7. Tracked(r, t2) \in State
  BY <1>6 DEF Keeps
<1>8. /\ Keeps(SetAndBroadcast(Tracked(r, t2), s), Tracked(r, t2))
      /\ SetAndBroadcast(Tracked(r, t2), s).tracker
            = [state |-> s, failures |-> t2.failures, timer |-> t2.timer]
  BY <1>6, <1>7, SetAndBroadcastKeeps
<1>9. t2.failures = 0 /\ t2.timer = FALSE
  BY DEF t2
<1> QED BY <1>5, <1>6, <1>8, <1>9, KeepsOn

LEMMA HandleWatchStreamStartKeeps ==
    ASSUME NEW r \in State
    PROVE  /\ Keeps(HandleWatchStreamStart(r), r)
           /\ HandleWatchStreamStart(r).tracker
                = IF r.tracker.failures # 0 THEN r.tracker
                  ELSE [state |-> "Unknown", failures |-> 0, timer |-> TRUE]
<1>1. CASE r.tracker.failures # 0
  BY <1>1 DEF HandleWatchStreamStart, Keeps
<1>2. CASE r.tracker.failures = 0
  <2> DEFINE u == SetAndBroadcast(r, "Unknown")
             t == [state |-> "Unknown", failures |-> 0, timer |-> TRUE]
  <2>1. Keeps(u, r) /\ u.tracker.state = "Unknown" /\ u.tracker.failures = 0
    <3>1. "Unknown" \in {"Unknown", "Online", "Offline"}
      OBVIOUS
    <3>2. /\ Keeps(u, r)
          /\ u.tracker = [state |-> "Unknown", failures |-> r.tracker.failures,
                           timer |-> r.tracker.timer]
      BY <3>1, SetAndBroadcastKeeps, Zenon
    <3> HIDE DEF u
    <3> QED BY <1>2, <3>2
  <2>2. HandleWatchStreamStart(r) = [u EXCEPT !.tracker.timer = TRUE]
    BY <1>2 DEF HandleWatchStreamStart
  <2>3. t \in Tracker /\ t.state = "Unknown"
    BY DEF Tracker, kMaxWatchStreamFailures
  <2> HIDE DEF u
  <2>4. u \in State
    BY <2>1 DEF Keeps
  <2>5. [u EXCEPT !.tracker.timer = TRUE]
            = Tracked(u, [state |-> u.tracker.state, failures |-> u.tracker.failures, timer |-> TRUE])
    BY <2>4, TrackerIsWritten, Zenon
  <2>6. [u EXCEPT !.tracker.timer = TRUE] = Tracked(u, t)
    BY <2>1, <2>5, Zenon
  <2> HIDE DEF t
  <2>7. Keeps(Tracked(u, t), u) /\ Tracked(u, t).tracker = t
    BY <2>1, <2>3, <2>4, TrackedKeeps
  <2>8. Keeps(Tracked(u, t), r)
    BY <2>1, <2>7, KeepsOn
  <2> QED BY <1>2, <2>2, <2>6, <2>7, <2>8 DEF t
<1> QED BY <1>1, <1>2 DEF State, Tracker

LEMMA HandleWatchStreamFailureKeeps ==
    ASSUME NEW r \in State, r.tracker.failures # 0 => r.tracker.state = "Offline"
    PROVE  /\ Keeps(HandleWatchStreamFailure(r), r)
           /\ HandleWatchStreamFailure(r).tracker
                = IF r.tracker.state = "Online"
                  THEN [state |-> "Unknown", failures |-> 0, timer |-> r.tracker.timer]
                  ELSE [state |-> "Offline", failures |-> 1, timer |-> FALSE]
<1> DEFINE t1 == [state |-> r.tracker.state, failures |-> 1, timer |-> r.tracker.timer]
           t2 == [state |-> r.tracker.state, failures |-> 1, timer |-> FALSE]
           failed == [r EXCEPT !.tracker.failures = IF @ < kMaxWatchStreamFailures THEN @ + 1 ELSE @]
<1>1. r.tracker.failures \in 0..1
  BY DEF State, Tracker, kMaxWatchStreamFailures
<1>2. t1 \in Tracker /\ t2 \in Tracker /\ t1.state = r.tracker.state /\ t2.state = r.tracker.state
      /\ t1.failures = 1 /\ t2.failures = 1 /\ t2.timer = FALSE
  BY DEF State, Tracker, kMaxWatchStreamFailures
<1>3. failed = Tracked(r, t1)
  <2>1. failed = [r EXCEPT !.tracker.failures =
                    IF r.tracker.failures < kMaxWatchStreamFailures THEN r.tracker.failures + 1
                    ELSE r.tracker.failures]
    BY DEF State
  <2>2. (IF r.tracker.failures < kMaxWatchStreamFailures THEN r.tracker.failures + 1
         ELSE r.tracker.failures) = 1
    BY <1>1 DEF kMaxWatchStreamFailures
  <2>3. failed = [r EXCEPT !.tracker.failures = 1]
    BY <2>1, <2>2
  <2>4. 1 \in 0..1
    OBVIOUS
  <2> QED BY <2>3, <2>4, TrackerIsWritten, Zenon
<1>4. CASE r.tracker.state = "Online"
  <2>1. HandleWatchStreamFailure(r) = SetAndBroadcast(r, "Unknown")
    BY <1>4 DEF HandleWatchStreamFailure
  <2> QED BY <1>4, <2>1, SetAndBroadcastKeeps
<1>5. CASE r.tracker.state # "Online"
  <2> HIDE DEF failed, t1, t2
  <2>1. Keeps(Tracked(r, t1), r) /\ Tracked(r, t1).tracker = t1
    BY <1>2, TrackedKeeps
  <2>2. ~(failed.tracker.failures < kMaxWatchStreamFailures)
    BY <1>2, <1>3, <2>1 DEF kMaxWatchStreamFailures
  <2>3. HandleWatchStreamFailure(r) = SetAndBroadcast([failed EXCEPT !.tracker.timer = FALSE], "Offline")
    BY <1>5, <2>2, Zenon DEF HandleWatchStreamFailure, failed
  <2>4. [failed EXCEPT !.tracker.timer = FALSE] = Tracked(r, t2)
    <3> DEFINE u == Tracked(r, t1)
    <3>1. u \in State /\ u.tracker.state = r.tracker.state /\ u.tracker.failures = 1
      BY <1>2, <2>1 DEF Keeps
    <3> HIDE DEF u
    <3>2. FALSE \in BOOLEAN
      OBVIOUS
    <3>3. [u EXCEPT !.tracker.timer = FALSE]
            = Tracked(u, [state |-> u.tracker.state, failures |-> u.tracker.failures, timer |-> FALSE])
      BY <3>1, <3>2, TrackerIsWritten, Zenon
    <3>4. [u EXCEPT !.tracker.timer = FALSE] = Tracked(u, t2)
      BY <3>1, <3>3, Zenon DEF t2
    <3>5. Tracked(u, t2) = Tracked(r, t2)
      BY DEF u, Tracked
    <3> QED BY <1>3, <3>4, <3>5, Zenon DEF u
  <2>5. Keeps(Tracked(r, t2), r) /\ Tracked(r, t2).tracker = t2
    BY <1>2, TrackedKeeps
  <2> DEFINE v == Tracked(r, t2)
  <2> HIDE DEF v
  <2>6. v \in State /\ v.tracker = t2 /\ Keeps(v, r)
    BY <2>5 DEF Keeps, v
  <2>7. /\ Keeps(SetAndBroadcast(v, "Offline"), v)
        /\ SetAndBroadcast(v, "Offline").tracker
                = [state |-> "Offline", failures |-> v.tracker.failures, timer |-> v.tracker.timer]
    BY <2>6, SetAndBroadcastKeeps
  <2>8. HandleWatchStreamFailure(r) = SetAndBroadcast(v, "Offline")
    BY <2>3, <2>4, Zenon DEF v
  <2>9. Keeps(SetAndBroadcast(v, "Offline"), r)
    BY <2>6, <2>7, KeepsOn
  <2> QED BY <1>2, <1>5, <2>6, <2>7, <2>8, <2>9
<1> QED BY <1>4, <1>5

(* What is invariant of the state alone: the listeners and the tracker agree,  *)
(* and so do the targets and the stream.                                       *)
ListenersOk(r) ==
    /\ r \in State
    /\ Watched(r)
    /\ NobodyWaitsOffline(r)
    /\ r.tracker.failures # 0 => r.tracker.state = "Offline"

StreamOk(r) ==
    /\ r.watch.idle => Targets(r) = {}
    /\ Targets(r) # {} => Running(r)
    /\ r.watch.sent \subseteq Targets(r)

TimerOk(r) == r.tracker.timer => r.tracker.state = "Unknown" /\ Running(r)

(* While the stream is about to open, the state is known or will be. *)
Timed(r, excepted) == Running(r) => r.tracker.timer \/ r.tracker.state # "Unknown" \/ excepted

(* A handler that leaves the stream alone keeps what they have in common. *)
LEMMA KeptOk ==
    ASSUME NEW r \in State, NEW s, Keeps(s, r)
    PROVE  /\ s \in State
           /\ s.watch = r.watch
           /\ Targets(s) = Targets(r)
           /\ Running(s) = Running(r)
           /\ StreamOk(r) => StreamOk(s)
           /\ ListenersOk(r) /\ (s.tracker.failures # 0 => s.tracker.state = "Offline")
                => ListenersOk(s)
BY DEF Keeps, Targets, Running, StreamOk, ListenersOk

(* Another stream changes nothing of the listeners. *)
LEMMA StreamIsWritten ==
    ASSUME NEW r \in State, NEW w \in Stream
    PROVE  /\ [r EXCEPT !.watch = w] = Streamed(r, w)
           /\ Streamed(r, w) \in State
           /\ Targets(Streamed(r, w)) = Targets(r)
           /\ ListenersOk(r) => ListenersOk(Streamed(r, w))
BY DEF State, Streamed, Targets, ListenersOk, Watched, NobodyWaitsOffline

(* The stream starts, or waits for its backoff, for the targets there are.     *)
LEMMA StartOrStarts ==
    ASSUME NEW r \in State, NEW otherwise, ListenersOk(r),
           ~Running(r), Targets(r) # {}, r.tracker.timer = FALSE
    PROVE  /\ StartOr(r, otherwise) \in State
           /\ ListenersOk(StartOr(r, otherwise))
           /\ StreamOk(StartOr(r, otherwise))
           /\ TimerOk(StartOr(r, otherwise))
           /\ Timed(StartOr(r, otherwise), FALSE)
<1> DEFINE w == [state |-> IF r.watch.state = "Error" THEN "Backoff" ELSE "Starting",
                 idle |-> FALSE, sent |-> {}]
           u == Streamed(r, w)
           a == HandleWatchStreamStart(u)
<1>1. r.watch.idle = FALSE /\ r.watch.sent = {}
  BY DEF State, Stream, Running
<1>2. w \in Stream /\ w.state \in {"Starting", "Backoff"} /\ w.idle = FALSE /\ w.sent = {}
  BY DEF Stream
<1>3. [r.watch EXCEPT !.state = IF @ = "Error" THEN "Backoff" ELSE "Starting"] = w
  <2>1. r.watch = [state |-> r.watch.state, idle |-> FALSE, sent |-> {}]
    BY <1>1 DEF State, Stream
  <2>2. \A x, y : [[state |-> y, idle |-> FALSE, sent |-> {}] EXCEPT !.state = x]
                    = [state |-> x, idle |-> FALSE, sent |-> {}]
    OBVIOUS
  <2>3. \A x : [r.watch EXCEPT !.state = x] = [state |-> x, idle |-> FALSE, sent |-> {}]
    BY <2>1, <2>2, Zenon
  <2> QED BY <2>3
<1>4. [r EXCEPT !.watch.state = IF @ = "Error" THEN "Backoff" ELSE "Starting"]
        = [r EXCEPT !.watch = [r.watch EXCEPT !.state = IF @ = "Error" THEN "Backoff" ELSE "Starting"]]
  BY DEF State
<1> HIDE DEF w
<1>5. /\ [r EXCEPT !.watch = w] = u
      /\ u \in State
      /\ Targets(u) = Targets(r)
      /\ ListenersOk(u)
  BY <1>2, StreamIsWritten
<1>6. StartOr(r, otherwise) = a
  BY <1>3, <1>4, <1>5, Zenon DEF StartOr
<1>7. u.watch = w /\ u.tracker = r.tracker /\ Running(u) /\ StreamOk(u)
  BY <1>2 DEF Streamed, Running, StreamOk
<1> HIDE DEF u
<1>8. /\ Keeps(a, u)
      /\ a.tracker = IF u.tracker.failures # 0 THEN u.tracker
                     ELSE [state |-> "Unknown", failures |-> 0, timer |-> TRUE]
  BY <1>5, HandleWatchStreamStartKeeps
<1> HIDE DEF a
<1>9. /\ a \in State /\ Running(a) /\ StreamOk(a)
      /\ (a.tracker.failures # 0 => a.tracker.state = "Offline") => ListenersOk(a)
  BY <1>5, <1>7, <1>8, KeptOk
<1>10. CASE u.tracker.failures # 0
  <2>1. a.tracker.state = "Offline" /\ a.tracker.timer = FALSE
    BY <1>5, <1>7, <1>8, <1>10 DEF ListenersOk
  <2> QED BY <1>6, <1>9, <2>1 DEF TimerOk, Timed
<1>11. CASE u.tracker.failures = 0
  <2>1. a.tracker.state = "Unknown" /\ a.tracker.timer = TRUE /\ a.tracker.failures = 0
    BY <1>8, <1>11
  <2> QED BY <1>6, <1>9, <2>1 DEF TimerOk, Timed
<1> QED BY <1>10, <1>11

LEMMA ClosedKeeps ==
    ASSUME NEW r \in State, NEW s \in {"Initial", "Error"}
    PROVE  /\ Closed(r, s) \in State
           /\ ListenersOk(r) => ListenersOk(Closed(r, s))
           /\ ~Running(Closed(r, s))
           /\ Closed(r, s).tracker = r.tracker
           /\ Targets(Closed(r, s)) = Targets(r)
           /\ Closed(r, s).watch.idle = FALSE /\ Closed(r, s).watch.sent = {}
<1> DEFINE w == [state |-> s, idle |-> FALSE, sent |-> {}]
<1>1. w \in Stream
  BY DEF Stream
<1>2. Closed(r, s) = [r EXCEPT !.watch = w]
  BY DEF Closed
<1>3. w.state = s /\ w.idle = FALSE /\ w.sent = {}
  OBVIOUS
<1> HIDE DEF w
<1>4. Streamed(r, w).watch = w /\ Streamed(r, w).tracker = r.tracker
  BY DEF Streamed
<1> QED BY <1>1, <1>2, <1>3, <1>4, StreamIsWritten DEF Running

-----------------------------------------------------------------------------
(* The inductive invariant. *)

AllOk(r) == ListenersOk(r) /\ StreamOk(r) /\ TimerOk(r)

WatchInv ==
    /\ AllOk(Current)
    /\ Timed(Current, reverted)
    /\ reverted \in BOOLEAN
    /\ drops \in Nat

LEMMA ReachesIt ==
    ASSUME NEW a, Reaches(a), AllOk(a)
    PROVE  Current' = a
BY DEF Reaches, Current, AllOk, ListenersOk, State

LEMMA Reached ==
    ASSUME NEW a, Reaches(a), AllOk(a), Timed(a, reverted'),
           reverted' \in BOOLEAN, drops' \in Nat
    PROVE  WatchInv'
BY ReachesIt DEF WatchInv

LEMMA WatchInitOk == WatchInit => WatchInv
<1> SUFFICES ASSUME WatchInit PROVE WatchInv
  OBVIOUS
<1>1. /\ listens \in Seq(Listener) /\ watch \in Stream /\ tracker \in Tracker
      /\ listens = <<>>
  BY DEF WatchInit, Stream, Tracker, kMaxWatchStreamFailures
<1>2. views \in [Query -> View] /\ \A q \in Query : ~views[q].active
  BY DEF WatchInit, NoView, View
<1>3. ListenersOk(Current)
  BY <1>1, <1>2 DEF ListenersOk, Current, State, Watched, NobodyWaitsOffline, WatchInit
<1>4. Targets(Current) = {} /\ ~Running(Current)
  BY <1>2 DEF Targets, Running, Current, WatchInit
<1> QED BY <1>3, <1>4 DEF WatchInv, AllOk, StreamOk, TimerOk, Timed, Current, WatchInit

LEMMA LocalWriteOk == ASSUME WatchInv, NEW q \in Query, LocalWrite(q) PROVE WatchInv'
<1> DEFINE views2 == [views EXCEPT ![q] = [views[q] EXCEPT !.docs = TRUE]]
           b == [listens |-> listens, views |-> views2, watch |-> watch, tracker |-> tracker]
           a == RaiseFirst(b)
<1>1. Current \in State /\ views \in [Query -> View]
  BY DEF WatchInv, AllOk, ListenersOk, State, Current
<1>2. [views[q] EXCEPT !.docs = TRUE] \in View
      /\ [views[q] EXCEPT !.docs = TRUE].active = views[q].active
  BY <1>1 DEF View
<1>3. views2 \in [Query -> View] /\ \A p \in Query : views2[p].active = views[p].active
  BY <1>1, <1>2
<1>4. [Current EXCEPT !.views[q].docs = TRUE] = b
  <2>1. \A v : [Current EXCEPT !.views = v]
            = [listens |-> listens, views |-> v, watch |-> watch, tracker |-> tracker]
    BY DEF Current
  <2>2. Current.views = views
    BY DEF Current
  <2> QED BY <2>1, <2>2, Zenon
<1> HIDE DEF views2
<1>5. Keeps(b, Current) /\ b.tracker = tracker
  BY <1>1, <1>3 DEF Keeps, State, Current, Watched, NobodyWaitsOffline
<1> HIDE DEF b
<1>6. Keeps(a, b) /\ a.tracker = b.tracker
  BY <1>5, RaiseFirstKeeps DEF Keeps
<1>7. Reaches(a)
  BY <1>4, Zenon DEF LocalWrite
<1> HIDE DEF a
<1>8. Keeps(a, Current) /\ a.tracker = Current.tracker
  BY <1>5, <1>6, KeepsOn DEF Current
<1>9. AllOk(a) /\ Timed(a, reverted)
  BY <1>1, <1>8, KeptOk DEF WatchInv, AllOk, TimerOk, Timed, ListenersOk
<1> QED BY <1>7, <1>9, Reached DEF LocalWrite, WatchInv

(* What the invariant says of the variables. *)
LEMMA InvFacts ==
    ASSUME WatchInv
    PROVE  /\ Current \in State /\ ListenersOk(Current)
           /\ Current.listens = listens /\ Current.views = views
           /\ Current.watch = watch /\ Current.tracker = tracker
           /\ listens \in Seq(Listener) /\ views \in [Query -> View]
           /\ watch \in Stream /\ tracker \in Tracker
           /\ watch.state # "Open" => watch.idle = FALSE /\ watch.sent = {}
           /\ "Unknown" \in {"Unknown", "Online", "Offline"}
           /\ "Online" \in {"Unknown", "Online", "Offline"}
           /\ "Offline" \in {"Unknown", "Online", "Offline"}
<1>1. Current \in State /\ ListenersOk(Current)
  BY DEF WatchInv, AllOk, ListenersOk
<1>2. /\ Current.listens = listens /\ Current.views = views
      /\ Current.watch = watch /\ Current.tracker = tracker
  BY DEF Current
<1>3. watch \in Stream
  BY <1>1, <1>2 DEF State
<1>4. watch.state # "Open" => watch.idle = FALSE /\ watch.sent = {}
  BY <1>3 DEF Stream
<1> QED BY <1>1, <1>2, <1>4 DEF State

LEMMA StreamOpensOk == ASSUME WatchInv, StreamOpens PROVE WatchInv'
<1> DEFINE w == [watch EXCEPT !.state = "Open", !.sent = Targets(Current)]
           a == Streamed(Current, w)
<1>1. w \in Stream
  <2>1. Targets(Current) \in SUBSET Query
    BY DEF Targets
  <2> QED BY <2>1, InvFacts DEF Stream
<1>2. watch' = w
  BY DEF StreamOpens
<1>3. w.state = "Open" /\ w.idle = FALSE /\ w.sent = Targets(Current)
  BY InvFacts DEF StreamOpens, Stream
<1> HIDE DEF w
<1>4. Reaches(a)
  BY <1>2 DEF Reaches, Streamed, Current, StreamOpens
<1>5. /\ a \in State /\ ListenersOk(a) /\ Targets(a) = Targets(Current)
      /\ a.watch = w /\ a.tracker = tracker
  BY <1>1, InvFacts, StreamIsWritten DEF Streamed
<1>6. Running(a) /\ Running(Current)
  BY <1>3, <1>5, InvFacts DEF Running, StreamOpens
<1>7. AllOk(a) /\ Timed(a, reverted)
  BY <1>3, <1>5, <1>6, InvFacts DEF WatchInv, AllOk, StreamOk, TimerOk, Timed
<1> QED BY <1>4, <1>7, Reached DEF StreamOpens, WatchInv

LEMMA BackoffElapsesOk == ASSUME WatchInv, BackoffElapses PROVE WatchInv'
<1> DEFINE w == [state |-> "Starting", idle |-> FALSE, sent |-> {}]
           a == Streamed(Current, w)
<1>1. w \in Stream
  BY DEF Stream
<1>2. watch' = w
  <2>1. watch = [state |-> "Backoff", idle |-> FALSE, sent |-> {}]
    BY InvFacts DEF BackoffElapses, Stream
  <2> QED BY <2>1 DEF BackoffElapses
<1>3. w.state = "Starting" /\ w.idle = FALSE /\ w.sent = {}
  OBVIOUS
<1> HIDE DEF w
<1>4. Reaches(a)
  BY <1>2 DEF Reaches, Streamed, Current, BackoffElapses
<1>5. /\ a \in State /\ ListenersOk(a) /\ Targets(a) = Targets(Current)
      /\ a.watch = w /\ a.tracker = tracker
  BY <1>1, InvFacts, StreamIsWritten DEF Streamed
<1>6. Running(a) /\ Running(Current)
  BY <1>3, <1>5, InvFacts DEF Running, BackoffElapses
<1>7. AllOk(a) /\ Timed(a, reverted)
  BY <1>3, <1>5, <1>6, InvFacts DEF WatchInv, AllOk, StreamOk, TimerOk, Timed
<1> QED BY <1>4, <1>7, Reached DEF BackoffElapses, WatchInv

LEMMA OnlineStateTimeoutOk == ASSUME WatchInv, OnlineStateTimeout PROVE WatchInv'
<1> DEFINE t == [state |-> tracker.state, failures |-> tracker.failures, timer |-> FALSE]
           b == Tracked(Current, t)
           a == SetAndBroadcast(b, "Offline")
<1>1. t \in Tracker /\ t.state = tracker.state /\ t.timer = FALSE
  BY InvFacts DEF Tracker
<1>2. [Current EXCEPT !.tracker.timer = FALSE] = b
  <2>1. FALSE \in BOOLEAN
    OBVIOUS
  <2> QED BY <2>1, InvFacts, TrackerIsWritten, Zenon
<1> HIDE DEF t
<1>3. Keeps(b, Current) /\ b.tracker = t /\ b \in State
  BY <1>1, InvFacts, TrackedKeeps DEF Keeps
<1> HIDE DEF b
<1>4. /\ Keeps(a, b)
      /\ a.tracker = [state |-> "Offline", failures |-> b.tracker.failures, timer |-> b.tracker.timer]
  BY <1>3, InvFacts, SetAndBroadcastKeeps
<1>5. Reaches(a)
  BY <1>2, Zenon DEF OnlineStateTimeout
<1> HIDE DEF a
<1>6. Keeps(a, Current) /\ a.tracker.state = "Offline" /\ a.tracker.timer = FALSE
  BY <1>1, <1>3, <1>4, KeepsOn
<1>7. AllOk(a) /\ Timed(a, reverted)
  BY <1>6, InvFacts, KeptOk DEF WatchInv, AllOk, TimerOk, Timed
<1> QED BY <1>5, <1>7, Reached DEF OnlineStateTimeout, WatchInv

(* The state that UpdateState leaves. *)
LEMMA UpdatedOk ==
    ASSUME NEW r \in State, ListenersOk(r), StreamOk(r), NEW s \in {"Unknown", "Online", "Offline"}
    PROVE  /\ AllOk(UpdateState(r, s))
           /\ UpdateState(r, s).tracker = [state |-> s, failures |-> 0, timer |-> FALSE]
           /\ UpdateState(r, s).tracker.timer = FALSE
           /\ UpdateState(r, s).tracker.state = s
           /\ Targets(UpdateState(r, s)) = Targets(r)
           /\ Running(UpdateState(r, s)) = Running(r)
           /\ UpdateState(r, s).watch = r.watch
<1> DEFINE a == UpdateState(r, s)
<1>1. Keeps(a, r) /\ a.tracker = [state |-> s, failures |-> 0, timer |-> FALSE]
  BY UpdateStateKeeps
<1> HIDE DEF a
<1>2. a.tracker.timer = FALSE /\ a.tracker.state = s /\ a.tracker.failures = 0
  BY <1>1
<1>3. AllOk(a) /\ Targets(a) = Targets(r) /\ Running(a) = Running(r) /\ a.watch = r.watch
  BY <1>1, <1>2, KeptOk DEF AllOk, TimerOk
<1> QED BY <1>1, <1>2, <1>3 DEF a

LEMMA AcknowledgedOk == ASSUME WatchInv, Acknowledged PROVE WatchInv'
<1>1. Reaches(UpdateState(Current, "Online")) /\ reverted' = FALSE /\ drops' = drops
  BY DEF Acknowledged, Heard
<1>2. AllOk(UpdateState(Current, "Online")) /\ Timed(UpdateState(Current, "Online"), FALSE)
  BY InvFacts, UpdatedOk DEF WatchInv, AllOk, Timed
<1> QED BY <1>1, <1>2, Reached DEF WatchInv

(* A closed stream that no target needs. *)
LEMMA ClosedOk ==
    ASSUME WatchInv, NEW s \in {"Initial", "Error"}, Targets(Current) = {}
    PROVE  /\ Closed(Current, s) \in State
           /\ ListenersOk(Closed(Current, s))
           /\ StreamOk(Closed(Current, s))
           /\ ~Running(Closed(Current, s))
BY InvFacts, ClosedKeeps DEF StreamOk

LEMMA WatchIdlesOk == ASSUME WatchInv, WatchIdles PROVE WatchInv'
<1> DEFINE c == Closed(Current, "Initial")
           a == UpdateState(c, "Unknown")
<1>1. Reaches(a) /\ reverted' = FALSE /\ drops' = drops
  BY DEF WatchIdles
<1>2. Targets(Current) = {}
  BY InvFacts DEF WatchIdles, WatchInv, AllOk, StreamOk
<1>3. c \in State /\ ListenersOk(c) /\ StreamOk(c) /\ ~Running(c)
  BY <1>2, ClosedOk
<1> HIDE DEF c
<1>4. AllOk(a) /\ Running(a) = Running(c)
  BY <1>3, InvFacts, UpdatedOk
<1> QED BY <1>1, <1>3, <1>4, Reached DEF WatchInv, Timed

(* What a stream that is closed leaves of the timer is written next. *)
LEMMA NewCredentialsOk == ASSUME WatchInv, NewCredentials PROVE WatchInv'
<1> DEFINE c == IF Running(Current) THEN Closed(Current, "Initial") ELSE Current
           stopped == UpdateState(c, "Unknown")
           a == StartOr(stopped, stopped)
<1>1. Reaches(a) /\ reverted' = FALSE /\ drops' = drops + 1
  BY Zenon DEF NewCredentials
<1>2. c \in State /\ ListenersOk(c) /\ ~Running(c) /\ c.watch.idle = FALSE /\ c.watch.sent = {}
  <2>1. CASE Running(Current)
    BY <2>1, InvFacts, ClosedKeeps
  <2>2. CASE ~Running(Current)
    BY <2>2, InvFacts DEF Running
  <2> QED BY <2>1, <2>2
<1> HIDE DEF c
<1>3. /\ Keeps(stopped, c)
      /\ stopped.tracker = [state |-> "Unknown", failures |-> 0, timer |-> FALSE]
  BY <1>2, InvFacts, UpdateStateKeeps
<1> HIDE DEF stopped
<1>4. stopped.tracker.timer = FALSE /\ stopped.tracker.failures = 0
  BY <1>3
<1>5. /\ stopped \in State /\ ListenersOk(stopped) /\ ~Running(stopped)
      /\ stopped.watch = c.watch
  BY <1>2, <1>3, <1>4, KeptOk
<1>6. AllOk(a) /\ Timed(a, FALSE)
  <2>1. CASE Targets(stopped) = {}
    <3>1. a = stopped
      BY <2>1 DEF StartOr
    <3> QED BY <2>1, <3>1, <1>2, <1>4, <1>5 DEF AllOk, StreamOk, TimerOk, Timed
  <2>2. CASE Targets(stopped) # {}
    BY <2>2, <1>4, <1>5, StartOrStarts DEF AllOk
  <2> QED BY <2>1, <2>2
<1> HIDE DEF a
<1>7. drops' \in Nat /\ reverted' \in BOOLEAN
  <2>1. drops \in Nat /\ drops' = drops + 1
    BY <1>1 DEF WatchInv
  <2>2. drops' \in Nat
    BY <2>1
  <2> QED BY <1>1, <2>2
<1>8. Timed(a, reverted')
  BY <1>1, <1>6
<1> QED BY <1>1, <1>6, <1>7, <1>8, Reached

LEMMA StreamFailsOk == ASSUME WatchInv, StreamFails PROVE WatchInv'
<1> DEFINE c == Closed(Current, "Error")
           failed == HandleWatchStreamFailure(c)
           a == IF Targets(Current) = {} THEN UpdateState(c, "Unknown") ELSE StartOr(failed, failed)
<1>1. Reaches(a) /\ reverted' = FALSE
  BY Zenon DEF StreamFails
<1>2. drops' \in Nat
  BY DEF StreamFails, WatchInv
<1>3. /\ c \in State /\ ListenersOk(c) /\ ~Running(c) /\ Targets(c) = Targets(Current)
      /\ c.watch.idle = FALSE /\ c.watch.sent = {} /\ c.tracker = tracker
  <2>1. "Error" \in {"Initial", "Error"}
    OBVIOUS
  <2> QED BY <2>1, InvFacts, ClosedKeeps
<1> HIDE DEF c
<1>4. AllOk(a) /\ Timed(a, FALSE)
  <2>1. CASE Targets(Current) = {}
    <3>1. a = UpdateState(c, "Unknown")
      BY <2>1
    <3>2. StreamOk(c)
      BY <2>1, <1>3 DEF StreamOk
    <3>3. AllOk(UpdateState(c, "Unknown")) /\ ~Running(UpdateState(c, "Unknown"))
      BY <1>3, <3>2, InvFacts, UpdatedOk
    <3> QED BY <3>1, <3>3 DEF Timed
  <2>2. CASE Targets(Current) # {}
    <3>1. c.tracker.failures # 0 => c.tracker.state = "Offline"
      BY <1>3 DEF ListenersOk
    <3>2. /\ Keeps(failed, c)
          /\ failed.tracker = IF c.tracker.state = "Online"
                              THEN [state |-> "Unknown", failures |-> 0, timer |-> c.tracker.timer]
                              ELSE [state |-> "Offline", failures |-> 1, timer |-> FALSE]
      BY <1>3, <3>1, HandleWatchStreamFailureKeeps
    <3> HIDE DEF failed
    <3>3. c.tracker.state = "Online" => c.tracker.timer = FALSE
      BY <1>3, InvFacts DEF WatchInv, AllOk, TimerOk, Tracker
    <3>4. failed.tracker.timer = FALSE
          /\ (failed.tracker.failures # 0 => failed.tracker.state = "Offline")
      BY <3>2, <3>3
    <3>5. /\ failed \in State /\ ListenersOk(failed) /\ ~Running(failed)
          /\ Targets(failed) # {}
      BY <1>3, <2>2, <3>2, <3>4, KeptOk
    <3>6. a = StartOr(failed, failed)
      BY <2>2
    <3>7. AllOk(StartOr(failed, failed)) /\ Timed(StartOr(failed, failed), FALSE)
      BY <3>4, <3>5, StartOrStarts DEF AllOk
    <3> QED BY <3>6, <3>7
  <2> QED BY <2>1, <2>2
<1> HIDE DEF a
<1> QED BY <1>1, <1>2, <1>4, Reached

(* One view is written, and it is as active as it was. *)
LEMMA ViewIsWritten ==
    ASSUME NEW r \in State, NEW q \in Query, NEW v \in View, v.active = r.views[q].active
    PROVE  /\ Keeps([r EXCEPT !.views[q] = v], r)
           /\ [r EXCEPT !.views[q] = v].tracker = r.tracker
           /\ [r EXCEPT !.views[q] = v].listens = r.listens
           /\ [r EXCEPT !.views[q] = v].views[q] = v
<1> DEFINE views2 == [r.views EXCEPT ![q] = v]
           b == [listens |-> r.listens, views |-> views2, watch |-> r.watch, tracker |-> r.tracker]
<1>1. r.views \in [Query -> View]
  BY DEF State
<1>2. views2 \in [Query -> View] /\ views2[q] = v
      /\ \A p \in Query : views2[p].active = r.views[p].active
  BY <1>1
<1>3. [r EXCEPT !.views[q] = v] = b
  <2> HIDE DEF views2
  <2>1. \A x : [r EXCEPT !.views = x]
            = [listens |-> r.listens, views |-> x, watch |-> r.watch, tracker |-> r.tracker]
    BY DEF State
  <2>2. [r EXCEPT !.views[q] = v] = [r EXCEPT !.views = views2]
    BY DEF views2
  <2> QED BY <2>1, <2>2, Zenon
<1> HIDE DEF views2
<1>4. Keeps(b, r)
  BY <1>2 DEF Keeps, State, Watched, NobodyWaitsOffline
<1> QED BY <1>2, <1>3, <1>4

LEMMA SnapshotOk == ASSUME WatchInv, NEW q \in Query, Snapshot(q) PROVE WatchInv'
<1>1. PICK docs \in BOOLEAN :
        Reaches(RaiseFirst([Heard EXCEPT !.watch.sent = @ \ {q}, !.views[q].synced = TRUE,
                                         !.views[q].docs = docs]))
  BY Zenon DEF Snapshot
<1>2. q \in watch.sent /\ reverted' = FALSE /\ drops' = drops
  BY DEF Snapshot
<1> DEFINE h == Heard
           w == [h.watch EXCEPT !.sent = @ \ {q}]
           e1 == [h EXCEPT !.watch.sent = @ \ {q}]
           e2 == [e1 EXCEPT !.views[q].synced = TRUE]
           e3 == [e2 EXCEPT !.views[q].docs = docs]
           a == RaiseFirst(e3)
<1>3. /\ AllOk(h) /\ h.tracker.timer = FALSE /\ h.tracker.state = "Online"
      /\ Targets(h) = Targets(Current) /\ Running(h) = Running(Current) /\ h.watch = watch
  BY InvFacts, UpdatedOk DEF WatchInv, AllOk, Heard
<1>4. /\ h \in State /\ ListenersOk(h) /\ q \in Targets(h) /\ Running(h) /\ h.watch \in Stream
      /\ h.watch.idle = FALSE
  <2>1. h \in State /\ ListenersOk(h) /\ q \in Targets(h)
    BY <1>2, <1>3 DEF AllOk, ListenersOk, StreamOk
  <2>2. Running(h) /\ h.watch \in Stream /\ ~h.watch.idle
    BY <1>3, <2>1, InvFacts DEF AllOk, StreamOk
  <2> QED BY <2>1, <2>2 DEF Stream
<1>5. [Heard EXCEPT !.watch.sent = @ \ {q}, !.views[q].synced = TRUE, !.views[q].docs = docs] = e3
  OBVIOUS
<1> HIDE DEF h
<1>6. /\ w \in Stream /\ w.state = h.watch.state /\ w.idle = FALSE /\ w.sent = h.watch.sent \ {q}
  BY <1>4 DEF Stream
<1>7. e1 = Streamed(h, w)
  <2>1. \A x : [h EXCEPT !.watch = x] = Streamed(h, x)
    BY <1>4 DEF State, Streamed
  <2>2. e1 = [h EXCEPT !.watch = w]
    OBVIOUS
  <2> QED BY <2>1, <2>2, Zenon
<1> HIDE DEF w, e1
<1>8. /\ e1 \in State /\ Targets(e1) = Targets(h) /\ ListenersOk(e1)
      /\ e1.watch = w /\ e1.tracker = h.tracker /\ Running(e1)
      /\ StreamOk(e1)
  <2>1. /\ e1 \in State /\ Targets(e1) = Targets(h) /\ ListenersOk(e1)
        /\ e1.watch = w /\ e1.tracker = h.tracker
    BY <1>4, <1>6, <1>7, StreamIsWritten DEF Streamed
  <2>2. Running(e1)
    BY <1>4, <1>6, <2>1 DEF Running
  <2> QED BY <1>3, <1>6, <2>1, <2>2 DEF AllOk, StreamOk
<1>9. Keeps(e2, e1) /\ e2.tracker = e1.tracker
  <2> DEFINE v == [e1.views[q] EXCEPT !.synced = TRUE]
  <2>1. v \in View /\ v.active = e1.views[q].active
    BY <1>8 DEF State, View
  <2>2. e2 = [e1 EXCEPT !.views[q] = v]
    OBVIOUS
  <2> HIDE DEF v, e2
  <2> QED BY <1>8, <2>1, <2>2, ViewIsWritten
<1> HIDE DEF e2
<1>10. Keeps(e3, e2) /\ e3.tracker = e2.tracker
  <2> DEFINE v == [e2.views[q] EXCEPT !.docs = docs]
  <2>0. e2 \in State
    BY <1>9 DEF Keeps
  <2>1. v \in View /\ v.active = e2.views[q].active
    BY <2>0 DEF State, View
  <2>2. e3 = [e2 EXCEPT !.views[q] = v]
    OBVIOUS
  <2> HIDE DEF v, e3
  <2> QED BY <2>0, <2>1, <2>2, ViewIsWritten
<1>11. Reaches(a)
  BY <1>1, <1>5, Zenon
<1> HIDE DEF e3
<1>12. Keeps(a, e3) /\ a.tracker = e3.tracker
  BY <1>10, RaiseFirstKeeps DEF Keeps
<1> HIDE DEF a
<1>13. Keeps(a, e1) /\ a.tracker = h.tracker
  BY <1>8, <1>9, <1>10, <1>12, KeepsOn
<1>14. AllOk(a) /\ Timed(a, FALSE)
  BY <1>3, <1>8, <1>13, KeptOk DEF AllOk, TimerOk, Timed, ListenersOk
<1> QED BY <1>2, <1>11, <1>14, Reached DEF WatchInv

LEMMA TargetFailsOk == ASSUME WatchInv, NEW q \in Query, TargetFails(q) PROVE WatchInv'
<1> DEFINE h == Heard
           concerns(l) == l.query = q /\ l.state \in {"waiting", "raised"}
           w == [h.watch EXCEPT !.sent = @ \ {q}]
           views2 == [h.views EXCEPT ![q] = NoView]
           failed == [i \in DOMAIN h.listens |->
                        IF concerns(h.listens[i]) THEN [h.listens[i] EXCEPT !.state = "failed"]
                        ELSE h.listens[i]]
           a == [listens |-> failed, views |-> views2, watch |-> w, tracker |-> h.tracker]
<1>1. q \in watch.sent /\ reverted' = FALSE /\ drops' = drops
  BY DEF TargetFails
<1>2. /\ AllOk(h) /\ h.tracker.timer = FALSE /\ h.tracker.state = "Online"
      /\ h.tracker.failures = 0
      /\ Targets(h) = Targets(Current) /\ Running(h) = Running(Current) /\ h.watch = watch
  <2>1. /\ AllOk(h) /\ h.tracker.timer = FALSE /\ h.tracker.state = "Online"
        /\ Targets(h) = Targets(Current) /\ Running(h) = Running(Current) /\ h.watch = watch
    BY InvFacts, UpdatedOk DEF WatchInv, AllOk, Heard
  <2>2. h.tracker.failures = 0
    BY <2>1 DEF AllOk, ListenersOk, State, Tracker
  <2> QED BY <2>1, <2>2
<1>3. /\ h \in State /\ Watched(h) /\ q \in Targets(h) /\ Running(h) /\ h.watch.idle = FALSE
      /\ h.watch.sent \subseteq Targets(h)
  <2>1. h \in State /\ Watched(h) /\ q \in Targets(h) /\ h.watch.sent \subseteq Targets(h)
    BY <1>1, <1>2 DEF AllOk, ListenersOk, StreamOk
  <2>2. Running(h) /\ h.watch \in Stream /\ ~h.watch.idle
    BY <1>2, <2>1, InvFacts DEF AllOk, StreamOk
  <2> QED BY <2>1, <2>2 DEF Stream
<1>4. Reaches([Heard EXCEPT
            !.watch.sent = @ \ {q},
            !.views[q] = NoView,
            !.listens = [i \in DOMAIN @ |->
                IF concerns(@[i]) THEN [@[i] EXCEPT !.state = "failed"] ELSE @[i]]])
  BY Zenon DEF TargetFails
<1> DEFINE e1 == [h EXCEPT !.watch.sent = @ \ {q}]
           e2 == [e1 EXCEPT !.views[q] = NoView]
           e3 == [e2 EXCEPT !.listens = [i \in DOMAIN @ |->
                    IF concerns(@[i]) THEN [@[i] EXCEPT !.state = "failed"] ELSE @[i]]]
<1>5. Reaches(e3)
  BY <1>4
<1> HIDE DEF h
<1>6. e3 = a
  <2>1. e1 = [listens |-> h.listens, views |-> h.views, watch |-> w, tracker |-> h.tracker]
    <3>1. \A x : [h EXCEPT !.watch = x]
            = [listens |-> h.listens, views |-> h.views, watch |-> x, tracker |-> h.tracker]
      BY <1>3 DEF State
    <3>2. e1 = [h EXCEPT !.watch = w]
      OBVIOUS
    <3> QED BY <3>1, <3>2, Zenon
  <2> HIDE DEF w, e1
  <2>2. e2 = [listens |-> h.listens, views |-> views2, watch |-> w, tracker |-> h.tracker]
    <3>1. e1.views = h.views
      BY <2>1
    <3>2. e2 = [e1 EXCEPT !.views = views2]
      BY <3>1
    <3> HIDE DEF e2, views2
    <3> QED BY <2>1, <3>2
  <2> HIDE DEF views2, e2
  <2>3. e2.listens = h.listens
    BY <2>2
  <2>4. e3 = [e2 EXCEPT !.listens = failed]
    BY <2>3, Zenon
  <2> HIDE DEF failed, e3
  <2> QED BY <2>2, <2>4
<1>7. /\ w \in Stream /\ w.state = h.watch.state /\ w.idle = FALSE /\ w.sent = h.watch.sent \ {q}
  BY <1>3 DEF State, Stream
<1>8. views2 \in [Query -> View] /\ ~views2[q].active
      /\ \A p \in Query \ {q} : views2[p] = h.views[p]
  BY <1>3 DEF State, View, NoView
<1>9. /\ failed \in Seq(Listener) /\ DOMAIN failed = DOMAIN h.listens
      /\ \A i \in DOMAIN h.listens : failed[i].query = h.listens[i].query
      /\ \A i \in DOMAIN h.listens : failed[i].state
                = IF concerns(h.listens[i]) THEN "failed" ELSE h.listens[i].state
  <2>1. \A i \in DOMAIN h.listens : h.listens[i] \in Listener
    BY <1>3 DEF State
  <2>2. \A l \in Listener : [l EXCEPT !.state = "failed"]
            = [query |-> l.query, once |-> l.once, state |-> "failed"]
    BY DEF Listener
  <2>3. /\ failed \in [1 .. Len(h.listens) -> Listener]
        /\ \A i \in DOMAIN h.listens : failed[i].query = h.listens[i].query
        /\ \A i \in DOMAIN h.listens : failed[i].state
                = IF concerns(h.listens[i]) THEN "failed" ELSE h.listens[i].state
    BY <1>3, <2>1, <2>2 DEF Listener, State
  <2> HIDE DEF failed
  <2> QED BY <1>3, <2>3, SeqDef DEF State
<1> HIDE DEF failed, views2, w
<1>10. a \in State
  BY <1>3, <1>7, <1>8, <1>9 DEF State
<1>11. Watched(a)
  <2> SUFFICES ASSUME NEW p \in Query
               PROVE  views2[p].active <=> \E i \in DOMAIN failed :
                        failed[i].query = p /\ failed[i].state \in {"waiting", "raised"}
    BY Zenon DEF Watched
  <2>1. CASE p = q
    BY <2>1, <1>8, <1>9
  <2>2. CASE p # q
    BY <2>2, <1>3, <1>8, <1>9 DEF Watched
  <2> QED BY <2>1, <2>2
<1>12. ListenersOk(a)
  BY <1>2, <1>10, <1>11 DEF ListenersOk, NobodyWaitsOffline
<1>13. Targets(a) = Targets(h) \ {q}
  BY <1>3, <1>8 DEF Targets
<1>14. Running(a)
  BY <1>3, <1>7 DEF Running
<1>15. a.watch = w /\ a.tracker = h.tracker
  OBVIOUS
<1> HIDE DEF a
<1>16. AllOk(a) /\ Timed(a, FALSE)
  BY <1>2, <1>3, <1>7, <1>12, <1>13, <1>14, <1>15 DEF AllOk, StreamOk, TimerOk, Timed
<1> QED BY <1>1, <1>5, <1>6, <1>16, Reached DEF WatchInv

(* The new listener, with the view it makes or finds, before it is told. *)
LEMMA ListenedOk ==
    ASSUME WatchInv, NEW q \in Query, NEW once \in BOOLEAN, NEW v \in View, v.active = TRUE
    PROVE  LET l == [query |-> q, once |-> once, state |-> "waiting"]
               b == [Current EXCEPT !.listens = Append(@, l), !.views[q] = v]
           IN  /\ b \in State /\ Watched(b) /\ b.watch = watch /\ b.tracker = tracker
               /\ Targets(b) = Targets(Current) \union {q}
<1> DEFINE l == [query |-> q, once |-> once, state |-> "waiting"]
           listens2 == Append(listens, l)
           views2 == [views EXCEPT ![q] = v]
           b == [Current EXCEPT !.listens = Append(@, l), !.views[q] = v]
           c == [listens |-> listens2, views |-> views2, watch |-> watch, tracker |-> tracker]
<1>1. l \in Listener /\ l.query = q /\ l.state = "waiting"
  BY DEF Listener
<1> HIDE DEF l
<1>2. listens2 \in Seq(Listener) /\ Len(listens2) = Len(listens) + 1
      /\ DOMAIN listens2 = DOMAIN listens \union {Len(listens) + 1}
      /\ listens2[Len(listens) + 1] = l
      /\ \A i \in DOMAIN listens : listens2[i] = listens[i]
  BY <1>1, InvFacts
<1>3. views2 \in [Query -> View] /\ views2[q] = v /\ \A p \in Query \ {q} : views2[p] = views[p]
  BY InvFacts
<1>4. b = c
  <2> DEFINE b1 == [Current EXCEPT !.listens = listens2]
  <2>1. b = [b1 EXCEPT !.views[q] = v]
    BY InvFacts
  <2> HIDE DEF listens2
  <2>2. b1 = [listens |-> listens2, views |-> views, watch |-> watch, tracker |-> tracker]
    BY DEF Current
  <2> HIDE DEF b1, b
  <2>3. b1.views = views
    BY <2>2
  <2>4. b = [b1 EXCEPT !.views = views2]
    BY <2>1, <2>3
  <2> HIDE DEF views2
  <2> QED BY <2>2, <2>4
<1> HIDE DEF listens2, views2
<1>5. c \in State
  BY <1>2, <1>3, InvFacts DEF State
<1>6. Watched(c)
  <2> SUFFICES ASSUME NEW p \in Query
               PROVE  views2[p].active <=> \E i \in DOMAIN listens2 :
                        listens2[i].query = p /\ listens2[i].state \in {"waiting", "raised"}
    BY Zenon DEF Watched
  <2>1. CASE p = q
    BY <2>1, <1>1, <1>2, <1>3
  <2>2. CASE p # q
    <3>1. views[p].active <=> \E i \in DOMAIN listens :
                listens[i].query = p /\ listens[i].state \in {"waiting", "raised"}
      BY InvFacts, ZenonT(40) DEF ListenersOk, Watched
    <3>2. views2[p] = views[p]
      BY <2>2, <1>3
    <3>3. \A i \in DOMAIN listens2 : listens2[i].query = p =>
                i \in DOMAIN listens /\ listens2[i] = listens[i]
      BY <2>2, <1>1, <1>2
    <3>4. \A i \in DOMAIN listens : i \in DOMAIN listens2 /\ listens2[i] = listens[i]
      BY <1>2
    <3> QED BY <3>1, <3>2, <3>3, <3>4
  <2> QED BY <2>1, <2>2
<1>7. Targets(c) = Targets(Current) \union {q}
  BY <1>3, InvFacts DEF Targets
<1>8. c.watch = watch /\ c.tracker = tracker
  OBVIOUS
<1> HIDE DEF b, c
<1>9. b \in State /\ Watched(b) /\ b.watch = watch /\ b.tracker = tracker
      /\ Targets(b) = Targets(Current) \union {q}
  BY <1>4, <1>5, <1>6, <1>7, <1>8, Zenon
<1> QED BY <1>9, Zenon DEF b, l

LEMMA ListenOk ==
    ASSUME WatchInv, NEW q \in Query, NEW once \in BOOLEAN, Listen(q, once) PROVE WatchInv'
<1> DEFINE l == [query |-> q, once |-> once, state |-> "waiting"]
           first == ~views[q].active
           base(v) == [Current EXCEPT !.listens = Append(@, l), !.views[q] = v]
           added(v) == RaiseFirst(base(v))
           requested(r) == [r EXCEPT !.watch.sent = @ \union {q}, !.watch.idle = FALSE]
           new(v) == IF ~first THEN added(v)
                     ELSE StartOr(added(v),
                            IF watch.state = "Open" THEN requested(added(v)) ELSE added(v))
<1>1. PICK v \in (IF first THEN [active : {TRUE}, docs : BOOLEAN, synced : {FALSE}]
                  ELSE {views[q]}) : Reaches(new(v))
  BY Zenon DEF Listen
<1>2. reverted' = (reverted /\ Running(Current)) /\ drops' = drops
  BY DEF Listen
<1>3. reverted' \in BOOLEAN /\ drops' \in Nat
  BY <1>2 DEF WatchInv
<1>4. v \in View /\ v.active = TRUE /\ (~first => v = views[q])
  BY <1>1, InvFacts DEF View
<1> DEFINE b == base(v)
           c == added(v)
<1>5. /\ b \in State /\ Watched(b) /\ b.watch = watch /\ b.tracker = tracker
      /\ Targets(b) = Targets(Current) \union {q}
  BY <1>4, ListenedOk, ZenonT(40)
<1>6. c = RaiseFirst(b) /\ new(v) = IF ~first THEN c
                     ELSE StartOr(c, IF watch.state = "Open" THEN requested(c) ELSE c)
  BY Zenon
<1>7. ~first => Targets(b) = Targets(Current)
  BY <1>5, InvFacts DEF Targets
<1> HIDE DEF base, b, added, new
<1>8. Keeps(c, b) /\ NobodyWaitsOffline(c) /\ c.tracker = tracker
  BY <1>5, <1>6, RaiseFirstKeeps
<1>9. c \in State /\ c.watch = watch /\ Targets(c) = Targets(b) /\ Running(c) = Running(Current)
  BY <1>5, <1>8, InvFacts, KeptOk DEF Running
<1>10. ListenersOk(c)
  BY <1>5, <1>8, InvFacts DEF Keeps, ListenersOk
<1> HIDE DEF c, first
<1>11. watch.sent \subseteq Targets(c) /\ (watch.idle => Targets(Current) = {})
       /\ (tracker.timer => tracker.state = "Unknown" /\ Running(Current))
       /\ Timed(Current, reverted) /\ (Targets(Current) # {} => Running(Current))
  BY <1>5, <1>9, InvFacts DEF WatchInv, AllOk, StreamOk, TimerOk
<1>12. CASE ~first
  <2>1. new(v) = c
    BY <1>6, <1>12
  <2>2. Targets(c) = Targets(Current)
    BY <1>7, <1>9, <1>12
  <2>3. AllOk(c)
    BY <1>8, <1>9, <1>10, <1>11, <2>2 DEF AllOk, StreamOk, TimerOk
  <2>4. Timed(c, reverted')
    BY <1>2, <1>8, <1>9, <1>11, InvFacts DEF Timed
  <2> QED BY <1>1, <1>3, <2>1, <2>3, <2>4, Reached
<1>13. CASE first /\ ~Running(Current)
  <2> DEFINE o == IF watch.state = "Open" THEN requested(c) ELSE c
             a == StartOr(c, o)
  <2>1. new(v) = a
    BY <1>6, <1>13
  <2>2. tracker.timer = FALSE
    BY <1>11, <1>13, InvFacts DEF Tracker
  <2>3. Targets(c) # {} /\ ~Running(c) /\ c.tracker.timer = FALSE
    BY <1>5, <1>8, <1>9, <1>13, <2>2
  <2> HIDE DEF o
  <2>4. AllOk(a) /\ Timed(a, FALSE)
    BY <1>9, <1>10, <2>3, StartOrStarts DEF AllOk
  <2> HIDE DEF a
  <2>5. Timed(a, reverted')
    BY <2>4 DEF Timed
  <2> QED BY <1>1, <1>3, <2>1, <2>4, <2>5, Reached
<1>14. CASE first /\ Running(Current) /\ watch.state # "Open"
  <2>1. new(v) = c
    BY <1>6, <1>9, <1>14 DEF StartOr
  <2>2. AllOk(c)
    BY <1>8, <1>9, <1>10, <1>11, <1>14, InvFacts DEF AllOk, StreamOk, TimerOk
  <2>3. Timed(c, reverted')
    BY <1>2, <1>8, <1>9, <1>11, <1>14, InvFacts DEF Timed
  <2> QED BY <1>1, <1>3, <2>1, <2>2, <2>3, Reached
<1>15. CASE first /\ Running(Current) /\ watch.state = "Open"
  <2> DEFINE w1 == [watch EXCEPT !.sent = @ \union {q}]
             w2 == [w1 EXCEPT !.idle = FALSE]
             a == Streamed(c, w2)
  <2>1. new(v) = requested(c)
    BY <1>6, <1>9, <1>15 DEF StartOr
  <2>2. w2 \in Stream /\ w2.state = "Open" /\ w2.idle = FALSE /\ w2.sent = watch.sent \union {q}
    BY <1>15, InvFacts DEF Stream
  <2>3. requested(c) = a
    <3> DEFINE c1 == [c EXCEPT !.watch.sent = @ \union {q}]
    <3>1. requested(c) = [c1 EXCEPT !.watch.idle = FALSE]
      OBVIOUS
    <3>2. c1 = [c EXCEPT !.watch = w1]
      BY <1>9
    <3> HIDE DEF w1, c1
    <3>3. c1 = Streamed(c, w1)
      BY <1>9, <3>2 DEF State, Streamed
    <3>4. c1.watch = w1
      BY <3>3 DEF Streamed
    <3>5. requested(c) = [c1 EXCEPT !.watch = w2]
      BY <3>1, <3>4
    <3> HIDE DEF w2, requested
    <3> QED BY <3>3, <3>5 DEF Streamed
  <2> HIDE DEF w1, w2, requested
  <2>4. /\ a \in State /\ ListenersOk(a) /\ Targets(a) = Targets(c)
        /\ a.watch = w2 /\ a.tracker = tracker
    BY <1>8, <1>9, <1>10, <2>2, StreamIsWritten DEF Streamed
  <2> HIDE DEF a
  <2>5. Running(a)
    BY <2>2, <2>4 DEF Running
  <2>6. q \in Targets(c)
    BY <1>5, <1>9
  <2>7. AllOk(a)
    BY <1>11, <1>15, <2>2, <2>4, <2>5, <2>6 DEF AllOk, StreamOk, TimerOk
  <2>8. Timed(a, reverted')
    BY <1>2, <1>11, <1>15, <2>4, <2>5, InvFacts DEF Timed
  <2> QED BY <1>1, <1>3, <2>1, <2>3, <2>7, <2>8, Reached
<1> QED BY <1>12, <1>13, <1>14, <1>15

LEMMA ListenersNow ==
    ASSUME WatchInv
    PROVE  /\ \A i \in DOMAIN listens : listens[i] \in Listener /\ listens[i].query \in Query
           /\ \A p \in Query : views[p].active <=> \E j \in DOMAIN listens :
                listens[j].query = p /\ listens[j].state \in {"waiting", "raised"}
<1>1. listens \in Seq(Listener)
  BY InvFacts
<1>2. \A i \in DOMAIN listens : listens[i] \in Listener
  BY <1>1
<1>3. \A l \in Listener : l.query \in Query
  BY DEF Listener
<1>4. ASSUME NEW p \in Query
      PROVE  views[p].active <=> \E j \in DOMAIN listens :
                listens[j].query = p /\ listens[j].state \in {"waiting", "raised"}
  BY InvFacts, Zenon DEF ListenersOk, Watched
<1> QED BY <1>2, <1>3, <1>4

LEMMA RemoveListenerOk ==
    ASSUME WatchInv, NEW i \in DOMAIN listens, RemoveListener(i) PROVE WatchInv'
<1> DEFINE q == listens[i].query
           others == \E j \in DOMAIN listens \ {i} :
                        listens[j].query = q /\ listens[j].state \in {"waiting", "raised"}
           listens2 == [listens EXCEPT ![i].state = "removed"]
           views2 == [views EXCEPT ![q] = NoView]
           gone == [Current EXCEPT !.listens[i].state = "removed"]
           unwatched == [gone EXCEPT !.views[q] = NoView]
           unused == ~others /\ Targets(unwatched) = {}
           asked == [unwatched EXCEPT !.watch.sent = @ \ {q}, !.watch.idle = unused]
           a == IF others THEN gone
                ELSE IF watch.state = "Open" THEN asked
                ELSE IF unused THEN UpdateState(unwatched, "Unknown") ELSE unwatched
<1>1. /\ listens[i].once /\ listens[i].state = "raised"
      /\ Reaches(a)
      /\ reverted' = (reverted \/ (unused /\ watch.state \in {"Starting", "Backoff"}))
      /\ drops' = drops
  BY Zenon DEF RemoveListener
<1>2. reverted' \in BOOLEAN /\ drops' \in Nat
  BY <1>1 DEF WatchInv
<1>3. listens[i] \in Listener /\ q \in Query
  BY ListenersNow
<1>4. /\ listens2 \in Seq(Listener) /\ DOMAIN listens2 = DOMAIN listens
      /\ \A j \in DOMAIN listens : listens2[j].query = listens[j].query
      /\ \A j \in DOMAIN listens : listens2[j].state = IF j = i THEN "removed" ELSE listens[j].state
  <2>1. [listens[i] EXCEPT !.state = "removed"] \in Listener
        /\ [listens[i] EXCEPT !.state = "removed"].query = listens[i].query
        /\ [listens[i] EXCEPT !.state = "removed"].state = "removed"
    BY <1>3 DEF Listener
  <2> QED BY <2>1, InvFacts
<1>5. views2 \in [Query -> View] /\ ~views2[q].active /\ \A p \in Query \ {q} : views2[p] = views[p]
  BY <1>3, InvFacts DEF NoView, View
<1>6. gone = [listens |-> listens2, views |-> views, watch |-> watch, tracker |-> tracker]
  <2>1. gone = [Current EXCEPT !.listens = listens2]
    BY InvFacts
  <2> HIDE DEF listens2, gone
  <2> QED BY <2>1 DEF Current
<1> HIDE DEF gone, asked
<1>7. unwatched = [listens |-> listens2, views |-> views2, watch |-> watch, tracker |-> tracker]
  <2>1. gone.views = views
    BY <1>6
  <2>2. unwatched = [gone EXCEPT !.views = views2]
    BY <2>1
  <2> HIDE DEF views2, listens2, unwatched
  <2> QED BY <1>6, <2>2
<1> HIDE DEF unwatched, listens2, views2
<1>8. views[q].active /\ q \in Targets(Current) /\ Running(Current)
  <2>1. views[q].active
    BY <1>1, <1>3, InvFacts DEF ListenersOk, Watched
  <2>2. q \in Targets(Current)
    BY <1>3, <2>1, InvFacts DEF Targets
  <2> QED BY <2>1, <2>2 DEF WatchInv, AllOk, StreamOk
<1>9. \A p \in Query : views[p].active <=> \E j \in DOMAIN listens :
            listens[j].query = p /\ listens[j].state \in {"waiting", "raised"}
  BY ListenersNow
<1>10. NobodyWaitsOffline(gone) /\ NobodyWaitsOffline(unwatched)
  BY <1>4, <1>6, <1>7, InvFacts DEF ListenersOk, NobodyWaitsOffline
<1>11. CASE others
  <2>1. gone \in State
    BY <1>4, <1>6, InvFacts DEF State
  <2>2. \A p \in Query : views[p].active <=> \E j \in DOMAIN listens2 :
            listens2[j].query = p /\ listens2[j].state \in {"waiting", "raised"}
    <3> SUFFICES ASSUME NEW p \in Query
                 PROVE  views[p].active <=> \E j \in DOMAIN listens2 :
                          listens2[j].query = p /\ listens2[j].state \in {"waiting", "raised"}
      BY Zenon
    <3>1. CASE p = q
      <4>1. PICK k \in DOMAIN listens \ {i} :
                listens[k].query = q /\ listens[k].state \in {"waiting", "raised"}
        BY <1>11
      <4>2. listens2[k].query = q /\ listens2[k].state = listens[k].state /\ k \in DOMAIN listens2
        BY <1>4, <4>1
      <4> QED BY <1>8, <3>1, <4>1, <4>2
    <3>2. CASE p # q
      <4>1. \A j \in DOMAIN listens : listens2[j].query = p <=> listens[j].query = p
        BY <1>4
      <4>2. \A j \in DOMAIN listens : listens[j].query = p => listens2[j].state = listens[j].state
        BY <3>2, <1>4
      <4>3. DOMAIN listens2 = DOMAIN listens
        BY <1>4
      <4> QED BY <4>1, <4>2, <4>3, <1>9
    <3> QED BY <3>1, <3>2
  <2>3. Watched(gone)
    BY <1>6, <2>2 DEF Watched
  <2>4. gone.tracker = tracker /\ gone.watch = watch /\ Targets(gone) = Targets(Current)
    BY <1>6, InvFacts DEF Targets
  <2>5. AllOk(gone)
    BY <1>10, <2>1, <2>3, <2>4, InvFacts
       DEF WatchInv, AllOk, ListenersOk, StreamOk, TimerOk, Running
  <2>6. Timed(gone, reverted')
    BY <1>1, <2>4, InvFacts DEF WatchInv, Timed, Running
  <2>7. a = gone
    BY <1>11
  <2> HIDE DEF a
  <2> QED BY <1>1, <1>2, <2>5, <2>6, <2>7, Reached
<1>12. CASE ~others
  <2>1. unwatched \in State
    BY <1>4, <1>5, <1>7, InvFacts DEF State
  <2>2. Watched(unwatched)
    <3> SUFFICES ASSUME NEW p \in Query
                 PROVE  views2[p].active <=> \E j \in DOMAIN listens2 :
                          listens2[j].query = p /\ listens2[j].state \in {"waiting", "raised"}
      BY <1>7, Zenon DEF Watched
    <3>1. CASE p = q
      BY <3>1, <1>4, <1>5, <1>12
    <3>2. CASE p # q
      <4>1. views2[p].active <=> views[p].active
        BY <3>2, <1>5
      <4>2. \A j \in DOMAIN listens :
                listens2[j].query = p <=> listens[j].query = p
        BY <1>4
      <4>3. \A j \in DOMAIN listens :
                listens[j].query = p => listens2[j].state = listens[j].state
        BY <3>2, <1>4
      <4>4. DOMAIN listens2 = DOMAIN listens
        BY <1>4
      <4> QED BY <4>1, <4>2, <4>3, <4>4, <1>9
    <3> QED BY <3>1, <3>2
  <2>3. unwatched.tracker = tracker /\ unwatched.watch = watch
    BY <1>7
  <2>4. Targets(unwatched) = Targets(Current) \ {q}
    BY <1>5, <1>7, InvFacts DEF Targets
  <2>5. ListenersOk(unwatched)
    BY <1>10, <2>1, <2>2, <2>3, InvFacts DEF ListenersOk
  <2>6. Running(unwatched) /\ unwatched.watch.idle = FALSE
    BY <1>8, <2>3, InvFacts DEF Running, WatchInv, AllOk, StreamOk, Stream
  <2>7. watch.sent \subseteq Targets(Current) /\ TimerOk(unwatched) /\ Timed(unwatched, reverted)
    BY <1>8, <2>3, <2>6, InvFacts DEF WatchInv, AllOk, StreamOk, TimerOk, Timed
  <2>8. CASE watch.state = "Open"
    <3> DEFINE w1 == [watch EXCEPT !.sent = @ \ {q}]
               w2 == [w1 EXCEPT !.idle = unused]
               s == Streamed(unwatched, w2)
    <3>1. /\ w2 \in Stream /\ w2.state = "Open" /\ w2.sent = watch.sent \ {q}
          /\ w2.idle => Targets(unwatched) = {}
      <4>1. unused \in BOOLEAN /\ (unused => Targets(unwatched) = {})
        OBVIOUS
      <4> HIDE DEF unused
      <4>2. watch \in [state : {"Open"}, idle : BOOLEAN, sent : SUBSET Query]
        BY <2>8, InvFacts DEF Stream
      <4>3. w1 \in [state : {"Open"}, idle : BOOLEAN, sent : SUBSET Query]
            /\ w1.sent = watch.sent \ {q}
        BY <4>2
      <4> HIDE DEF w1
      <4>4. w2 \in [state : {"Open"}, idle : BOOLEAN, sent : SUBSET Query]
            /\ w2.sent = w1.sent /\ w2.idle = unused
        BY <4>1, <4>3
      <4> HIDE DEF w2
      <4> QED BY <4>1, <4>3, <4>4 DEF Stream
    <3>2. asked = s
      <4> DEFINE c1 == [unwatched EXCEPT !.watch.sent = @ \ {q}]
      <4> HIDE DEF unused
      <4>1. asked = [c1 EXCEPT !.watch.idle = unused]
        BY DEF asked
      <4>2. c1 = [unwatched EXCEPT !.watch = w1]
        BY <2>3
      <4> HIDE DEF w1, c1
      <4>3. c1 = Streamed(unwatched, w1)
        BY <2>1, <4>2 DEF State, Streamed
      <4>4. c1.watch = w1
        BY <4>3 DEF Streamed
      <4>5. asked = [c1 EXCEPT !.watch = w2]
        BY <4>1, <4>4
      <4> HIDE DEF w2
      <4> QED BY <4>3, <4>5 DEF Streamed
    <3>3. a = s
      BY <1>12, <2>8, <3>2, Zenon
    <3> HIDE DEF unused, w1, w2
    <3>4. /\ s \in State /\ ListenersOk(s) /\ Targets(s) = Targets(unwatched)
          /\ s.watch = w2 /\ s.tracker = tracker
      BY <2>1, <2>3, <2>5, <3>1, StreamIsWritten DEF Streamed
    <3> HIDE DEF s
    <3>5. Running(s)
      BY <3>1, <3>4 DEF Running
    <3>6. AllOk(s) /\ Timed(s, reverted)
      BY <2>3, <2>4, <2>6, <2>7, <3>1, <3>4, <3>5 DEF AllOk, StreamOk, TimerOk, Timed
    <3>7. Timed(s, reverted')
      BY <1>1, <3>6 DEF Timed
    <3> HIDE DEF a
    <3> QED BY <1>1, <1>2, <3>3, <3>6, <3>7, Reached
  <2>9. CASE watch.state # "Open" /\ unused
    <3>1. watch.state \in {"Starting", "Backoff"}
      BY <1>8, <2>9, InvFacts DEF Running
    <3>2. reverted' = TRUE
      BY <1>1, <2>9, <3>1
    <3>3. StreamOk(unwatched)
      BY <2>3, <2>6, <2>9, InvFacts DEF StreamOk
    <3>4. a = UpdateState(unwatched, "Unknown")
      BY <1>12, <2>9, Zenon
    <3>5. AllOk(UpdateState(unwatched, "Unknown"))
      BY <2>1, <2>5, <3>3, InvFacts, UpdatedOk
    <3> HIDE DEF a
    <3>6. Timed(a, reverted')
      BY <3>2 DEF Timed
    <3> QED BY <1>1, <1>2, <3>4, <3>5, <3>6, Reached
  <2>10. CASE watch.state # "Open" /\ ~unused
    <3>1. StreamOk(unwatched)
      BY <2>3, <2>6, <2>10, InvFacts DEF StreamOk
    <3>2. a = unwatched
      BY <1>12, <2>10, Zenon
    <3> HIDE DEF a, unused
    <3>3. Timed(a, reverted')
      BY <1>1, <2>7, <3>2 DEF Timed
    <3> QED BY <1>1, <1>2, <2>5, <2>7, <3>1, <3>2, <3>3, Reached DEF AllOk
  <2> QED BY <2>8, <2>9, <2>10
<1> QED BY <1>11, <1>12

-----------------------------------------------------------------------------
LEMMA WatchNextOk == WatchInv /\ [WatchNext]_watchVars => WatchInv'
<1> SUFFICES ASSUME WatchInv, [WatchNext]_watchVars PROVE WatchInv'
  OBVIOUS
<1>1. CASE \E q \in Query, once \in BOOLEAN : Listen(q, once)
  BY <1>1, ListenOk
<1>2. CASE \E q \in Query : LocalWrite(q) \/ Snapshot(q) \/ TargetFails(q)
  BY <1>2, LocalWriteOk, SnapshotOk, TargetFailsOk
<1>3. CASE \E i \in DOMAIN listens : RemoveListener(i)
  BY <1>3, RemoveListenerOk
<1>4. CASE StreamOpens \/ StreamFails \/ BackoffElapses \/ WatchIdles
  BY <1>4, StreamOpensOk, StreamFailsOk, BackoffElapsesOk, WatchIdlesOk
<1>5. CASE OnlineStateTimeout \/ NewCredentials \/ Acknowledged
  BY <1>5, OnlineStateTimeoutOk, NewCredentialsOk, AcknowledgedOk
<1>6. CASE UNCHANGED watchVars
  <2>1. Current' = Current /\ reverted' = reverted /\ drops' = drops
    BY <1>6 DEF watchVars, Current
  <2> QED BY <2>1 DEF WatchInv
<1> QED BY <1>1, <1>2, <1>3, <1>4, <1>5, <1>6, Zenon DEF WatchNext

LEMMA Invariant == WatchSpec => []WatchInv
BY WatchInitOk, WatchNextOk, PTL DEF WatchSpec

(* The client's records keep their types, whatever the app listens to, in      *)
(* whatever order its calls, the answers of the server and the timers come.    *)
THEOREM WatchTypeCorrect == WatchSpec => []WatchTypeOK
<1>1. WatchInv => WatchTypeOK
  BY InvFacts DEF WatchInv, WatchTypeOK, Listener, View, Stream, Tracker
<1> QED BY <1>1, Invariant, PTL

(* None of the assertions of online_state_tracker.cc, remote_store.mm and      *)
(* FSTSyncEngine.mm that the conjuncts stand for can fail.                     *)
THEOREM WatchStaysConsistent == WatchSpec => []WatchIsConsistent
<1>1. WatchInv => WatchIsConsistent
  <2> SUFFICES ASSUME WatchInv PROVE WatchIsConsistent
    OBVIOUS
  <2>1. tracker.timer => tracker.state = "Unknown" /\ Running(Current)
    BY InvFacts DEF WatchInv, AllOk, TimerOk
  <2>2. tracker.state = "Online" => tracker.failures = 0
    BY InvFacts DEF ListenersOk
  <2>3. /\ watch.idle => Targets(Current) = {}
        /\ Targets(Current) # {} => Running(Current)
        /\ watch.sent \subseteq Targets(Current)
    BY InvFacts DEF WatchInv, AllOk, StreamOk
  <2>4. \A q \in Query : views[q].active <=> \E i \in DOMAIN listens :
            listens[i].query = q /\ listens[i].state \in {"waiting", "raised"}
    BY InvFacts, Zenon DEF ListenersOk, Watched
  <2> QED BY <2>1, <2>2, <2>3, <2>4 DEF WatchIsConsistent
<1> QED BY <1>1, Invariant, PTL

(* Nobody waits for a first event without a server that answers or a timer     *)
(* that runs, except after the state was set back under a starting stream.     *)
THEOREM WaitsStayTimed == WatchSpec => []WaitsAreTimed
<1>1. WatchInv => WaitsAreTimed
  <2> SUFFICES ASSUME WatchInv, NEW i \in DOMAIN listens, listens[i].state = "waiting"
               PROVE  tracker.timer \/ tracker.state = "Online" \/ reverted
    BY DEF WaitsAreTimed
  <2>1. listens[i].query \in Query
    BY ListenersNow
  <2>2. views[listens[i].query].active
    BY <2>1, InvFacts DEF ListenersOk, Watched
  <2>3. Running(Current)
    BY <2>1, <2>2, InvFacts DEF WatchInv, AllOk, StreamOk, Targets
  <2>4. tracker.state # "Offline"
    BY InvFacts DEF ListenersOk, NobodyWaitsOffline
  <2> QED BY <2>3, <2>4, InvFacts DEF WatchInv, Timed, Tracker
<1> QED BY <1>1, Invariant, PTL
===============================================================================
