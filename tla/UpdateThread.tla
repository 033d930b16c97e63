----------------------------- MODULE UpdateThread -----------------------------
(* One list of work orders and the updates of its orders.  A tap on a row      *)
(* empties the list's one array of updates and adds a listener on the order's  *)
(* thread, which is never removed; each of its events appends the whole thread *)
(* to the array, and the append that makes the array as long as the thread     *)
(* queues a segue, which gives the detail screen whatever the array holds when *)
(* the block runs.  A worker adds an update from a composer, which is popped   *)
(* with everything else by an event of the new document's listener.            *)
EXTENDS Naturals, Sequences, SequencesExt

CONSTANTS
    Listed,         \* the work orders of the list
    Earlier,        \* the number of updates of one order when the list is opened
    MaxUpdates,     \* bound: updates written by anybody
    MaxTaps         \* bound: taps on rows of the list

ASSUME ThreadAssumption ==
    /\ Earlier \in Nat /\ MaxUpdates \in Nat /\ Earlier <= MaxUpdates
    /\ MaxTaps \in Nat

VARIABLES
    thread,         \* what the phone knows of each order's updates, newest first
    written,        \* the number of updates written so far
    mine,           \* the updates of this device the server has not answered
    updates,        \* the array of the list screen
    onThread,       \* the listener of each tap: its order, and whether it was called yet
    main,           \* the main queue
    stack,          \* the screens above the dashboard
    tap             \* history: what became of the last tap

threadVars == <<thread, written, mine, updates, onThread, main, stack, tap>>

Update == Nat

Block ==
    [kind : {"event"}, by : Nat, docs : Seq(Update)]
        \union [kind : {"segue"}, by : Nat, docs : Seq(Update)]
        \union [kind : {"added", "pop"}, of : Update]

(* A detail screen has its rows, and (history) the snapshot it was opened for  *)
(* and whether no other event reached the list between the tap and the screen. *)
(* A composer has the updates it has sent, whose listeners' blocks pop it.     *)
Screen ==
    [kind : {"list"}]
        \union [kind : {"detail"}, order : Listed, rows : Seq(Update), docs : Seq(Update),
                alone : BOOLEAN]
        \union [kind : {"compose"}, order : Listed, sent : SUBSET Update]

ThreadTypeOK ==
    /\ thread \in [Listed -> Seq(Update)]
    /\ written \in 0..MaxUpdates
    /\ mine \subseteq 1..written
    /\ updates \in Seq(Update)
    /\ onThread \in Seq([order : Listed, state : {"new", "live", "failed"}])
    /\ main \in Seq(Block)
    /\ stack \in Seq(Screen)
    /\ \A i \in DOMAIN stack : stack[i].kind = "list" <=> i = 1
    /\ tap \in {"none", "waiting", "answered", "opened", "disturbed"}

ThreadInit ==
    /\ written = Earlier
    /\ \E o \in Listed :
        thread = [p \in Listed |-> IF p = o THEN [i \in 1..Earlier |-> i] ELSE <<>>]
    /\ mine = {}
    /\ updates = <<>>
    /\ onThread = <<>>
    /\ main = <<>>
    /\ stack = <<[kind |-> "list"]>>
    /\ tap = "none"

Showing(kind) == stack # <<>> /\ Last(stack).kind = kind

(* Mutant of Tap: the array is not emptied. *)
Tap_KeepsUpdates(o) ==
    /\ Showing("list")
    /\ Len(onThread) < MaxTaps
    /\ onThread' = Append(onThread, [order |-> o, state |-> "new"])
    /\ tap' = "waiting"
    /\ UNCHANGED <<thread, written, mine, updates, main, stack>>

(* didSelectRowAt *)
Tap(o) ==
    /\ Showing("list")
    /\ Len(onThread) < MaxTaps
    /\ updates' = <<>>
    /\ onThread' = Append(onThread, [order |-> o, state |-> "new"])
    /\ tap' = "waiting"
    /\ UNCHANGED <<thread, written, mine, main, stack>>

Event(l, docs) == [kind |-> "event", by |-> l, docs |-> docs]

(* Firestore has the first answer for a listener. *)
FirstEvent(l) ==
    /\ onThread[l].state = "new"
    /\ onThread' = [onThread EXCEPT ![l].state = "live"]
    /\ main' = Append(main, Event(l, thread[onThread[l].order]))
    /\ UNCHANGED <<thread, written, mine, updates, stack, tap>>

(* Or an error, which is printed and ends the listener.                        *)
ListenFails(l) ==
    /\ onThread[l].state = "new"
    /\ onThread' = [onThread EXCEPT ![l].state = "failed"]
    /\ tap' = IF l = Len(onThread) THEN "none" ELSE tap
    /\ UNCHANGED <<thread, written, mine, updates, main, stack>>

ToTell(o) == {l \in DOMAIN onThread : onThread[l].order = o /\ onThread[l].state = "live"}

(* The one sequence of all members of S in increasing order, in a set. *)
Increasing(S) ==
    {s \in [1..Cardinality(S) -> S] : \A i, j \in DOMAIN s : i < j => s[i] < s[j]}

(* The listeners called when o's thread becomes docs, in the order in which    *)
(* they were added, and what they queue, followed by the blocks of more.       *)
Tells(o, docs, more) ==
    \E due \in Increasing(ToTell(o)) :
        main' = main \o [i \in DOMAIN due |-> Event(due[i], docs)] \o more

Becomes(o, docs) == thread' = [thread EXCEPT ![o] = docs]

(* Another device's update; clocks differ, so it may belong anywhere.          *)
UpdateArrives(o) ==
    /\ written < MaxUpdates
    /\ written' = written + 1
    /\ \E i \in 1..(Len(thread[o]) + 1) :
        LET docs == InsertAt(thread[o], i, written + 1) IN
        /\ Becomes(o, docs)
        /\ Tells(o, docs, <<>>)
    /\ UNCHANGED <<mine, updates, onThread, stack, tap>>

(* addUpdateButtonTapped *)
Compose ==
    /\ Showing("detail")
    /\ stack' = Append(stack, [kind |-> "compose", order |-> Last(stack).order,
                               sent |-> {}])
    /\ UNCHANGED <<thread, written, mine, updates, onThread, main, tap>>

Added(u) == [kind |-> "added", of |-> u]

(* sendButtonTapped: the local write reaches the listeners of the thread, then *)
(* the new listener on the document has its first event.                       *)
SendUpdate ==
    LET o == Last(stack).order IN
    /\ Showing("compose")
    /\ written < MaxUpdates
    /\ written' = written + 1
    /\ mine' = mine \union {written + 1}
    /\ \E i \in 1..(Len(thread[o]) + 1) :
        LET docs == InsertAt(thread[o], i, written + 1) IN
        /\ Becomes(o, docs)
        /\ Tells(o, docs, <<Added(written + 1)>>)
    /\ stack' = [stack EXCEPT ![Len(stack)].sent = @ \union {written + 1}]
    /\ UNCHANGED <<updates, onThread, tap>>

UpdateAccepted(u) ==
    /\ u \in mine
    /\ mine' = mine \ {u}
    /\ UNCHANGED <<thread, written, updates, onThread, main, stack, tap>>

(* The local write is undone, and the document's listener is called again.     *)
UpdateRefused(u) ==
    /\ u \in mine
    /\ mine' = mine \ {u}
    /\ \E o \in Listed : \E i \in DOMAIN thread[o] :
        LET docs == RemoveAt(thread[o], i) IN
        /\ thread[o][i] = u
        /\ Becomes(o, docs)
        /\ Tells(o, docs, <<Added(u)>>)
    /\ UNCHANGED <<written, updates, onThread, stack, tap>>

Back ==
    /\ stack # <<>>
    /\ stack' = Front(stack)
    /\ tap' = IF Len(stack) = 1 THEN "none" ELSE tap
    /\ UNCHANGED <<thread, written, mine, updates, onThread, main>>
-----------------------------------------------------------------------------
(* The blocks of the main queue. *)

RunBlock(kind) == main # <<>> /\ Head(main).kind = kind

(* Mutant of Segues: an array at least as long as the thread will do. *)
Segues_AtLeast(l, docs) ==
    LET n == Len(docs)
        hits == {i \in 1..n : Len(updates) + i >= n}
    IN  IF n = 0 THEN <<[kind |-> "segue", by |-> l, docs |-> docs]>>
        ELSE [i \in 1..Cardinality(hits) |-> [kind |-> "segue", by |-> l, docs |-> docs]]

(* Mutant of Segues: an order without updates is forgotten. *)
Segues_SomeOnly(l, docs) ==
    LET hits == {i \in 1..Len(docs) : Len(updates) + i = Len(docs)}
    IN  [i \in 1..Cardinality(hits) |-> [kind |-> "segue", by |-> l, docs |-> docs]]

(* The segues that an event queues: one for each append after which the array  *)
(* is as long as the snapshot, one for a snapshot without documents.           *)
Segues(l, docs) ==
    LET n == Len(docs)
        hits == {i \in 1..n : Len(updates) + i = n}
    IN  IF n = 0 THEN <<[kind |-> "segue", by |-> l, docs |-> docs]>>
        ELSE [i \in 1..Cardinality(hits) |-> [kind |-> "segue", by |-> l, docs |-> docs]]

RunEvent ==
    LET b == Head(main) IN
    /\ RunBlock("event")
    /\ updates' = updates \o b.docs
    /\ main' = Tail(main) \o Segues(b.by, b.docs)
    /\ tap' = IF tap = "waiting" /\ b.by = Len(onThread) THEN "answered"
              ELSE IF tap \in {"waiting", "answered"} THEN "disturbed" ELSE tap
    /\ UNCHANGED <<thread, written, mine, onThread, stack>>

(* Mutant of RunSegue: the list need not be on the stack. *)
RunSegue_Anywhere ==
    LET b == Head(main)
        alone == tap = "answered" /\ b.by = Len(onThread)
    IN
    /\ RunBlock("segue")
    /\ stack' = Append(stack, [kind |-> "detail", order |-> onThread[b.by].order,
                               rows |-> Reverse(updates), docs |-> b.docs, alone |-> alone])
    /\ tap' = IF alone THEN "opened" ELSE tap
    /\ main' = Tail(main)
    /\ UNCHANGED <<thread, written, mine, updates, onThread>>

(* performSegue and prepare.  A list that left the stack pushes nothing; one   *)
(* that is covered pushes over whatever covers it.                             *)
RunSegue ==
    LET b == Head(main)
        alone == tap = "answered" /\ b.by = Len(onThread)
    IN
    /\ RunBlock("segue")
    /\ IF stack # <<>>
       THEN /\ stack' = Append(stack, [kind |-> "detail", order |-> onThread[b.by].order,
                                       rows |-> Reverse(updates), docs |-> b.docs,
                                       alone |-> alone])
            /\ tap' = IF alone THEN "opened" ELSE tap
       ELSE UNCHANGED <<stack, tap>>
    /\ main' = Tail(main)
    /\ UNCHANGED <<thread, written, mine, updates, onThread>>

(* The document's listener was called: the pop is queued as a block of its own. *)
RunAdded ==
    /\ RunBlock("added")
    /\ main' = Append(Tail(main), [kind |-> "pop", of |-> Head(main).of])
    /\ UNCHANGED <<thread, written, mine, updates, onThread, stack, tap>>

(* pop: everything above the dashboard goes, if the composer of the update is  *)
(* still there; one that left the stack has no navigation controller to ask.   *)
RunPop ==
    /\ RunBlock("pop")
    /\ IF \E i \in DOMAIN stack :
            stack[i].kind = "compose" /\ Head(main).of \in stack[i].sent
       THEN stack' = <<>> /\ tap' = "none"
       ELSE UNCHANGED <<stack, tap>>
    /\ main' = Tail(main)
    /\ UNCHANGED <<thread, written, mine, updates, onThread>>

RunMain == RunEvent \/ RunSegue \/ RunAdded \/ RunPop

ThreadNext ==
    \/ \E o \in Listed : Tap(o) \/ UpdateArrives(o)
    \/ \E l \in DOMAIN onThread : FirstEvent(l) \/ ListenFails(l)
    \/ Compose \/ SendUpdate \/ Back
    \/ \E u \in mine : UpdateAccepted(u) \/ UpdateRefused(u)
    \/ RunMain

ThreadSpec == ThreadInit /\ [][ThreadNext]_threadVars

(* Firestore answers each listener and the main queue goes on. *)
ThreadFairness ==
    /\ \A l \in 1..MaxTaps : WF_threadVars(l \in DOMAIN onThread /\ FirstEvent(l))
    /\ WF_threadVars(RunMain)
-----------------------------------------------------------------------------
(* A detail screen shows its order's thread, oldest update first, if no other  *)
(* event reached the list on the way.                                          *)
QuietDetailShowsThread ==
    \A i \in DOMAIN stack :
        stack[i].kind = "detail" /\ stack[i].alone => stack[i].rows = Reverse(stack[i].docs)

SeguesIn(queue) == Cardinality({i \in DOMAIN queue : queue[i].kind = "segue"})

(* Whatever the array holds already, an event opens one screen at most.        *)
EventOpensOne == [][SeguesIn(main') <= SeguesIn(main) + 1]_threadVars

(* A tap opens the screen, unless its listener fails, another event reaches    *)
(* the list or the list is left.                                               *)
TapOpens == tap \in {"waiting", "answered"} ~> tap \notin {"waiting", "answered"}
===============================================================================
