----------------------------- MODULE ThreadProofs -----------------------------
(* The updates of a list's orders, for every list, every number of updates and *)
(* every number of taps: what a detail screen shows is the thread of its order *)
(* if nothing got in between, and no event opens two screens.                  *)
EXTENDS UpdateThread, SequenceTheorems, FiniteSetTheorems, TLAPS

(* The blocks of the main queue name listeners that were added. *)
BlocksHaveListener ==
    \A i \in DOMAIN main : main[i].kind \in {"event", "segue"} => main[i].by \in DOMAIN onThread

(* Until the listener of the last tap is called, the array is empty and no     *)
(* segue is queued for it; once it was called, with no other event before or   *)
(* since, the array holds what the queued segue was queued for.                *)
LastTapIsClean ==
    /\ tap = "waiting" =>
        /\ updates = <<>>
        /\ \A i \in DOMAIN main : main[i].kind = "segue" => main[i].by # Len(onThread)
    /\ tap = "answered" =>
        \A i \in DOMAIN main :
            main[i].kind = "segue" /\ main[i].by = Len(onThread) => main[i].docs = updates

ThreadInv ==
    /\ ThreadTypeOK
    /\ BlocksHaveListener
    /\ LastTapIsClean
    /\ QuietDetailShowsThread

------------------------------------------------------------------------------
(* The sequences of the model. *)

LEMMA ElementType ==
    ASSUME NEW S, NEW s \in Seq(S), NEW i \in DOMAIN s
    PROVE  s[i] \in S /\ i \in Nat
  OBVIOUS

LEMMA ReverseType ==
    ASSUME NEW S, NEW s \in Seq(S)
    PROVE  Reverse(s) \in Seq(S)
  <1>1. \A i \in 1..Len(s) : s[(Len(s) - i) + 1] \in S
    OBVIOUS
  <1>. QED
    BY <1>1 DEF Reverse

LEMMA InsertAtType ==
    ASSUME NEW S, NEW s \in Seq(S), NEW i \in 1..(Len(s) + 1), NEW e \in S
    PROVE  InsertAt(s, i, e) \in Seq(S)
  <1>1. SubSeq(s, 1, i - 1) \in Seq(S) /\ SubSeq(s, i, Len(s)) \in Seq(S)
    OBVIOUS
  <1>2. <<e>> \in Seq(S)
    OBVIOUS
  <1>. QED
    BY <1>1, <1>2 DEF InsertAt

LEMMA RemoveAtType ==
    ASSUME NEW S, NEW s \in Seq(S), NEW i \in DOMAIN s
    PROVE  RemoveAt(s, i) \in Seq(S)
  <1>1. SubSeq(s, 1, i - 1) \in Seq(S) /\ SubSeq(s, i + 1, Len(s)) \in Seq(S)
    OBVIOUS
  <1>. QED
    BY <1>1 DEF RemoveAt

LEMMA FrontLast ==
    ASSUME NEW S, NEW s \in Seq(S), s # <<>>
    PROVE  /\ Last(s) \in S
           /\ Len(s) \in DOMAIN s
           /\ Front(s) \in Seq(S)
           /\ DOMAIN Front(s) \subseteq DOMAIN s
           /\ \A i \in DOMAIN Front(s) : Front(s)[i] = s[i]
  <1>1. Len(s) \in Nat \ {0}
    BY EmptySeq
  <1>2. s[Len(s)] \in S
    BY <1>1
  <1>3. /\ SubSeq(s, 1, Len(s) - 1) \in Seq(S)
        /\ Len(SubSeq(s, 1, Len(s) - 1)) = Len(s) - 1
        /\ \A i \in 1..(Len(s) - 1) : SubSeq(s, 1, Len(s) - 1)[i] = s[i]
    <2>1. PICK n \in Nat : n = Len(s) - 1
      BY <1>1
    <2>2. \A i \in 1..n : s[i] \in S
      BY <1>1, <2>1
    <2>3. /\ SubSeq(s, 1, n) \in Seq(S)
          /\ Len(SubSeq(s, 1, n)) = IF 1 <= n THEN n - 1 + 1 ELSE 0
          /\ \A i \in 1..(n - 1 + 1) : SubSeq(s, 1, n)[i] = s[1 + i - 1]
      BY <2>2, SubSeqProperties
    <2>4. \A i \in 1..n : i \in 1..(n - 1 + 1) /\ 1 + i - 1 = i
      OBVIOUS
    <2>5. (IF 1 <= n THEN n - 1 + 1 ELSE 0) = n
      OBVIOUS
    <2>. QED
      BY <2>1, <2>3, <2>4, <2>5
  <1>. QED
    BY <1>1, <1>2, <1>3 DEF Front, Last

(* What a new block leaves of the queue. *)
LEMMA QueueGrows ==
    ASSUME NEW q \in Seq(Block), NEW r \in Seq(Block)
    PROVE  /\ q \o r \in Seq(Block)
           /\ DOMAIN q \subseteq DOMAIN (q \o r)
           /\ \A i \in DOMAIN (q \o r) :
                \/ i \in DOMAIN q /\ (q \o r)[i] = q[i]
                \/ i - Len(q) \in DOMAIN r /\ i \notin DOMAIN q /\ (q \o r)[i] = r[i - Len(q)]
  <1>1. /\ q \o r \in Seq(Block)
        /\ Len(q \o r) = Len(q) + Len(r)
        /\ \A i \in 1..(Len(q) + Len(r)) :
                (q \o r)[i] = IF i <= Len(q) THEN q[i] ELSE r[i - Len(q)]
    BY ConcatProperties
  <1>2. /\ DOMAIN q = 1..Len(q) /\ DOMAIN r = 1..Len(r) /\ Len(q) \in Nat /\ Len(r) \in Nat
        /\ DOMAIN (q \o r) = 1..(Len(q) + Len(r))
    BY <1>1, LenProperties
  <1>. QED
    BY <1>1, <1>2

(* What a call of o's listeners leaves of the queue: events of listeners, then *)
(* the blocks of more.                                                         *)
LEMMA TellsQueues ==
    ASSUME ThreadTypeOK, NEW o \in Listed, NEW docs \in Seq(Update), NEW more \in Seq(Block),
           \A i \in DOMAIN more : more[i].kind = "added",
           Tells(o, docs, more)
    PROVE  /\ main' \in Seq(Block)
           /\ DOMAIN main \subseteq DOMAIN main'
           /\ \A i \in DOMAIN main' :
                \/ i \in DOMAIN main /\ main'[i] = main[i]
                \/ i \notin DOMAIN main /\ main'[i].kind = "added"
                \/ i \notin DOMAIN main /\ main'[i].kind = "event" /\ main'[i].by \in DOMAIN onThread
  <1>1. main \in Seq(Block) /\ onThread \in Seq([order : Listed, state : {"new", "live", "failed"}])
    BY DEF ThreadTypeOK
  <1>2. DOMAIN onThread = 1..Len(onThread) /\ Len(onThread) \in Nat
    BY <1>1
  <1>3. ToTell(o) \subseteq DOMAIN onThread
    BY DEF ToTell
  <1>4. Cardinality(ToTell(o)) \in Nat
    <2>1. IsFiniteSet(DOMAIN onThread)
      BY <1>2, FS_Interval
    <2>. QED
      BY <1>3, <2>1, FS_Subset, FS_CardinalityType
  <1>5. PICK due \in [1..Cardinality(ToTell(o)) -> ToTell(o)] :
            main' = main \o [i \in DOMAIN due |-> Event(due[i], docs)] \o more
    BY DEF Tells, Increasing
  <1>6. PICK n \in Nat : n = Cardinality(ToTell(o))
    BY <1>4
  <1>7. \A l \in DOMAIN onThread : Event(l, docs) \in Block
    BY <1>2 DEF Event, Block
  <1>8. PICK events : events = [i \in 1..n |-> Event(due[i], docs)]
    OBVIOUS
  <1>9. \A i \in 1..n : due[i] \in DOMAIN onThread
    BY <1>3, <1>5, <1>6
  <1>10. /\ events \in Seq(Block)
         /\ \A i \in DOMAIN events : events[i].kind = "event" /\ events[i].by \in DOMAIN onThread
    BY <1>7, <1>8, <1>9 DEF Event
  <1>11. main' = (main \o events) \o more
    BY <1>5, <1>6, <1>8
  <1>12. /\ main \o events \in Seq(Block)
         /\ DOMAIN main \subseteq DOMAIN (main \o events)
         /\ \A i \in DOMAIN (main \o events) :
                \/ i \in DOMAIN main /\ (main \o events)[i] = main[i]
                \/ /\ i - Len(main) \in DOMAIN events /\ i \notin DOMAIN main
                   /\ (main \o events)[i] = events[i - Len(main)]
    BY <1>1, <1>10, QueueGrows
  <1>13. PICK q \in Seq(Block) : q = main \o events
    BY <1>12
  <1>14. /\ q \o more \in Seq(Block)
         /\ DOMAIN q \subseteq DOMAIN (q \o more)
         /\ \A i \in DOMAIN (q \o more) :
                \/ i \in DOMAIN q /\ (q \o more)[i] = q[i]
                \/ /\ i - Len(q) \in DOMAIN more /\ i \notin DOMAIN q
                   /\ (q \o more)[i] = more[i - Len(q)]
    BY QueueGrows
  <1>. QED
    BY <1>10, <1>11, <1>12, <1>13, <1>14

(* What running a block leaves of the queue. *)
LEMMA BlockRuns ==
    ASSUME ThreadTypeOK, main # <<>>, NEW more \in Seq(Block), main' = Tail(main) \o more
    PROVE  /\ main' \in Seq(Block)
           /\ Head(main) = main[1] /\ 1 \in DOMAIN main /\ Head(main) \in Block
           /\ \A i \in DOMAIN main' :
                \/ \E j \in DOMAIN main : main'[i] = main[j]
                \/ \E j \in DOMAIN more : main'[i] = more[j]
  <1>1. main \in Seq(Block) /\ Len(main) \in Nat /\ DOMAIN main = 1..Len(main)
    BY DEF ThreadTypeOK
  <1>2. /\ Head(main) \in Block
        /\ Tail(main) \in Seq(Block)
        /\ Len(Tail(main)) = Len(main) - 1
        /\ \A i \in 1..Len(Tail(main)) : Tail(main)[i] = main[i + 1]
    BY <1>1, HeadTailProperties
  <1>3. Len(main) # 0
    BY <1>1, EmptySeq
  <1>4. Head(main) = main[1] /\ 1 \in DOMAIN main
    BY <1>1, <1>3
  <1>5. \A i \in DOMAIN Tail(main) : i + 1 \in DOMAIN main /\ Tail(main)[i] = main[i + 1]
    BY <1>1, <1>2, <1>3
  <1>6. PICK rest \in Seq(Block) : rest = Tail(main)
    BY <1>2
  <1>7. /\ rest \o more \in Seq(Block)
        /\ \A i \in DOMAIN (rest \o more) :
                \/ i \in DOMAIN rest /\ (rest \o more)[i] = rest[i]
                \/ i - Len(rest) \in DOMAIN more /\ (rest \o more)[i] = more[i - Len(rest)]
    BY QueueGrows
  <1>. QED
    BY <1>2, <1>4, <1>5, <1>6, <1>7

------------------------------------------------------------------------------
(* The invariant. *)

(* The screens stay, but for what a composer has sent. *)
SameScreens ==
    /\ stack' \in Seq(Screen)
    /\ DOMAIN stack' = DOMAIN stack
    /\ \A i \in DOMAIN stack :
        stack'[i] = stack[i] \/ (stack[i].kind = "compose" /\ stack'[i].kind = "compose")

(* A step that leaves the list's array, the screens and the history alone, and *)
(* queues no segue. *)
LEMMA NoSegueQueued ==
    ASSUME ThreadInv, UNCHANGED <<updates, tap>>, SameScreens,
           Len(onThread') = Len(onThread), DOMAIN onThread' = DOMAIN onThread,
           \A i \in DOMAIN main' :
                \/ i \in DOMAIN main /\ main'[i] = main[i]
                \/ main'[i].kind = "added"
                \/ main'[i].kind = "event" /\ main'[i].by \in DOMAIN onThread
    PROVE  BlocksHaveListener' /\ LastTapIsClean' /\ QuietDetailShowsThread'
  <1>1. BlocksHaveListener' /\ LastTapIsClean'
    BY DEF ThreadInv, BlocksHaveListener, LastTapIsClean
  <1>2. QuietDetailShowsThread'
    BY DEF ThreadInv, QuietDetailShowsThread, SameScreens
  <1>. QED
    BY <1>1, <1>2

LEMMA ScreensUntouched ==
    ASSUME ThreadInv, stack' = stack
    PROVE  SameScreens
  BY DEF ThreadInv, ThreadTypeOK, SameScreens

LEMMA ThreadBegins == ThreadInit => ThreadInv
  <1> SUFFICES ASSUME ThreadInit PROVE ThreadInv
    OBVIOUS
  <1>1. PICK o \in Listed :
            thread = [p \in Listed |-> IF p = o THEN [i \in 1..Earlier |-> i] ELSE <<>>]
    BY DEF ThreadInit
  <1>2. [i \in 1..Earlier |-> i] \in Seq(Update) /\ <<>> \in Seq(Update)
    BY ThreadAssumption DEF Update
  <1>3. thread \in [Listed -> Seq(Update)]
    BY <1>1, <1>2
  <1>4. written \in 0..MaxUpdates
    BY ThreadAssumption DEF ThreadInit
  <1>5. stack \in Seq(Screen) /\ \A i \in DOMAIN stack : stack[i].kind = "list" /\ i = 1
    BY DEF ThreadInit, Screen
  <1>6. DOMAIN main = {} /\ main \in Seq(Block) /\ updates \in Seq(Update)
    BY DEF ThreadInit
  <1>7. ThreadTypeOK
    BY <1>3, <1>4, <1>5, <1>6 DEF ThreadInit, ThreadTypeOK
  <1>. QED
    BY <1>5, <1>6, <1>7
       DEF ThreadInit, ThreadInv, BlocksHaveListener, LastTapIsClean, QuietDetailShowsThread

LEMMA TapSound ==
    ASSUME ThreadInv, NEW o \in Listed, Tap(o)
    PROVE  ThreadInv'
  <1>1. /\ onThread \in Seq([order : Listed, state : {"new", "live", "failed"}])
        /\ main \in Seq(Block)
    BY DEF ThreadInv, ThreadTypeOK
  <1>2. /\ onThread' \in Seq([order : Listed, state : {"new", "live", "failed"}])
        /\ Len(onThread') = Len(onThread) + 1
        /\ DOMAIN onThread = 1..Len(onThread) /\ DOMAIN onThread' = 1..(Len(onThread) + 1)
        /\ Len(onThread) \in Nat
    BY <1>1 DEF Tap
  <1>3. ThreadTypeOK'
    BY <1>2 DEF Tap, ThreadInv, ThreadTypeOK
  <1>4. \A i \in DOMAIN main : main[i].kind \in {"event", "segue"} => main[i].by \in DOMAIN onThread
    BY DEF ThreadInv, BlocksHaveListener
  <1>5. BlocksHaveListener'
    BY <1>2, <1>4 DEF Tap, BlocksHaveListener
  <1>6. LastTapIsClean'
    BY <1>2, <1>4 DEF Tap, LastTapIsClean
  <1>7. QuietDetailShowsThread'
    BY DEF Tap, ThreadInv, QuietDetailShowsThread
  <1>. QED
    BY <1>3, <1>5, <1>6, <1>7 DEF ThreadInv

LEMMA ListenerCalled ==
    ASSUME ThreadInv, NEW l \in DOMAIN onThread, NEW s \in {"live", "failed"},
           onThread' = [onThread EXCEPT ![l].state = s]
    PROVE  /\ onThread' \in Seq([order : Listed, state : {"new", "live", "failed"}])
           /\ Len(onThread') = Len(onThread)
           /\ DOMAIN onThread' = DOMAIN onThread
  <1>1. onThread \in Seq([order : Listed, state : {"new", "live", "failed"}])
    BY DEF ThreadInv, ThreadTypeOK
  <1>2. PICK r \in [order : Listed, state : {"new", "live", "failed"}] : r = onThread[l]
    BY <1>1, ElementType
  <1>3. [r EXCEPT !.state = s] \in [order : Listed, state : {"new", "live", "failed"}]
    OBVIOUS
  <1>. QED
    BY <1>1, <1>2, <1>3

LEMMA FirstEventSound ==
    ASSUME ThreadInv, NEW l \in DOMAIN onThread, FirstEvent(l)
    PROVE  ThreadInv'
  <1>1. /\ onThread' \in Seq([order : Listed, state : {"new", "live", "failed"}])
        /\ Len(onThread') = Len(onThread)
        /\ DOMAIN onThread' = DOMAIN onThread
    BY ListenerCalled DEF FirstEvent
  <1>2. /\ main \in Seq(Block) /\ thread \in [Listed -> Seq(Update)]
        /\ onThread \in Seq([order : Listed, state : {"new", "live", "failed"}])
    BY DEF ThreadInv, ThreadTypeOK
  <1>3. l \in Nat /\ thread[onThread[l].order] \in Seq(Update)
    <2>1. onThread[l] \in [order : Listed, state : {"new", "live", "failed"}] /\ l \in Nat
      BY <1>2, ElementType
    <2>2. onThread[l].order \in Listed
      BY <2>1
    <2>. QED
      BY <1>2, <2>1, <2>2
  <1>4. PICK e \in Block : e = Event(l, thread[onThread[l].order])
    BY <1>3 DEF Event, Block
  <1>5. main' = Append(main, e) /\ e.kind = "event" /\ e.by \in DOMAIN onThread
    BY <1>4 DEF FirstEvent, Event
  <1>6. /\ main' \in Seq(Block)
        /\ \A i \in DOMAIN main' : (i \in DOMAIN main /\ main'[i] = main[i]) \/ main'[i] = e
    BY <1>2, <1>5
  <1>7. ThreadTypeOK'
    BY <1>1, <1>6 DEF FirstEvent, ThreadInv, ThreadTypeOK
  <1>8. UNCHANGED <<updates, stack, tap>>
    BY DEF FirstEvent
  <1>9. BlocksHaveListener' /\ LastTapIsClean' /\ QuietDetailShowsThread'
    BY <1>1, <1>5, <1>6, <1>8, ScreensUntouched, NoSegueQueued
  <1>. QED
    BY <1>7, <1>9 DEF ThreadInv

LEMMA ListenFailsSound ==
    ASSUME ThreadInv, NEW l \in DOMAIN onThread, ListenFails(l)
    PROVE  ThreadInv'
  <1>1. /\ onThread' \in Seq([order : Listed, state : {"new", "live", "failed"}])
        /\ Len(onThread') = Len(onThread)
        /\ DOMAIN onThread' = DOMAIN onThread
    BY ListenerCalled DEF ListenFails
  <1>2. tap' \in {"none", tap} /\ UNCHANGED <<thread, written, mine, updates, main, stack>>
    BY DEF ListenFails
  <1>3. ThreadTypeOK'
    BY <1>1, <1>2 DEF ThreadInv, ThreadTypeOK
  <1>. QED
    BY <1>1, <1>2, <1>3
       DEF ThreadInv, BlocksHaveListener, LastTapIsClean, QuietDetailShowsThread

(* A write to a thread, here or elsewhere. *)
LEMMA TellsSound ==
    ASSUME ThreadInv, NEW o \in Listed, NEW docs \in Seq(Update), NEW more \in Seq(Block),
           \A i \in DOMAIN more : more[i].kind = "added",
           Becomes(o, docs), Tells(o, docs, more),
           written' \in 0..MaxUpdates, mine' \subseteq 1..written',
           SameScreens, UNCHANGED <<updates, onThread, tap>>
    PROVE  ThreadInv'
  <1>1. ThreadTypeOK
    BY DEF ThreadInv
  <1>2. /\ main' \in Seq(Block)
        /\ \A i \in DOMAIN main' :
                \/ i \in DOMAIN main /\ main'[i] = main[i]
                \/ i \notin DOMAIN main /\ main'[i].kind = "added"
                \/ i \notin DOMAIN main /\ main'[i].kind = "event" /\ main'[i].by \in DOMAIN onThread
    BY <1>1, TellsQueues
  <1>3. thread' \in [Listed -> Seq(Update)]
    BY <1>1 DEF Becomes, ThreadTypeOK
  <1>4. stack' \in Seq(Screen) /\ \A i \in DOMAIN stack' : stack'[i].kind = "list" <=> i = 1
    BY <1>1 DEF ThreadTypeOK, SameScreens
  <1>5. ThreadTypeOK'
    BY <1>1, <1>2, <1>3, <1>4 DEF ThreadTypeOK
  <1>6. BlocksHaveListener' /\ LastTapIsClean' /\ QuietDetailShowsThread'
    BY <1>2, NoSegueQueued
  <1>. QED
    BY <1>5, <1>6 DEF ThreadInv

(* The blocks that follow the events of a write. *)
LEMMA AddedBlock ==
    ASSUME NEW u \in Update
    PROVE  /\ <<Added(u)>> \in Seq(Block)
           /\ \A i \in DOMAIN <<Added(u)>> : <<Added(u)>>[i].kind = "added"
  BY DEF Block, Added

LEMMA NoBlock == <<>> \in Seq(Block) /\ DOMAIN <<>> = {}
  OBVIOUS

LEMMA OneMoreWritten ==
    ASSUME ThreadInv, written < MaxUpdates
    PROVE  /\ written + 1 \in 0..MaxUpdates /\ written + 1 \in Update
           /\ mine \subseteq 1..(written + 1)
           /\ mine \union {written + 1} \subseteq 1..(written + 1)
  <1>1. written \in 0..MaxUpdates /\ MaxUpdates \in Nat /\ mine \subseteq 1..written
    BY ThreadAssumption DEF ThreadInv, ThreadTypeOK
  <1>2. written + 1 \in 0..MaxUpdates /\ written \in Nat
    BY <1>1
  <1>3. \A u \in 1..written : u \in 1..(written + 1)
    BY <1>2
  <1>4. written + 1 \in 1..(written + 1) /\ written + 1 \in Nat
    BY <1>2
  <1>. QED
    BY <1>1, <1>2, <1>3, <1>4 DEF Update

LEMMA UpdateArrivesSound ==
    ASSUME ThreadInv, NEW o \in Listed, UpdateArrives(o)
    PROVE  ThreadInv'
  <1>1. PICK i \in 1..(Len(thread[o]) + 1) :
            /\ Becomes(o, InsertAt(thread[o], i, written + 1))
            /\ Tells(o, InsertAt(thread[o], i, written + 1), <<>>)
    BY DEF UpdateArrives
  <1>2. written < MaxUpdates /\ written' = written + 1 /\ mine' = mine
        /\ UNCHANGED <<updates, onThread, stack, tap>>
    BY DEF UpdateArrives
  <1>3. thread[o] \in Seq(Update)
    BY DEF ThreadInv, ThreadTypeOK
  <1>4. PICK docs \in Seq(Update) : docs = InsertAt(thread[o], i, written + 1)
    BY <1>2, <1>3, OneMoreWritten, InsertAtType
  <1>5. Becomes(o, docs) /\ Tells(o, docs, <<>>)
    BY <1>1, <1>4
  <1>6. written' \in 0..MaxUpdates /\ mine' \subseteq 1..written'
    BY <1>2, OneMoreWritten
  <1>. QED
    BY <1>2, <1>5, <1>6, NoBlock, ScreensUntouched, TellsSound

LEMMA SendUpdateSound ==
    ASSUME ThreadInv, SendUpdate
    PROVE  ThreadInv'
  <1>1. stack \in Seq(Screen) /\ stack # <<>> /\ Last(stack).kind = "compose"
    BY DEF ThreadInv, ThreadTypeOK, SendUpdate, Showing
  <1>2. Last(stack) \in Screen /\ Len(stack) \in DOMAIN stack
    BY <1>1, FrontLast
  <1>3. PICK o \in Listed : o = Last(stack).order
    BY <1>1, <1>2 DEF Screen
  <1>4. PICK i \in 1..(Len(thread[o]) + 1) :
            /\ Becomes(o, InsertAt(thread[o], i, written + 1))
            /\ Tells(o, InsertAt(thread[o], i, written + 1), <<Added(written + 1)>>)
    BY <1>3 DEF SendUpdate
  <1>5. written < MaxUpdates /\ written' = written + 1 /\ mine' = mine \union {written + 1}
        /\ stack' = [stack EXCEPT ![Len(stack)].sent = @ \union {written + 1}]
        /\ UNCHANGED <<updates, onThread, tap>>
    BY DEF SendUpdate
  <1>6. thread[o] \in Seq(Update)
    BY DEF ThreadInv, ThreadTypeOK
  <1>7. PICK docs \in Seq(Update) : docs = InsertAt(thread[o], i, written + 1)
    BY <1>5, <1>6, OneMoreWritten, InsertAtType
  <1>8. PICK u \in Update : u = written + 1
    BY <1>5, OneMoreWritten
  <1>9. Becomes(o, docs) /\ Tells(o, docs, <<Added(u)>>)
    BY <1>4, <1>7, <1>8
  <1>10. written' \in 0..MaxUpdates /\ mine' \subseteq 1..written'
    BY <1>5, OneMoreWritten
  <1>11. SameScreens
    <2>1. PICK n \in DOMAIN stack : n = Len(stack)
      BY <1>2
    <2>2. stack[n] \in Screen /\ stack[n].kind = "compose"
      BY <1>1, <1>2, <2>1 DEF Last
    <2>3. PICK s \in Screen : s = [stack[n] EXCEPT !.sent = @ \union {u}] /\ s.kind = "compose"
      <3>1. stack[n] \in [kind : {"compose"}, order : Listed, sent : SUBSET Update]
        BY <2>2 DEF Screen
      <3>2. PICK r \in [kind : {"compose"}, order : Listed, sent : SUBSET Update] : r = stack[n]
        BY <3>1
      <3>3. [r EXCEPT !.sent = @ \union {u}]
                \in [kind : {"compose"}, order : Listed, sent : SUBSET Update]
        OBVIOUS
      <3>. QED
        BY <3>2, <3>3 DEF Screen
    <2>4. stack' = [stack EXCEPT ![n] = s]
      BY <1>5, <1>8, <2>1, <2>3
    <2>5. /\ stack' \in Seq(Screen)
          /\ DOMAIN stack' = DOMAIN stack
          /\ \A k \in DOMAIN stack : stack'[k] = IF k = n THEN s ELSE stack[k]
      BY <1>1, <2>4
    <2>. QED
      BY <2>2, <2>3, <2>5 DEF SameScreens
  <1>. QED
    BY <1>5, <1>9, <1>10, <1>11, AddedBlock, TellsSound

LEMMA UpdateRefusedSound ==
    ASSUME ThreadInv, NEW u \in mine, UpdateRefused(u)
    PROVE  ThreadInv'
  <1>0. PICK o \in Listed : \E i \in DOMAIN thread[o] :
            /\ Becomes(o, RemoveAt(thread[o], i))
            /\ Tells(o, RemoveAt(thread[o], i), <<Added(u)>>)
    BY DEF UpdateRefused
  <1>1. PICK i \in DOMAIN thread[o] :
            /\ Becomes(o, RemoveAt(thread[o], i))
            /\ Tells(o, RemoveAt(thread[o], i), <<Added(u)>>)
    BY <1>0
  <1>2. mine' \subseteq mine /\ UNCHANGED <<written, updates, onThread, stack, tap>>
    BY DEF UpdateRefused
  <1>3. thread[o] \in Seq(Update) /\ written \in 0..MaxUpdates /\ mine \subseteq 1..written
    BY DEF ThreadInv, ThreadTypeOK
  <1>4. PICK docs \in Seq(Update) : docs = RemoveAt(thread[o], i)
    BY <1>3, RemoveAtType
  <1>5. Becomes(o, docs) /\ Tells(o, docs, <<Added(u)>>)
    BY <1>1, <1>4
  <1>6. written' \in 0..MaxUpdates /\ mine' \subseteq 1..written'
    BY <1>2, <1>3
  <1>7. u \in Update
    BY <1>3 DEF Update
  <1>. QED
    BY <1>2, <1>5, <1>6, <1>7, AddedBlock, ScreensUntouched, TellsSound

LEMMA UpdateAcceptedSound ==
    ASSUME ThreadInv, NEW u \in mine, UpdateAccepted(u)
    PROVE  ThreadInv'
  <1>1. mine' \subseteq mine /\ UNCHANGED <<thread, written, updates, onThread, main, stack, tap>>
    BY DEF UpdateAccepted
  <1>2. ThreadTypeOK'
    BY <1>1 DEF ThreadInv, ThreadTypeOK
  <1>. QED
    BY <1>1, <1>2
       DEF ThreadInv, BlocksHaveListener, LastTapIsClean, QuietDetailShowsThread

(* The screens. *)
LEMMA ComposeSound ==
    ASSUME ThreadInv, Compose
    PROVE  ThreadInv'
  <1>1. stack \in Seq(Screen) /\ stack # <<>> /\ Last(stack).kind = "detail"
    BY DEF ThreadInv, ThreadTypeOK, Compose, Showing
  <1>2. Last(stack) \in Screen
    BY <1>1, FrontLast
  <1>3. PICK o \in Listed : o = Last(stack).order
    BY <1>1, <1>2 DEF Screen
  <1>4. PICK s \in Screen : s = [kind |-> "compose", order |-> o, sent |-> {}]
    BY DEF Screen
  <1>5. stack' = Append(stack, s) /\ s.kind = "compose"
        /\ UNCHANGED <<thread, written, mine, updates, onThread, main, tap>>
    BY <1>3, <1>4 DEF Compose
  <1>6. /\ stack' \in Seq(Screen)
        /\ \A i \in DOMAIN stack' :
                \/ i \in DOMAIN stack /\ stack'[i] = stack[i]
                \/ i # 1 /\ stack'[i] = s
    <2>1. Len(stack) \in Nat \ {0}
      BY <1>1, EmptySeq
    <2>. QED
      BY <1>1, <1>5, <2>1, AppendProperties
  <1>7. ThreadTypeOK'
    BY <1>5, <1>6 DEF ThreadInv, ThreadTypeOK
  <1>. QED
    BY <1>5, <1>6, <1>7
       DEF ThreadInv, BlocksHaveListener, LastTapIsClean, QuietDetailShowsThread

LEMMA BackSound ==
    ASSUME ThreadInv, Back
    PROVE  ThreadInv'
  <1>1. stack \in Seq(Screen) /\ stack # <<>> /\ stack' = Front(stack)
    BY DEF ThreadInv, ThreadTypeOK, Back
  <1>2. /\ stack' \in Seq(Screen)
        /\ \A i \in DOMAIN stack' : i \in DOMAIN stack /\ stack'[i] = stack[i]
    BY <1>1, FrontLast
  <1>3. tap' \in {"none", tap} /\ UNCHANGED <<thread, written, mine, updates, onThread, main>>
    BY DEF Back
  <1>4. ThreadTypeOK'
    BY <1>2, <1>3 DEF ThreadInv, ThreadTypeOK
  <1>. QED
    BY <1>2, <1>3, <1>4
       DEF ThreadInv, BlocksHaveListener, LastTapIsClean, QuietDetailShowsThread

------------------------------------------------------------------------------
(* The blocks of the main queue. *)

(* An event queues no segue or one, for its own listener and its own snapshot: *)
(* the array grows by one each time, so it has the snapshot's length once.     *)
LEMMA SeguesAtMostOne ==
    ASSUME updates \in Seq(Update), NEW l, NEW docs \in Seq(Update)
    PROVE  \/ Segues(l, docs) = <<>>
           \/ Segues(l, docs) = <<[kind |-> "segue", by |-> l, docs |-> docs]>>
  <1>1. PICK n \in Nat, m \in Nat : n = Len(docs) /\ m = Len(updates)
    BY LenProperties
  <1>2. PICK hits : hits = {i \in 1..n : m + i = n}
    OBVIOUS
  <1>3. hits \subseteq {n - m}
    BY <1>2
  <1>4. Cardinality(hits) \in {0, 1}
    <2>1. IsFiniteSet({n - m}) /\ Cardinality({n - m}) = 1
      BY FS_Singleton
    <2>2. Cardinality(hits) \in Nat /\ Cardinality(hits) <= 1
      BY <1>3, <2>1, FS_Subset, FS_CardinalityType
    <2>. QED
      BY <2>2
  <1>5. PICK b : b = [kind |-> "segue", by |-> l, docs |-> docs]
    OBVIOUS
  <1>6. Segues(l, docs) = IF n = 0 THEN <<b>> ELSE [i \in 1..Cardinality(hits) |-> b]
    BY <1>1, <1>2, <1>5 DEF Segues
  <1>7. [i \in 1..0 |-> b] = <<>> /\ [i \in 1..1 |-> b] = <<b>>
    OBVIOUS
  <1>. QED
    BY <1>4, <1>5, <1>6, <1>7

LEMMA RunEventSound ==
    ASSUME ThreadInv, RunEvent
    PROVE  ThreadInv'
  <1>1. ThreadTypeOK /\ main # <<>> /\ Head(main).kind = "event"
    BY DEF ThreadInv, RunEvent, RunBlock
  <1>2. main \in Seq(Block) /\ updates \in Seq(Update)
    BY <1>1 DEF ThreadTypeOK
  <1>3. Head(main) \in Block /\ Head(main) = main[1] /\ 1 \in DOMAIN main
    BY <1>1, <1>2, HeadTailProperties, EmptySeq
  <1>4. PICK l \in Nat, docs \in Seq(Update) : l = Head(main).by /\ docs = Head(main).docs
    BY <1>1, <1>3 DEF Block
  <1>5. l \in DOMAIN onThread
    BY <1>1, <1>3, <1>4 DEF ThreadInv, BlocksHaveListener
  <1>6. PICK b \in Block : b = [kind |-> "segue", by |-> l, docs |-> docs]
    BY DEF Block
  <1>7. PICK more \in Seq(Block) : more = Segues(l, docs) /\ \A i \in DOMAIN more : more[i] = b
    <2>1. Segues(l, docs) = <<>> \/ Segues(l, docs) = <<b>>
      BY <1>2, <1>6, SeguesAtMostOne
    <2>2. /\ <<>> \in Seq(Block) /\ DOMAIN <<>> = {}
          /\ <<b>> \in Seq(Block) /\ \A i \in DOMAIN <<b>> : <<b>>[i] = b
      OBVIOUS
    <2>. QED
      BY <2>1, <2>2
  <1>8. main' = Tail(main) \o more /\ updates' = updates \o docs
    BY <1>4, <1>7 DEF RunEvent
  <1>9. /\ main' \in Seq(Block)
        /\ \A i \in DOMAIN main' : main'[i] = b \/ \E j \in DOMAIN main : main'[i] = main[j]
    <2>1. /\ main' \in Seq(Block)
          /\ \A i \in DOMAIN main' :
                \/ \E j \in DOMAIN main : main'[i] = main[j]
                \/ \E j \in DOMAIN more : main'[i] = more[j]
      BY <1>1, <1>8, BlockRuns
    <2>. QED
      BY <1>7, <2>1
  <1>10. tap' = IF tap = "waiting" /\ l = Len(onThread) THEN "answered"
                ELSE IF tap \in {"waiting", "answered"} THEN "disturbed" ELSE tap
    BY <1>4 DEF RunEvent
  <1>11. UNCHANGED <<thread, written, mine, onThread, stack>>
    BY DEF RunEvent
  <1>12. updates' \in Seq(Update) /\ (updates = <<>> => updates' = docs)
    BY <1>2, <1>8, ConcatProperties, ConcatEmptySeq
  <1>13. ThreadTypeOK'
    BY <1>1, <1>9, <1>10, <1>11, <1>12 DEF ThreadTypeOK
  <1>14. b.kind = "segue" /\ b.by = l /\ b.docs = docs
    BY <1>6
  <1>15. BlocksHaveListener'
    BY <1>5, <1>9, <1>11, <1>14 DEF ThreadInv, BlocksHaveListener
  <1>16. LastTapIsClean'
    <2>1. tap' # "waiting"
      BY <1>10
    <2>2. ASSUME tap' = "answered"
          PROVE  tap = "waiting"
      BY <1>10, <2>2
    <2>3. ASSUME tap = "waiting"
          PROVE  /\ updates' = docs
                 /\ \A i \in DOMAIN main :
                        main[i].kind = "segue" => main[i].by # Len(onThread)
      BY <1>12, <2>3 DEF ThreadInv, LastTapIsClean
    <2>. QED
      BY <1>9, <1>11, <1>14, <2>1, <2>2, <2>3 DEF LastTapIsClean
  <1>17. QuietDetailShowsThread'
    BY <1>11 DEF ThreadInv, QuietDetailShowsThread
  <1>. QED
    BY <1>13, <1>15, <1>16, <1>17 DEF ThreadInv

(* A block that queues nothing but pops. *)
LEMMA RunPlain ==
    ASSUME ThreadInv, main # <<>>, NEW more \in Seq(Block), main' = Tail(main) \o more,
           \A i \in DOMAIN more : more[i].kind = "pop", UNCHANGED <<updates, onThread>>
    PROVE  /\ main' \in Seq(Block)
           /\ BlocksHaveListener'
           /\ tap' = tap => LastTapIsClean'
  <1>1. /\ main' \in Seq(Block)
        /\ \A i \in DOMAIN main' :
                main'[i].kind = "pop" \/ \E j \in DOMAIN main : main'[i] = main[j]
    BY BlockRuns DEF ThreadInv
  <1>2. BlocksHaveListener'
    BY <1>1 DEF ThreadInv, BlocksHaveListener
  <1>3. tap' = tap => LastTapIsClean'
    BY <1>1 DEF ThreadInv, LastTapIsClean
  <1>. QED
    BY <1>1, <1>2, <1>3

LEMMA RunSegueSound ==
    ASSUME ThreadInv, RunSegue
    PROVE  ThreadInv'
  <1>1. ThreadTypeOK /\ main # <<>> /\ Head(main).kind = "segue"
    BY DEF ThreadInv, RunSegue, RunBlock
  <1>2. /\ main \in Seq(Block) /\ updates \in Seq(Update) /\ stack \in Seq(Screen)
        /\ onThread \in Seq([order : Listed, state : {"new", "live", "failed"}])
    BY <1>1 DEF ThreadTypeOK
  <1>3. Head(main) \in Block /\ Head(main) = main[1] /\ 1 \in DOMAIN main
    BY <1>1, <1>2, HeadTailProperties, EmptySeq
  <1>4. PICK l \in Nat, docs \in Seq(Update) : l = Head(main).by /\ docs = Head(main).docs
    BY <1>1, <1>3 DEF Block
  <1>5. PICK r \in [order : Listed, state : {"new", "live", "failed"}] : r = onThread[l]
    <2>1. l \in DOMAIN onThread
      BY <1>1, <1>3, <1>4 DEF ThreadInv, BlocksHaveListener
    <2>. QED
      BY <1>2, <2>1, ElementType
  <1>6. PICK alone \in BOOLEAN : alone = (tap = "answered" /\ l = Len(onThread))
    OBVIOUS
  <1>7. alone => docs = updates
    BY <1>1, <1>3, <1>4, <1>6 DEF ThreadInv, LastTapIsClean
  <1>8. PICK rows \in Seq(Update) : rows = Reverse(updates)
    BY <1>2, ReverseType
  <1>9. PICK s \in Screen :
            s = [kind |-> "detail", order |-> r.order, rows |-> rows, docs |-> docs,
                 alone |-> alone]
    BY DEF Screen
  <1>10. main' = Tail(main) \o <<>> /\ UNCHANGED <<thread, written, mine, updates, onThread>>
    <2>1. Tail(main) \in Seq(Block)
      BY <1>1, <1>2, HeadTailProperties
    <2>. QED
      BY <2>1, ConcatEmptySeq DEF RunSegue
  <1>11. main' \in Seq(Block) /\ BlocksHaveListener' /\ (tap' = tap => LastTapIsClean')
    BY <1>1, <1>10, RunPlain, NoBlock
  <1>12. CASE stack # <<>>
    <2>1. stack' = Append(stack, s) /\ tap' = IF alone THEN "opened" ELSE tap
      BY <1>4, <1>5, <1>6, <1>8, <1>9, <1>12 DEF RunSegue
    <2>2. /\ stack' \in Seq(Screen)
          /\ \A i \in DOMAIN stack' :
                \/ i \in DOMAIN stack /\ stack'[i] = stack[i]
                \/ i # 1 /\ stack'[i] = s
      <3>1. Len(stack) \in Nat \ {0}
        BY <1>2, <1>12, EmptySeq
      <3>. QED
        BY <1>2, <2>1, <3>1, AppendProperties
    <2>3. s.kind = "detail" /\ s.alone = alone /\ s.rows = rows /\ s.docs = docs
      BY <1>9
    <2>4. ThreadTypeOK'
      <3>1. tap' \in {"none", "waiting", "answered", "opened", "disturbed"}
        BY <1>1, <2>1 DEF ThreadTypeOK
      <3>2. \A i \in DOMAIN stack' : stack'[i].kind = "list" <=> i = 1
        BY <1>1, <2>2, <2>3 DEF ThreadTypeOK
      <3>. QED
        BY <1>1, <1>10, <1>11, <2>2, <3>1, <3>2 DEF ThreadTypeOK
    <2>5. LastTapIsClean'
      BY <1>11, <2>1 DEF LastTapIsClean
    <2>6. alone => rows = Reverse(docs)
      BY <1>7, <1>8
    <2>7. QuietDetailShowsThread'
      BY <2>2, <2>3, <2>6 DEF ThreadInv, QuietDetailShowsThread
    <2>. QED
      BY <1>11, <2>4, <2>5, <2>7 DEF ThreadInv
  <1>13. CASE stack = <<>>
    <2>1. UNCHANGED <<stack, tap>>
      BY <1>13 DEF RunSegue
    <2>2. ThreadTypeOK'
      BY <1>1, <1>10, <1>11, <2>1 DEF ThreadTypeOK
    <2>3. QuietDetailShowsThread'
      BY <2>1 DEF ThreadInv, QuietDetailShowsThread
    <2>. QED
      BY <1>11, <2>1, <2>2, <2>3 DEF ThreadInv
  <1>. QED
    BY <1>12, <1>13

LEMMA RunAddedSound ==
    ASSUME ThreadInv, RunAdded
    PROVE  ThreadInv'
  <1>1. main # <<>> /\ UNCHANGED <<thread, written, mine, updates, onThread, stack, tap>>
    BY DEF RunAdded, RunBlock
  <1>2. PICK b \in Block : b = [kind |-> "pop", of |-> Head(main).of]
    <2>1. Head(main) \in Block /\ Head(main).kind = "added"
      BY <1>1, HeadTailProperties DEF RunAdded, RunBlock, ThreadInv, ThreadTypeOK
    <2>2. Head(main).of \in Update
      BY <2>1 DEF Block
    <2>. QED
      BY <2>2 DEF Block
  <1>3. <<b>> \in Seq(Block) /\ \A i \in DOMAIN <<b>> : <<b>>[i].kind = "pop"
    BY <1>2
  <1>4. main' = Tail(main) \o <<b>>
    <2>1. Tail(main) \in Seq(Block)
      BY <1>1, HeadTailProperties DEF ThreadInv, ThreadTypeOK
    <2>. QED
      BY <1>2, <2>1, AppendIsConcat DEF RunAdded
  <1>5. main' \in Seq(Block) /\ BlocksHaveListener' /\ LastTapIsClean'
    BY <1>1, <1>3, <1>4, RunPlain
  <1>6. ThreadTypeOK'
    BY <1>1, <1>5 DEF ThreadInv, ThreadTypeOK
  <1>. QED
    BY <1>1, <1>5, <1>6 DEF ThreadInv, QuietDetailShowsThread

LEMMA RunPopSound ==
    ASSUME ThreadInv, RunPop
    PROVE  ThreadInv'
  <1>1. /\ main # <<>> /\ UNCHANGED <<thread, written, mine, updates, onThread>>
        /\ (stack' = <<>> /\ tap' = "none") \/ UNCHANGED <<stack, tap>>
    BY DEF RunPop, RunBlock
  <1>2. main' = Tail(main) \o <<>>
    <2>1. Tail(main) \in Seq(Block)
      BY <1>1, HeadTailProperties DEF ThreadInv, ThreadTypeOK
    <2>. QED
      BY <2>1, ConcatEmptySeq DEF RunPop
  <1>3. main' \in Seq(Block) /\ BlocksHaveListener' /\ (tap' = tap => LastTapIsClean')
    BY <1>1, <1>2, RunPlain, NoBlock
  <1>4. CASE stack' = <<>> /\ tap' = "none"
    <2>1. stack' \in Seq(Screen) /\ DOMAIN stack' = {}
      BY <1>4
    <2>2. ThreadTypeOK'
      BY <1>1, <1>3, <1>4, <2>1 DEF ThreadInv, ThreadTypeOK
    <2>3. LastTapIsClean' /\ QuietDetailShowsThread'
      BY <1>4, <2>1 DEF LastTapIsClean, QuietDetailShowsThread
    <2>. QED
      BY <1>3, <2>2, <2>3 DEF ThreadInv
  <1>5. CASE UNCHANGED <<stack, tap>>
    <2>1. ThreadTypeOK'
      BY <1>1, <1>3, <1>5 DEF ThreadInv, ThreadTypeOK
    <2>2. QuietDetailShowsThread'
      BY <1>5 DEF ThreadInv, QuietDetailShowsThread
    <2>. QED
      BY <1>3, <1>5, <2>1, <2>2 DEF ThreadInv
  <1>. QED
    BY <1>1, <1>4, <1>5

LEMMA ThreadGoesOn == ThreadInv /\ [ThreadNext]_threadVars => ThreadInv'
  <1> SUFFICES ASSUME ThreadInv, [ThreadNext]_threadVars
               PROVE  ThreadInv'
    OBVIOUS
  <1>1. CASE UNCHANGED threadVars
    BY <1>1 DEF threadVars, ThreadInv, ThreadTypeOK, BlocksHaveListener, LastTapIsClean,
                QuietDetailShowsThread
  <1>2. ASSUME NEW o \in Listed, Tap(o) \/ UpdateArrives(o)
        PROVE  ThreadInv'
    BY <1>2, TapSound, UpdateArrivesSound
  <1>3. ASSUME NEW l \in DOMAIN onThread, FirstEvent(l) \/ ListenFails(l)
        PROVE  ThreadInv'
    BY <1>3, FirstEventSound, ListenFailsSound
  <1>4. CASE Compose \/ SendUpdate \/ Back
    BY <1>4, ComposeSound, SendUpdateSound, BackSound
  <1>5. ASSUME NEW u \in mine, UpdateAccepted(u) \/ UpdateRefused(u)
        PROVE  ThreadInv'
    BY <1>5, UpdateAcceptedSound, UpdateRefusedSound
  <1>6. CASE RunMain
    BY <1>6, RunEventSound, RunSegueSound, RunAddedSound, RunPopSound DEF RunMain
  <1>. QED
    BY <1>1, <1>2, <1>3, <1>4, <1>5, <1>6 DEF ThreadNext

(* The array, the queue and the screens fit together in every behaviour. *)
THEOREM ThreadInvariant == ThreadSpec => []ThreadInv
  BY ThreadBegins, ThreadGoesOn, PTL DEF ThreadSpec

(* Every variable keeps its type, and the list stays the lowest screen. *)
THEOREM ThreadTypeCorrect == ThreadSpec => []ThreadTypeOK
  <1>1. ThreadInv => ThreadTypeOK
    BY DEF ThreadInv
  <1>. QED
    BY <1>1, ThreadInvariant, PTL

(* A detail screen that no other event got in the way of shows the updates it  *)
(* was opened for, oldest first.                                               *)
THEOREM QuietDetailIsRight == ThreadSpec => []QuietDetailShowsThread
  <1>1. ThreadInv => QuietDetailShowsThread
    BY DEF ThreadInv
  <1>. QED
    BY <1>1, ThreadInvariant, PTL

------------------------------------------------------------------------------
(* The number of segues in the queue. *)

LEMMA SeguesAreNat ==
    ASSUME NEW q \in Seq(Block)
    PROVE  /\ IsFiniteSet({i \in DOMAIN q : q[i].kind = "segue"})
           /\ SeguesIn(q) \in Nat
  <1>1. IsFiniteSet(DOMAIN q)
    BY LenProperties, FS_Interval
  <1>2. {i \in DOMAIN q : q[i].kind = "segue"} \in SUBSET DOMAIN q
    OBVIOUS
  <1>. QED
    BY <1>1, <1>2, FS_Subset, FS_CardinalityType DEF SeguesIn

(* More blocks, none of which is a segue. *)
LEMMA SameSegues ==
    ASSUME NEW q, NEW r, DOMAIN q \subseteq DOMAIN r,
           \A i \in DOMAIN r :
                \/ i \in DOMAIN q /\ r[i] = q[i]
                \/ i \notin DOMAIN q /\ r[i].kind # "segue"
    PROVE  SeguesIn(r) = SeguesIn(q)
  <1>1. {i \in DOMAIN r : r[i].kind = "segue"} = {i \in DOMAIN q : q[i].kind = "segue"}
    OBVIOUS
  <1>. QED
    BY <1>1 DEF SeguesIn

(* Every segue of the tail was one place further on. *)
LEMMA TailHasNoMore ==
    ASSUME NEW q \in Seq(Block), q # <<>>
    PROVE  SeguesIn(Tail(q)) <= SeguesIn(q)
  <1>1. PICK r \in Seq(Block) : r = Tail(q)
    BY HeadTailProperties
  <1>2. \A i \in DOMAIN r : i + 1 \in DOMAIN q /\ r[i] = q[i + 1] /\ i \in Nat
    <2>1. /\ Len(r) = Len(q) - 1 /\ Len(q) \in Nat /\ Len(r) \in Nat
          /\ \A i \in 1..Len(r) : r[i] = q[i + 1]
      BY <1>1, HeadTailProperties, LenProperties
    <2>2. DOMAIN r = 1..Len(r) /\ DOMAIN q = 1..Len(q)
      BY LenProperties
    <2>. QED
      BY <2>1, <2>2
  <1>3. PICK S, T : /\ S = {i \in DOMAIN r : r[i].kind = "segue"}
                    /\ T = {i \in DOMAIN q : q[i].kind = "segue"}
    OBVIOUS
  <1>4. PICK f : f = [i \in S |-> i + 1]
    OBVIOUS
  <1>5. f \in Injection(S, T)
    <2>1. \A i \in S : f[i] = i + 1 /\ i + 1 \in T /\ i \in Nat
      BY <1>2, <1>3, <1>4
    <2>2. f \in [S -> T]
      BY <1>4, <2>1
    <2>3. \A i, j \in S : f[i] = f[j] => i = j
      BY <2>1
    <2>. QED
      BY <2>2, <2>3 DEF Injection, IsInjective
  <1>6. IsFiniteSet(T)
    BY <1>3, SeguesAreNat
  <1>7. Cardinality(S) <= Cardinality(T)
    BY <1>5, <1>6, FS_Injection
  <1>. QED
    BY <1>1, <1>3, <1>7 DEF SeguesIn

(* One more block is one more segue at most. *)
LEMMA OneBlockMore ==
    ASSUME NEW q \in Seq(Block), NEW b \in Block
    PROVE  SeguesIn(q \o <<b>>) <= SeguesIn(q) + 1
  <1>1. <<b>> \in Seq(Block) /\ Len(<<b>>) = 1
    OBVIOUS
  <1>2. /\ q \o <<b>> \in Seq(Block)
        /\ \A i \in DOMAIN (q \o <<b>>) :
                \/ i \in DOMAIN q /\ (q \o <<b>>)[i] = q[i]
                \/ i - Len(q) \in DOMAIN <<b>>
    BY <1>1, QueueGrows
  <1>3. PICK r \in Seq(Block) : r = q \o <<b>>
    BY <1>2
  <1>4. PICK n \in Nat : n = Len(q)
    OBVIOUS
  <1>5. \A i \in DOMAIN r : (i \in DOMAIN q /\ r[i] = q[i]) \/ i = n + 1
    BY <1>2, <1>3, <1>4, LenProperties
  <1>6. PICK S, T : /\ S = {i \in DOMAIN r : r[i].kind = "segue"}
                    /\ T = {i \in DOMAIN q : q[i].kind = "segue"}
    OBVIOUS
  <1>7. S \subseteq T \union {n + 1}
    BY <1>5, <1>6
  <1>8. IsFiniteSet(T) /\ Cardinality(T) \in Nat
    BY <1>6, SeguesAreNat, FS_CardinalityType
  <1>9. IsFiniteSet(T \union {n + 1}) /\ Cardinality(T \union {n + 1}) <= Cardinality(T) + 1
    <2>1. /\ IsFiniteSet(T \union {n + 1})
          /\ Cardinality(T \union {n + 1})
                = IF n + 1 \in T THEN Cardinality(T) ELSE Cardinality(T) + 1
      BY <1>8, FS_AddElement
    <2>. QED
      BY <1>8, <2>1
  <1>10. Cardinality(S) <= Cardinality(T \union {n + 1})
    BY <1>7, <1>9, FS_Subset
  <1>11. Cardinality(S) \in Nat /\ Cardinality(T \union {n + 1}) \in Nat
    BY <1>7, <1>9, FS_Subset, FS_CardinalityType
  <1>12. Cardinality(S) <= Cardinality(T) + 1
    BY <1>8, <1>9, <1>10, <1>11
  <1>. QED
    BY <1>3, <1>6, <1>12 DEF SeguesIn

(* A block that does not run an event leaves no more segues than there were. *)
LEMMA BlockLeavesSegues ==
    ASSUME ThreadTypeOK, main # <<>>, NEW b \in Block, b.kind # "segue",
           main' \in {Tail(main), Append(Tail(main), b)}
    PROVE  SeguesIn(main') <= SeguesIn(main)
  <1>1. main \in Seq(Block) /\ Tail(main) \in Seq(Block)
    BY HeadTailProperties DEF ThreadTypeOK
  <1>2. PICK r \in Seq(Block) : r = Tail(main)
    BY <1>1
  <1>3. SeguesIn(Append(r, b)) = SeguesIn(r)
    <2>1. \A i \in DOMAIN Append(r, b) :
                \/ i \in DOMAIN r /\ Append(r, b)[i] = r[i]
                \/ i \notin DOMAIN r /\ Append(r, b)[i] = b
      OBVIOUS
    <2>2. DOMAIN r \subseteq DOMAIN Append(r, b)
      OBVIOUS
    <2>. QED
      BY <2>1, <2>2, SameSegues
  <1>4. SeguesIn(r) <= SeguesIn(main)
    BY <1>1, <1>2, TailHasNoMore
  <1>. QED
    BY <1>2, <1>3, <1>4

LEMMA StepOpensOne ==
    ASSUME ThreadInv, [ThreadNext]_threadVars
    PROVE  SeguesIn(main') <= SeguesIn(main) + 1
  <1>1. ThreadTypeOK /\ main \in Seq(Block) /\ thread \in [Listed -> Seq(Update)]
    BY DEF ThreadInv, ThreadTypeOK
  <1>2. SeguesIn(main) \in Nat
    BY <1>1, SeguesAreNat
  <1>3. CASE main' = main
    BY <1>2, <1>3
  <1>4. ASSUME NEW o \in Listed, NEW docs \in Seq(Update), NEW more \in Seq(Block),
               \A i \in DOMAIN more : more[i].kind = "added", Tells(o, docs, more)
        PROVE  SeguesIn(main') = SeguesIn(main)
    <2>1. /\ DOMAIN main \subseteq DOMAIN main'
          /\ \A i \in DOMAIN main' :
                \/ i \in DOMAIN main /\ main'[i] = main[i]
                \/ i \notin DOMAIN main /\ main'[i].kind # "segue"
      BY <1>1, <1>4, TellsQueues
    <2>2. PICK r : r = main'
      OBVIOUS
    <2>3. /\ DOMAIN main \subseteq DOMAIN r
          /\ \A i \in DOMAIN r :
                \/ i \in DOMAIN main /\ r[i] = main[i]
                \/ i \notin DOMAIN main /\ r[i].kind # "segue"
      BY <2>1, <2>2
    <2>. QED
      BY <2>2, <2>3, SameSegues
  <1>5. ASSUME NEW o \in Listed, UpdateArrives(o)
        PROVE  SeguesIn(main') = SeguesIn(main)
    <2>1. PICK i \in 1..(Len(thread[o]) + 1) :
              Tells(o, InsertAt(thread[o], i, written + 1), <<>>)
      BY <1>5 DEF UpdateArrives
    <2>2. PICK docs \in Seq(Update) : docs = InsertAt(thread[o], i, written + 1)
      BY <1>1, <1>5, OneMoreWritten, InsertAtType DEF UpdateArrives
    <2>. QED
      BY <1>4, <2>1, <2>2, NoBlock
  <1>6. CASE SendUpdate
    <2>1. stack \in Seq(Screen) /\ stack # <<>> /\ Last(stack).kind = "compose"
      BY <1>1, <1>6 DEF ThreadTypeOK, SendUpdate, Showing
    <2>2. Last(stack) \in Screen
      BY <2>1, FrontLast
    <2>3. PICK o \in Listed : o = Last(stack).order
      BY <2>1, <2>2 DEF Screen
    <2>4. PICK i \in 1..(Len(thread[o]) + 1) :
              Tells(o, InsertAt(thread[o], i, written + 1), <<Added(written + 1)>>)
      BY <1>6, <2>3 DEF SendUpdate
    <2>5. PICK docs \in Seq(Update) : docs = InsertAt(thread[o], i, written + 1)
      BY <1>1, <1>6, OneMoreWritten, InsertAtType DEF SendUpdate
    <2>6. PICK u \in Update : u = written + 1
      BY <1>6, OneMoreWritten DEF SendUpdate
    <2>7. Tells(o, docs, <<Added(u)>>)
      BY <2>4, <2>5, <2>6
    <2>8. SeguesIn(main') = SeguesIn(main)
      BY <1>4, <2>7, AddedBlock
    <2>. QED
      BY <1>2, <2>8
  <1>7. ASSUME NEW u \in mine, UpdateRefused(u)
        PROVE  SeguesIn(main') = SeguesIn(main)
    <2>1. PICK o \in Listed : \E i \in DOMAIN thread[o] :
              Tells(o, RemoveAt(thread[o], i), <<Added(u)>>)
      BY <1>7 DEF UpdateRefused
    <2>2. PICK i \in DOMAIN thread[o] :
              Tells(o, RemoveAt(thread[o], i), <<Added(u)>>)
      BY <2>1
    <2>3. PICK docs \in Seq(Update) : docs = RemoveAt(thread[o], i)
      BY <1>1, RemoveAtType
    <2>4. u \in Update
      BY <1>1 DEF ThreadTypeOK, Update
    <2>. QED
      BY <1>4, <2>2, <2>3, <2>4, AddedBlock
  <1>8. ASSUME NEW l \in DOMAIN onThread, FirstEvent(l)
        PROVE  SeguesIn(main') = SeguesIn(main)
    <2>0. PICK e : e = Event(l, thread[onThread[l].order])
      OBVIOUS
    <2>1. e = Event(l, thread[onThread[l].order]) /\ e.kind # "segue"
      BY <2>0 DEF Event
    <2>2. main' = Append(main, e)
      BY <1>8, <2>1 DEF FirstEvent
    <2>3. PICK q \in Seq(Block) : q = main
      BY <1>1
    <2>4. /\ DOMAIN q \subseteq DOMAIN Append(q, e)
          /\ \A i \in DOMAIN Append(q, e) :
                \/ i \in DOMAIN q /\ Append(q, e)[i] = q[i]
                \/ i \notin DOMAIN q /\ Append(q, e)[i] = e
      OBVIOUS
    <2>. QED
      BY <2>1, <2>2, <2>3, <2>4, SameSegues
  <1>9. CASE RunEvent
    <2>1. main # <<>> /\ Head(main).kind = "event"
      BY <1>9 DEF RunEvent, RunBlock
    <2>2. Head(main) \in Block /\ Tail(main) \in Seq(Block)
      BY <1>1, <2>1, HeadTailProperties
    <2>3. PICK l \in Nat, docs \in Seq(Update) : l = Head(main).by /\ docs = Head(main).docs
      BY <2>1, <2>2 DEF Block
    <2>4. PICK b \in Block : b = [kind |-> "segue", by |-> l, docs |-> docs]
      BY DEF Block
    <2>5. Segues(l, docs) = <<>> \/ Segues(l, docs) = <<b>>
      BY <1>1, <2>4, SeguesAtMostOne DEF ThreadTypeOK
    <2>6. PICK rest \in Seq(Block) : rest = Tail(main)
      BY <2>2
    <2>7. SeguesIn(rest) <= SeguesIn(main) /\ SeguesIn(rest) \in Nat
      BY <1>1, <2>1, <2>6, TailHasNoMore, SeguesAreNat
    <2>8. main' = rest \o <<>> \/ main' = rest \o <<b>>
      BY <1>9, <2>3, <2>5, <2>6 DEF RunEvent
    <2>9. rest \o <<>> = rest /\ SeguesIn(rest \o <<b>>) <= SeguesIn(rest) + 1
      BY ConcatEmptySeq, OneBlockMore
    <2>10. CASE main' = rest
      BY <1>2, <2>7, <2>10
    <2>11. CASE main' = rest \o <<b>>
      <3>1. rest \o <<b>> \in Seq(Block)
        OBVIOUS
      <3>2. SeguesIn(rest \o <<b>>) \in Nat
        BY <3>1, SeguesAreNat
      <3>. QED
        BY <1>2, <2>7, <2>9, <2>11, <3>2
    <2>. QED
      BY <2>8, <2>9, <2>10, <2>11
  <1>10. CASE RunSegue \/ RunAdded \/ RunPop
    <2>0. PICK b \in Block : b.kind # "segue" /\ (RunAdded => main' = Append(Tail(main), b))
      <3>1. PICK p \in Block : p = [kind |-> "pop", of |-> 0]
        BY DEF Block, Update
      <3>2. CASE ~RunAdded
        BY <3>1, <3>2
      <3>3. CASE RunAdded
        <4>1. main # <<>> /\ Head(main).kind = "added"
          BY <3>3 DEF RunAdded, RunBlock
        <4>2. Head(main) \in Block
          BY <1>1, <4>1, HeadTailProperties
        <4>3. Head(main).of \in Update
          BY <4>1, <4>2 DEF Block
        <4>4. PICK a \in Block : a = [kind |-> "pop", of |-> Head(main).of]
          BY <4>3 DEF Block
        <4>5. a.kind = "pop" /\ main' = Append(Tail(main), a)
          BY <3>3, <4>4 DEF RunAdded
        <4>. QED
          BY <4>5
      <3>. QED
        BY <3>2, <3>3
    <2>1. b.kind # "segue"
      BY <2>0
    <2>2. main # <<>> /\ main' \in {Tail(main), Append(Tail(main), b)}
      BY <1>10, <2>0 DEF RunSegue, RunAdded, RunPop, RunBlock
    <2>3. SeguesIn(main') <= SeguesIn(main)
      BY <1>1, <2>1, <2>2, BlockLeavesSegues
    <2>4. main' \in Seq(Block)
      <3>1. Tail(main) \in Seq(Block)
        BY <1>1, <2>2, HeadTailProperties
      <3>. QED
        BY <2>1, <2>2, <3>1
    <2>5. SeguesIn(main') \in Nat
      BY <2>4, SeguesAreNat
    <2>. QED
      BY <1>2, <2>3, <2>5
  <1>11. CASE UNCHANGED threadVars
    BY <1>3, <1>11 DEF threadVars
  <1>12. ASSUME NEW o \in Listed, Tap(o)
         PROVE  main' = main
    BY <1>12 DEF Tap
  <1>13. ASSUME NEW l \in DOMAIN onThread, ListenFails(l)
         PROVE  main' = main
    BY <1>13 DEF ListenFails
  <1>14. ASSUME NEW u \in mine, UpdateAccepted(u)
         PROVE  main' = main
    BY <1>14 DEF UpdateAccepted
  <1>15. CASE Compose \/ Back
    BY <1>3, <1>15 DEF Compose, Back
  <1>16. SeguesIn(main') = SeguesIn(main) => SeguesIn(main') <= SeguesIn(main) + 1
    BY <1>2
  <1>. QED
    BY <1>3, <1>5, <1>6, <1>7, <1>8, <1>9, <1>10, <1>11, <1>12, <1>13, <1>14, <1>15, <1>16
       DEF ThreadNext, RunMain

(* An event of a thread opens one screen at most, whatever the array held. *)
THEOREM EventsOpenOne == ThreadSpec => EventOpensOne
  <1>1. ThreadInv /\ [ThreadNext]_threadVars => [SeguesIn(main') <= SeguesIn(main) + 1]_threadVars
    BY StepOpensOne
  <1>. QED
    BY <1>1, ThreadInvariant, PTL DEF ThreadSpec, EventOpensOne
==============================================================================
