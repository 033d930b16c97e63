------------------------------ MODULE CountProofs ------------------------------
(* What the managers' count of requests is worth, for every set of devices and *)
(* orders: none is taken off without a screen of its own whose review was      *)
(* accepted.                                                                   *)
EXTENDS LifecycleProofs

(* Only the answer of a review marks the screen that sent it ...               *)
Marked(d) ==
    \A i \in DOMAIN screens[d] :
        screens[d][i].kind = "detail" /\ screens[d][i].addMaintenance => i \in AcceptedScreens(d)

(* ... and only a marked screen takes one off.                                 *)
Backed(d) ==
    baseline[d].requestCount - dash[d].requestCount <= Cardinality(AcceptedScreens(d))

CountInv == \A d \in Device : Marked(d) /\ Backed(d)

(* A marked screen is off the stack, so what leaves the stack takes nothing    *)
(* off the count.                                                              *)
LEMMA Calm ==
    ASSUME IndInv, AcceptedScreenIsGone, NEW d \in Device, Marked(d), NEW shown, NEW c,
           \A i \in DOMAIN screens[d] :
                shown[i].kind = "detail" /\ shown[i].addMaintenance =>
                    screens[d][i].kind = "detail" /\ screens[d][i].addMaintenance
    PROVE  WhenTopDisappears(d, shown, c) = c
  <1>1. ASSUME NEW i \in stack[d], shown[i].kind = "detail", shown[i].addMaintenance
        PROVE  FALSE
    <2>1. i \in DOMAIN screens[d]
      BY DeviceFacts
    <2>2. i \in AcceptedScreens(d)
      BY <1>1, <2>1 DEF Marked
    <2>3. PICK j \in DOMAIN batch[d] : batch[d][j].state = "acked" /\ batch[d][j].handler = i
      BY <2>2 DEF AcceptedScreens
    <2>. QED
      BY <1>1, <2>3 DEF AcceptedScreenIsGone
  <1>. QED
    BY <1>1 DEF WhenTopDisappears, IsTop

(* A queue that answers nothing accepts no screen. *)
LEMMA AcceptedKept ==
    ASSUME NEW d,
           DOMAIN batch[d] \subseteq DOMAIN batch'[d],
           \A j \in DOMAIN batch[d] :
                /\ batch'[d][j].write = batch[d][j].write
                /\ batch'[d][j].handler = batch[d][j].handler
                /\ batch'[d][j].state = "acked" <=> batch[d][j].state = "acked",
           \A j \in DOMAIN batch'[d] \ DOMAIN batch[d] : batch'[d][j].state # "acked"
    PROVE  AcceptedScreens(d)' = AcceptedScreens(d)
  <1>1. ASSUME NEW h
        PROVE  h \in AcceptedScreens(d)' <=> h \in AcceptedScreens(d)
    <2>1. h \in AcceptedScreens(d) <=>
            \E j \in DOMAIN batch[d] : /\ batch[d][j].write.kind = "review"
                                       /\ batch[d][j].state = "acked"
                                       /\ batch[d][j].handler # 0
                                       /\ batch[d][j].handler = h
      BY DEF AcceptedScreens
    <2>2. h \in AcceptedScreens(d)' <=>
            \E j \in DOMAIN batch'[d] : /\ batch'[d][j].write.kind = "review"
                                        /\ batch'[d][j].state = "acked"
                                        /\ batch'[d][j].handler # 0
                                        /\ batch'[d][j].handler = h
      BY DEF AcceptedScreens
    <2>. QED
      BY <2>1, <2>2
  <1>. QED
    BY <1>1

(* A device on which nothing is accepted, marked or counted. *)
LEMMA NothingCounted ==
    ASSUME NEW d \in Device, Marked(d), Backed(d),
           AcceptedScreens(d)' = AcceptedScreens(d),
           \A i \in DOMAIN screens'[d] :
                screens'[d][i].kind = "detail" /\ screens'[d][i].addMaintenance =>
                    /\ i \in DOMAIN screens[d]
                    /\ screens[d][i].kind = "detail" /\ screens[d][i].addMaintenance,
           dash'[d] = dash[d], baseline'[d] = baseline[d]
    PROVE  Marked(d)' /\ Backed(d)'
  <1>1. Marked(d)'
    BY DEF Marked
  <1>2. Backed(d)'
    BY DEF Backed
  <1>. QED
    BY <1>1, <1>2

(* The other devices are none of a step's business. *)
LEMMA OfOneDevice ==
    ASSUME CountInv, NEW d \in Device, Marked(d)', Backed(d)',
           \A e \in Device \ {d} : /\ batch'[e] = batch[e] /\ screens'[e] = screens[e]
                                   /\ dash'[e] = dash[e] /\ baseline'[e] = baseline[e]
    PROVE  CountInv'
  <1>1. ASSUME NEW e \in Device, e # d
        PROVE  Marked(e)' /\ Backed(e)'
    <2>1. Marked(e) /\ Backed(e)
      BY DEF CountInv
    <2>2. AcceptedScreens(e)' = AcceptedScreens(e)
      BY <1>1, AcceptedKept
    <2>. QED
      BY <1>1, <2>1, <2>2, NothingCounted
  <1>2. \A e \in Device : Marked(e)' /\ Backed(e)'
    BY <1>1
  <1>. QED
    BY <1>2 DEF CountInv

(* Steps that leave the queues alone and push nothing. *)
LEMMA EditCounted ==
    ASSUME IndInv, CountInv, NEW d \in Device, NEW i \in DOMAIN screens[d], NEW s,
           screens' = [screens EXCEPT ![d] = [screens[d] EXCEPT ![i] = s]],
           s.kind = screens[d][i].kind,
           s.kind = "detail" => s.addMaintenance = screens[d][i].addMaintenance,
           AcceptedScreens(d)' = AcceptedScreens(d),
           \A e \in Device \ {d} : batch'[e] = batch[e],
           UNCHANGED <<dash, baseline>>
    PROVE  CountInv'
  <1>1. /\ screens'[d] = [screens[d] EXCEPT ![i] = s]
        /\ \A e \in Device \ {d} : screens'[e] = screens[e]
    BY DEF IndInv, TypeOK
  <1>2. \A k \in DOMAIN screens'[d] :
            screens'[d][k].kind = "detail" /\ screens'[d][k].addMaintenance =>
                /\ k \in DOMAIN screens[d]
                /\ screens[d][k].kind = "detail" /\ screens[d][k].addMaintenance
    BY <1>1
  <1>3. Marked(d) /\ Backed(d)
    BY DEF CountInv
  <1>4. Marked(d)' /\ Backed(d)'
    BY <1>2, <1>3, NothingCounted
  <1>. QED
    BY <1>1, <1>4, OfOneDevice

(* Steps that push a screen. *)
LEMMA PushCounted ==
    ASSUME IndInv, AcceptedScreenIsGone, CountInv, NEW d \in Device,
           NEW old \in Seq(SoundScreen(d)), NEW new,
           DOMAIN old = DOMAIN screens[d],
           \A k \in DOMAIN screens[d] :
                old[k].kind = "detail" /\ old[k].addMaintenance =>
                    screens[d][k].kind = "detail" /\ screens[d][k].addMaintenance,
           new.kind = "detail" => ~new.addMaintenance,
           Push(d, old, new),
           UNCHANGED <<batch, baseline>>
    PROVE  CountInv'
  <1>1. /\ screens'[d] = Append(old, new)
        /\ \A e \in Device \ {d} : screens'[e] = screens[e] /\ dash'[e] = dash[e]
        /\ dash'[d] = WhenTopDisappears(d, old, dash[d])
    BY DEF Push, IndInv, TypeOK
  <1>2. Marked(d) /\ Backed(d)
    BY DEF CountInv
  <1>3. dash'[d] = dash[d]
    BY <1>1, <1>2, Calm
  <1>4. /\ DOMAIN screens'[d] = DOMAIN screens[d] \union {Len(old) + 1}
        /\ screens'[d][Len(old) + 1] = new
        /\ \A k \in DOMAIN screens[d] : screens'[d][k] = old[k]
    <2>1. old \in Seq(SoundScreen(d) \union {new}) /\ new \in SoundScreen(d) \union {new}
      BY SeqMonotonic
    <2>. QED
      BY <1>1, <2>1, AppendSound
  <1>5. \A k \in DOMAIN screens'[d] :
            screens'[d][k].kind = "detail" /\ screens'[d][k].addMaintenance =>
                /\ k \in DOMAIN screens[d]
                /\ screens[d][k].kind = "detail" /\ screens[d][k].addMaintenance
    BY <1>4
  <1>6. AcceptedScreens(d)' = AcceptedScreens(d)
    BY AcceptedKept
  <1>7. Marked(d)' /\ Backed(d)'
    BY <1>2, <1>3, <1>5, <1>6, NothingCounted
  <1>. QED
    BY <1>1, <1>7, OfOneDevice

(* A write that has just been queued accepts nothing. *)
LEMMA QueuedCounted ==
    ASSUME IndInv, NEW d \in Device, NEW i, NEW o, NEW write, Enqueue(d, i, o, write)
    PROVE  /\ AcceptedScreens(d)' = AcceptedScreens(d)
           /\ \A e \in Device \ {d} : batch'[e] = batch[e]
  <1>. DEFINE new == [order |-> o, write |-> write, handler |-> i, state |-> "pending"]
  <1>1. /\ batch'[d] = Append(batch[d], new)
        /\ \A e \in Device \ {d} : batch'[e] = batch[e]
    BY DEF Enqueue, IndInv, TypeOK
  <1>2. new.state # "acked"
    OBVIOUS
  <1>. HIDE DEF new
  <1>3. batch[d] \in Seq(SoundBatch(d))
    BY DeviceFacts
  <1>4. /\ DOMAIN batch'[d] = DOMAIN batch[d] \union {Len(batch[d]) + 1}
        /\ batch'[d][Len(batch[d]) + 1] = new
        /\ \A j \in DOMAIN batch[d] : batch'[d][j] = batch[d][j]
    <2>1. batch[d] \in Seq(SoundBatch(d) \union {new}) /\ new \in SoundBatch(d) \union {new}
      BY <1>3, SeqMonotonic
    <2>. QED
      BY <1>1, <2>1, AppendSound
  <1>5. /\ DOMAIN batch[d] \subseteq DOMAIN batch'[d]
        /\ \A j \in DOMAIN batch[d] :
                /\ batch'[d][j].write = batch[d][j].write
                /\ batch'[d][j].handler = batch[d][j].handler
                /\ batch'[d][j].state = "acked" <=> batch[d][j].state = "acked"
        /\ \A j \in DOMAIN batch'[d] \ DOMAIN batch[d] : batch'[d][j].state # "acked"
    BY <1>2, <1>4
  <1>. QED
    BY <1>1, <1>5, AcceptedKept

------------------------------------------------------------------------------
(* The steps of a screen. *)
LEMMA ScreenCounted ==
    ASSUME IndInv, AcceptedScreenIsGone, CountInv, NEW d \in Device,
           NEW i \in DOMAIN screens[d], ScreenStep(d, i)
    PROVE  CountInv'
  <1>. DEFINE t == screens[d][i]
  <1>1. t \in SoundScreen(d)
    BY DeviceFacts
  <1>2. ASSUME NEW w \in WorkOrder, TapListRow(d, i, w)
        PROVE  CountInv'
    <2>. DEFINE s == [t EXCEPT !.tapped = @ \union {w}]
    <2>1. t.kind = "list"
      BY <1>2 DEF TapListRow, Kind
    <2>2. s.kind = t.kind /\ s.kind # "detail"
      BY <1>1, <2>1 DEF SoundScreen
    <2>3. /\ screens' = [screens EXCEPT ![d] = [screens[d] EXCEPT ![i] = s]]
          /\ batch' = batch /\ UNCHANGED <<dash, baseline>>
      BY <1>2 DEF TapListRow
    <2>. HIDE DEF s
    <2>4. AcceptedScreens(d)' = AcceptedScreens(d) /\ \A e \in Device \ {d} : batch'[e] = batch[e]
      BY <2>3, AcceptedKept
    <2>. QED
      BY <2>2, <2>3, <2>4, EditCounted
  <1>3. ASSUME NEW w \in WorkOrder, OpenDetail(d, i, w)
        PROVE  CountInv'
    <2>. DEFINE s      == [t EXCEPT !.tapped = @ \ {w}]
                opened == [screens[d] EXCEPT ![i] = s]
                new    == IF d \in Workers
                          THEN [kind |-> "update", workOrder |-> w, asking |-> FALSE]
                          ELSE [kind |-> "detail", workOrder |-> w, selected |-> {},
                                addMaintenance |-> FALSE]
    <2>1. t.kind = "list"
      BY <1>3 DEF OpenDetail, Kind
    <2>2. s \in SoundScreen(d) /\ s.kind = t.kind /\ s.kind # "detail"
      BY <1>1, <2>1 DEF SoundScreen
    <2>3. /\ UNCHANGED <<batch, baseline>>
          /\ \/ Push(d, opened, new)
             \/ screens' = [screens EXCEPT ![d] = opened] /\ UNCHANGED dash
      BY <1>3 DEF OpenDetail
    <2>4. new.kind = "detail" => ~new.addMaintenance
      OBVIOUS
    <2>. HIDE DEF s, new
    <2>5. CASE Push(d, opened, new)
      <3>1. /\ opened \in Seq(SoundScreen(d)) /\ DOMAIN opened = DOMAIN screens[d]
            /\ \A k \in DOMAIN screens[d] :
                  opened[k].kind = "detail" /\ opened[k].addMaintenance =>
                      screens[d][k].kind = "detail" /\ screens[d][k].addMaintenance
        BY <2>2, DeviceFacts, ExceptSound
      <3>. HIDE DEF opened
      <3>. QED
        BY <2>3, <2>4, <2>5, <3>1, PushCounted
    <2>6. CASE screens' = [screens EXCEPT ![d] = opened] /\ UNCHANGED dash
      <3>1. AcceptedScreens(d)' = AcceptedScreens(d) /\ \A e \in Device \ {d} : batch'[e] = batch[e]
        BY <2>3, AcceptedKept
      <3>. QED
        BY <2>2, <2>3, <2>6, <3>1, EditCounted
    <2>. QED
      BY <2>3, <2>5, <2>6
  <1>4. ASSUME NEW p \in Workers, SelectWorker(d, i, p) \/ DeselectWorker(d, i, p)
        PROVE  CountInv'
    <2>. DEFINE chosen == IF SelectWorker(d, i, p) THEN t.selected \union {p} ELSE t.selected \ {p}
                s      == [t EXCEPT !.selected = chosen]
    <2>1. t.kind = "detail"
      BY <1>4 DEF SelectWorker, DeselectWorker, Kind
    <2>2. /\ screens' = [screens EXCEPT ![d] = [screens[d] EXCEPT ![i] = s]]
          /\ batch' = batch /\ UNCHANGED <<dash, baseline>>
      BY <1>4 DEF SelectWorker, DeselectWorker
    <2>. HIDE DEF chosen
    <2>3. s.kind = t.kind /\ s.addMaintenance = t.addMaintenance
      BY <1>1, <2>1 DEF SoundScreen
    <2>. HIDE DEF s
    <2>4. AcceptedScreens(d)' = AcceptedScreens(d) /\ \A e \in Device \ {d} : batch'[e] = batch[e]
      BY <2>2, AcceptedKept
    <2>. QED
      BY <2>2, <2>3, <2>4, EditCounted
  <1>5. CASE FinishButtonTapped(d, i) \/ \E o \in Orders : SendButtonTapped(d, i, o)
    <2>1. /\ \E o, write : Enqueue(d, i, o, write)
          /\ UNCHANGED <<screens, dash, baseline>>
      BY <1>5 DEF FinishButtonTapped, SendButtonTapped, appVars
    <2>2. /\ AcceptedScreens(d)' = AcceptedScreens(d)
          /\ \A e \in Device \ {d} : batch'[e] = batch[e]
      BY <2>1, QueuedCounted
    <2>3. Marked(d) /\ Backed(d)
      BY DEF CountInv
    <2>4. Marked(d)' /\ Backed(d)'
      BY <2>1, <2>2, <2>3, NothingCounted
    <2>. QED
      BY <2>1, <2>2, <2>4, OfOneDevice
  <1>6. CASE AddressLoaded(d, i)
    <2>. DEFINE s == [t EXCEPT !.address = AddressOf[d]]
    <2>1. t.kind = "compose"
      BY <1>6 DEF AddressLoaded, Kind
    <2>2. s.kind = t.kind /\ s.kind # "detail"
      BY <1>1, <2>1 DEF SoundScreen
    <2>3. /\ screens' = [screens EXCEPT ![d] = [screens[d] EXCEPT ![i] = s]]
          /\ batch' = batch /\ UNCHANGED <<dash, baseline>>
      BY <1>6 DEF AddressLoaded
    <2>. HIDE DEF s
    <2>4. AcceptedScreens(d)' = AcceptedScreens(d) /\ \A e \in Device \ {d} : batch'[e] = batch[e]
      BY <2>3, AcceptedKept
    <2>. QED
      BY <2>2, <2>3, <2>4, EditCounted
  <1>7. CASE WorkOrderCompleteButtonTapped(d, i) \/ ConfirmCompletion(d, i) \/ CancelCompletion(d, i)
    <2>. DEFINE s == [t EXCEPT !.asking = WorkOrderCompleteButtonTapped(d, i)]
    <2>1. t.kind = "update"
      BY <1>7 DEF WorkOrderCompleteButtonTapped, ConfirmCompletion, CancelCompletion, Kind
    <2>2. ASSUME NEW a \in BOOLEAN
          PROVE  [t EXCEPT !.asking = a].kind = t.kind /\ [t EXCEPT !.asking = a].kind # "detail"
      BY <1>1, <2>1 DEF SoundScreen
    <2>3. PICK a \in BOOLEAN :
                screens' = [screens EXCEPT ![d] = [screens[d] EXCEPT ![i] = [t EXCEPT !.asking = a]]]
      BY <1>7 DEF WorkOrderCompleteButtonTapped, ConfirmCompletion, CancelCompletion
    <2>4. /\ batch' = batch \/ \E o, write : Enqueue(d, i, o, write)
          /\ UNCHANGED <<dash, baseline>>
      BY <1>7 DEF WorkOrderCompleteButtonTapped, ConfirmCompletion, CancelCompletion
    <2>5. AcceptedScreens(d)' = AcceptedScreens(d) /\ \A e \in Device \ {d} : batch'[e] = batch[e]
      BY <2>4, AcceptedKept, QueuedCounted
    <2>. QED
      BY <2>2, <2>3, <2>4, <2>5, EditCounted
  <1>. QED
    BY <1>2, <1>3, <1>4, <1>5, <1>6, <1>7 DEF ScreenStep

(* An acknowledgement marks the screen that sent the review.  If that is still *)
(* on the stack it is the first to be accepted from there, and only it can     *)
(* take one off the count.                                                     *)
LEMMA AcknowledgeCounted ==
    ASSUME IndInv, AcceptedScreenIsGone, CountInv, NEW d \in Device,
           NEW j \in DOMAIN batch[d], Acknowledge(d, j)
    PROVE  CountInv'
  <1>. DEFINE h        == batch[d][j].handler
              review   == h # 0 /\ batch[d][j].write.kind = "review"
              answered == IF review THEN [screens[d] EXCEPT ![h].addMaintenance = TRUE]
                          ELSE screens[d]
              counted  == IF h # 0 /\ batch[d][j].write.kind = "create"
                          THEN [dash[d] EXCEPT !.workOrderCount = @ + 1]
                          ELSE dash[d]
              new      == IF review THEN {h} ELSE {}
  <1>1. /\ SetState(d, j, "acked") /\ batch[d][j].state = "committed"
        /\ "acked" \in BatchState
    BY DEF Acknowledge, SetState, BatchState
  <1>2. /\ screens'[d] = answered
        /\ \A e \in Device \ {d} : /\ batch'[e] = batch[e] /\ screens'[e] = screens[e]
                                   /\ dash'[e] = dash[e] /\ baseline'[e] = baseline[e]
        /\ baseline'[d] = baseline[d]
        /\ \/ h \in stack[d] /\ dash'[d] = WhenTopDisappears(d, answered, counted)
           \/ h \notin stack[d] /\ dash'[d] = counted
    BY DEF Acknowledge, IndInv, TypeOK
  <1>3. /\ dash[d] \in [workOrderCount : Int, requestCount : Int]
        /\ baseline[d].requestCount \in Int
        /\ counted.requestCount = dash[d].requestCount
    BY DEF IndInv, TypeOK
  <1>4. AcceptedScreens(d)' = AcceptedScreens(d) \union new
    <2>1. /\ DOMAIN batch'[d] = DOMAIN batch[d]
          /\ \A k \in DOMAIN batch[d] :
                /\ batch'[d][k].write = batch[d][k].write
                /\ batch'[d][k].handler = batch[d][k].handler
                /\ batch'[d][k].state = IF k = j THEN "acked" ELSE batch[d][k].state
      BY <1>1, StateSet
    <2>2. ASSUME NEW g
          PROVE  g \in AcceptedScreens(d)' <=> g \in AcceptedScreens(d) \union new
      <3>1. g \in AcceptedScreens(d) <=>
                \E k \in DOMAIN batch[d] : /\ batch[d][k].write.kind = "review"
                                           /\ batch[d][k].state = "acked"
                                           /\ batch[d][k].handler # 0
                                           /\ batch[d][k].handler = g
        BY DEF AcceptedScreens
      <3>2. g \in AcceptedScreens(d)' <=>
                \E k \in DOMAIN batch'[d] : /\ batch'[d][k].write.kind = "review"
                                            /\ batch'[d][k].state = "acked"
                                            /\ batch'[d][k].handler # 0
                                            /\ batch'[d][k].handler = g
        BY DEF AcceptedScreens
      <3>. QED
        BY <1>1, <2>1, <3>1, <3>2
    <2>. QED
      BY <2>2
  <1>5. Marked(d) /\ Backed(d)
    BY DEF CountInv
  <1>6. review => h \in DOMAIN screens[d] /\ screens[d][h].kind = "detail"
    BY DeviceFacts
  <1>7. \A k \in DOMAIN screens[d] \ new : answered[k] = screens[d][k]
    OBVIOUS
  <1>8. DOMAIN answered = DOMAIN screens[d]
    OBVIOUS
  <1>. HIDE DEF answered, counted
  <1>9. Marked(d)'
    BY <1>2, <1>4, <1>5, <1>7, <1>8 DEF Marked
  <1>10. IsFiniteSet(AcceptedScreens(d)) /\ Cardinality(AcceptedScreens(d)) \in Nat
    <2>1. AcceptedScreens(d) \subseteq DOMAIN screens[d]
      BY DeviceFacts DEF AcceptedScreens
    <2>2. DOMAIN screens[d] = 1 .. Len(screens[d]) /\ Len(screens[d]) \in Nat
      BY DeviceFacts, LenProperties
    <2>3. IsFiniteSet(DOMAIN screens[d])
      BY <2>2, FS_Interval
    <2>. QED
      BY <2>1, <2>3, FS_Subset, FS_CardinalityType
  <1>11. /\ Cardinality(AcceptedScreens(d)') >= Cardinality(AcceptedScreens(d))
         /\ Cardinality(AcceptedScreens(d)') \in Nat
         /\ h \in stack[d] /\ review =>
                Cardinality(AcceptedScreens(d)') = Cardinality(AcceptedScreens(d)) + 1
    <2>. DEFINE A == AcceptedScreens(d)
    <2>1. IsFiniteSet(A \union {h}) /\ Cardinality(A \union {h}) =
                IF h \in A THEN Cardinality(A) ELSE Cardinality(A) + 1
      BY <1>10, FS_AddElement
    <2>2. h \in stack[d] => h \notin A
      BY DEF AcceptedScreens, AcceptedScreenIsGone
    <2>3. AcceptedScreens(d)' = IF review THEN A \union {h} ELSE A
      BY <1>4
    <2>. HIDE DEF A, review
    <2>4. CASE review
      BY <1>10, <2>1, <2>2, <2>3, <2>4 DEF A
    <2>5. CASE ~review
      BY <1>10, <2>3, <2>5 DEF A
    <2>. QED
      BY <2>4, <2>5
  <1>12. \/ dash'[d].requestCount = dash[d].requestCount
         \/ /\ h \in stack[d] /\ review
            /\ dash'[d].requestCount = dash[d].requestCount - 1
    <2>1. CASE h \notin stack[d]
      BY <1>2, <1>3, <2>1
    <2>2. CASE h \in stack[d] /\ ~review
      <3>1. \A k \in DOMAIN screens[d] : answered[k] = screens[d][k]
        BY <1>7, <2>2
      <3>2. WhenTopDisappears(d, answered, counted) = counted
        BY <1>5, <3>1, Calm
      <3>. QED
        BY <1>2, <1>3, <2>2, <3>2
    <2>3. CASE h \in stack[d] /\ review
      <3>1. dash'[d] \in {counted, RequestCountChanged(d, counted)}
        BY <1>2, <2>3 DEF WhenTopDisappears
      <3>2. RequestCountChanged(d, counted).requestCount
                \in {counted.requestCount, counted.requestCount - 1}
        BY DEF RequestCountChanged
      <3>. QED
        BY <1>3, <2>3, <3>1, <3>2
    <2>. QED
      BY <2>1, <2>2, <2>3
  <1>13. Backed(d)'
    <2>1. (baseline[d].requestCount - dash[d].requestCount <= Cardinality(AcceptedScreens(d)))
      BY <1>5 DEF Backed
    <2>2. dash[d].requestCount \in Int
      BY <1>3
    <2>3. baseline'[d].requestCount - dash'[d].requestCount <= Cardinality(AcceptedScreens(d)')
      <3>. HIDE DEF h, review, new
      <3>. QED
        BY <1>2, <1>3, <1>10, <1>11, <1>12, <2>1, <2>2
    <2>. QED
      BY <2>3 DEF Backed
  <1>. QED
    BY <1>2, <1>9, <1>13, OfOneDevice

(* The other steps of the queue accept nothing and count nothing. *)
LEMMA QuietCounted ==
    ASSUME IndInv, CountInv, UNCHANGED <<screens, dash, baseline>>,
           \A e \in Device :
                /\ DOMAIN batch'[e] = DOMAIN batch[e]
                /\ \A k \in DOMAIN batch[e] :
                        /\ batch'[e][k].write = batch[e][k].write
                        /\ batch'[e][k].handler = batch[e][k].handler
                        /\ batch'[e][k].state = "acked" <=> batch[e][k].state = "acked"
    PROVE  CountInv'
  <1>1. ASSUME NEW e \in Device
        PROVE  Marked(e)' /\ Backed(e)'
    <2>1. Marked(e) /\ Backed(e)
      BY DEF CountInv
    <2>2. AcceptedScreens(e)' = AcceptedScreens(e)
      BY AcceptedKept
    <2>. QED
      BY <2>1, <2>2, NothingCounted
  <1>. QED
    BY <1>1 DEF CountInv

(* A relaunched app begins a session with counts of its own. *)
LEMMA RelaunchCounted ==
    ASSUME IndInv, CountInv, NEW d \in Device, Relaunch(d)
    PROVE  CountInv'
  <1>1. /\ screens'[d] = <<>>
        /\ dash'[d] = Counts(d) /\ baseline'[d] = Counts(d)
        /\ \A e \in Device \ {d} : /\ screens'[e] = screens[e] /\ dash'[e] = dash[e]
                                   /\ baseline'[e] = baseline[e]
    BY DEF Relaunch, IndInv, TypeOK
  <1>2. /\ \A e \in Device \ {d} : batch'[e] = batch[e]
        /\ DOMAIN batch'[d] = DOMAIN batch[d]
        /\ \A k \in DOMAIN batch[d] : batch'[d][k].handler = 0
    BY RelaunchFacts
  <1>3. AcceptedScreens(d)' = {}
    BY <1>2 DEF AcceptedScreens
  <1>4. Marked(d)'
    BY <1>1 DEF Marked
  <1>5. Backed(d)'
    <2>1. Cardinality(AcceptedScreens(d)') = 0
      BY <1>3, FS_EmptySet
    <2>2. PICK c : c = Counts(d)
      OBVIOUS
    <2>3. c.requestCount \in Int
      BY <2>2, CountsTyped
    <2>4. dash'[d] = c /\ baseline'[d] = c
      BY <1>1, <2>2
    <2>5. baseline'[d].requestCount - dash'[d].requestCount <= Cardinality(AcceptedScreens(d)')
      BY <2>1, <2>3, <2>4
    <2>. QED
      BY <2>5 DEF Backed
  <1>. QED
    BY <1>1, <1>2, <1>4, <1>5, OfOneDevice

(* Every step keeps it. *)
LEMMA CountNext ==
    IndInv /\ AcceptedScreenIsGone /\ CountInv /\ [Next]_vars => CountInv'
  <1>. SUFFICES ASSUME IndInv, AcceptedScreenIsGone, CountInv, [Next]_vars
                PROVE  CountInv'
    OBVIOUS
  <1>1. CASE UNCHANGED <<batch, screens, dash, baseline>>
    BY <1>1, QuietCounted
  <1>2. ASSUME NEW d \in Device, NEW i \in DOMAIN screens[d], ScreenStep(d, i)
        PROVE  CountInv'
    BY <1>2, ScreenCounted
  <1>3. ASSUME NEW d \in Device, NEW p \in DOMAIN parses[d], NEW w \in WorkOrder,
               TenantRead(d, p, w)
        PROVE  CountInv'
    <2>. DEFINE new == [kind |-> "list", rows |-> workOrders[d] \union {w}, tapped |-> {}]
    <2>1. /\ UNCHANGED <<batch, baseline>>
          /\ Push(d, screens[d], new) \/ UNCHANGED <<screens, stack, dash>>
      BY <1>3 DEF TenantRead
    <2>2. new.kind # "detail" /\ screens[d] \in Seq(SoundScreen(d))
      BY DeviceFacts
    <2>. HIDE DEF new
    <2>3. CASE Push(d, screens[d], new)
      BY <2>1, <2>2, <2>3, PushCounted
    <2>. QED
      BY <1>1, <2>1, <2>3
  <1>4. ASSUME NEW d \in Device, OpenComposer(d)
        PROVE  CountInv'
    <2>. DEFINE new == [kind |-> "compose", address |-> None]
    <2>1. UNCHANGED <<batch, baseline>> /\ Push(d, screens[d], new)
      BY <1>4 DEF OpenComposer
    <2>2. new.kind # "detail" /\ screens[d] \in Seq(SoundScreen(d))
      BY DeviceFacts
    <2>. HIDE DEF new
    <2>. QED
      BY <2>1, <2>2, PushCounted
  <1>5. ASSUME NEW d \in Device, Back(d)
        PROVE  CountInv'
    <2>1. dash' = [dash EXCEPT ![d] = WhenTopDisappears(d, screens[d], dash[d])]
          /\ UNCHANGED <<batch, screens, baseline>>
      BY <1>5 DEF Back
    <2>2. Marked(d)
      BY DEF CountInv
    <2>3. WhenTopDisappears(d, screens[d], dash[d]) = dash[d]
      BY <2>2, Calm
    <2>4. dash' = dash
      BY <2>1, <2>3 DEF IndInv, TypeOK
    <2>. QED
      BY <1>1, <2>1, <2>4
  <1>6. ASSUME NEW d \in Device, Relaunch(d)
        PROVE  CountInv'
    BY <1>6, RelaunchCounted
  <1>7. ASSUME NEW d \in Device, NEW j \in DOMAIN batch[d], Commit(d, j) \/ Reject(d, j)
        PROVE  CountInv'
    <2>1. UNCHANGED <<screens, dash, baseline>>
      BY <1>7 DEF Commit, Reject, appVars
    <2>2. ~Acknowledge(d, j)
      BY <1>7, NotAcknowledged
    <2>3. \A e \in Device :
                /\ DOMAIN batch'[e] = DOMAIN batch[e]
                /\ \A k \in DOMAIN batch[e] :
                        /\ batch'[e][k].write = batch[e][k].write
                        /\ batch'[e][k].handler = batch[e][k].handler
                        /\ batch'[e][k].state = "acked" <=> batch[e][k].state = "acked"
      BY <1>7, <2>2, Answered
    <2>. QED
      BY <2>1, <2>3, QuietCounted
  <1>8. ASSUME NEW d \in Device, NEW j \in DOMAIN batch[d], Acknowledge(d, j)
        PROVE  CountInv'
    BY <1>8, AcknowledgeCounted
  <1>9. ASSUME NEW d \in Device, LoseAnswers(d)
        PROVE  CountInv'
    <2>1. UNCHANGED <<screens, dash, baseline>>
      BY <1>9 DEF LoseAnswers, appVars
    <2>2. \A e \in Device :
                /\ DOMAIN batch'[e] = DOMAIN batch[e]
                /\ \A k \in DOMAIN batch[e] :
                        /\ batch'[e][k].write = batch[e][k].write
                        /\ batch'[e][k].handler = batch[e][k].handler
                        /\ batch'[e][k].state = "acked" <=> batch[e][k].state = "acked"
      BY <1>9, LostFacts
    <2>. QED
      BY <2>1, <2>2, QuietCounted
  <1>10. ASSUME NEW d \in Device, DeviceStep(d)
         PROVE  \/ UNCHANGED <<batch, screens, dash, baseline>>
                \/ \E i \in DOMAIN screens[d] : ScreenStep(d, i)
                \/ \E p \in DOMAIN parses[d] : \E w \in WorkOrder : TenantRead(d, p, w)
                \/ OpenComposer(d) \/ Back(d) \/ Relaunch(d)
    BY <1>10 DEF DeviceStep, TapDashboardRow, DashboardEvent
  <1>11. CASE UNCHANGED vars
    BY <1>1, <1>11 DEF vars, appVars
  <1>. QED
    BY <1>2, <1>3, <1>4, <1>5, <1>6, <1>7, <1>8, <1>9, <1>10, <1>1, <1>11 DEF Next, QueueStep

(* A dashboard opens with no screens. *)
LEMMA CountInit == Init => CountInv
  <1>. SUFFICES ASSUME Init, NEW d \in Device
                PROVE  Marked(d) /\ Backed(d)
    BY DEF CountInv
  <1>1. DOMAIN batch[d] = {} /\ DOMAIN screens[d] = {}
    BY DEF Init
  <1>2. Marked(d) /\ AcceptedScreens(d) = {}
    BY <1>1 DEF Marked, AcceptedScreens
  <1>3. PICK c : c = Counts(d)
    OBVIOUS
  <1>4. c.requestCount \in Int
    BY <1>3, CountsTyped
  <1>5. dash[d] = c /\ baseline[d] = c
    BY <1>3 DEF Init
  <1>6. baseline[d].requestCount - dash[d].requestCount <= Cardinality(AcceptedScreens(d))
    BY <1>2, <1>4, <1>5, FS_EmptySet
  <1>. QED
    BY <1>2, <1>6 DEF Backed

(* The managers' dashboard takes a request off its count at most once for each *)
(* screen of this session whose review was accepted: the completion block sets *)
(* addMaintenance and pops the screen, and there is no way back to it.         *)
THEOREM DecrementsStayBacked == Spec => []DecrementsBacked
  <1>1. Init => CountInv
    BY CountInit
  <1>2. IndInv /\ AcceptedScreenIsGone /\ CountInv /\ [Next]_vars => CountInv'
    BY CountNext
  <1>3. CountInv => DecrementsBacked
    BY DEF CountInv, Backed, DecrementsBacked
  <1>4. Spec => []IndInv /\ []AcceptedScreenIsGone
    BY Invariant, AcceptedScreenNeverReturns
  <1>. QED
    BY <1>1, <1>2, <1>3, <1>4, PTL DEF Spec
==============================================================================
