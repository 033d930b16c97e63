----------------------------- MODULE TenantProofs -----------------------------
(* A tenant who lives alone never sees fewer orders counted than the server    *)
(* has and the app was told of, for every set of devices and orders.           *)
EXTENDS LifecycleProofs

(* The orders of writes that outlived the app that made them.  They were       *)
(* counted when the dashboard opened, from the local copy, and no handler      *)
(* counts them again when they reach the server.                               *)
Restored(d) ==
    {o \in Orders : \E j \in DOMAIN batch[d] :
        /\ batch[d][j].order = o
        /\ Unsettled(batch[d][j])
        /\ batch[d][j].handler = 0}

(* The orders the count stands for. *)
Due(d) == (ServerActive(AddressOf[d]) \union Restored(d)) \ Unreported(d)

Covered(d) == Cardinality(Due(d)) <= dash[d].workOrderCount

CoverInv == \A d \in Tenants : LivesAlone(d) => Covered(d)

------------------------------------------------------------------------------
LEMMA TenantFacts ==
    ASSUME IndInv, NEW d \in Tenants
    PROVE  /\ d \in Device /\ d \notin Managers /\ d \notin Workers
           /\ AddressOf[d] \in Addresses
           /\ \A j \in DOMAIN batch[d] :
                /\ batch[d][j].order \in Orders
                /\ batch[d][j].write \in [kind : {"create"}, address : {AddressOf[d]}]
                /\ batch[d][j].handler \in Nat
           /\ dash[d] \in [workOrderCount : Int, requestCount : Int]
  <1>1. d \in Device /\ d \notin Managers /\ d \notin Workers /\ AddressOf[d] \in Addresses
    BY WorkOrderAssumption DEF WorkOrderAssumption, Device
  <1>2. ASSUME NEW j \in DOMAIN batch[d]
        PROVE  /\ batch[d][j].order \in Orders
               /\ batch[d][j].write \in [kind : {"create"}, address : {AddressOf[d]}]
               /\ batch[d][j].handler \in Nat
    <2>1. batch[d][j] \in SoundBatch(d)
      BY <1>1, DeviceFacts
    <2>2. batch[d][j].order \in Seen(d) /\ batch[d][j].write \in SoundWrite(d)
          /\ batch[d][j].handler \in Nat
      BY <2>1 DEF SoundBatch
    <2>. QED
      BY <2>2, WriteByRole DEF Seen
  <1>. QED
    BY <1>1, <1>2 DEF IndInv, TypeOK

LEMMA OrdersFinite ==
    ASSUME NEW T \in SUBSET Orders
    PROVE  IsFiniteSet(T) /\ Cardinality(T) \in Nat
  BY FS_Subset, FS_CardinalityType, WorkOrderAssumption DEF WorkOrderAssumption

(* An order the app was not told of. *)
LEMMA UnreportedIs ==
    ASSUME NEW d, NEW o
    PROVE  o \in Unreported(d) <=>
                \E j \in DOMAIN batch[d] : /\ batch[d][j].order = o
                                           /\ batch[d][j].handler # 0
                                           /\ batch[d][j].state # "acked"
  BY DEF Unreported

LEMMA UnreportedIsNext ==
    ASSUME NEW d, NEW o
    PROVE  o \in Unreported(d)' <=>
                \E j \in DOMAIN batch'[d] : /\ batch'[d][j].order = o
                                            /\ batch'[d][j].handler # 0
                                            /\ batch'[d][j].state # "acked"
  BY DEF Unreported

LEMMA DueIsOrders == \A d : Due(d) \in SUBSET Orders /\ Due(d)' \in SUBSET Orders
  BY DEF Due, ServerActive, Restored

(* A step that owes no more and counts no less. *)
LEMMA CoveredOn ==
    ASSUME NEW d, Covered(d), Due(d)' \subseteq Due(d),
           dash[d].workOrderCount \in Int, dash'[d].workOrderCount \in Int,
           dash[d].workOrderCount <= dash'[d].workOrderCount
    PROVE  Covered(d)'
  <1>1. /\ Cardinality(Due(d)') <= Cardinality(Due(d))
        /\ Cardinality(Due(d)') \in Nat /\ Cardinality(Due(d)) \in Nat
    BY DueIsOrders, OrdersFinite, FS_Subset
  <1>2. Cardinality(Due(d)) <= dash[d].workOrderCount
    BY DEF Covered
  <1>3. Cardinality(Due(d)') <= dash'[d].workOrderCount
    BY <1>1, <1>2
  <1>. QED
    BY <1>3 DEF Covered

(* A queue whose answers say nothing new, over a server that has no more. *)
LEMMA DueKept ==
    ASSUME NEW d,
           ServerActive(AddressOf[d])' \subseteq ServerActive(AddressOf[d]),
           DOMAIN batch'[d] = DOMAIN batch[d],
           \A k \in DOMAIN batch[d] :
                /\ batch'[d][k].order = batch[d][k].order
                /\ batch'[d][k].handler = batch[d][k].handler
                /\ batch'[d][k].state = "acked" <=> batch[d][k].state = "acked"
                /\ Unsettled(batch'[d][k]) => Unsettled(batch[d][k])
    PROVE  Due(d)' \subseteq Due(d)
  <1>1. Restored(d)' \subseteq Restored(d)
    BY DEF Restored
  <1>2. Unreported(d) \subseteq Unreported(d)'
    BY UnreportedIs, UnreportedIsNext
  <1>. QED
    BY <1>1, <1>2 DEF Due

LEMMA SameServer ==
    ASSUME docs' = docs
    PROVE  \A a : ServerActive(a)' = ServerActive(a)
  BY DEF ServerActive

(* A screen that disappears only ever adds an order to the count. *)
LEMMA DisappearCountsUp ==
    ASSUME NEW d, NEW shown, NEW c \in [workOrderCount : Int, requestCount : Int]
    PROVE  /\ WhenTopDisappears(d, shown, c).workOrderCount \in Int
           /\ c.workOrderCount <= WhenTopDisappears(d, shown, c).workOrderCount
  BY DEF WhenTopDisappears, RequestCountChanged

------------------------------------------------------------------------------
(* The screens, on the dashboard and above it. *)
LEMMA ScreensKeepCover ==
    ASSUME IndInv, NEW d \in Tenants, Covered(d),
           \/ \E q \in Query : TapDashboardRow(d, q)
           \/ \E k \in DOMAIN listener[d] : DashboardEvent(d, k)
           \/ \E p \in DOMAIN parses[d] : \E w \in WorkOrder : TenantRead(d, p, w)
           \/ \E i \in DOMAIN screens[d] : ScreenStep(d, i)
           \/ OpenComposer(d)
           \/ Back(d),
           \A i \in DOMAIN screens[d] : \A o \in Orders : ~SendButtonTapped(d, i, o)
    PROVE  Covered(d)'
  <1>0. d \in Device /\ dash[d] \in [workOrderCount : Int, requestCount : Int]
    BY TenantFacts
  <1>1. \A i \in DOMAIN screens[d] : ~FinishButtonTapped(d, i) /\ ~ConfirmCompletion(d, i)
    BY <1>0, StaffScreens
  <1>2. /\ docs' = docs /\ batch' = batch
        /\ \/ dash' = dash
           \/ \E shown : dash' = [dash EXCEPT ![d] = WhenTopDisappears(d, shown, dash[d])]
    <2>1. ASSUME NEW i \in DOMAIN screens[d], ScreenStep(d, i)
          PROVE  /\ docs' = docs /\ batch' = batch
                 /\ \/ dash' = dash
                    \/ \E shown : dash' = [dash EXCEPT ![d] = WhenTopDisappears(d, shown, dash[d])]
      <3>1. ASSUME NEW w \in WorkOrder, OpenDetail(d, i, w)
            PROVE  /\ docs' = docs /\ batch' = batch
                   /\ \/ dash' = dash
                      \/ \E shown : dash' = [dash EXCEPT ![d] = WhenTopDisappears(d, shown, dash[d])]
        BY <3>1 DEF OpenDetail, Push, serverVars
      <3>2. CASE UNCHANGED <<docs, batch, dash>>
        BY <3>2
      <3>3. \/ \E w \in WorkOrder : OpenDetail(d, i, w)
            \/ UNCHANGED <<docs, batch, dash>>
        BY <1>1, <2>1 DEF ScreenStep, TapListRow, SelectWorker, DeselectWorker, AddressLoaded,
              WorkOrderCompleteButtonTapped, CancelCompletion, serverVars
      <3>. QED
        BY <3>1, <3>2, <3>3
    <2>2. ASSUME NEW p \in DOMAIN parses[d], NEW w \in WorkOrder, TenantRead(d, p, w)
          PROVE  /\ docs' = docs /\ batch' = batch
                 /\ \/ dash' = dash
                    \/ \E shown : dash' = [dash EXCEPT ![d] = WhenTopDisappears(d, shown, dash[d])]
      BY <2>2 DEF TenantRead, Push, serverVars
    <2>3. CASE OpenComposer(d) \/ Back(d)
      BY <2>3 DEF OpenComposer, Back, Push, serverVars
    <2>4. CASE \/ \E q \in Query : TapDashboardRow(d, q)
               \/ \E k \in DOMAIN listener[d] : DashboardEvent(d, k)
      BY <2>4 DEF TapDashboardRow, DashboardEvent, serverVars
    <2>. QED
      BY <2>1, <2>2, <2>3, <2>4
  <1>3. dash'[d].workOrderCount \in Int /\ dash[d].workOrderCount <= dash'[d].workOrderCount
    <2>1. CASE dash' = dash
      BY <1>0, <2>1
    <2>2. ASSUME NEW shown, dash' = [dash EXCEPT ![d] = WhenTopDisappears(d, shown, dash[d])]
          PROVE  dash'[d].workOrderCount \in Int /\ dash[d].workOrderCount <= dash'[d].workOrderCount
      <3>1. dash'[d] = WhenTopDisappears(d, shown, dash[d])
        BY <1>0, <2>2 DEF IndInv, TypeOK
      <3>. QED
        BY <1>0, <3>1, DisappearCountsUp
    <2>. QED
      BY <1>2, <2>1, <2>2
  <1>4. Due(d)' \subseteq Due(d)
    BY <1>2, SameServer, DueKept
  <1>. QED
    BY <1>0, <1>3, <1>4, CoveredOn

(* The tenant sends an order: it is neither on the server nor counted yet. *)
LEMMA SendKeepsCover ==
    ASSUME IndInv, NEW d \in Tenants, Covered(d), NEW i \in DOMAIN screens[d],
           NEW o \in Orders, SendButtonTapped(d, i, o)
    PROVE  Covered(d)'
  <1>. DEFINE new == [order |-> o,
                      write |-> [kind |-> "create", address |-> screens[d][i].address],
                      handler |-> i, state |-> "pending"]
              n   == Len(batch[d]) + 1
  <1>0. /\ d \in Device /\ batch[d] \in Seq(SoundBatch(d))
        /\ dash[d] \in [workOrderCount : Int, requestCount : Int]
    BY TenantFacts, DeviceFacts
  <1>1. docs' = docs /\ dash' = dash /\ batch'[d] = Append(batch[d], new)
    BY <1>0 DEF SendButtonTapped, Enqueue, serverVars, appVars, IndInv, TypeOK
  <1>2. i # 0
    BY <1>0, DeviceFacts, LenProperties
  <1>3. new.handler # 0
    BY <1>2
  <1>. HIDE DEF new
  <1>4. /\ DOMAIN batch'[d] = DOMAIN batch[d] \union {n}
        /\ batch'[d][n] = new
        /\ \A k \in DOMAIN batch[d] : batch'[d][k] = batch[d][k]
    <2>1. batch[d] \in Seq(SoundBatch(d) \union {new}) /\ new \in SoundBatch(d) \union {new}
      BY <1>0, SeqMonotonic
    <2>. QED
      BY <1>1, <2>1, AppendSound
  <1>. HIDE DEF n
  <1>5. Restored(d)' \subseteq Restored(d)
    BY <1>3, <1>4 DEF Restored
  <1>6. Unreported(d) \subseteq Unreported(d)'
    BY <1>4, UnreportedIs, UnreportedIsNext
  <1>7. Due(d)' \subseteq Due(d)
    BY <1>1, <1>5, <1>6, SameServer DEF Due
  <1>. QED
    BY <1>0, <1>1, <1>7, CoveredOn

(* The server applies one of the tenant's writes: its handler has not been     *)
(* told, or the order was counted when the app started.                        *)
LEMMA CommitKeepsCover ==
    ASSUME IndInv, NEW d \in Tenants, Covered(d), NEW j \in DOMAIN batch[d], Commit(d, j)
    PROVE  Covered(d)'
  <1>0. d \in Device /\ dash[d] \in [workOrderCount : Int, requestCount : Int]
    BY TenantFacts
  <1>1. PICK o \in Orders :
            /\ o = batch[d][j].order
            /\ \E new : docs' = [docs EXCEPT ![o] = new]
    BY <1>0, CommitFacts
  <1>2. /\ DOMAIN batch'[d] = DOMAIN batch[d]
        /\ \A k \in DOMAIN batch[d] :
                /\ batch'[d][k].order = batch[d][k].order
                /\ batch'[d][k].handler = batch[d][k].handler
                /\ batch'[d][k].state = "acked" <=> batch[d][k].state = "acked"
                /\ Unsettled(batch'[d][k]) => Unsettled(batch[d][k])
    BY <1>0, Answered, NotAcknowledged
  <1>3. Restored(d)' \subseteq Restored(d)
    BY <1>2 DEF Restored
  <1>4. \A p : p \in Unreported(d)' <=> p \in Unreported(d)
    BY <1>2, UnreportedIs, UnreportedIsNext
  <1>5. ServerActive(AddressOf[d])' \subseteq ServerActive(AddressOf[d]) \union {o}
    <2>1. PICK new : docs' = [docs EXCEPT ![o] = new]
      BY <1>1
    <2>. QED
      BY <2>1 DEF ServerActive
  <1>6. batch[d][j].state = "pending" /\ dash' = dash
    BY DEF Commit, appVars
  <1>7. o \in Restored(d) \/ o \in Unreported(d)
    <2>1. CASE batch[d][j].handler = 0
      BY <1>1, <1>6, <2>1 DEF Restored, Unsettled
    <2>2. CASE batch[d][j].handler # 0
      BY <1>1, <1>6, <2>2, UnreportedIs
    <2>. QED
      BY <2>1, <2>2
  <1>8. Due(d)' \subseteq Due(d)
    BY <1>3, <1>4, <1>5, <1>7 DEF Due
  <1>. QED
    BY <1>0, <1>6, <1>8, CoveredOn

(* The answer is counted, unless the order was when the app started. *)
LEMMA AcknowledgeKeepsCover ==
    ASSUME IndInv, NEW d \in Tenants, Covered(d), NEW j \in DOMAIN batch[d], Acknowledge(d, j)
    PROVE  Covered(d)'
  <1>. DEFINE b    == batch[d][j]
              gain == IF b.handler # 0 THEN 1 ELSE 0
  <1>0. /\ d \in Device /\ d \notin Managers
        /\ dash[d] \in [workOrderCount : Int, requestCount : Int]
        /\ b.order \in Orders /\ b.handler \in Nat /\ b.write.kind = "create"
    BY TenantFacts
  <1>1. docs' = docs
    BY DEF Acknowledge, serverVars
  <1>2. /\ DOMAIN batch'[d] = DOMAIN batch[d]
        /\ \A k \in DOMAIN batch[d] :
                /\ batch'[d][k].order = batch[d][k].order
                /\ batch'[d][k].handler = batch[d][k].handler
                /\ k # j => (batch'[d][k].state = "acked" <=> batch[d][k].state = "acked")
                /\ Unsettled(batch'[d][k]) => Unsettled(batch[d][k])
    BY <1>0, Answered
  <1>3. Restored(d)' \subseteq Restored(d)
    BY <1>2 DEF Restored
  <1>4. ASSUME NEW p, p \in Unreported(d), p \notin Unreported(d)'
        PROVE  p = b.order /\ b.handler # 0
    BY <1>2, <1>4, UnreportedIs, UnreportedIsNext
  <1>5. dash'[d].workOrderCount \in Int
        /\ dash[d].workOrderCount + gain <= dash'[d].workOrderCount
    <2>. DEFINE c == IF b.handler # 0 /\ b.write.kind = "create"
                     THEN [dash[d] EXCEPT !.workOrderCount = @ + 1]
                     ELSE dash[d]
    <2>1. \E shown : \/ dash' = [dash EXCEPT ![d] = c]
                     \/ dash' = [dash EXCEPT ![d] = WhenTopDisappears(d, shown, c)]
      BY DEF Acknowledge
    <2>2. /\ c \in [workOrderCount : Int, requestCount : Int]
          /\ c.workOrderCount = dash[d].workOrderCount + gain
      BY <1>0
    <2>. HIDE DEF c
    <2>3. PICK shown : dash'[d] = c \/ dash'[d] = WhenTopDisappears(d, shown, c)
      BY <1>0, <2>1 DEF IndInv, TypeOK
    <2>4. /\ WhenTopDisappears(d, shown, c).workOrderCount \in Int
          /\ c.workOrderCount <= WhenTopDisappears(d, shown, c).workOrderCount
          /\ c.workOrderCount \in Int
      BY <2>2, DisappearCountsUp
    <2>. HIDE DEF gain
    <2>. QED
      BY <2>2, <2>3, <2>4
  <1>6. CASE b.handler = 0
    <2>1. Due(d)' \subseteq Due(d)
      BY <1>1, <1>3, <1>4, <1>6, SameServer DEF Due
    <2>. QED
      BY <1>0, <1>5, <1>6, <2>1, CoveredOn
  <1>7. CASE b.handler # 0
    <2>1. PICK D, x, E : D = Due(d) /\ x = b.order /\ E = Due(d)'
      OBVIOUS
    <2>2. E \subseteq D \union {x}
      BY <1>1, <1>3, <1>4, <2>1, SameServer DEF Due
    <2>3. IsFiniteSet(D) /\ Cardinality(D) \in Nat /\ Cardinality(E) \in Nat
      BY <2>1, DueIsOrders, OrdersFinite
    <2>4. IsFiniteSet(D \union {x}) /\ Cardinality(D \union {x}) <= Cardinality(D) + 1
      BY <2>3, FS_AddElement
    <2>5. Cardinality(E) <= Cardinality(D \union {x}) /\ Cardinality(D \union {x}) \in Nat
      BY <2>2, <2>4, FS_Subset, FS_CardinalityType
    <2>6. Cardinality(D) <= dash[d].workOrderCount /\ dash[d].workOrderCount \in Int
      BY <1>0, <2>1 DEF Covered
    <2>7. dash[d].workOrderCount + 1 <= dash'[d].workOrderCount
      BY <1>5, <1>7
    <2>8. Cardinality(E) <= dash'[d].workOrderCount
      BY <1>5, <2>3, <2>4, <2>5, <2>6, <2>7
    <2>. QED
      BY <2>1, <2>8 DEF Covered
  <1>. QED
    BY <1>0, <1>6, <1>7

(* Lost answers and refusals count nothing and answer nothing. *)
LEMMA FaultKeepsCover ==
    ASSUME IndInv, NEW d \in Tenants, Covered(d),
           LoseAnswers(d) \/ \E j \in DOMAIN batch[d] : Reject(d, j)
    PROVE  Covered(d)'
  <1>0. d \in Device /\ dash[d] \in [workOrderCount : Int, requestCount : Int]
    BY TenantFacts
  <1>1. docs' = docs /\ dash' = dash
    BY DEF LoseAnswers, Reject, serverVars, appVars
  <1>2. /\ DOMAIN batch'[d] = DOMAIN batch[d]
        /\ \A k \in DOMAIN batch[d] :
                /\ batch'[d][k].order = batch[d][k].order
                /\ batch'[d][k].handler = batch[d][k].handler
                /\ batch'[d][k].state = "acked" <=> batch[d][k].state = "acked"
                /\ Unsettled(batch'[d][k]) => Unsettled(batch[d][k])
    BY <1>0, LostFacts, Answered, NotAcknowledged
  <1>3. Due(d)' \subseteq Due(d)
    BY <1>1, <1>2, SameServer, DueKept
  <1>. QED
    BY <1>0, <1>1, <1>3, CoveredOn

(* The app starts again: what the server has and what is still in the queue    *)
(* are in the local copy that the dashboard counts.                            *)
LEMMA CountsCover ==
    ASSUME IndInv, AddedOnce, NEW d \in Tenants, NEW P \in SUBSET Orders,
           \A o \in P : \/ o \in ServerActive(AddressOf[d])
                        \/ \E j \in DOMAIN batch[d] :
                              batch[d][j].order = o /\ Unsettled(batch[d][j])
    PROVE  Cardinality(P) <= Counts(d).workOrderCount
  <1>. DEFINE M == {o \in Orders : Matches(d, "active", LocalDoc(d, o))}
              r(o) == [id |-> o, data |-> LocalDoc(d, o)]
              f == [o \in M |-> r(o)]
  <1>0. d \in Device /\ d \notin Managers /\ d \notin Workers /\ AddressOf[d] \in Addresses
    BY TenantFacts
  <1>1. ASSUME NEW o \in P
        PROVE  Matches(d, "active", LocalDoc(d, o))
    <2>1. CASE LatestWrite(d, o) = {}
      <3>1. ASSUME NEW j \in DOMAIN batch[d], batch[d][j].order = o, Unsettled(batch[d][j])
            PROVE  FALSE
        <4>1. \A k \in DOMAIN batch[d] : batch[d][k].order = o => k = j
          BY <1>0, <3>1 DEF AddedOnce
        <4>2. j \in Nat
          BY <1>0, DeviceFacts, LenProperties
        <4>3. j \in LatestWrite(d, o)
          BY <3>1, <4>1, <4>2 DEF LatestWrite
        <4>. QED
          BY <2>1, <4>3
      <3>2. o \in ServerActive(AddressOf[d])
        BY <3>1
      <3>. QED
        BY <1>0, <2>1, <3>2 DEF LocalDoc, ServerActive, Matches
    <2>2. CASE LatestWrite(d, o) # {}
      <3>1. PICK i \in LatestWrite(d, o) : LocalDoc(d, o) = Applied(batch[d][i].write, docs[o])
        BY <2>2 DEF LocalDoc
      <3>2. i \in DOMAIN batch[d]
        BY <3>1 DEF LatestWrite
      <3>3. LocalDoc(d, o) = NewDocument(AddressOf[d])
        BY <3>1, <3>2, TenantFacts DEF Applied
      <3>4. NewDocument(AddressOf[d]) # None
        <4>1. NewDocument(AddressOf[d]) \in Document
          BY <1>0 DEF NewDocument, Document
        <4>. QED
          BY <4>1, NoneAssumption
      <3>. QED
        BY <1>0, <3>3, <3>4 DEF Matches, NewDocument
    <2>. QED
      BY <2>1, <2>2
  <1>2. P \subseteq M /\ IsFiniteSet(M) /\ Cardinality(M) \in Nat
    <2>1. M \in SUBSET Orders
      OBVIOUS
    <2>. QED
      BY <1>1, <2>1, OrdersFinite
  <1>3. Cardinality(P) <= Cardinality(M)
    BY <1>2, FS_Subset
  <1>4. Cardinality(QueryResult(d, "active")) = Cardinality(M)
    <2>1. QueryResult(d, "active") = {r(o) : o \in M}
      BY DEF QueryResult
    <2>2. f \in Bijection(M, QueryResult(d, "active"))
      <3>1. \A o1, o2 \in M : r(o1) = r(o2) => o1 = o2
        OBVIOUS
      <3>. HIDE DEF M, r
      <3>. QED
        BY <2>1, <3>1 DEF Bijection, Injection, Surjection, IsInjective
    <2>. HIDE DEF M, f
    <2>. QED
      BY <1>2, <2>2, FS_Bijection DEF ExistsBijection
  <1>. QED
    BY <1>0, <1>3, <1>4 DEF Counts

LEMMA RelaunchKeepsCover ==
    ASSUME IndInv, AddedOnce, NEW d \in Tenants, Relaunch(d)
    PROVE  Covered(d)'
  <1>0. d \in Device
    BY TenantFacts
  <1>1. docs' = docs /\ dash'[d] = Counts(d)
    BY <1>0 DEF Relaunch, IndInv, TypeOK, serverVars
  <1>2. /\ DOMAIN batch'[d] = DOMAIN batch[d]
        /\ \A k \in DOMAIN batch[d] :
                /\ batch'[d][k].order = batch[d][k].order
                /\ Unsettled(batch'[d][k]) => Unsettled(batch[d][k])
    BY <1>0, RelaunchFacts
  <1>3. PICK P : P = Due(d)'
    OBVIOUS
  <1>4. ASSUME NEW o \in P
        PROVE  /\ o \in Orders
               /\ \/ o \in ServerActive(AddressOf[d])
                  \/ \E j \in DOMAIN batch[d] :
                        batch[d][j].order = o /\ Unsettled(batch[d][j])
    <2>1. o \in Orders
      BY <1>3, DueIsOrders
    <2>2. o \in ServerActive(AddressOf[d])' \/ o \in Restored(d)'
      BY <1>3 DEF Due
    <2>3. o \in Restored(d)' => \E j \in DOMAIN batch[d] :
                                    batch[d][j].order = o /\ Unsettled(batch[d][j])
      BY <1>2 DEF Restored
    <2>. QED
      BY <1>1, <2>1, <2>2, <2>3, SameServer
  <1>5. Cardinality(P) <= Counts(d).workOrderCount
    BY <1>4, CountsCover
  <1>. QED
    BY <1>1, <1>3, <1>5 DEF Covered

LEMMA OwnStepKeepsCover ==
    ASSUME IndInv, AddedOnce, NEW d \in Tenants, Covered(d),
           DeviceStep(d) \/ QueueStep(d) \/ LoseAnswers(d)
    PROVE  Covered(d)'
  <1>1. ASSUME NEW i \in DOMAIN screens[d], NEW o \in Orders, SendButtonTapped(d, i, o)
        PROVE  Covered(d)'
    BY <1>1, SendKeepsCover
  <1>2. CASE Relaunch(d)
    BY <1>2, RelaunchKeepsCover
  <1>3. CASE QueueStep(d) \/ LoseAnswers(d)
    BY <1>3, CommitKeepsCover, AcknowledgeKeepsCover, FaultKeepsCover DEF QueueStep
  <1>4. CASE /\ DeviceStep(d) /\ ~Relaunch(d)
             /\ \A i \in DOMAIN screens[d] : \A o \in Orders : ~SendButtonTapped(d, i, o)
    BY <1>4, ScreensKeepCover DEF DeviceStep
  <1>. QED
    BY <1>1, <1>2, <1>3, <1>4

(* What others do to the server takes no order away that was not there, and    *)
(* adds none at the address of a tenant who lives alone.                       *)
LEMMA OthersUntouched ==
    ASSUME IndInv, NEW d \in Device, NEW e \in Device \ {d},
           DeviceStep(e) \/ QueueStep(e) \/ LoseAnswers(e)
    PROVE  /\ batch'[d] = batch[d] /\ dash'[d] = dash[d]
           /\ docs' = docs \/ \E j \in DOMAIN batch[e] : Commit(e, j)
  <1>. DEFINE OnlyOwn == /\ batch' = batch \/ \E q : batch' = [batch EXCEPT ![e] = q]
                         /\ dash' = dash \/ \E c : dash' = [dash EXCEPT ![e] = c]
              Quiet   == OnlyOwn /\ docs' = docs
  <1>1. ASSUME NEW i \in DOMAIN screens[e], ScreenStep(e, i)
        PROVE  Quiet
    <2>1. ASSUME NEW w \in WorkOrder, TapListRow(e, i, w) \/ OpenDetail(e, i, w)
          PROVE  Quiet
      BY <2>1 DEF TapListRow, OpenDetail, Push, serverVars
    <2>2. ASSUME NEW p \in Workers, SelectWorker(e, i, p) \/ DeselectWorker(e, i, p)
          PROVE  Quiet
      BY <2>2 DEF SelectWorker, DeselectWorker, serverVars
    <2>3. CASE FinishButtonTapped(e, i) \/ AddressLoaded(e, i)
      BY <2>3 DEF FinishButtonTapped, AddressLoaded, Enqueue, serverVars, appVars
    <2>4. ASSUME NEW o \in Orders, SendButtonTapped(e, i, o)
          PROVE  Quiet
      BY <2>4 DEF SendButtonTapped, Enqueue, serverVars, appVars
    <2>5. CASE \/ WorkOrderCompleteButtonTapped(e, i) \/ ConfirmCompletion(e, i)
               \/ CancelCompletion(e, i)
      BY <2>5 DEF WorkOrderCompleteButtonTapped, ConfirmCompletion, CancelCompletion, Enqueue,
                  serverVars
    <2>. QED
      BY <1>1, <2>1, <2>2, <2>3, <2>4, <2>5 DEF ScreenStep
  <1>2. ASSUME NEW p \in DOMAIN parses[e], NEW w \in WorkOrder, TenantRead(e, p, w)
        PROVE  Quiet
    BY <1>2 DEF TenantRead, Push, serverVars
  <1>3. ASSUME \/ \E q \in Query : TapDashboardRow(e, q)
               \/ \E k \in DOMAIN listener[e] : DashboardEvent(e, k)
        PROVE  Quiet
    BY <1>3 DEF TapDashboardRow, DashboardEvent, serverVars
  <1>4. ASSUME OpenComposer(e) \/ Back(e) \/ Relaunch(e) \/ LoseAnswers(e)
        PROVE  Quiet
    <2>1. CASE OpenComposer(e) \/ Back(e)
      BY <2>1 DEF OpenComposer, Back, Push, serverVars
    <2>2. CASE Relaunch(e)
      BY <2>2 DEF Relaunch, serverVars
    <2>3. CASE LoseAnswers(e)
      BY <2>3 DEF LoseAnswers, serverVars, appVars
    <2>. QED
      BY <1>4, <2>1, <2>2, <2>3
  <1>5. ASSUME NEW j \in DOMAIN batch[e], Reject(e, j)
        PROVE  Quiet
    BY <1>5 DEF Reject, serverVars, appVars
  <1>6. ASSUME NEW j \in DOMAIN batch[e], Acknowledge(e, j)
        PROVE  Quiet
    <2>1. docs' = docs /\ \E c : dash' = [dash EXCEPT ![e] = c]
      BY <1>6 DEF Acknowledge, serverVars
    <2>2. batch' = [batch EXCEPT ![e] = batch'[e]]
      BY <1>6, Answered
    <2>. QED
      BY <2>1, <2>2
  <1>7. ASSUME NEW j \in DOMAIN batch[e], Commit(e, j)
        PROVE  OnlyOwn
    <2>1. dash' = dash
      BY <1>7 DEF Commit, appVars
    <2>2. batch' = [batch EXCEPT ![e] = batch'[e]]
      BY <1>7, Answered
    <2>. QED
      BY <2>1, <2>2
  <1>. HIDE DEF OnlyOwn
  <1>8. OnlyOwn /\ (docs' = docs \/ \E j \in DOMAIN batch[e] : Commit(e, j))
    BY <1>1, <1>2, <1>3, <1>4, <1>5, <1>6, <1>7 DEF DeviceStep, QueueStep
  <1>. QED
    BY <1>8 DEF OnlyOwn, IndInv, TypeOK

LEMMA OthersKeepCover ==
    ASSUME IndInv, NEW d \in Tenants, LivesAlone(d), Covered(d), NEW e \in Device \ {d},
           DeviceStep(e) \/ QueueStep(e) \/ LoseAnswers(e)
    PROVE  Covered(d)'
  <1>. DEFINE a == AddressOf[d]
  <1>0. d \in Device /\ dash[d] \in [workOrderCount : Int, requestCount : Int]
    BY TenantFacts
  <1>1. /\ batch'[d] = batch[d] /\ dash'[d] = dash[d]
        /\ docs' = docs \/ \E j \in DOMAIN batch[e] : Commit(e, j)
    BY <1>0, OthersUntouched
  <1>2. ASSUME NEW j \in DOMAIN batch[e], Commit(e, j)
        PROVE  ServerActive(a)' \subseteq ServerActive(a)
    <2>1. PICK o \in Orders, N \in Document :
            /\ docs' = [docs EXCEPT ![o] = N]
            /\ \/ e \in Tenants /\ N.address = AddressOf[e]
               \/ docs[o] # None /\ N.active = docs[o].active /\ N.address = docs[o].address
               \/ ~N.active
      BY <1>2, CommitFacts
    <2>2. N.active /\ N.address = a =>
                docs[o] # None /\ docs[o].active /\ docs[o].address = a
      BY <2>1 DEF LivesAlone
    <2>3. ASSUME NEW p \in Orders, p # o
          PROVE  docs'[p] = docs[p]
      BY <2>1, <2>3
    <2>4. docs'[o] = N
      BY <2>1 DEF IndInv, TypeOK
    <2>. QED
      BY <2>2, <2>3, <2>4 DEF ServerActive
  <1>3. ServerActive(a)' \subseteq ServerActive(a)
    BY <1>1, <1>2, SameServer
  <1>4. Due(d)' \subseteq Due(d)
    BY <1>1, <1>3, DueKept
  <1>. QED
    BY <1>0, <1>1, <1>4, CoveredOn

LEMMA CoverStarts == Init => CoverInv
  <1>. SUFFICES ASSUME Init, NEW d \in Tenants
                PROVE  Covered(d)
    BY DEF CoverInv
  <1>1. IndInv /\ AddedOnce
    BY InitSound, KeptInit DEF KeptInv
  <1>2. d \in Device
    BY <1>1, TenantFacts
  <1>3. DOMAIN batch[d] = {} /\ dash[d] = Counts(d)
    BY <1>2 DEF Init
  <1>4. Due(d) \in SUBSET Orders /\ Due(d) \subseteq ServerActive(AddressOf[d])
    BY <1>3 DEF Due, ServerActive, Restored
  <1>5. Cardinality(Due(d)) <= Counts(d).workOrderCount
    BY <1>1, <1>4, CountsCover
  <1>. QED
    BY <1>3, <1>5 DEF Covered

LEMMA CoverGoesOn == IndInv /\ KeptInv /\ CoverInv /\ [Next]_vars => CoverInv'
  <1>. SUFFICES ASSUME IndInv, KeptInv, CoverInv, [Next]_vars, NEW d \in Tenants, LivesAlone(d)
                PROVE  Covered(d)'
    BY DEF CoverInv, LivesAlone
  <1>. DEFINE Steps(e) == DeviceStep(e) \/ QueueStep(e) \/ LoseAnswers(e)
  <1>1. UNCHANGED vars \/ \E e \in Device : Steps(e)
    BY DEF Next
  <1>2. Covered(d) /\ AddedOnce
    BY DEF CoverInv, KeptInv
  <1>3. CASE UNCHANGED vars
    <2>1. batch' = batch /\ docs' = docs /\ dash' = dash
      BY <1>3 DEF vars, serverVars, appVars
    <2>2. Due(d)' \subseteq Due(d)
      BY <2>1, SameServer, DueKept
    <2>. QED
      BY <1>2, <2>1, <2>2, TenantFacts, CoveredOn
  <1>4. CASE Steps(d)
    BY <1>2, <1>4, OwnStepKeepsCover
  <1>5. ASSUME NEW e \in Device \ {d}, Steps(e)
        PROVE  Covered(d)'
    BY <1>2, <1>5, OthersKeepCover
  <1>. HIDE DEF Steps
  <1>. QED
    BY <1>1, <1>3, <1>4, <1>5

LEMMA CoverCounts == IndInv /\ CoverInv => NeverUndercounts
  <1>. SUFFICES ASSUME IndInv, CoverInv, NEW d \in Tenants, LivesAlone(d)
                PROVE  Cardinality(ServerActive(AddressOf[d]) \ Unreported(d))
                           <= dash[d].workOrderCount
    BY DEF NeverUndercounts
  <1>. DEFINE S == ServerActive(AddressOf[d]) \ Unreported(d)
  <1>1. S \in SUBSET Due(d) /\ S \in SUBSET Orders /\ Due(d) \in SUBSET Orders
    BY DueIsOrders DEF Due
  <1>2. /\ Cardinality(S) <= Cardinality(Due(d))
        /\ Cardinality(S) \in Nat /\ Cardinality(Due(d)) \in Nat
    BY <1>1, OrdersFinite, FS_Subset
  <1>3. Cardinality(Due(d)) <= dash[d].workOrderCount
    BY DEF CoverInv, Covered
  <1>4. dash[d].workOrderCount \in Int
    BY TenantFacts
  <1>. QED
    BY <1>2, <1>3, <1>4

(* A tenant who shares the apartment with nobody never sees fewer active       *)
(* orders counted than the server has, but for those whose send handler in     *)
(* this session was not told that the order was added: an app that is          *)
(* relaunched with writes still queued counts them once, from the local copy,  *)
(* and a handler that survived counts its own.                                 *)
THEOREM TenantsNeverUndercount == Spec => []NeverUndercounts
  <1>1. Init => CoverInv
    BY CoverStarts
  <1>2. IndInv /\ KeptInv /\ CoverInv /\ [Next]_vars => CoverInv'
    BY CoverGoesOn
  <1>3. IndInv /\ CoverInv => NeverUndercounts
    BY CoverCounts
  <1>4. Spec => []IndInv /\ []KeptInv
    BY Invariant, OrdersAreKept
  <1>. QED
    BY <1>1, <1>2, <1>3, <1>4, PTL DEF Spec
==============================================================================
