--------------------------- MODULE LifecycleProofs ---------------------------
(* Proofs about WorkOrderLifecycle, for every set of devices and orders.      *)
EXTENDS WorkOrderLifecycle, SequenceTheorems, FiniteSetTheorems, TLAPS

(* Appending to a sequence of sound things. *)
LEMMA AppendSound ==
    ASSUME NEW S, NEW s \in Seq(S), NEW e \in S
    PROVE  /\ Append(s, e) \in Seq(S)
           /\ DOMAIN Append(s, e) = DOMAIN s \union {Len(s) + 1}
           /\ Append(s, e)[Len(s) + 1] = e
           /\ \A i \in DOMAIN s : Append(s, e)[i] = s[i]
           /\ Len(s) + 1 \notin DOMAIN s
           /\ \A i \in DOMAIN s : i \in Nat /\ i <= Len(s)
  <1>1. /\ Len(s) \in Nat
        /\ DOMAIN s = 1 .. Len(s)
    BY LenProperties
  <1>2. Append(s, e) \in Seq(S) /\ Len(Append(s, e)) = Len(s) + 1
    BY AppendProperties
  <1>3. DOMAIN Append(s, e) = 1 .. Len(s) + 1
    BY <1>2, LenProperties
  <1>4. /\ \A i \in 1 .. Len(s) : Append(s, e)[i] = s[i]
        /\ Append(s, e)[Len(s) + 1] = e
    BY AppendProperties
  <1>. QED
    BY <1>1, <1>2, <1>3, <1>4

(* Replacing one element of a sequence. *)
LEMMA ExceptSound ==
    ASSUME NEW S, NEW s \in Seq(S), NEW i \in DOMAIN s, NEW e \in S
    PROVE  /\ [s EXCEPT ![i] = e] \in Seq(S)
           /\ DOMAIN [s EXCEPT ![i] = e] = DOMAIN s
           /\ [s EXCEPT ![i] = e][i] = e
           /\ \A j \in DOMAIN s \ {i} : [s EXCEPT ![i] = e][j] = s[j]
  <1>1. DOMAIN s = 1 .. Len(s)
    BY LenProperties
  <1>2. [s EXCEPT ![i] = e] \in Seq(S)
    BY <1>1, ExceptSeq
  <1>. QED
    BY <1>1, <1>2

(* The elements of a sequence of sound things are sound. *)
LEMMA ElementSound ==
    ASSUME NEW S, NEW s \in Seq(S), NEW i \in DOMAIN s
    PROVE  s[i] \in S
  BY LenProperties, ElementOfSeq

(* What a device may have been shown depends on the server's documents only. *)
LEMMA SeenUnchanged ==
    ASSUME UNCHANGED serverVars, NEW d
    PROVE  /\ Seen(d)' = Seen(d)
           /\ SeenOrder(d)' = SeenOrder(d)
           /\ SoundParse(d)' = SoundParse(d)
           /\ SoundScreen(d)' = SoundScreen(d)
           /\ SoundBatch(d)' = SoundBatch(d)
  <1>1. Seen(d)' = Seen(d)
    BY DEF serverVars, Seen
  <1>. QED
    BY <1>1 DEF SoundScreen, SoundBatch, SoundParse, SeenOrder, SoundWrite

(* What is sound is well typed. *)
LEMMA SoundIsTyped ==
    ASSUME NEW d \in Device
    PROVE  /\ SeenOrder(d) \subseteq WorkOrder
           /\ SoundParse(d) \subseteq Parse
           /\ SoundScreen(d) \subseteq Screen
           /\ SoundBatch(d) \subseteq Batch
  <1>0. d \in Tenants => AddressOf[d] \in Addresses
    BY WorkOrderAssumption DEF WorkOrderAssumption
  <1>1. SeenOrder(d) \subseteq WorkOrder
    BY DEF SeenOrder, Seen, WorkOrder
  <1>2. SoundScreen(d) \subseteq Screen /\ SoundParse(d) \subseteq Parse
    BY <1>0, <1>1 DEF SoundScreen, SoundParse, Parse, Screen, ListScreen, DetailScreen,
                      UpdateScreen, Composer
  <1>3. SoundWrite(d) \subseteq Write
    BY <1>0 DEF SoundWrite, Write, Device
  <1>4. SoundBatch(d) \subseteq Batch
    BY <1>3 DEF SoundBatch, Batch, Seen
  <1>. QED
    BY <1>1, <1>2, <1>4

(* Each role makes one kind of write. *)
LEMMA WriteByRole ==
    /\ \A d \in Tenants : /\ SoundWrite(d) = [kind : {"create"}, address : {AddressOf[d]}]
                           /\ SoundWrite(d) \subseteq [kind : {"create"}, address : Addresses]
    /\ \A d \in Managers : SoundWrite(d) = [kind : {"review"}, staff : (SUBSET Workers) \ {{}}]
    /\ \A d \in Workers : SoundWrite(d) = [kind : {"complete"}]
  <1>1. \A d \in Tenants : AddressOf[d] \in Addresses
    BY WorkOrderAssumption DEF WorkOrderAssumption
  <1>. QED
    BY <1>1, WorkOrderAssumption DEF SoundWrite, WorkOrderAssumption

(* The parses of every dashboard, and the arrays they share, are sound. *)
SoundParses(calls, arrays) ==
    /\ calls \in [Device -> Seq(Parse)]
    /\ arrays \in [Device -> SUBSET WorkOrder]
    /\ \A e \in Device : calls[e] \in Seq(SoundParse(e)) /\ arrays[e] \subseteq SeenOrder(e)

LEMMA ParsesUntouched ==
    ASSUME IndInv, UNCHANGED parseVars
    PROVE  SoundParses(parses', workOrders')
  <1>1. parses' = parses /\ workOrders' = workOrders
    BY DEF parseVars
  <1>2. SoundParses(parses, workOrders)
    BY DEF IndInv, TypeOK, SoundParses
  <1>. QED
    BY <1>1, <1>2

(* The fields of the invariant that a step of device d starts from. *)
LEMMA DeviceFacts ==
    ASSUME IndInv, NEW d \in Device
    PROVE  /\ screens[d] \in Seq(SoundScreen(d))
           /\ batch[d] \in Seq(SoundBatch(d))
           /\ listener[d] \in Seq(Listener)
           /\ stack[d] \subseteq DOMAIN screens[d]
           /\ screens = [screens EXCEPT ![d] = screens[d]]
           /\ batch = [batch EXCEPT ![d] = batch[d]]
           /\ stack = [stack EXCEPT ![d] = stack[d]]
           /\ \A i \in DOMAIN screens[d] : screens[d][i] \in SoundScreen(d)
           /\ \A j \in DOMAIN batch[d] : batch[d][j] \in SoundBatch(d)
           /\ \A j \in DOMAIN batch[d] : batch[d][j].handler # 0 =>
                /\ batch[d][j].handler \in DOMAIN screens[d]
                /\ batch[d][j].write.kind = "review" =>
                      screens[d][batch[d][j].handler].kind = "detail"
  BY ElementSound DEF IndInv, TypeOK, SoundHandlers, Kind

(* A step of device d that leaves the server alone keeps the invariant if what *)
(* it puts on the device is sound.                                             *)
LEMMA LocalStep ==
    ASSUME IndInv, NEW d \in Device, UNCHANGED serverVars,
           screens' = [screens EXCEPT ![d] = screens'[d]],
           batch' = [batch EXCEPT ![d] = batch'[d]],
           stack' = [stack EXCEPT ![d] = stack'[d]],
           screens'[d] \in Seq(SoundScreen(d)),
           batch'[d] \in Seq(SoundBatch(d)),
           stack'[d] \subseteq DOMAIN screens'[d],
           listener' \in [Device -> Seq(Listener)],
           dash' \in [Device -> [workOrderCount : Int, requestCount : Int]],
           baseline' \in [Device -> [workOrderCount : Int, requestCount : Int]],
           SoundParses(parses', workOrders'),
           \A j \in DOMAIN batch'[d] : batch'[d][j].handler # 0 =>
                /\ batch'[d][j].handler \in DOMAIN screens'[d]
                /\ batch'[d][j].write.kind = "review" =>
                      screens'[d][batch'[d][j].handler].kind = "detail"
    PROVE  IndInv'
  <1>. DEFINE S == screens'[d]
              B == batch'[d]
              K == stack'[d]
  <1>1. S \in Seq(Screen) /\ B \in Seq(Batch)
    BY SoundIsTyped, SeqMonotonic
  <1>2. K \in SUBSET Nat
    <2>1. DOMAIN S = 1 .. Len(S) /\ Len(S) \in Nat
      BY LenProperties
    <2>. QED
      BY <2>1
  <1>. HIDE DEF S, B, K
  <1>3. /\ screens' = [screens EXCEPT ![d] = S]
        /\ batch' = [batch EXCEPT ![d] = B]
        /\ stack' = [stack EXCEPT ![d] = K]
        /\ S \in Seq(SoundScreen(d))
        /\ B \in Seq(SoundBatch(d))
        /\ K \subseteq DOMAIN S
        /\ \A j \in DOMAIN B : B[j].handler # 0 =>
              /\ B[j].handler \in DOMAIN S
              /\ B[j].write.kind = "review" => S[B[j].handler].kind = "detail"
    BY DEF S, B, K
  <1>0. parses' \in [Device -> Seq(Parse)] /\ workOrders' \in [Device -> SUBSET WorkOrder]
    BY DEF SoundParses
  <1>4. TypeOK'
    BY <1>0, <1>1, <1>2, <1>3 DEF IndInv, TypeOK, serverVars
  <1>9. ASSUME NEW e \in Device
        PROVE  parses'[e] \in Seq(SoundParse(e)') /\ workOrders'[e] \subseteq SeenOrder(e)'
    BY SeenUnchanged DEF SoundParses
  <1>5. ASSUME NEW e \in Device
        PROVE  screens'[e] \in Seq(SoundScreen(e)')
    BY <1>3, SeenUnchanged DEF IndInv, TypeOK
  <1>6. ASSUME NEW e \in Device
        PROVE  batch'[e] \in Seq(SoundBatch(e)')
    BY <1>3, SeenUnchanged DEF IndInv, TypeOK
  <1>7. SoundDocs'
    BY DEF IndInv, SoundDocs, serverVars
  <1>8. SoundHandlers'
    <2>1. /\ \A e \in Device \ {d} : screens'[e] = screens[e] /\ batch'[e] = batch[e]
          /\ screens'[d] = S /\ batch'[d] = B
      BY <1>3 DEF IndInv, TypeOK
    <2>2. ASSUME NEW e \in Device, NEW j \in DOMAIN batch'[e], batch'[e][j].handler # 0
          PROVE  /\ batch'[e][j].handler \in DOMAIN screens'[e]
                 /\ batch'[e][j].write.kind = "review" =>
                        screens'[e][batch'[e][j].handler].kind = "detail"
      <3>1. CASE e = d
        BY <1>3, <2>1, <2>2, <3>1
      <3>2. CASE e # d
        <4>1. screens'[e] = screens[e] /\ batch'[e] = batch[e]
          BY <2>1, <3>2
        <4>2. j \in DOMAIN batch[e] /\ batch[e][j].handler # 0
          BY <2>2, <4>1
        <4>3. /\ batch[e][j].handler \in DOMAIN screens[e]
              /\ batch[e][j].write.kind = "review" =>
                        screens[e][batch[e][j].handler].kind = "detail"
          BY <4>2, DeviceFacts
        <4>. QED
          BY <4>1, <4>3
      <3>. QED
        BY <3>1, <3>2
    <2>. QED
      BY <2>2 DEF SoundHandlers, Kind
  <1>. QED
    BY <1>4, <1>5, <1>6, <1>7, <1>8, <1>9 DEF IndInv

------------------------------------------------------------------------------
(* What a device's own view of an order is worth. *)
LEMMA LocalDocSound ==
    ASSUME IndInv, NEW d \in Device, NEW o \in Orders
    PROVE  /\ LocalDoc(d, o) \in Document \union {None}
           /\ \A q : Matches(d, q, LocalDoc(d, o)) => o \in Seen(d)
  <1>0. docs[o] \in Document \union {None}
    BY DEF IndInv, TypeOK
  <1>1. CASE LatestWrite(d, o) = {}
    <2>1. LocalDoc(d, o) = docs[o]
      BY <1>1 DEF LocalDoc
    <2>2. ASSUME NEW q, Matches(d, q, docs[o])
          PROVE  o \in Seen(d)
      <3>1. docs[o] # None /\ (d \in Workers => d \in docs[o].maintenance)
        BY <2>2 DEF Matches
      <3>2. docs[o].maintenance \subseteq everAssigned[o]
            /\ (docs[o].reviewed <=> docs[o].maintenance # {})
        BY <3>1 DEF IndInv, SoundDocs
      <3>. QED
        BY <3>1, <3>2 DEF Seen
    <2>. QED
      BY <1>0, <2>1, <2>2
  <1>2. CASE LatestWrite(d, o) # {}
    <2>. DEFINE i == CHOOSE i \in LatestWrite(d, o) : TRUE
                b == batch[d][i]
    <2>1. i \in DOMAIN batch[d] /\ b.order = o
      BY <1>2 DEF LatestWrite
    <2>2. b \in SoundBatch(d)
      BY <2>1, ElementSound DEF IndInv
    <2>3. o \in Seen(d) /\ b.write \in SoundWrite(d)
      BY <2>1, <2>2 DEF SoundBatch
    <2>4. Applied(b.write, docs[o]) \in Document
      <3>1. CASE d \in Tenants
        <4>1. b.write \in [kind : {"create"}, address : Addresses]
          BY <2>3, <3>1, WriteByRole
        <4>. QED
          BY <4>1 DEF Applied, NewDocument, Document
      <3>2. CASE d \in Managers
        <4>1. b.write \in [kind : {"review"}, staff : (SUBSET Workers) \ {{}}]
          BY <2>3, <3>2, WriteByRole
        <4>2. docs[o] \in Document
          BY <1>0, <2>3, <3>2 DEF Seen
        <4>. QED
          BY <4>1, <4>2 DEF Applied, Document
      <3>3. CASE d \in Workers
        <4>1. b.write \in [kind : {"complete"}]
          BY <2>3, <3>3, WriteByRole
        <4>2. docs[o] \in Document
          BY <1>0, <2>3, <3>3 DEF Seen
        <4>. QED
          BY <4>1, <4>2 DEF Applied, Document
      <3>. QED
        BY <3>1, <3>2, <3>3 DEF Device
    <2>5. LocalDoc(d, o) = Applied(b.write, docs[o])
      BY <1>2 DEF LocalDoc
    <2>. QED
      BY <2>3, <2>4, <2>5
  <1>. QED
    BY <1>1, <1>2

(* There are finitely many orders, so a query has finitely many results. *)
LEMMA QueryResultFinite ==
    ASSUME NEW d, NEW q
    PROVE  IsFiniteSet(QueryResult(d, q))
  <1>. DEFINE M == {o \in Orders : Matches(d, q, LocalDoc(d, o))}
              f == [o \in M |-> [id |-> o, data |-> LocalDoc(d, o)]]
  <1>1. QueryResult(d, q) = {[id |-> o, data |-> LocalDoc(d, o)] : o \in M}
    BY DEF QueryResult
  <1>2. IsFiniteSet(M)
    BY FS_Subset, WorkOrderAssumption DEF WorkOrderAssumption
  <1>3. f \in Surjection(M, QueryResult(d, q))
    BY <1>1 DEF Surjection
  <1>. QED
    BY <1>2, <1>3, FS_Surjection

(* The dashboard opens with numbers. *)
LEMMA CountsTyped ==
    ASSUME NEW d \in Device
    PROVE  Counts(d) \in [workOrderCount : Int, requestCount : Int]
  <1>1. \A q : Cardinality(QueryResult(d, q)) \in Nat
    BY QueryResultFinite, FS_CardinalityType
  <1>. QED
    BY <1>1 DEF Counts

(* A query shows a device only orders it may see. *)
LEMMA QueryResultSound ==
    ASSUME IndInv, NEW d \in Device, NEW q
    PROVE  /\ QueryResult(d, q) \in Snapshot
           /\ \A r \in QueryResult(d, q) : r.id \in Seen(d) /\ r.data \in Document
  <1>. DEFINE M == {o \in Orders : Matches(d, q, LocalDoc(d, o))}
  <1>1. QueryResult(d, q) = {[id |-> o, data |-> LocalDoc(d, o)] : o \in M}
    BY DEF QueryResult
  <1>2. \A o \in M : o \in Seen(d) /\ LocalDoc(d, o) \in Document
    BY LocalDocSound DEF Matches
  <1>3. \A r \in QueryResult(d, q) : r.id \in Seen(d) /\ r.data \in Document
                                     /\ r \in [id : Orders, data : Document]
    BY <1>1, <1>2 DEF Seen
  <1>. QED
    BY <1>3 DEF Snapshot

(* Hiding a screen leaves the dashboard's counts numbers. *)
LEMMA DisappearTyped ==
    ASSUME NEW d, NEW shown, NEW c \in [workOrderCount : Int, requestCount : Int]
    PROVE  WhenTopDisappears(d, shown, c) \in [workOrderCount : Int, requestCount : Int]
  BY DEF WhenTopDisappears, RequestCountChanged

(* Most steps of a screen only change the screen. *)
LEMMA ScreenOnly ==
    ASSUME IndInv, NEW d \in Device, NEW i \in DOMAIN screens[d], NEW s \in SoundScreen(d),
           s.kind = screens[d][i].kind,
           screens' = [screens EXCEPT ![d] = [screens[d] EXCEPT ![i] = s]],
           UNCHANGED <<serverVars, batch, listener, parseVars, stack, dash, baseline>>
    PROVE  IndInv'
  <1>1. screens'[d] = [screens[d] EXCEPT ![i] = s]
    BY DEF IndInv, TypeOK
  <1>2. /\ screens'[d] \in Seq(SoundScreen(d))
        /\ DOMAIN screens'[d] = DOMAIN screens[d]
        /\ \A k \in DOMAIN screens[d] : screens'[d][k].kind = screens[d][k].kind
    BY <1>1, DeviceFacts, ExceptSound
  <1>4. /\ listener' \in [Device -> Seq(Listener)]
        /\ dash' \in [Device -> [workOrderCount : Int, requestCount : Int]]
        /\ baseline' \in [Device -> [workOrderCount : Int, requestCount : Int]]
        /\ UNCHANGED serverVars
        /\ SoundParses(parses', workOrders')
    BY ParsesUntouched DEF IndInv, TypeOK
  <1>5. /\ screens' = [screens EXCEPT ![d] = screens'[d]]
        /\ batch' = [batch EXCEPT ![d] = batch'[d]]
        /\ stack' = [stack EXCEPT ![d] = stack'[d]]
        /\ batch'[d] = batch[d]
        /\ stack'[d] = stack[d]
    BY <1>1, DeviceFacts
  <1>6. /\ batch'[d] \in Seq(SoundBatch(d))
        /\ stack'[d] \subseteq DOMAIN screens'[d]
        /\ \A j \in DOMAIN batch'[d] : batch'[d][j].handler # 0 =>
                /\ batch'[d][j].handler \in DOMAIN screens'[d]
                /\ batch'[d][j].write.kind = "review" =>
                      screens'[d][batch'[d][j].handler].kind = "detail"
    BY <1>2, <1>5, DeviceFacts
  <1>. QED
    BY <1>2, <1>4, <1>5, <1>6, LocalStep

(* Steps that push a screen, after changing no screen's kind. *)
LEMMA PushStep ==
    ASSUME IndInv, NEW d \in Device, NEW old \in Seq(SoundScreen(d)), NEW new \in SoundScreen(d),
           DOMAIN old = DOMAIN screens[d],
           \A k \in DOMAIN screens[d] : old[k].kind = screens[d][k].kind,
           Push(d, old, new),
           listener' \in [Device -> Seq(Listener)],
           SoundParses(parses', workOrders'),
           UNCHANGED <<serverVars, batch, baseline>>
    PROVE  IndInv'
  <1>1. screens' = [screens EXCEPT ![d] = Append(old, new)] /\ screens'[d] = Append(old, new)
    BY DEF Push, IndInv, TypeOK
  <1>2. /\ screens'[d] \in Seq(SoundScreen(d))
        /\ DOMAIN screens'[d] = DOMAIN screens[d] \union {Len(old) + 1}
        /\ \A k \in DOMAIN screens[d] : screens'[d][k].kind = screens[d][k].kind
    BY <1>1, AppendSound
  <1>3. stack'[d] = stack[d] \union {Len(old) + 1} /\ stack' = [stack EXCEPT ![d] = stack'[d]]
    BY DEF Push, IndInv, TypeOK
  <1>4. /\ dash' \in [Device -> [workOrderCount : Int, requestCount : Int]]
        /\ baseline' \in [Device -> [workOrderCount : Int, requestCount : Int]]
        /\ UNCHANGED serverVars
    BY DisappearTyped DEF Push, IndInv, TypeOK
  <1>6. batch' = [batch EXCEPT ![d] = batch'[d]] /\ batch'[d] = batch[d]
    BY DeviceFacts
  <1>7. batch'[d] \in Seq(SoundBatch(d)) /\ stack[d] \subseteq DOMAIN screens[d]
    BY <1>6, DeviceFacts
  <1>8. stack'[d] \subseteq DOMAIN screens'[d]
    BY <1>2, <1>3, <1>7
  <1>9. ASSUME NEW j \in DOMAIN batch'[d], batch'[d][j].handler # 0
        PROVE  /\ batch'[d][j].handler \in DOMAIN screens'[d]
               /\ batch'[d][j].write.kind = "review" =>
                      screens'[d][batch'[d][j].handler].kind = "detail"
    <2>1. /\ batch[d][j].handler \in DOMAIN screens[d]
          /\ batch[d][j].write.kind = "review" => screens[d][batch[d][j].handler].kind = "detail"
      BY <1>6, <1>9, DeviceFacts
    <2>. QED
      BY <1>2, <1>6, <2>1
  <1>. QED
    BY <1>1, <1>2, <1>3, <1>4, <1>6, <1>7, <1>8, <1>9, LocalStep

(* Steps that queue a write, and change at most fields of existing screens. *)
LEMMA EnqueueStep ==
    ASSUME IndInv, NEW d \in Device, NEW i \in DOMAIN screens[d], NEW o \in Seen(d),
           NEW write \in SoundWrite(d),
           write.kind = "review" => screens[d][i].kind = "detail",
           Enqueue(d, i, o, write),
           screens' = [screens EXCEPT ![d] = screens'[d]],
           screens'[d] \in Seq(SoundScreen(d)),
           DOMAIN screens'[d] = DOMAIN screens[d],
           \A k \in DOMAIN screens[d] : screens'[d][k].kind = screens[d][k].kind,
           UNCHANGED <<serverVars, listener, parseVars, stack, dash, baseline>>
    PROVE  IndInv'
  <1>. DEFINE new == [order |-> o, write |-> write, handler |-> i, state |-> "pending"]
  <1>1. i \in Nat
    BY DeviceFacts, LenProperties
  <1>2. new \in SoundBatch(d)
    BY <1>1 DEF SoundBatch, BatchState
  <1>. HIDE DEF new
  <1>3. batch' = [batch EXCEPT ![d] = Append(batch[d], new)] /\ batch'[d] = Append(batch[d], new)
    BY DEF Enqueue, new, IndInv, TypeOK
  <1>4. /\ batch'[d] \in Seq(SoundBatch(d))
        /\ DOMAIN batch'[d] = DOMAIN batch[d] \union {Len(batch[d]) + 1}
        /\ batch'[d][Len(batch[d]) + 1] = new
        /\ \A j \in DOMAIN batch[d] : batch'[d][j] = batch[d][j]
        /\ \A e \in Device \ {d} : batch'[e] = batch[e]
    <2>1. batch[d] \in Seq(SoundBatch(d))
      BY DeviceFacts
    <2>2. \A e \in Device \ {d} : batch'[e] = batch[e]
      BY <1>3 DEF IndInv, TypeOK
    <2>. QED
      BY <1>2, <1>3, <2>1, <2>2, AppendSound
  <1>5. ASSUME NEW j \in DOMAIN batch'[d], batch'[d][j].handler # 0
        PROVE  /\ batch'[d][j].handler \in DOMAIN screens'[d]
               /\ batch'[d][j].write.kind = "review" =>
                      screens'[d][batch'[d][j].handler].kind = "detail"
    <2>1. CASE j \in DOMAIN batch[d]
      <3>1. /\ batch[d][j].handler \in DOMAIN screens[d]
            /\ batch[d][j].write.kind = "review" => screens[d][batch[d][j].handler].kind = "detail"
        BY <1>4, <1>5, <2>1, DeviceFacts
      <3>. QED
        BY <1>4, <2>1, <3>1
    <2>2. CASE j \notin DOMAIN batch[d]
      <3>1. batch'[d][j] = new
        BY <1>4, <1>5, <2>2
      <3>. QED
        BY <3>1 DEF new
    <2>. QED
      BY <2>1, <2>2
  <1>7. /\ listener' \in [Device -> Seq(Listener)]
        /\ dash' \in [Device -> [workOrderCount : Int, requestCount : Int]]
        /\ baseline' \in [Device -> [workOrderCount : Int, requestCount : Int]]
        /\ UNCHANGED serverVars
        /\ SoundParses(parses', workOrders')
    BY ParsesUntouched DEF IndInv, TypeOK
  <1>8. /\ batch' = [batch EXCEPT ![d] = batch'[d]]
        /\ stack' = [stack EXCEPT ![d] = stack'[d]]
        /\ stack'[d] \subseteq DOMAIN screens'[d]
    BY <1>3, DeviceFacts
  <1>. QED
    BY <1>4, <1>5, <1>7, <1>8, LocalStep

------------------------------------------------------------------------------
(* The app's own steps. *)

(* A device's parses are replaced by sound ones. *)
LEMMA ParsesOfOne ==
    ASSUME IndInv, NEW d \in Device, NEW P \in Seq(SoundParse(d)), NEW W \in SUBSET SeenOrder(d)
    PROVE  SoundParses([parses EXCEPT ![d] = P], [workOrders EXCEPT ![d] = W])
  <1>1. P \in Seq(Parse) /\ W \in SUBSET WorkOrder
    BY SoundIsTyped, SeqMonotonic
  <1>2. /\ parses \in [Device -> Seq(Parse)]
        /\ workOrders \in [Device -> SUBSET WorkOrder]
        /\ \A e \in Device : parses[e] \in Seq(SoundParse(e)) /\ workOrders[e] \subseteq SeenOrder(e)
    BY DEF IndInv, TypeOK
  <1>. DEFINE Q == [parses EXCEPT ![d] = P]
              V == [workOrders EXCEPT ![d] = W]
  <1>3. /\ Q \in [Device -> Seq(Parse)] /\ V \in [Device -> SUBSET WorkOrder]
        /\ Q[d] = P /\ V[d] = W
        /\ \A e \in Device \ {d} : Q[e] = parses[e] /\ V[e] = workOrders[e]
    BY <1>1, <1>2
  <1>. HIDE DEF Q, V
  <1>4. \A e \in Device : Q[e] \in Seq(SoundParse(e)) /\ V[e] \subseteq SeenOrder(e)
    BY <1>2, <1>3
  <1>5. SoundParses(Q, V)
    BY <1>3, <1>4 DEF SoundParses
  <1>. QED
    BY <1>5 DEF Q, V

(* Steps of the dashboard that push nothing. *)
LEMMA DashboardStep ==
    ASSUME IndInv, listener' \in [Device -> Seq(Listener)], SoundParses(parses', workOrders'),
           UNCHANGED <<serverVars, batch, screens, stack, dash, baseline>>
    PROVE  IndInv'
  <1>1. parses' \in [Device -> Seq(Parse)] /\ workOrders' \in [Device -> SUBSET WorkOrder]
    BY DEF SoundParses
  <1>2. TypeOK'
    BY <1>1 DEF IndInv, TypeOK, serverVars
  <1>3. ASSUME NEW e \in Device
        PROVE  /\ screens'[e] \in Seq(SoundScreen(e)')
               /\ batch'[e] \in Seq(SoundBatch(e)')
               /\ parses'[e] \in Seq(SoundParse(e)')
               /\ workOrders'[e] \subseteq SeenOrder(e)'
    BY SeenUnchanged DEF IndInv, SoundParses
  <1>4. SoundDocs' /\ SoundHandlers'
    BY DEF IndInv, SoundDocs, SoundHandlers, Kind, serverVars
  <1>. QED
    BY <1>2, <1>3, <1>4 DEF IndInv
LEMMA TapDashboardRowSound ==
    ASSUME IndInv, NEW d \in Device, NEW q \in Query, TapDashboardRow(d, q)
    PROVE  IndInv'
  <1>1. [query |-> q, delivered |-> None] \in Listener
    BY DEF Listener
  <1>2. Append(listener[d], [query |-> q, delivered |-> None]) \in Seq(Listener)
    BY <1>1, DeviceFacts, AppendSound
  <1>3. listener' \in [Device -> Seq(Listener)]
    BY <1>2 DEF TapDashboardRow, IndInv, TypeOK
  <1>4. UNCHANGED <<serverVars, batch, parseVars, screens, stack, dash, baseline>>
    BY DEF TapDashboardRow
  <1>. QED
    BY <1>3, <1>4, ParsesUntouched, DashboardStep

(* An event starts a parse of orders the device may see. *)
LEMMA DashboardEventSound ==
    ASSUME IndInv, NEW d \in Device, NEW k \in DOMAIN listener[d], DashboardEvent(d, k)
    PROVE  IndInv'
  <1>. DEFINE result == QueryResult(d, listener[d][k].query)
              rows   == {[id |-> r.id, reviewed |-> r.data.reviewed] : r \in result}
              parse  == [rows |-> rows, count |-> 0]
  <1>1. result \in Snapshot /\ \A r \in result : r.id \in Seen(d) /\ r.data \in Document
    BY QueryResultSound
  <1>2. parse \in SoundParse(d)
    <2>1. rows \subseteq SeenOrder(d)
      BY <1>1 DEF SeenOrder, Document
    <2>. QED
      BY <2>1 DEF SoundParse
  <1>3. listener' \in [Device -> Seq(Listener)]
    <2>1. listener[d] \in Seq(Listener) /\ listener[d][k] \in Listener
      BY DeviceFacts, ElementSound
    <2>2. [listener[d][k] EXCEPT !.delivered = result] \in Listener
      BY <1>1, <2>1 DEF Listener
    <2>3. [listener[d] EXCEPT ![k] = [listener[d][k] EXCEPT !.delivered = result]] \in Seq(Listener)
      BY <2>1, <2>2, ExceptSound
    <2>4. listener' = [listener EXCEPT ![d] =
                         [listener[d] EXCEPT ![k] = [listener[d][k] EXCEPT !.delivered = result]]]
      BY DEF DashboardEvent
    <2>. QED
      BY <2>3, <2>4 DEF IndInv, TypeOK
  <1>4. UNCHANGED <<serverVars, batch, screens, stack, dash, baseline>>
    BY DEF DashboardEvent
  <1>5. \/ UNCHANGED parseVars
        \/ /\ parses' = [parses EXCEPT ![d] = Append(@, parse)]
           /\ workOrders' = [workOrders EXCEPT ![d] = {}]
    BY DEF DashboardEvent
  <1>. HIDE DEF parse
  <1>6. SoundParses(parses', workOrders')
    <2>1. parses[d] \in Seq(SoundParse(d))
      BY DEF IndInv
    <2>2. Append(parses[d], parse) \in Seq(SoundParse(d))
      BY <1>2, <2>1, AppendSound
    <2>. QED
      <3>1. CASE UNCHANGED parseVars
        BY <3>1, ParsesUntouched
      <3>2. CASE /\ parses' = [parses EXCEPT ![d] = Append(@, parse)]
                 /\ workOrders' = [workOrders EXCEPT ![d] = {}]
        <4>1. parses' = [parses EXCEPT ![d] = Append(parses[d], parse)]
          BY <3>2
        <4>2. {} \in SUBSET SeenOrder(d)
          OBVIOUS
        <4>. QED
          BY <2>2, <3>2, <4>1, <4>2, ParsesOfOne
      <3>. QED
        BY <1>5, <3>1, <3>2
  <1>. QED
    BY <1>3, <1>4, <1>6, DashboardStep

(* The list that the last answer of a parse pushes holds what the parses since *)
(* the last event have put into the array: orders the device may see.          *)
LEMMA TenantReadSound ==
    ASSUME IndInv, NEW d \in Device, NEW p \in DOMAIN parses[d], NEW w \in WorkOrder,
           TenantRead(d, p, w)
    PROVE  IndInv'
  <1>. DEFINE parse == parses[d][p]
              array == workOrders[d] \union {w}
              count == IF parse.count < Cardinality(parse.rows) THEN parse.count + 1
                       ELSE parse.count
              P     == [parses[d] EXCEPT ![p] = [parse EXCEPT !.count = count]]
              new   == [kind |-> "list", rows |-> array, tapped |-> {}]
  <1>1. parses[d] \in Seq(SoundParse(d)) /\ workOrders[d] \subseteq SeenOrder(d)
    BY DEF IndInv
  <1>2. parse \in SoundParse(d)
    BY <1>1, ElementSound
  <1>3. w \in SeenOrder(d) /\ [parse EXCEPT !.count = count] \in SoundParse(d)
    BY <1>2 DEF TenantRead, SoundParse
  <1>4. P \in Seq(SoundParse(d))
    BY <1>1, <1>3, ExceptSound
  <1>5. array \subseteq SeenOrder(d)
    BY <1>1, <1>3
  <1>6. new \in SoundScreen(d)
    BY <1>5 DEF SoundScreen
  <1>7. /\ parses' = [parses EXCEPT ![d] = P]
        /\ workOrders' = [workOrders EXCEPT ![d] = array]
        /\ UNCHANGED <<serverVars, batch, listener, baseline>>
        /\ Push(d, screens[d], new) \/ UNCHANGED <<screens, stack, dash>>
    BY DEF TenantRead
  <1>8. listener' \in [Device -> Seq(Listener)] /\ screens[d] \in Seq(SoundScreen(d))
    BY <1>7, DeviceFacts DEF IndInv, TypeOK
  <1>. HIDE DEF P, array, new
  <1>9. SoundParses(parses', workOrders')
    BY <1>4, <1>5, <1>7, ParsesOfOne
  <1>10. CASE Push(d, screens[d], new)
    BY <1>6, <1>7, <1>8, <1>9, <1>10, PushStep
  <1>11. CASE UNCHANGED <<screens, stack, dash>>
    BY <1>7, <1>8, <1>9, <1>11, DashboardStep
  <1>. QED
    BY <1>7, <1>10, <1>11

(* A tapped row is one of the list's rows. *)
LEMMA TapListRowSound ==
    ASSUME IndInv, NEW d \in Device, NEW i \in DOMAIN screens[d], NEW w \in WorkOrder,
           TapListRow(d, i, w)
    PROVE  IndInv'
  <1>. DEFINE s == [screens[d][i] EXCEPT !.tapped = @ \union {w}]
  <1>1. screens[d][i] \in SoundScreen(d) /\ screens[d][i].kind = "list" /\ w \in screens[d][i].rows
    BY DeviceFacts DEF TapListRow, Kind
  <1>2. screens[d][i] \in
          [kind : {"list"}, rows : SUBSET SeenOrder(d), tapped : SUBSET SeenOrder(d)]
    BY <1>1 DEF SoundScreen
  <1>3. s \in SoundScreen(d) /\ s.kind = screens[d][i].kind
    BY <1>1, <1>2 DEF SoundScreen
  <1>4. screens' = [screens EXCEPT ![d] = [screens[d] EXCEPT ![i] = s]]
    BY DEF TapListRow
  <1>5. UNCHANGED <<serverVars, batch, listener, parseVars, stack, dash, baseline>>
    BY DEF TapListRow
  <1>. HIDE DEF s
  <1>. QED
    BY <1>3, <1>4, <1>5, ScreenOnly

(* The screen opened from a row is about the row's order. *)
LEMMA OpenDetailSound ==
    ASSUME IndInv, NEW d \in Device, NEW i \in DOMAIN screens[d], NEW w \in WorkOrder,
           OpenDetail(d, i, w)
    PROVE  IndInv'
  <1>. DEFINE s      == [screens[d][i] EXCEPT !.tapped = @ \ {w}]
              opened == [screens[d] EXCEPT ![i] = s]
              new    == IF d \in Workers
                        THEN [kind |-> "update", workOrder |-> w, asking |-> FALSE]
                        ELSE [kind |-> "detail", workOrder |-> w, selected |-> {},
                              addMaintenance |-> FALSE]
  <1>1. screens[d][i] \in SoundScreen(d) /\ screens[d][i].kind = "list" /\ w \in screens[d][i].tapped
    BY DeviceFacts DEF OpenDetail, Kind
  <1>2. screens[d][i] \in
          [kind : {"list"}, rows : SUBSET SeenOrder(d), tapped : SUBSET SeenOrder(d)]
    BY <1>1 DEF SoundScreen
  <1>3. s \in SoundScreen(d) /\ s.kind = screens[d][i].kind
    BY <1>1, <1>2 DEF SoundScreen
  <1>4. new \in SoundScreen(d)
    <2>1. w \in SeenOrder(d)
      BY <1>1, <1>2
    <2>. QED
      BY <2>1 DEF SoundScreen
  <1>5. UNCHANGED <<serverVars, batch, listener, parseVars, baseline>>
    BY DEF OpenDetail
  <1>6. \/ Push(d, opened, new)
        \/ screens' = [screens EXCEPT ![d] = opened] /\ UNCHANGED <<stack, dash>>
    BY DEF OpenDetail
  <1>. HIDE DEF s
  <1>7. CASE screens' = [screens EXCEPT ![d] = opened] /\ UNCHANGED <<stack, dash>>
    BY <1>3, <1>5, <1>7, ScreenOnly
  <1>8. CASE Push(d, opened, new)
    <2>1. /\ opened \in Seq(SoundScreen(d))
          /\ DOMAIN opened = DOMAIN screens[d]
          /\ \A k \in DOMAIN screens[d] : opened[k].kind = screens[d][k].kind
      BY <1>3, DeviceFacts, ExceptSound
    <2>2. listener' \in [Device -> Seq(Listener)] /\ SoundParses(parses', workOrders')
      BY <1>5, ParsesUntouched DEF IndInv, TypeOK
    <2>. HIDE DEF opened, new
    <2>. QED
      BY <1>4, <1>5, <1>8, <2>1, <2>2, PushStep
  <1>. QED
    BY <1>6, <1>7, <1>8

(* Only management's screens get staff selected. *)
LEMMA SelectionSound ==
    ASSUME IndInv, NEW d \in Device, NEW i \in DOMAIN screens[d], NEW p \in Workers,
           SelectWorker(d, i, p) \/ DeselectWorker(d, i, p)
    PROVE  IndInv'
  <1>. DEFINE t      == screens[d][i]
              chosen == IF SelectWorker(d, i, p) THEN t.selected \union {p} ELSE t.selected \ {p}
              s      == [t EXCEPT !.selected = chosen]
  <1>1. t \in SoundScreen(d) /\ t.kind = "detail"
    BY DeviceFacts DEF SelectWorker, DeselectWorker, Kind
  <1>2. t \in [kind : {"detail"}, workOrder : SeenOrder(d),
               selected : IF d \in Managers THEN SUBSET Workers ELSE {{}},
               addMaintenance : BOOLEAN]
        /\ d \notin Workers
    BY <1>1 DEF SoundScreen
  <1>3. chosen \in IF d \in Managers THEN SUBSET Workers ELSE {{}}
    BY <1>2 DEF SelectWorker, DeselectWorker
  <1>. HIDE DEF chosen
  <1>4. s \in SoundScreen(d) /\ s.kind = t.kind
    BY <1>2, <1>3 DEF SoundScreen
  <1>5. screens' = [screens EXCEPT ![d] = [screens[d] EXCEPT ![i] = s]]
    BY DEF SelectWorker, DeselectWorker, chosen
  <1>6. UNCHANGED <<serverVars, batch, listener, parseVars, stack, dash, baseline>>
    BY DEF SelectWorker, DeselectWorker
  <1>. HIDE DEF s
  <1>. QED
    BY <1>4, <1>5, <1>6, ScreenOnly

(* A review is queued with the staff selected, of an order that was shown. *)
LEMMA FinishButtonTappedSound ==
    ASSUME IndInv, NEW d \in Device, NEW i \in DOMAIN screens[d], FinishButtonTapped(d, i)
    PROVE  IndInv'
  <1>. DEFINE t     == screens[d][i]
              write == [kind |-> "review", staff |-> t.selected]
              o     == t.workOrder.id
  <1>1. t \in SoundScreen(d) /\ t.kind = "detail" /\ t.selected # {}
    BY DeviceFacts DEF FinishButtonTapped, Kind
  <1>2. t \in [kind : {"detail"}, workOrder : SeenOrder(d),
               selected : IF d \in Managers THEN SUBSET Workers ELSE {{}},
               addMaintenance : BOOLEAN]
    BY <1>1 DEF SoundScreen
  <1>3. d \in Managers /\ t.selected \in (SUBSET Workers) \ {{}}
    BY <1>1, <1>2
  <1>4. o \in Seen(d)
    BY <1>2 DEF SeenOrder
  <1>5. write \in SoundWrite(d)
    BY <1>3, WriteByRole
  <1>7. Enqueue(d, i, o, write) /\ UNCHANGED <<serverVars, listener, parseVars, screens, stack, dash, baseline>>
    BY DEF FinishButtonTapped, appVars
  <1>8. /\ screens' = [screens EXCEPT ![d] = screens'[d]]
        /\ screens'[d] \in Seq(SoundScreen(d))
        /\ DOMAIN screens'[d] = DOMAIN screens[d]
        /\ \A k \in DOMAIN screens[d] : screens'[d][k].kind = screens[d][k].kind
    BY <1>7, DeviceFacts
  <1>. HIDE DEF write, o
  <1>. QED
    BY <1>1, <1>4, <1>5, <1>7, <1>8, EnqueueStep

(* Only tenants open the composer. *)
LEMMA OpenComposerSound ==
    ASSUME IndInv, NEW d \in Device, OpenComposer(d)
    PROVE  IndInv'
  <1>. DEFINE new == [kind |-> "compose", address |-> None]
  <1>1. new \in SoundScreen(d) /\ Push(d, screens[d], new)
    BY DEF OpenComposer, SoundScreen
  <1>2. UNCHANGED <<serverVars, batch, listener, parseVars, baseline>>
    BY DEF OpenComposer
  <1>3. /\ screens[d] \in Seq(SoundScreen(d))
        /\ listener' \in [Device -> Seq(Listener)]
        /\ SoundParses(parses', workOrders')
    BY <1>2, DeviceFacts, ParsesUntouched DEF IndInv, TypeOK
  <1>. HIDE DEF new
  <1>. QED
    BY <1>1, <1>2, <1>3, PushStep

(* The composer gets its tenant's apartment. *)
LEMMA AddressLoadedSound ==
    ASSUME IndInv, NEW d \in Device, NEW i \in DOMAIN screens[d], AddressLoaded(d, i)
    PROVE  IndInv'
  <1>. DEFINE s == [screens[d][i] EXCEPT !.address = AddressOf[d]]
  <1>1. screens[d][i] \in SoundScreen(d) /\ screens[d][i].kind = "compose"
    BY DeviceFacts DEF AddressLoaded, Kind
  <1>2. d \in Tenants /\ screens[d][i] \in [kind : {"compose"}, address : {AddressOf[d], None}]
    BY <1>1 DEF SoundScreen
  <1>4. s \in SoundScreen(d) /\ s.kind = screens[d][i].kind
    BY <1>1, <1>2 DEF SoundScreen
  <1>5. screens' = [screens EXCEPT ![d] = [screens[d] EXCEPT ![i] = s]]
        /\ UNCHANGED <<serverVars, batch, listener, parseVars, stack, dash, baseline>>
    BY DEF AddressLoaded
  <1>. HIDE DEF s
  <1>. QED
    BY <1>4, <1>5, ScreenOnly

(* A new order is queued under an id that nothing else writes. *)
LEMMA SendButtonTappedSound ==
    ASSUME IndInv, NEW d \in Device, NEW i \in DOMAIN screens[d], NEW o \in Orders,
           SendButtonTapped(d, i, o)
    PROVE  IndInv'
  <1>. DEFINE t     == screens[d][i]
              write == [kind |-> "create", address |-> t.address]
  <1>1. t \in SoundScreen(d) /\ t.kind = "compose" /\ t.address # None
    BY DeviceFacts DEF SendButtonTapped, Kind
  <1>2. d \in Tenants /\ t.address = AddressOf[d]
    BY <1>1 DEF SoundScreen
  <1>3. o \in Seen(d)
    BY <1>2, WorkOrderAssumption DEF Seen, WorkOrderAssumption
  <1>4. write \in SoundWrite(d) /\ write.kind # "review"
    BY <1>2, WriteByRole
  <1>5. Enqueue(d, i, o, write) /\ UNCHANGED <<serverVars, listener, parseVars, screens, stack, dash, baseline>>
    BY DEF SendButtonTapped, appVars
  <1>6. /\ screens' = [screens EXCEPT ![d] = screens'[d]]
        /\ screens'[d] \in Seq(SoundScreen(d))
        /\ DOMAIN screens'[d] = DOMAIN screens[d]
        /\ \A k \in DOMAIN screens[d] : screens'[d][k].kind = screens[d][k].kind
    BY <1>5, DeviceFacts
  <1>. HIDE DEF write
  <1>. QED
    BY <1>3, <1>4, <1>5, <1>6, EnqueueStep

(* Asking, confirming and cancelling change the alert; confirming also writes. *)
LEMMA CompletionSound ==
    ASSUME IndInv, NEW d \in Device, NEW i \in DOMAIN screens[d],
           \/ WorkOrderCompleteButtonTapped(d, i)
           \/ ConfirmCompletion(d, i)
           \/ CancelCompletion(d, i)
    PROVE  IndInv'
  <1>. DEFINE t     == screens[d][i]
              write == [kind |-> "complete"]
              o     == t.workOrder.id
  <1>1. t \in SoundScreen(d) /\ t.kind = "update"
    BY DeviceFacts DEF WorkOrderCompleteButtonTapped, ConfirmCompletion, CancelCompletion, Kind
  <1>2. d \in Workers /\ t \in [kind : {"update"}, workOrder : SeenOrder(d), asking : BOOLEAN]
    BY <1>1 DEF SoundScreen
  <1>3. \A a \in BOOLEAN : [t EXCEPT !.asking = a] \in SoundScreen(d)
                           /\ [t EXCEPT !.asking = a].kind = t.kind
    BY <1>2 DEF SoundScreen
  <1>4. CASE WorkOrderCompleteButtonTapped(d, i)
    <2>1. screens' = [screens EXCEPT ![d] = [screens[d] EXCEPT ![i] = [t EXCEPT !.asking = TRUE]]]
          /\ UNCHANGED <<serverVars, batch, listener, parseVars, stack, dash, baseline>>
      BY <1>4 DEF WorkOrderCompleteButtonTapped
    <2>. QED
      BY <1>3, <2>1, ScreenOnly
  <1>5. CASE CancelCompletion(d, i)
    <2>1. screens' = [screens EXCEPT ![d] = [screens[d] EXCEPT ![i] = [t EXCEPT !.asking = FALSE]]]
          /\ UNCHANGED <<serverVars, batch, listener, parseVars, stack, dash, baseline>>
      BY <1>5 DEF CancelCompletion
    <2>. QED
      BY <1>3, <2>1, ScreenOnly
  <1>6. CASE ConfirmCompletion(d, i)
    <2>1. screens' = [screens EXCEPT ![d] = [screens[d] EXCEPT ![i] = [t EXCEPT !.asking = FALSE]]]
          /\ Enqueue(d, i, o, write)
          /\ UNCHANGED <<serverVars, listener, parseVars, stack, dash, baseline>>
      BY <1>6 DEF ConfirmCompletion
    <2>2. screens'[d] = [screens[d] EXCEPT ![i] = [t EXCEPT !.asking = FALSE]]
          /\ screens' = [screens EXCEPT ![d] = screens'[d]]
      BY <2>1 DEF IndInv, TypeOK
    <2>3. /\ screens'[d] \in Seq(SoundScreen(d))
          /\ DOMAIN screens'[d] = DOMAIN screens[d]
          /\ \A k \in DOMAIN screens[d] : screens'[d][k].kind = screens[d][k].kind
      <3>. DEFINE s == [t EXCEPT !.asking = FALSE]
      <3>1. s \in SoundScreen(d) /\ s.kind = screens[d][i].kind
        BY <1>3
      <3>2. screens'[d] = [screens[d] EXCEPT ![i] = s]
        BY <2>2
      <3>. HIDE DEF s, t
      <3>. QED
        BY <3>1, <3>2, DeviceFacts, ExceptSound
    <2>4. o \in Seen(d) /\ write \in SoundWrite(d) /\ write.kind # "review"
      BY <1>2, WriteByRole DEF SeenOrder
    <2>. HIDE DEF write, o
    <2>. QED
      BY <2>1, <2>2, <2>3, <2>4, EnqueueStep
  <1>. QED
    BY <1>4, <1>5, <1>6

(* Going back removes screens from the stack and creates none. *)
LEMMA BackSound ==
    ASSUME IndInv, NEW d \in Device, Back(d)
    PROVE  IndInv'
  <1>1. UNCHANGED <<serverVars, batch, listener, parseVars, screens, baseline>>
    BY DEF Back
  <1>2. dash' \in [Device -> [workOrderCount : Int, requestCount : Int]]
    BY DisappearTyped DEF Back, IndInv, TypeOK
  <1>3. stack' \in [Device -> SUBSET Nat] /\ \A e \in Device : stack'[e] \subseteq DOMAIN screens[e]
    BY DEF Back, IndInv, TypeOK
  <1>4. TypeOK'
    BY <1>1, <1>2, <1>3 DEF IndInv, TypeOK, serverVars, parseVars
  <1>5. ASSUME NEW e \in Device
        PROVE  /\ screens'[e] \in Seq(SoundScreen(e)')
               /\ batch'[e] \in Seq(SoundBatch(e)')
               /\ parses'[e] \in Seq(SoundParse(e)')
               /\ workOrders'[e] \subseteq SeenOrder(e)'
    BY <1>1, SeenUnchanged DEF IndInv, parseVars
  <1>6. SoundDocs' /\ SoundHandlers'
    BY <1>1 DEF IndInv, SoundDocs, SoundHandlers, Kind, serverVars
  <1>. QED
    BY <1>4, <1>5, <1>6 DEF IndInv

------------------------------------------------------------------------------
(* The write queue. *)

(* A write that is sent again is the same write, no more settled than before. *)
LEMMA ResentFacts ==
    ASSUME NEW d, NEW b \in SoundBatch(d)
    PROVE  /\ Resent(b) \in SoundBatch(d)
           /\ Resent(b).order = b.order
           /\ Resent(b).write = b.write
           /\ Resent(b).handler = b.handler
           /\ Resent(b).state = IF b.state = "committed" THEN "pending" ELSE b.state
           /\ [Resent(b) EXCEPT !.handler = 0] \in SoundBatch(d)
           /\ [Resent(b) EXCEPT !.handler = 0].order = b.order
           /\ [Resent(b) EXCEPT !.handler = 0].write = b.write
           /\ [Resent(b) EXCEPT !.handler = 0].handler = 0
           /\ [Resent(b) EXCEPT !.handler = 0].state = Resent(b).state
           /\ [b EXCEPT !.state = "rejected"] \in SoundBatch(d)
           /\ [b EXCEPT !.state = "rejected"].order = b.order
           /\ [b EXCEPT !.state = "rejected"].write = b.write
           /\ [b EXCEPT !.state = "rejected"].handler = b.handler
           /\ [b EXCEPT !.state = "rejected"].state = "rejected"
  BY DEF SoundBatch, BatchState, Resent

(* A device's queue is replaced by one of the same length. *)
LEMMA QueueReplaced ==
    ASSUME IndInv, NEW d \in Device, NEW B \in [DOMAIN batch[d] -> SoundBatch(d)],
           batch' = [batch EXCEPT ![d] = B]
    PROVE  /\ B \in Seq(SoundBatch(d))
           /\ batch'[d] = B
           /\ batch' = [batch EXCEPT ![d] = batch'[d]]
           /\ \A e \in Device \ {d} : batch'[e] = batch[e]
           /\ \A e \in Device : DOMAIN batch'[e] = DOMAIN batch[e]
  <1>1. DOMAIN batch[d] = 1 .. Len(batch[d]) /\ Len(batch[d]) \in Nat
    BY DeviceFacts, LenProperties
  <1>2. B \in Seq(SoundBatch(d))
    BY <1>1, SeqDef
  <1>3. batch'[d] = B /\ \A e \in Device \ {d} : batch'[e] = batch[e]
    BY DEF IndInv, TypeOK
  <1>. QED
    BY <1>2, <1>3

(* A commit or an answer changes the state of one write. *)
SetState(d, j, st) == batch' = [batch EXCEPT ![d][j].state = st]

LEMMA StateSet ==
    ASSUME IndInv, NEW d \in Device, NEW j \in DOMAIN batch[d], NEW st \in BatchState,
           SetState(d, j, st)
    PROVE  /\ batch' = [batch EXCEPT ![d] = batch'[d]]
           /\ batch'[d] \in Seq(SoundBatch(d))
           /\ \A e \in Device : DOMAIN batch'[e] = DOMAIN batch[e]
           /\ \A e \in Device : \A k \in DOMAIN batch[e] :
                /\ batch'[e][k].order = batch[e][k].order
                /\ batch'[e][k].write = batch[e][k].write
                /\ batch'[e][k].handler = batch[e][k].handler
                /\ batch'[e][k].state = IF e = d /\ k = j THEN st ELSE batch[e][k].state
  <1>. DEFINE b == batch[d][j]
              c == [b EXCEPT !.state = st]
              B == [batch[d] EXCEPT ![j] = c]
  <1>1. batch[d] \in Seq(SoundBatch(d)) /\ b \in SoundBatch(d)
    BY DeviceFacts
  <1>2. /\ c \in SoundBatch(d)
        /\ c.order = b.order /\ c.write = b.write /\ c.handler = b.handler /\ c.state = st
    BY <1>1 DEF SoundBatch
  <1>3. batch' = [batch EXCEPT ![d] = B]
    BY DEF SetState
  <1>. HIDE DEF c
  <1>4. /\ B \in Seq(SoundBatch(d))
        /\ DOMAIN B = DOMAIN batch[d]
        /\ B[j] = c
        /\ \A k \in DOMAIN batch[d] \ {j} : B[k] = batch[d][k]
    BY <1>1, <1>2, ExceptSound
  <1>. HIDE DEF B
  <1>5. batch'[d] = B /\ \A e \in Device \ {d} : batch'[e] = batch[e]
    BY <1>3 DEF IndInv, TypeOK
  <1>6. batch' = [batch EXCEPT ![d] = batch'[d]] /\ batch'[d] \in Seq(SoundBatch(d))
    BY <1>3, <1>4, <1>5
  <1>7. \A e \in Device : DOMAIN batch'[e] = DOMAIN batch[e]
    BY <1>4, <1>5
  <1>8. ASSUME NEW e \in Device, NEW k \in DOMAIN batch[e]
        PROVE  /\ batch'[e][k].order = batch[e][k].order
               /\ batch'[e][k].write = batch[e][k].write
               /\ batch'[e][k].handler = batch[e][k].handler
               /\ batch'[e][k].state = IF e = d /\ k = j THEN st ELSE batch[e][k].state
    <2>1. CASE e = d /\ k = j
      BY <1>2, <1>4, <1>5, <2>1
    <2>2. CASE e # d \/ k # j
      BY <1>4, <1>5, <2>2
    <2>. QED
      BY <2>1, <2>2
  <1>. QED
    BY <1>6, <1>7, <1>8

(* A refusal settles the oldest unanswered write; the others are sent again. *)
LEMMA Blamed ==
    ASSUME IndInv, NEW d \in Device, NEW j \in DOMAIN batch[d], Reject(d, j)
    PROVE  /\ batch' = [batch EXCEPT ![d] = batch'[d]]
           /\ batch'[d] \in Seq(SoundBatch(d))
           /\ \A e \in Device : DOMAIN batch'[e] = DOMAIN batch[e]
           /\ \A e \in Device : \A k \in DOMAIN batch[e] :
                /\ batch'[e][k].order = batch[e][k].order
                /\ batch'[e][k].write = batch[e][k].write
                /\ batch'[e][k].handler = batch[e][k].handler
                /\ batch'[e][k].state =
                        IF e # d THEN batch[e][k].state
                        ELSE IF k = j THEN "rejected"
                        ELSE IF batch[e][k].state = "committed" THEN "pending"
                        ELSE batch[e][k].state
  <1>. DEFINE B == [k \in DOMAIN batch[d] |->
                       IF k = j THEN [batch[d][k] EXCEPT !.state = "rejected"]
                       ELSE Resent(batch[d][k])]
  <1>1. batch' = [batch EXCEPT ![d] = B]
    BY DEF Reject
  <1>2. \A k \in DOMAIN batch[d] : batch[d][k] \in SoundBatch(d)
    BY DeviceFacts
  <1>3. ASSUME NEW k \in DOMAIN batch[d]
        PROVE  /\ B[k] \in SoundBatch(d)
               /\ B[k].order = batch[d][k].order
               /\ B[k].write = batch[d][k].write
               /\ B[k].handler = batch[d][k].handler
               /\ B[k].state = IF k = j THEN "rejected"
                               ELSE IF batch[d][k].state = "committed" THEN "pending"
                               ELSE batch[d][k].state
    BY <1>2, ResentFacts
  <1>4. B \in [DOMAIN batch[d] -> SoundBatch(d)]
    BY <1>3
  <1>. HIDE DEF B
  <1>5. /\ B \in Seq(SoundBatch(d))
        /\ batch'[d] = B
        /\ batch' = [batch EXCEPT ![d] = batch'[d]]
        /\ \A e \in Device \ {d} : batch'[e] = batch[e]
        /\ \A e \in Device : DOMAIN batch'[e] = DOMAIN batch[e]
    BY <1>1, <1>4, QueueReplaced
  <1>. QED
    BY <1>3, <1>5

(* Whatever is answered, the queue keeps its writes in their order, a refusal  *)
(* or an acknowledgement settles one of them, and nothing else is settled.     *)
LEMMA Answered ==
    ASSUME IndInv, NEW d \in Device, NEW j \in DOMAIN batch[d],
           Commit(d, j) \/ Acknowledge(d, j) \/ Reject(d, j)
    PROVE  /\ batch' = [batch EXCEPT ![d] = batch'[d]]
           /\ batch'[d] \in Seq(SoundBatch(d))
           /\ \A e \in Device : DOMAIN batch'[e] = DOMAIN batch[e]
           /\ \A e \in Device : \A k \in DOMAIN batch[e] :
                /\ batch'[e][k].order = batch[e][k].order
                /\ batch'[e][k].write = batch[e][k].write
                /\ batch'[e][k].handler = batch[e][k].handler
                /\ batch'[e][k].state = "acked" <=>
                        batch[e][k].state = "acked" \/ (Acknowledge(d, j) /\ e = d /\ k = j)
                /\ Unsettled(batch'[e][k]) <=>
                        Unsettled(batch[e][k]) /\ (Commit(d, j) \/ e # d \/ k # j)
  <1>1. CASE Reject(d, j)
    <2>1. ~Commit(d, j) /\ ~Acknowledge(d, j)
      <3>1. batch'[d][j].state = "rejected"
        BY <1>1, Blamed
      <3>2. ASSUME Commit(d, j) \/ Acknowledge(d, j)
            PROVE  batch'[d][j].state # "rejected"
        <4>1. PICK st \in {"committed", "acked"} : SetState(d, j, st)
          BY <3>2 DEF Commit, Acknowledge, SetState
        <4>2. st \in BatchState
          BY <4>1 DEF BatchState
        <4>3. batch'[d][j].state = st
          BY <4>1, <4>2, StateSet
        <4>. QED
          BY <4>1, <4>3
      <3>. QED
        BY <3>1, <3>2
    <2>2. Unsettled(batch[d][j]) /\ batch[d][j].state # "acked"
      BY <1>1 DEF Reject, Unsettled
    <2>. QED
      BY <1>1, <2>1, <2>2, Blamed DEF Unsettled
  <1>2. CASE Commit(d, j)
    <2>1. SetState(d, j, "committed") /\ batch[d][j].state = "pending"
      BY <1>2 DEF Commit, SetState
    <2>2. ~Acknowledge(d, j)
      BY <2>1 DEF Acknowledge
    <2>3. "committed" \in BatchState
      BY DEF BatchState
    <2>. QED
      BY <1>2, <2>1, <2>2, <2>3, StateSet DEF Unsettled
  <1>3. CASE Acknowledge(d, j)
    <2>1. SetState(d, j, "acked") /\ batch[d][j].state = "committed"
      BY <1>3 DEF Acknowledge, SetState
    <2>2. ~Commit(d, j)
      BY <2>1 DEF Commit
    <2>3. "acked" \in BatchState
      BY DEF BatchState
    <2>. QED
      BY <1>3, <2>1, <2>2, <2>3, StateSet DEF Unsettled
  <1>. QED
    BY <1>1, <1>2, <1>3

(* A refused write leaves the screens as they were. *)
LEMMA RejectSound ==
    ASSUME IndInv, NEW d \in Device, NEW j \in DOMAIN batch[d], Reject(d, j)
    PROVE  IndInv'
  <1>1. /\ UNCHANGED serverVars
        /\ UNCHANGED <<listener, parseVars, screens, stack, dash, baseline>>
    BY DEF Reject, appVars
  <1>2. /\ batch' = [batch EXCEPT ![d] = batch'[d]]
        /\ batch'[d] \in Seq(SoundBatch(d))
        /\ DOMAIN batch'[d] = DOMAIN batch[d]
        /\ \A k \in DOMAIN batch[d] :
                /\ batch'[d][k].write = batch[d][k].write
                /\ batch'[d][k].handler = batch[d][k].handler
    BY Answered
  <1>4. /\ screens' = [screens EXCEPT ![d] = screens'[d]]
        /\ stack' = [stack EXCEPT ![d] = stack'[d]]
        /\ screens'[d] \in Seq(SoundScreen(d))
        /\ stack'[d] \subseteq DOMAIN screens'[d]
        /\ listener' \in [Device -> Seq(Listener)]
        /\ dash' \in [Device -> [workOrderCount : Int, requestCount : Int]]
        /\ baseline' \in [Device -> [workOrderCount : Int, requestCount : Int]]
        /\ SoundParses(parses', workOrders')
    BY <1>1, DeviceFacts, ParsesUntouched DEF IndInv, TypeOK
  <1>5. ASSUME NEW k \in DOMAIN batch'[d], batch'[d][k].handler # 0
        PROVE  /\ batch'[d][k].handler \in DOMAIN screens'[d]
               /\ batch'[d][k].write.kind = "review" =>
                      screens'[d][batch'[d][k].handler].kind = "detail"
    BY <1>1, <1>2, <1>5, DeviceFacts
  <1>. QED
    BY <1>1, <1>2, <1>4, <1>5, LocalStep

(* A completion block sets addMaintenance on a detail screen only. *)
LEMMA AcknowledgeSound ==
    ASSUME IndInv, NEW d \in Device, NEW j \in DOMAIN batch[d], Acknowledge(d, j)
    PROVE  IndInv'
  <1>. DEFINE b == batch[d][j]
              h == b.handler
              answered == IF h # 0 /\ b.write.kind = "review"
                          THEN [screens[d] EXCEPT ![h].addMaintenance = TRUE]
                          ELSE screens[d]
              counted  == IF h # 0 /\ b.write.kind = "create"
                          THEN [dash[d] EXCEPT !.workOrderCount = @ + 1]
                          ELSE dash[d]
  <1>1. /\ batch' = [batch EXCEPT ![d][j].state = "acked"]
        /\ UNCHANGED serverVars
        /\ UNCHANGED <<listener, parseVars, baseline>>
        /\ screens' = [screens EXCEPT ![d] = answered]
    BY DEF Acknowledge
  <1>2. /\ answered \in Seq(SoundScreen(d))
        /\ DOMAIN answered = DOMAIN screens[d]
        /\ \A k \in DOMAIN screens[d] : answered[k].kind = screens[d][k].kind
    <2>1. CASE h # 0 /\ b.write.kind = "review"
      <3>. DEFINE t == screens[d][h]
                  s == [t EXCEPT !.addMaintenance = TRUE]
      <3>1. h \in DOMAIN screens[d] /\ t.kind = "detail" /\ t \in SoundScreen(d)
        BY <2>1, DeviceFacts
      <3>2. t \in [kind : {"detail"}, workOrder : SeenOrder(d),
                   selected : IF d \in Managers THEN SUBSET Workers ELSE {{}},
                   addMaintenance : BOOLEAN]
            /\ d \notin Workers
        BY <3>1 DEF SoundScreen
      <3>3. s \in SoundScreen(d) /\ s.kind = t.kind
        BY <3>2 DEF SoundScreen
      <3>4. answered = [screens[d] EXCEPT ![h] = s]
        BY <2>1
      <3>. HIDE DEF s, answered, h
      <3>. QED
        BY <3>1, <3>3, <3>4, DeviceFacts, ExceptSound
    <2>2. CASE ~(h # 0 /\ b.write.kind = "review")
      BY <2>2, DeviceFacts
    <2>. QED
      BY <2>1, <2>2
  <1>3. dash' \in [Device -> [workOrderCount : Int, requestCount : Int]]
    <2>1. counted \in [workOrderCount : Int, requestCount : Int]
      <3>1. dash[d] \in [workOrderCount : Int, requestCount : Int]
        BY DEF IndInv, TypeOK
      <3>2. CASE h # 0 /\ b.write.kind = "create"
        BY <3>1, <3>2
      <3>3. CASE ~(h # 0 /\ b.write.kind = "create")
        BY <3>1, <3>3
      <3>. QED
        BY <3>2, <3>3
    <2>2. WhenTopDisappears(d, answered, counted) \in [workOrderCount : Int, requestCount : Int]
      BY <2>1, DisappearTyped
    <2>3. \/ dash' = [dash EXCEPT ![d] = WhenTopDisappears(d, answered, counted)]
          \/ dash' = [dash EXCEPT ![d] = counted]
      BY DEF Acknowledge
    <2>. HIDE DEF counted, answered
    <2>. QED
      BY <2>1, <2>2, <2>3 DEF IndInv, TypeOK
  <1>4. /\ stack' = [stack EXCEPT ![d] = stack'[d]]
        /\ stack'[d] \subseteq stack[d]
    BY DEF Acknowledge, IndInv, TypeOK
  <1>. HIDE DEF answered, counted
  <1>5. screens'[d] = answered /\ screens' = [screens EXCEPT ![d] = screens'[d]]
    BY <1>1 DEF IndInv, TypeOK
  <1>6. /\ batch' = [batch EXCEPT ![d] = batch'[d]]
        /\ batch'[d] \in Seq(SoundBatch(d))
        /\ DOMAIN batch'[d] = DOMAIN batch[d]
        /\ \A k \in DOMAIN batch[d] :
                /\ batch'[d][k].write = batch[d][k].write
                /\ batch'[d][k].handler = batch[d][k].handler
    BY Answered
  <1>8. /\ listener' \in [Device -> Seq(Listener)]
        /\ baseline' \in [Device -> [workOrderCount : Int, requestCount : Int]]
        /\ UNCHANGED serverVars
        /\ stack' = [stack EXCEPT ![d] = stack'[d]]
        /\ SoundParses(parses', workOrders')
    BY <1>1, <1>4, ParsesUntouched DEF IndInv, TypeOK
  <1>9. screens'[d] \in Seq(SoundScreen(d)) /\ stack'[d] \subseteq DOMAIN screens'[d]
    BY <1>2, <1>4, <1>5, DeviceFacts
  <1>10. ASSUME NEW k \in DOMAIN batch'[d], batch'[d][k].handler # 0
         PROVE  /\ batch'[d][k].handler \in DOMAIN screens'[d]
                /\ batch'[d][k].write.kind = "review" =>
                      screens'[d][batch'[d][k].handler].kind = "detail"
    <2>1. /\ batch[d][k].handler \in DOMAIN screens[d]
          /\ batch[d][k].write.kind = "review" => screens[d][batch[d][k].handler].kind = "detail"
      BY <1>6, <1>10, DeviceFacts
    <2>. QED
      BY <1>2, <1>5, <1>6, <1>10, <2>1
  <1>. QED
    BY <1>3, <1>5, <1>6, <1>8, <1>9, <1>10, LocalStep

(* What a commit does to the one document it writes: the order is begun, or    *)
(* begun again, or it goes on.                                                 *)
LEMMA CommitFacts ==
    ASSUME IndInv, NEW d \in Device, NEW j \in DOMAIN batch[d], Commit(d, j)
    PROVE  LET b == batch[d][j]
               o == b.order
               N == Applied(b.write, docs[o])
           IN  /\ o \in Orders
               /\ N \in Document
               /\ docs' = [docs EXCEPT ![o] = N]
               /\ \/ /\ d \in Tenants
                     /\ ~N.reviewed /\ N.active /\ N.maintenance = {}
                     /\ N.address = AddressOf[d]
                     /\ everAssigned' = everAssigned
                     /\ begunAgain' = begunAgain \union (IF docs[o] # None THEN {o} ELSE {})
                  \/ /\ d \in Managers
                     /\ docs[o] # None
                     /\ N.reviewed /\ N.active = docs[o].active
                     /\ N.maintenance # {} /\ N.maintenance \subseteq Workers
                     /\ N.address = docs[o].address
                     /\ everAssigned' = [everAssigned EXCEPT ![o] = @ \union N.maintenance]
                     /\ begunAgain' = begunAgain
                  \/ /\ d \in Workers
                     /\ docs[o] # None /\ d \in everAssigned[o]
                     /\ N.reviewed = docs[o].reviewed /\ ~N.active
                     /\ N.maintenance = docs[o].maintenance
                     /\ N.address = docs[o].address
                     /\ everAssigned' = everAssigned
                     /\ begunAgain' = begunAgain
  <1>. DEFINE b == batch[d][j]
              o == b.order
              N == Applied(b.write, docs[o])
  <1>1. b \in SoundBatch(d)
    BY DeviceFacts
  <1>2. o \in Seen(d) /\ b.write \in SoundWrite(d)
    BY <1>1 DEF SoundBatch
  <1>3. o \in Orders /\ docs[o] \in Document \union {None}
    BY <1>2 DEF Seen, IndInv, TypeOK
  <1>4. /\ docs' = [docs EXCEPT ![o] = N]
        /\ everAssigned' = [everAssigned EXCEPT ![o] =
                               IF b.write.kind = "review" THEN @ \union b.write.staff ELSE @]
        /\ begunAgain' = IF b.write.kind = "create" /\ docs[o] # None
                         THEN begunAgain \union {o} ELSE begunAgain
        /\ b.state = "pending"
    BY DEF Commit
  <1>5. everAssigned \in [Orders -> SUBSET Workers]
    BY DEF IndInv, TypeOK
  <1>6. CASE d \in Tenants
    <2>1. /\ b.write \in [kind : {"create"}, address : {AddressOf[d]}]
          /\ b.write \in [kind : {"create"}, address : Addresses]
      BY <1>2, <1>6, WriteByRole
    <2>2. N = NewDocument(b.write.address)
      BY <2>1 DEF Applied
    <2>3. /\ N \in Document /\ ~N.reviewed /\ N.active /\ N.maintenance = {}
          /\ N.address = AddressOf[d]
      BY <2>1, <2>2 DEF NewDocument, Document
    <2>4. everAssigned' = everAssigned
      BY <1>4, <1>5, <2>1
    <2>5. begunAgain' = begunAgain \union (IF docs[o] # None THEN {o} ELSE {})
      BY <1>4, <2>1
    <2>. HIDE DEF N
    <2>. QED
      BY <1>3, <1>4, <1>6, <2>3, <2>4, <2>5 DEF N
  <1>7. CASE d \in Managers
    <2>1. b.write \in [kind : {"review"}, staff : (SUBSET Workers) \ {{}}]
      BY <1>2, <1>7, WriteByRole
    <2>2. docs[o] # None /\ docs[o] \in Document
      BY <1>2, <1>3, <1>7 DEF Seen
    <2>3. N = [docs[o] EXCEPT !.reviewed = TRUE, !.maintenance = b.write.staff]
      BY <2>1 DEF Applied
    <2>4. /\ N \in Document /\ N.reviewed /\ N.active = docs[o].active
          /\ N.maintenance = b.write.staff /\ N.address = docs[o].address
      BY <2>1, <2>2, <2>3 DEF Document
    <2>5. /\ everAssigned' = [everAssigned EXCEPT ![o] = @ \union b.write.staff]
          /\ begunAgain' = begunAgain
      BY <1>4, <2>1
    <2>. HIDE DEF N
    <2>. QED
      BY <1>3, <1>4, <1>7, <2>1, <2>2, <2>4, <2>5 DEF N
  <1>8. CASE d \in Workers
    <2>1. b.write \in [kind : {"complete"}]
      BY <1>2, <1>8, WriteByRole
    <2>2. docs[o] # None /\ docs[o] \in Document /\ d \in everAssigned[o]
      BY <1>2, <1>3, <1>8 DEF Seen
    <2>3. N = [docs[o] EXCEPT !.active = FALSE]
      BY <2>1 DEF Applied
    <2>4. /\ N \in Document /\ N.reviewed = docs[o].reviewed /\ ~N.active
          /\ N.maintenance = docs[o].maintenance /\ N.address = docs[o].address
      BY <2>2, <2>3 DEF Document
    <2>5. everAssigned' = everAssigned /\ begunAgain' = begunAgain
      BY <1>4, <1>5, <2>1
    <2>. HIDE DEF N
    <2>. QED
      BY <1>3, <1>4, <1>8, <2>2, <2>4, <2>5 DEF N
  <1>. QED
    BY <1>6, <1>7, <1>8 DEF Device

(* Nothing a screen was opened on is undone by a commit. *)
LEMMA CommitKeepsSeen ==
    ASSUME IndInv, NEW d \in Device, NEW j \in DOMAIN batch[d], Commit(d, j), NEW e \in Device
    PROVE  /\ Seen(e) \subseteq Seen(e)'
           /\ SeenOrder(e) \subseteq SeenOrder(e)'
           /\ SoundParse(e) \subseteq SoundParse(e)'
           /\ SoundScreen(e) \subseteq SoundScreen(e)'
           /\ SoundBatch(e) \subseteq SoundBatch(e)'
  <1>. DEFINE o == batch[d][j].order
              N == Applied(batch[d][j].write, docs[o])
  <1>0. /\ docs \in [Orders -> Document \union {None}]
        /\ everAssigned \in [Orders -> SUBSET Workers]
    BY DEF IndInv, TypeOK
  <1>1. /\ o \in Orders
        /\ N \in Document
        /\ docs' = [docs EXCEPT ![o] = N]
        /\ \/ everAssigned' = everAssigned
           \/ everAssigned' = [everAssigned EXCEPT ![o] = @ \union N.maintenance]
    BY CommitFacts
  <1>2. N # None
    BY <1>1, NoneAssumption
  <1>. HIDE DEF N, o
  <1>3. \A x \in Orders : /\ docs[x] # None => docs'[x] # None
                          /\ everAssigned[x] \subseteq everAssigned'[x]
    BY <1>0, <1>1, <1>2
  <1>4. Seen(e) \subseteq Seen(e)'
    BY <1>3 DEF Seen
  <1>5. SeenOrder(e) \subseteq SeenOrder(e)'
    BY <1>4 DEF SeenOrder
  <1>6. SoundScreen(e) \subseteq SoundScreen(e)' /\ SoundParse(e) \subseteq SoundParse(e)'
    BY <1>5 DEF SoundScreen, SoundParse
  <1>7. SoundBatch(e) \subseteq SoundBatch(e)'
    BY <1>4 DEF SoundBatch, SoundWrite
  <1>. QED
    BY <1>4, <1>5, <1>6, <1>7

(* A commit keeps every screen and every queued write of every device sound. *)
LEMMA CommitSound ==
    ASSUME IndInv, NEW d \in Device, NEW j \in DOMAIN batch[d], Commit(d, j)
    PROVE  IndInv'
  <1>. DEFINE o == batch[d][j].order
              N == Applied(batch[d][j].write, docs[o])
  <1>1. UNCHANGED <<listener, parses, workOrders, screens, stack, dash, baseline>>
    BY DEF Commit, appVars, parseVars
  <1>2. /\ batch' = [batch EXCEPT ![d] = batch'[d]]
        /\ batch'[d] \in Seq(SoundBatch(d))
        /\ \A e \in Device : DOMAIN batch'[e] = DOMAIN batch[e]
        /\ \A e \in Device : \A k \in DOMAIN batch[e] :
                /\ batch'[e][k].order = batch[e][k].order
                /\ batch'[e][k].write = batch[e][k].write
                /\ batch'[e][k].handler = batch[e][k].handler
    BY Answered
  <1>3. /\ o \in Orders
        /\ N \in Document
        /\ docs' = [docs EXCEPT ![o] = N]
    BY CommitFacts
  <1>4. /\ begunAgain' \subseteq begunAgain \union {o}
        /\ \/ /\ ~N.reviewed /\ N.maintenance = {}
              /\ everAssigned' = everAssigned
           \/ /\ N.reviewed
              /\ N.maintenance # {} /\ N.maintenance \subseteq Workers
              /\ everAssigned' = [everAssigned EXCEPT ![o] = @ \union N.maintenance]
           \/ /\ docs[o] # None
              /\ N.reviewed = docs[o].reviewed
              /\ N.maintenance = docs[o].maintenance
              /\ everAssigned' = everAssigned
    BY CommitFacts
  <1>5. /\ docs \in [Orders -> Document \union {None}]
        /\ everAssigned \in [Orders -> SUBSET Workers]
        /\ begunAgain \subseteq Orders
        /\ batch \in [Device -> Seq(Batch)]
        /\ Tenants \subseteq Device
    BY DEF IndInv, TypeOK, Device
  <1>6. \A e \in Device : /\ SeenOrder(e) \subseteq SeenOrder(e)'
                          /\ SoundParse(e) \subseteq SoundParse(e)'
                          /\ SoundScreen(e) \subseteq SoundScreen(e)'
                          /\ SoundBatch(e) \subseteq SoundBatch(e)'
    BY CommitKeepsSeen
  <1>. HIDE DEF N, o
  <1>7. TypeOK'
    <2>1. docs' \in [Orders -> Document \union {None}]
      BY <1>3, <1>5
    <2>2. everAssigned' \in [Orders -> SUBSET Workers] /\ begunAgain' \subseteq Orders
      BY <1>3, <1>4, <1>5
    <2>3. batch'[d] \in Seq(Batch)
      BY <1>2, SoundIsTyped, SeqMonotonic
    <2>4. batch' \in [Device -> Seq(Batch)]
      BY <1>2, <1>5, <2>3
    <2>. QED
      BY <1>1, <2>1, <2>2, <2>4 DEF IndInv, TypeOK
  <1>8. ASSUME NEW e \in Device
        PROVE  screens'[e] \in Seq(SoundScreen(e)')
    <2>1. screens[e] \in Seq(SoundScreen(e))
      BY DEF IndInv
    <2>2. Seq(SoundScreen(e)) \subseteq Seq(SoundScreen(e)')
      BY <1>6, SeqMonotonic
    <2>. QED
      BY <1>1, <2>1, <2>2
  <1>9. ASSUME NEW e \in Device
        PROVE  batch'[e] \in Seq(SoundBatch(e)')
    <2>1. batch'[e] \in Seq(SoundBatch(e))
      BY <1>2, <1>5 DEF IndInv
    <2>2. Seq(SoundBatch(e)) \subseteq Seq(SoundBatch(e)')
      BY <1>6, SeqMonotonic
    <2>. QED
      BY <2>1, <2>2
  <1>12. ASSUME NEW e \in Device
         PROVE  parses'[e] \in Seq(SoundParse(e)') /\ workOrders'[e] \subseteq SeenOrder(e)'
    <2>1. parses[e] \in Seq(SoundParse(e)) /\ workOrders[e] \subseteq SeenOrder(e)
      BY DEF IndInv
    <2>2. Seq(SoundParse(e)) \subseteq Seq(SoundParse(e)')
      BY <1>6, SeqMonotonic
    <2>. QED
      BY <1>1, <1>6, <2>1, <2>2
  <1>10. SoundDocs'
    <2>1. ASSUME NEW x \in Orders, docs'[x] # None
          PROVE  /\ docs'[x].maintenance \subseteq everAssigned'[x]
                 /\ docs'[x].reviewed <=> docs'[x].maintenance # {}
      <3>1. docs[x] # None =>
              /\ docs[x].maintenance \subseteq everAssigned[x]
              /\ docs[x].reviewed <=> docs[x].maintenance # {}
        BY DEF IndInv, SoundDocs
      <3>2. CASE x = o
        BY <1>3, <1>4, <1>5, <3>1, <3>2
      <3>3. CASE x # o
        <4>1. docs'[x] = docs[x] /\ everAssigned'[x] = everAssigned[x]
          BY <1>3, <1>4, <1>5, <3>3
        <4>. QED
          BY <2>1, <3>1, <4>1
      <3>. QED
        BY <3>2, <3>3
    <2>. QED
      BY <2>1 DEF SoundDocs
  <1>11. SoundHandlers'
    <2>1. ASSUME NEW e \in Device, NEW k \in DOMAIN batch'[e], batch'[e][k].handler # 0
          PROVE  /\ batch'[e][k].handler \in DOMAIN screens'[e]
                 /\ batch'[e][k].write.kind = "review" =>
                        screens'[e][batch'[e][k].handler].kind = "detail"
      <3>1. /\ k \in DOMAIN batch[e]
            /\ batch'[e][k].write = batch[e][k].write
            /\ batch'[e][k].handler = batch[e][k].handler
        BY <1>2
      <3>2. /\ batch[e][k].handler \in DOMAIN screens[e]
            /\ batch[e][k].write.kind = "review" =>
                        screens[e][batch[e][k].handler].kind = "detail"
        BY <2>1, <3>1, DeviceFacts
      <3>. QED
        BY <1>1, <3>1, <3>2
    <2>. QED
      BY <2>1 DEF SoundHandlers, Kind
  <1>. QED
    BY <1>7, <1>8, <1>9, <1>10, <1>11, <1>12 DEF IndInv

------------------------------------------------------------------------------
(* A restarted app sends again what it has no answer for, and has no screens   *)
(* for those writes to call back.                                              *)
LEMMA RelaunchFacts ==
    ASSUME IndInv, NEW d \in Device, Relaunch(d)
    PROVE  /\ batch' = [batch EXCEPT ![d] = batch'[d]]
           /\ batch'[d] \in Seq(SoundBatch(d))
           /\ \A e \in Device \ {d} : batch'[e] = batch[e]
           /\ \A e \in Device : DOMAIN batch'[e] = DOMAIN batch[e]
           /\ \A k \in DOMAIN batch[d] :
                /\ batch'[d][k].order = batch[d][k].order
                /\ batch'[d][k].write = batch[d][k].write
                /\ batch'[d][k].handler = 0
                /\ batch'[d][k].state = "acked" <=> batch[d][k].state = "acked"
                /\ Unsettled(batch'[d][k]) <=> Unsettled(batch[d][k])
  <1>. DEFINE B == [k \in DOMAIN batch[d] |-> [Resent(batch[d][k]) EXCEPT !.handler = 0]]
  <1>1. batch' = [batch EXCEPT ![d] = B]
    BY DEF Relaunch
  <1>2. \A k \in DOMAIN batch[d] : batch[d][k] \in SoundBatch(d)
    BY DeviceFacts
  <1>3. ASSUME NEW k \in DOMAIN batch[d]
        PROVE  /\ B[k] \in SoundBatch(d)
               /\ B[k].order = batch[d][k].order
               /\ B[k].write = batch[d][k].write
               /\ B[k].handler = 0
               /\ B[k].state = IF batch[d][k].state = "committed" THEN "pending"
                               ELSE batch[d][k].state
    BY <1>2, ResentFacts
  <1>4. B \in [DOMAIN batch[d] -> SoundBatch(d)]
    BY <1>3
  <1>. HIDE DEF B
  <1>5. /\ B \in Seq(SoundBatch(d))
        /\ batch'[d] = B
        /\ batch' = [batch EXCEPT ![d] = batch'[d]]
        /\ \A e \in Device \ {d} : batch'[e] = batch[e]
        /\ \A e \in Device : DOMAIN batch'[e] = DOMAIN batch[e]
    BY <1>1, <1>4, QueueReplaced
  <1>. QED
    BY <1>3, <1>5 DEF Unsettled

LEMMA RelaunchSound ==
    ASSUME IndInv, NEW d \in Device, Relaunch(d)
    PROVE  IndInv'
  <1>1. /\ parses' = [parses EXCEPT ![d] = <<>>]
        /\ workOrders' = [workOrders EXCEPT ![d] = {}]
        /\ listener' = [listener EXCEPT ![d] = <<>>]
        /\ screens' = [screens EXCEPT ![d] = <<>>]
        /\ stack' = [stack EXCEPT ![d] = {}]
        /\ dash' = [dash EXCEPT ![d] = Counts(d)]
        /\ baseline' = [baseline EXCEPT ![d] = Counts(d)]
        /\ UNCHANGED serverVars
    BY DEF Relaunch
  <1>2. /\ batch' = [batch EXCEPT ![d] = batch'[d]]
        /\ batch'[d] \in Seq(SoundBatch(d))
        /\ DOMAIN batch'[d] = DOMAIN batch[d]
        /\ \A k \in DOMAIN batch[d] : batch'[d][k].handler = 0
    BY RelaunchFacts
  <1>3. SoundParses(parses', workOrders')
    <2>1. <<>> \in Seq(SoundParse(d)) /\ {} \in SUBSET SeenOrder(d)
      BY EmptySeq
    <2>. QED
      BY <1>1, <2>1, ParsesOfOne
  <1>4. screens'[d] = <<>> /\ stack'[d] = {}
    BY <1>1 DEF IndInv, TypeOK
  <1>5. /\ listener' \in [Device -> Seq(Listener)]
        /\ dash' \in [Device -> [workOrderCount : Int, requestCount : Int]]
        /\ baseline' \in [Device -> [workOrderCount : Int, requestCount : Int]]
    BY <1>1, CountsTyped, EmptySeq DEF IndInv, TypeOK
  <1>7. /\ screens'[d] \in Seq(SoundScreen(d))
        /\ stack'[d] \subseteq DOMAIN screens'[d]
        /\ screens' = [screens EXCEPT ![d] = screens'[d]]
        /\ stack' = [stack EXCEPT ![d] = stack'[d]]
    BY <1>1, <1>4, EmptySeq
  <1>8. ASSUME NEW k \in DOMAIN batch'[d], batch'[d][k].handler # 0
        PROVE  FALSE
    BY <1>2, <1>8
  <1>9. UNCHANGED serverVars
    BY <1>1
  <1>. QED
    BY <1>2, <1>3, <1>5, <1>7, <1>8, <1>9, LocalStep

(* Lost answers make committed writes pending again, and change nothing else.  *)
LEMMA LostFacts ==
    ASSUME IndInv, NEW d \in Device, LoseAnswers(d)
    PROVE  /\ batch' = [batch EXCEPT ![d] = batch'[d]]
           /\ batch'[d] \in Seq(SoundBatch(d))
           /\ \A e \in Device \ {d} : batch'[e] = batch[e]
           /\ \A e \in Device : DOMAIN batch'[e] = DOMAIN batch[e]
           /\ \A k \in DOMAIN batch[d] :
                /\ batch'[d][k].order = batch[d][k].order
                /\ batch'[d][k].write = batch[d][k].write
                /\ batch'[d][k].handler = batch[d][k].handler
                /\ batch'[d][k].state = "acked" <=> batch[d][k].state = "acked"
                /\ Unsettled(batch'[d][k]) <=> Unsettled(batch[d][k])
  <1>. DEFINE B == [k \in DOMAIN batch[d] |-> Resent(batch[d][k])]
  <1>1. batch' = [batch EXCEPT ![d] = B]
    BY DEF LoseAnswers
  <1>2. \A k \in DOMAIN batch[d] : batch[d][k] \in SoundBatch(d)
    BY DeviceFacts
  <1>3. ASSUME NEW k \in DOMAIN batch[d]
        PROVE  /\ B[k] \in SoundBatch(d)
               /\ B[k].order = batch[d][k].order
               /\ B[k].write = batch[d][k].write
               /\ B[k].handler = batch[d][k].handler
               /\ B[k].state = IF batch[d][k].state = "committed" THEN "pending"
                               ELSE batch[d][k].state
    BY <1>2, ResentFacts
  <1>4. B \in [DOMAIN batch[d] -> SoundBatch(d)]
    BY <1>3
  <1>. HIDE DEF B
  <1>5. /\ B \in Seq(SoundBatch(d))
        /\ batch'[d] = B
        /\ batch' = [batch EXCEPT ![d] = batch'[d]]
        /\ \A e \in Device \ {d} : batch'[e] = batch[e]
        /\ \A e \in Device : DOMAIN batch'[e] = DOMAIN batch[e]
    BY <1>1, <1>4, QueueReplaced
  <1>. QED
    BY <1>3, <1>5 DEF Unsettled

LEMMA LoseAnswersSound ==
    ASSUME IndInv, NEW d \in Device, LoseAnswers(d)
    PROVE  IndInv'
  <1>1. UNCHANGED serverVars /\ UNCHANGED <<listener, parseVars, screens, stack, dash, baseline>>
    BY DEF LoseAnswers, appVars
  <1>2. /\ screens' = [screens EXCEPT ![d] = screens'[d]]
        /\ stack' = [stack EXCEPT ![d] = stack'[d]]
        /\ screens'[d] \in Seq(SoundScreen(d))
        /\ stack'[d] \subseteq DOMAIN screens'[d]
        /\ listener' \in [Device -> Seq(Listener)]
        /\ dash' \in [Device -> [workOrderCount : Int, requestCount : Int]]
        /\ baseline' \in [Device -> [workOrderCount : Int, requestCount : Int]]
        /\ SoundParses(parses', workOrders')
    BY <1>1, DeviceFacts, ParsesUntouched DEF IndInv, TypeOK
  <1>4. ASSUME NEW k \in DOMAIN batch'[d], batch'[d][k].handler # 0
        PROVE  /\ batch'[d][k].handler \in DOMAIN screens'[d]
               /\ batch'[d][k].write.kind = "review" =>
                      screens'[d][batch'[d][k].handler].kind = "detail"
    BY <1>1, <1>4, LostFacts, DeviceFacts
  <1>5. batch' = [batch EXCEPT ![d] = batch'[d]] /\ batch'[d] \in Seq(SoundBatch(d))
    BY LostFacts
  <1>. QED
    BY <1>1, <1>2, <1>4, <1>5, LocalStep

(* The invariant holds initially: nothing is shown and nothing is queued. *)
LEMMA InitSound == Init => IndInv
  <1>. SUFFICES ASSUME Init
                PROVE  IndInv
    OBVIOUS
  <1>1. /\ batch = [d \in Device |-> <<>>]
        /\ screens = [d \in Device |-> <<>>]
        /\ \A d \in Device : /\ DOMAIN batch[d] = {} /\ screens[d] = <<>> /\ batch[d] = <<>>
                              /\ parses[d] = <<>> /\ workOrders[d] = {}
    BY DEF Init
  <1>2. /\ docs \in [Orders -> Document \union {None}]
        /\ \A o \in Orders : docs[o] # None =>
              docs[o].maintenance = {} /\ ~docs[o].reviewed /\ docs[o].active
    <2>1. \A a \in Addresses : /\ NewDocument(a) \in Document
                               /\ NewDocument(a).maintenance = {}
                               /\ ~NewDocument(a).reviewed /\ NewDocument(a).active
      BY DEF NewDocument, Document
    <2>2. docs \in [Orders -> {NewDocument(a) : a \in Addresses} \union {None}]
      BY DEF Init
    <2>. QED
      BY <2>1, <2>2
  <1>3. /\ dash \in [Device -> [workOrderCount : Int, requestCount : Int]]
        /\ baseline \in [Device -> [workOrderCount : Int, requestCount : Int]]
    BY CountsTyped DEF Init
  <1>4. TypeOK
    BY <1>2, <1>3, EmptySeq DEF Init, TypeOK
  <1>5. ASSUME NEW d \in Device
        PROVE  /\ screens[d] \in Seq(SoundScreen(d)) /\ batch[d] \in Seq(SoundBatch(d))
               /\ parses[d] \in Seq(SoundParse(d)) /\ workOrders[d] \subseteq SeenOrder(d)
    BY <1>1, EmptySeq
  <1>6. SoundDocs
    BY <1>2 DEF SoundDocs
  <1>7. SoundHandlers
    BY <1>1 DEF SoundHandlers
  <1>. QED
    BY <1>4, <1>5, <1>6, <1>7 DEF IndInv

(* A step that changes nothing keeps the invariant. *)
LEMMA StutterSound ==
    ASSUME IndInv, UNCHANGED vars
    PROVE  IndInv'
  <1>1. UNCHANGED <<serverVars, batch, parseVars, screens, stack, dash, baseline, listener>>
    BY DEF vars, appVars
  <1>2. listener' \in [Device -> Seq(Listener)] /\ SoundParses(parses', workOrders')
    BY <1>1, ParsesUntouched DEF IndInv, TypeOK
  <1>. QED
    BY <1>1, <1>2, DashboardStep

(* Every step of the system keeps the invariant. *)
LEMMA NextSound == IndInv /\ [Next]_vars => IndInv'
  <1>. SUFFICES ASSUME IndInv, [Next]_vars
                PROVE  IndInv'
    OBVIOUS
  <1>1. ASSUME NEW d \in Device, NEW q \in Query, TapDashboardRow(d, q)
        PROVE  IndInv'
    BY <1>1, TapDashboardRowSound
  <1>2. ASSUME NEW d \in Device, NEW k \in DOMAIN listener[d], DashboardEvent(d, k)
        PROVE  IndInv'
    BY <1>2, DashboardEventSound
  <1>3. ASSUME NEW d \in Device, NEW i \in DOMAIN screens[d], ScreenStep(d, i)
        PROVE  IndInv'
    <2>1. ASSUME NEW w \in WorkOrder, TapListRow(d, i, w)
          PROVE  IndInv'
      BY <2>1, TapListRowSound
    <2>2. ASSUME NEW w \in WorkOrder, OpenDetail(d, i, w)
          PROVE  IndInv'
      BY <2>2, OpenDetailSound
    <2>3. ASSUME NEW p \in Workers, SelectWorker(d, i, p) \/ DeselectWorker(d, i, p)
          PROVE  IndInv'
      BY <2>3, SelectionSound
    <2>4. CASE FinishButtonTapped(d, i)
      BY <2>4, FinishButtonTappedSound
    <2>5. CASE AddressLoaded(d, i)
      BY <2>5, AddressLoadedSound
    <2>6. ASSUME NEW o \in Orders, SendButtonTapped(d, i, o)
          PROVE  IndInv'
      BY <2>6, SendButtonTappedSound
    <2>7. CASE \/ WorkOrderCompleteButtonTapped(d, i)
               \/ ConfirmCompletion(d, i)
               \/ CancelCompletion(d, i)
      BY <2>7, CompletionSound
    <2>. QED
      BY <1>3, <2>1, <2>2, <2>3, <2>4, <2>5, <2>6, <2>7 DEF ScreenStep
  <1>4. ASSUME NEW d \in Device, OpenComposer(d)
        PROVE  IndInv'
    BY <1>4, OpenComposerSound
  <1>5. ASSUME NEW d \in Device, Back(d)
        PROVE  IndInv'
    BY <1>5, BackSound
  <1>6. ASSUME NEW d \in Device, Relaunch(d)
        PROVE  IndInv'
    BY <1>6, RelaunchSound
  <1>7. ASSUME NEW d \in Device, NEW j \in DOMAIN batch[d], Commit(d, j)
        PROVE  IndInv'
    BY <1>7, CommitSound
  <1>8. ASSUME NEW d \in Device, NEW j \in DOMAIN batch[d], Reject(d, j)
        PROVE  IndInv'
    BY <1>8, RejectSound
  <1>9. ASSUME NEW d \in Device, NEW j \in DOMAIN batch[d], Acknowledge(d, j)
        PROVE  IndInv'
    BY <1>9, AcknowledgeSound
  <1>10. CASE UNCHANGED vars
    BY <1>10, StutterSound
  <1>11. ASSUME NEW d \in Device, LoseAnswers(d)
         PROVE  IndInv'
    BY <1>11, LoseAnswersSound
  <1>12. ASSUME NEW d \in Device, NEW p \in DOMAIN parses[d], NEW w \in WorkOrder,
                TenantRead(d, p, w)
         PROVE  IndInv'
    BY <1>12, TenantReadSound
  <1>. QED
    BY <1>1, <1>2, <1>3, <1>4, <1>5, <1>6, <1>7, <1>8, <1>9, <1>10, <1>11, <1>12
       DEF Next, DeviceStep, QueueStep

------------------------------------------------------------------------------
(* The invariant that every screen and every queued write of a device is about *)
(* an order the device was shown, and stays sound however stale it becomes,    *)
(* holds of the app for any set of devices and orders.                         *)
THEOREM Invariant == Spec => []IndInv
  <1>1. Init => IndInv
    BY InitSound
  <1>2. IndInv /\ [Next]_vars => IndInv'
    BY NextSound
  <1>. QED
    BY <1>1, <1>2, PTL DEF Spec

(* The state of the app is well typed: what the handlers store in the screens, *)
(* the queue and the server's documents is what their declarations say.        *)
THEOREM TypeCorrect == Spec => []TypeOK
  <1>1. IndInv => TypeOK
    BY DEF IndInv
  <1>2. Spec => []IndInv
    BY Invariant
  <1>. QED
    BY <1>1, <1>2, PTL

(* The finish handler of the detail screen never leaves an order reviewed and  *)
(* without staff, nor staffed and unreviewed.                                  *)
THEOREM ReviewGivesStaff == Spec => []ReviewedHasStaff
  <1>1. IndInv => ReviewedHasStaff
    BY DEF IndInv, SoundDocs, ReviewedHasStaff
  <1>2. Spec => []IndInv
    BY Invariant
  <1>. QED
    BY <1>1, <1>2, PTL

(* Whoever confirms a completion has been on the order's staff: the worker's   *)
(* lists are filtered by the maintenance array, and no list outlives a login.  *)
THEOREM OnlyStaffCompletes == Spec => []CompleterWasAssigned
  <1>1. IndInv => CompleterWasAssigned
    <2>. SUFFICES ASSUME IndInv, NEW d \in Device, NEW j \in DOMAIN batch[d],
                         batch[d][j].write.kind = "complete"
                  PROVE  d \in Workers /\ d \in everAssigned[batch[d][j].order]
      BY DEF CompleterWasAssigned
    <2>1. batch[d][j] \in SoundBatch(d)
      BY DeviceFacts
    <2>2. batch[d][j].order \in Seen(d) /\ batch[d][j].write \in SoundWrite(d)
      BY <2>1 DEF SoundBatch
    <2>3. CASE d \in Tenants
      <3>1. batch[d][j].write \in [kind : {"create"}, address : Addresses]
        BY <2>2, <2>3, WriteByRole
      <3>. QED
        BY <3>1
    <2>4. CASE d \in Managers
      <3>1. batch[d][j].write \in [kind : {"review"}, staff : (SUBSET Workers) \ {{}}]
        BY <2>2, <2>4, WriteByRole
      <3>. QED
        BY <3>1
    <2>. QED
      BY <2>2, <2>3, <2>4 DEF Seen, Device
  <1>2. Spec => []IndInv
    BY Invariant
  <1>. QED
    BY <1>1, <1>2, PTL

------------------------------------------------------------------------------
(* What an order keeps, until a write of its tenant begins it again. *)

(* A commit keeps it: a review reviews, a worker completes only what he was    *)
(* given, and what begins an order again is known to have done so.             *)
LEMMA CommitKept ==
    ASSUME IndInv, KeptInv, NEW d \in Device, NEW j \in DOMAIN batch[d], Commit(d, j)
    PROVE  KeptInv'
  <1>. DEFINE o == batch[d][j].order
              N == Applied(batch[d][j].write, docs[o])
  <1>1. /\ o \in Orders
        /\ N \in Document
        /\ docs' = [docs EXCEPT ![o] = N]
    BY CommitFacts
  <1>2. \/ /\ ~N.reviewed /\ N.active
           /\ everAssigned' = everAssigned
           /\ begunAgain' = begunAgain \union (IF docs[o] # None THEN {o} ELSE {})
        \/ /\ N.reviewed
           /\ N.maintenance # {}
           /\ everAssigned' = [everAssigned EXCEPT ![o] = @ \union N.maintenance]
           /\ begunAgain' = begunAgain
        \/ /\ docs[o] # None /\ everAssigned[o] # {}
           /\ N.reviewed = docs[o].reviewed
           /\ everAssigned' = everAssigned
           /\ begunAgain' = begunAgain
    BY CommitFacts
  <1>3. /\ \A e \in Device : DOMAIN batch'[e] = DOMAIN batch[e]
        /\ \A e \in Device : \A k \in DOMAIN batch[e] : batch'[e][k].order = batch[e][k].order
    BY Answered
  <1>4. /\ N # None
        /\ docs \in [Orders -> Document \union {None}]
        /\ everAssigned \in [Orders -> SUBSET Workers]
        /\ Tenants \subseteq Device
    BY <1>1, NoneAssumption DEF IndInv, TypeOK, Device
  <1>5. AddedOnce'
    BY <1>3, <1>4 DEF KeptInv, AddedOnce
  <1>. HIDE DEF o, N
  <1>6. ASSUME NEW x \in Orders
        PROVE  /\ everAssigned'[x] # {} =>
                      docs'[x] # None /\ (x \notin begunAgain' => docs'[x].reviewed)
               /\ docs'[x] # None /\ ~docs'[x].active =>
                      everAssigned'[x] # {} /\ (x \notin begunAgain' => docs'[x].reviewed)
    <2>1. /\ everAssigned[x] # {} =>
                docs[x] # None /\ (x \notin begunAgain => docs[x].reviewed)
          /\ docs[x] # None /\ ~docs[x].active =>
                everAssigned[x] # {} /\ (x \notin begunAgain => docs[x].reviewed)
      BY DEF KeptInv, AssignedStaysReviewed, CompletedWasReviewed
    <2>2. CASE x = o
      <3>1. docs'[x] = N
        BY <1>1, <1>4, <2>2
      <3>2. CASE N.reviewed /\ N.maintenance # {}
                 /\ everAssigned' = [everAssigned EXCEPT ![o] = @ \union N.maintenance]
        <4>1. everAssigned'[x] # {}
          BY <1>4, <2>2, <3>2
        <4>. QED
          BY <1>4, <3>1, <3>2, <4>1
      <3>3. CASE ~N.reviewed /\ N.active /\ everAssigned' = everAssigned
                 /\ begunAgain' = begunAgain \union (IF docs[o] # None THEN {o} ELSE {})
        BY <1>4, <2>1, <2>2, <3>1, <3>3
      <3>4. CASE docs[o] # None /\ everAssigned[o] # {} /\ N.reviewed = docs[o].reviewed
                 /\ everAssigned' = everAssigned /\ begunAgain' = begunAgain
        BY <1>4, <2>1, <2>2, <3>1, <3>4
      <3>. QED
        BY <1>2, <3>2, <3>3, <3>4
    <2>3. CASE x # o
      <3>1. /\ docs'[x] = docs[x] /\ everAssigned'[x] = everAssigned[x]
            /\ x \notin begunAgain' => x \notin begunAgain
        BY <1>1, <1>2, <1>4, <2>3
      <3>. QED
        BY <2>1, <3>1
    <2>. QED
      BY <2>2, <2>3
  <1>. QED
    BY <1>5, <1>6 DEF KeptInv, AssignedStaysReviewed, CompletedWasReviewed

(* Steps that leave the server and the orders of the tenants' writes alone. *)
LEMMA TenantsQuiet ==
    ASSUME KeptInv, UNCHANGED serverVars,
           \A e \in Tenants : DOMAIN batch'[e] = DOMAIN batch[e],
           \A e \in Tenants : \A k \in DOMAIN batch[e] : batch'[e][k].order = batch[e][k].order
    PROVE  KeptInv'
  <1>1. docs' = docs /\ everAssigned' = everAssigned /\ begunAgain' = begunAgain
    BY DEF serverVars
  <1>2. AddedOnce'
    BY DEF KeptInv, AddedOnce
  <1>3. AssignedStaysReviewed' /\ CompletedWasReviewed'
    BY <1>1 DEF KeptInv, AssignedStaysReviewed, CompletedWasReviewed
  <1>. QED
    BY <1>2, <1>3 DEF KeptInv

(* What a device that is not a tenant's does to its queue is none of theirs.   *)
LEMMA OthersQuiet ==
    ASSUME IndInv, KeptInv, NEW d \in Device, d \notin Tenants, UNCHANGED serverVars,
           batch' = [batch EXCEPT ![d] = batch'[d]]
    PROVE  KeptInv'
  <1>1. \A e \in Tenants : batch'[e] = batch[e]
    BY DEF IndInv, TypeOK, Device
  <1>. QED
    BY <1>1, TenantsQuiet

(* A new order gets an id that no write of any device has used. *)
LEMMA SendButtonTappedKept ==
    ASSUME IndInv, KeptInv, NEW d \in Device, NEW i \in DOMAIN screens[d], NEW o \in Orders,
           SendButtonTapped(d, i, o)
    PROVE  KeptInv'
  <1>. DEFINE new == [order |-> o, state |-> "pending", handler |-> i,
                      write |-> [kind |-> "create", address |-> screens[d][i].address]]
  <1>1. /\ docs[o] = None
        /\ \A e \in Device : \A j \in DOMAIN batch[e] : batch[e][j].order # o
        /\ batch' = [batch EXCEPT ![d] = Append(@, new)]
        /\ docs' = docs /\ everAssigned' = everAssigned /\ begunAgain' = begunAgain
    BY DEF SendButtonTapped, Enqueue, serverVars
  <1>2. new.order = o
    OBVIOUS
  <1>. HIDE DEF new
  <1>3. /\ batch'[d] = Append(batch[d], new)
        /\ \A e \in Device \ {d} : batch'[e] = batch[e]
        /\ batch[d] \in Seq(Batch)
        /\ Tenants \subseteq Device
    BY <1>1 DEF IndInv, TypeOK, Device
  <1>4. /\ DOMAIN batch'[d] = DOMAIN batch[d] \union {Len(batch[d]) + 1}
        /\ batch'[d][Len(batch[d]) + 1] = new
        /\ \A j \in DOMAIN batch[d] : batch'[d][j] = batch[d][j]
    <2>1. batch[d] \in Seq(Batch \union {new}) /\ new \in Batch \union {new}
      BY <1>3, SeqMonotonic
    <2>. QED
      BY <1>3, <2>1, AppendSound
  <1>5. AddedOnce
    BY DEF KeptInv
  <1>6. AddedOnce'
    <2>. SUFFICES ASSUME NEW e \in Tenants, NEW f \in Tenants,
                         NEW j \in DOMAIN batch'[e], NEW k \in DOMAIN batch'[f]
                  PROVE  batch'[e][j].order = batch'[f][k].order => e = f /\ j = k
      BY DEF AddedOnce
    <2>1. CASE j \in DOMAIN batch[e] /\ k \in DOMAIN batch[f]
      <3>1. batch'[e][j] = batch[e][j] /\ batch'[f][k] = batch[f][k]
        BY <1>3, <1>4, <2>1
      <3>. QED
        BY <1>5, <2>1, <3>1 DEF AddedOnce
    <2>2. CASE j \notin DOMAIN batch[e]
      <3>1. e = d /\ j = Len(batch[d]) + 1 /\ batch'[e][j] = new
        BY <1>3, <1>4, <2>2
      <3>2. CASE k \in DOMAIN batch[f]
        BY <1>1, <1>2, <1>3, <1>4, <3>1, <3>2
      <3>3. CASE k \notin DOMAIN batch[f]
        BY <1>1, <1>2, <1>3, <1>4, <3>1, <3>3
      <3>. QED
        BY <3>2, <3>3
    <2>3. CASE j \in DOMAIN batch[e] /\ k \notin DOMAIN batch[f]
      <3>1. f = d /\ batch'[f][k] = new
        BY <1>3, <1>4, <2>3
      <3>2. batch'[e][j] = batch[e][j]
        BY <1>3, <1>4, <2>3
      <3>. QED
        BY <1>1, <1>2, <1>3, <1>5, <2>3, <3>1, <3>2 DEF AddedOnce
    <2>. QED
      BY <2>1, <2>2, <2>3
  <1>7. AssignedStaysReviewed' /\ CompletedWasReviewed'
    BY <1>1 DEF KeptInv, AssignedStaysReviewed, CompletedWasReviewed
  <1>. QED
    BY <1>6, <1>7 DEF KeptInv

(* Reviews are written by management and completions by workers only. *)
LEMMA StaffScreens ==
    ASSUME IndInv, NEW d \in Device, NEW i \in DOMAIN screens[d],
           FinishButtonTapped(d, i) \/ ConfirmCompletion(d, i)
    PROVE  d \notin Tenants
  <1>. DEFINE t == screens[d][i]
  <1>1. t \in SoundScreen(d)
    BY DeviceFacts
  <1>2. CASE FinishButtonTapped(d, i)
    <2>1. t.kind = "detail" /\ t.selected # {}
      BY <1>2 DEF FinishButtonTapped, Kind
    <2>2. t \in [kind : {"detail"}, workOrder : SeenOrder(d),
                 selected : IF d \in Managers THEN SUBSET Workers ELSE {{}},
                 addMaintenance : BOOLEAN]
      BY <1>1, <2>1 DEF SoundScreen
    <2>3. d \in Managers
      BY <2>1, <2>2
    <2>. QED
      BY <2>3, WorkOrderAssumption DEF WorkOrderAssumption
  <1>3. CASE ConfirmCompletion(d, i)
    <2>1. t.kind = "update"
      BY <1>3 DEF ConfirmCompletion, Kind
    <2>2. d \in Workers
      BY <1>1, <2>1 DEF SoundScreen
    <2>. QED
      BY <2>2, WorkOrderAssumption DEF WorkOrderAssumption
  <1>. QED
    BY <1>2, <1>3

(* The handlers of the screens keep it. *)
LEMMA ScreenStepKept ==
    ASSUME IndInv, KeptInv, NEW d \in Device, NEW i \in DOMAIN screens[d], ScreenStep(d, i)
    PROVE  KeptInv'
  <1>1. CASE UNCHANGED serverVars /\ batch' = batch
    BY <1>1, TenantsQuiet
  <1>2. CASE FinishButtonTapped(d, i) \/ ConfirmCompletion(d, i)
    <2>1. UNCHANGED serverVars /\ batch' = [batch EXCEPT ![d] = batch'[d]]
      BY <1>2 DEF FinishButtonTapped, ConfirmCompletion, Enqueue, IndInv, TypeOK
    <2>. QED
      BY <1>2, <2>1, StaffScreens, OthersQuiet
  <1>3. ASSUME NEW o \in Orders, SendButtonTapped(d, i, o)
        PROVE  KeptInv'
    BY <1>3, SendButtonTappedKept
  <1>4. \/ UNCHANGED serverVars /\ batch' = batch
        \/ FinishButtonTapped(d, i) \/ ConfirmCompletion(d, i)
        \/ \E o \in Orders : SendButtonTapped(d, i, o)
    BY DEF ScreenStep, TapListRow, OpenDetail, SelectWorker, DeselectWorker, AddressLoaded,
           WorkOrderCompleteButtonTapped, CancelCompletion
  <1>. QED
    BY <1>1, <1>2, <1>3, <1>4

(* Every step keeps it. *)
LEMMA KeptNext == IndInv /\ KeptInv /\ [Next]_vars => KeptInv'
  <1>. SUFFICES ASSUME IndInv, KeptInv, [Next]_vars
                PROVE  KeptInv'
    OBVIOUS
  <1>1. CASE UNCHANGED serverVars /\ batch' = batch
    BY <1>1, TenantsQuiet
  <1>2. ASSUME NEW d \in Device, NEW i \in DOMAIN screens[d], ScreenStep(d, i)
        PROVE  KeptInv'
    BY <1>2, ScreenStepKept
  <1>3. ASSUME NEW d \in Device, Relaunch(d) \/ LoseAnswers(d)
        PROVE  KeptInv'
    <2>1. UNCHANGED serverVars
      BY <1>3 DEF Relaunch, LoseAnswers
    <2>2. /\ \A e \in Device \ {d} : batch'[e] = batch[e]
          /\ DOMAIN batch'[d] = DOMAIN batch[d]
          /\ \A k \in DOMAIN batch[d] : batch'[d][k].order = batch[d][k].order
      BY <1>3, RelaunchFacts, LostFacts
    <2>3. \A e \in Tenants : /\ DOMAIN batch'[e] = DOMAIN batch[e]
                             /\ \A k \in DOMAIN batch[e] : batch'[e][k].order = batch[e][k].order
      BY <2>2 DEF Device
    <2>. QED
      BY <2>1, <2>3, TenantsQuiet
  <1>4. ASSUME NEW d \in Device, NEW j \in DOMAIN batch[d], Commit(d, j)
        PROVE  KeptInv'
    BY <1>4, CommitKept
  <1>5. ASSUME NEW d \in Device, NEW j \in DOMAIN batch[d], Reject(d, j) \/ Acknowledge(d, j)
        PROVE  KeptInv'
    <2>1. UNCHANGED serverVars
      BY <1>5 DEF Reject, Acknowledge
    <2>2. /\ \A e \in Device : DOMAIN batch'[e] = DOMAIN batch[e]
          /\ \A e \in Device : \A k \in DOMAIN batch[e] : batch'[e][k].order = batch[e][k].order
      BY <1>5, Answered
    <2>. QED
      BY <2>1, <2>2, TenantsQuiet DEF Device
  <1>7. ASSUME NEW d \in Device, DeviceStep(d)
        PROVE  \/ UNCHANGED serverVars /\ batch' = batch
               \/ \E i \in DOMAIN screens[d] : ScreenStep(d, i)
               \/ Relaunch(d)
    BY <1>7 DEF DeviceStep, TapDashboardRow, DashboardEvent, TenantRead, OpenComposer, Back
  <1>8. CASE UNCHANGED vars
    BY <1>1, <1>8 DEF vars
  <1>. QED
    BY <1>1, <1>2, <1>3, <1>4, <1>5, <1>7, <1>8 DEF Next, QueueStep

(* The app starts with orders that nobody has reviewed, and no writes. *)
LEMMA KeptInit == Init => KeptInv
  <1>. SUFFICES ASSUME Init
                PROVE  KeptInv
    OBVIOUS
  <1>1. \A d \in Tenants : DOMAIN batch[d] = {}
    BY DEF Init, Device
  <1>2. \A o \in Orders : everAssigned[o] = {}
    BY DEF Init
  <1>3. \A o \in Orders : docs[o] # None => docs[o].active
    <2>1. docs \in [Orders -> {NewDocument(a) : a \in Addresses} \union {None}]
      BY DEF Init
    <2>. QED
      BY <2>1 DEF NewDocument
  <1>. QED
    BY <1>1, <1>2, <1>3 DEF KeptInv, AddedOnce, AssignedStaysReviewed, CompletedWasReviewed

(* The writes of the tenants are of different orders.  An order that ever had  *)
(* staff is on the server, and it is reviewed, whatever the screens and queues *)
(* write to it, unless its tenant's write was sent again; and none is          *)
(* completed before it had staff.                                              *)
THEOREM OrdersAreKept == Spec => []KeptInv
  <1>1. Init => KeptInv
    BY KeptInit
  <1>2. IndInv /\ KeptInv /\ [Next]_vars => KeptInv'
    BY KeptNext
  <1>3. Spec => []IndInv
    BY Invariant
  <1>. QED
    BY <1>1, <1>2, <1>3, PTL DEF Spec

(* Only orders that management gave to somebody are completed, by the update   *)
(* screen's alert handler, whatever screens the workers have open; and they    *)
(* are reviewed still unless their tenant's write was sent again.              *)
THEOREM CompletedOnlyAfterReview == Spec => []CompletedWasReviewed
  <1>1. KeptInv => CompletedWasReviewed
    BY DEF KeptInv
  <1>2. Spec => []KeptInv
    BY OrdersAreKept
  <1>. QED
    BY <1>1, <1>2, PTL

------------------------------------------------------------------------------
(* Refinement of the ledger. *)

(* The app starts with orders that nobody has reviewed. *)
LEMMA LedgerStarts == Init => Ledger!LedgerInit
  <1>. SUFFICES ASSUME Init
                PROVE  Ledger!LedgerInit
    OBVIOUS
  <1>1. \A o \in Orders : docs[o] # None =>
              docs[o].maintenance = {} /\ ~docs[o].reviewed /\ docs[o].active
    <2>1. docs \in [Orders -> {NewDocument(a) : a \in Addresses} \union {None}]
      BY DEF Init
    <2>. QED
      BY <2>1 DEF NewDocument
  <1>2. Stage \in [Orders -> {"none", "requested"}]
    BY <1>1 DEF Stage
  <1>3. Staff = [o \in Orders |-> {}]
    BY <1>1 DEF Staff
  <1>4. everAssigned = [o \in Orders |-> {}] /\ Open = {}
    BY DEF Init, Open, Device
  <1>. QED
    BY <1>2, <1>3, <1>4 DEF Ledger!LedgerInit

(* The orders that are sent and not answered stay so, ... *)
LEMMA OpenKept ==
    ASSUME \A e \in Tenants :
              /\ DOMAIN batch'[e] = DOMAIN batch[e]
              /\ \A k \in DOMAIN batch[e] :
                    /\ batch'[e][k].order = batch[e][k].order
                    /\ Unsettled(batch'[e][k]) <=> Unsettled(batch[e][k])
    PROVE  Open' = Open
  <1>1. Open' = {o \in Orders : \E e \in Tenants : \E k \in DOMAIN batch'[e] :
                    batch'[e][k].order = o /\ Unsettled(batch'[e][k])}
    BY DEF Open, Unsettled
  <1>. QED
    BY <1>1 DEF Open

(* ... but for the one that is answered, which has no other write. *)
LEMMA OpenSettled ==
    ASSUME KeptInv, NEW d \in Tenants, NEW j \in DOMAIN batch[d],
           \A e \in Tenants :
              /\ DOMAIN batch'[e] = DOMAIN batch[e]
              /\ \A k \in DOMAIN batch[e] :
                    /\ batch'[e][k].order = batch[e][k].order
                    /\ Unsettled(batch'[e][k]) <=> Unsettled(batch[e][k]) /\ (e # d \/ k # j)
    PROVE  Open' = Open \ {batch[d][j].order}
  <1>1. Open' = {o \in Orders : \E e \in Tenants : \E k \in DOMAIN batch'[e] :
                    batch'[e][k].order = o /\ Unsettled(batch'[e][k])}
    BY DEF Open, Unsettled
  <1>2. \A e \in Tenants : \A k \in DOMAIN batch[e] :
            batch[e][k].order = batch[d][j].order => e = d /\ k = j
    BY DEF KeptInv, AddedOnce
  <1>. QED
    BY <1>1, <1>2 DEF Open

(* A step that writes nothing on the server and does not touch the tenants'    *)
(* writes is none of the ledger's.                                             *)
LEMMA LedgerStutters ==
    ASSUME docs' = docs, everAssigned' = everAssigned, Open' = Open
    PROVE  UNCHANGED Ledger!LedgerVars
  <1>1. Stage' = Stage /\ Staff' = Staff
    BY DEF Stage, Staff
  <1>. QED
    BY <1>1 DEF Ledger!LedgerVars

(* A commit is a step of the ledger: an order is submitted, by a tenant that   *)
(* has no answer yet, or it goes on, by whatever screen, however stale.        *)
LEMMA CommitIsLedgerStep ==
    ASSUME IndInv, NEW d \in Device, NEW j \in DOMAIN batch[d], Commit(d, j)
    PROVE  Ledger!LedgerNext
  <1>. DEFINE o == batch[d][j].order
              N == Applied(batch[d][j].write, docs[o])
  <1>1. /\ o \in Orders
        /\ N \in Document
        /\ docs' = [docs EXCEPT ![o] = N]
    BY CommitFacts
  <1>2. \/ /\ d \in Tenants /\ ~N.reviewed /\ N.active /\ N.maintenance = {}
           /\ everAssigned' = everAssigned
        \/ /\ docs[o] # None /\ N.reviewed /\ N.active = docs[o].active
           /\ N.maintenance # {} /\ N.maintenance \subseteq Workers
           /\ everAssigned' = [everAssigned EXCEPT ![o] = @ \union N.maintenance]
        \/ /\ docs[o] # None /\ everAssigned[o] # {} /\ ~N.active
           /\ N.maintenance = docs[o].maintenance
           /\ everAssigned' = everAssigned
    BY CommitFacts
  <1>3. N # None /\ docs \in [Orders -> Document \union {None}]
    BY <1>1, NoneAssumption DEF IndInv, TypeOK
  <1>4. Open' = Open
    <2>1. \A e \in Device :
              /\ DOMAIN batch'[e] = DOMAIN batch[e]
              /\ \A k \in DOMAIN batch[e] :
                    /\ batch'[e][k].order = batch[e][k].order
                    /\ Unsettled(batch'[e][k]) <=> Unsettled(batch[e][k])
      BY Answered
    <2>2. \A e \in Tenants :
              /\ DOMAIN batch'[e] = DOMAIN batch[e]
              /\ \A k \in DOMAIN batch[e] :
                    /\ batch'[e][k].order = batch[e][k].order
                    /\ Unsettled(batch'[e][k]) <=> Unsettled(batch[e][k])
      BY <2>1 DEF Device
    <2>. QED
      BY <2>2, OpenKept
  <1>5. d \in Tenants => o \in Open
    <2>1. Unsettled(batch[d][j])
      BY DEF Commit, Unsettled
    <2>. QED
      BY <1>1, <2>1 DEF Open
  <1>. HIDE DEF o, N
  <1>6. docs'[o] = N /\ \A x \in Orders \ {o} : docs'[x] = docs[x]
    BY <1>1, <1>3
  <1>. DEFINE stageOf(doc) == IF doc = None THEN "none"
                              ELSE IF ~doc.active THEN "completed"
                              ELSE IF doc.reviewed THEN "assigned" ELSE "requested"
              staffOf(doc) == IF doc = None THEN {} ELSE doc.maintenance
  <1>7. /\ Stage = [x \in Orders |-> stageOf(docs[x])]
        /\ Stage' = [x \in Orders |-> stageOf(docs'[x])]
        /\ Staff = [x \in Orders |-> staffOf(docs[x])]
        /\ Staff' = [x \in Orders |-> staffOf(docs'[x])]
    BY DEF Stage, Staff
  <1>. HIDE DEF stageOf, staffOf
  <1>8. /\ Stage' = [Stage EXCEPT ![o] = stageOf(N)]
        /\ Staff' = [Staff EXCEPT ![o] = staffOf(N)]
        /\ Stage[o] = stageOf(docs[o]) /\ Staff[o] = staffOf(docs[o])
    <2>1. \A x \in Orders : /\ Stage'[x] = IF x = o THEN stageOf(N) ELSE Stage[x]
                            /\ Staff'[x] = IF x = o THEN staffOf(N) ELSE Staff[x]
      BY <1>6, <1>7
    <2>2. /\ Stage' = [x \in Orders |-> Stage'[x]] /\ Staff' = [x \in Orders |-> Staff'[x]]
          /\ Stage = [x \in Orders |-> Stage[x]] /\ Staff = [x \in Orders |-> Staff[x]]
      BY <1>7
    <2>3. Stage' = [Stage EXCEPT ![o] = stageOf(N)]
      BY <1>1, <2>1, <2>2
    <2>4. Staff' = [Staff EXCEPT ![o] = staffOf(N)]
      BY <1>1, <2>1, <2>2
    <2>. QED
      BY <1>1, <1>7, <2>3, <2>4
  <1>9. CASE /\ d \in Tenants /\ ~N.reviewed /\ N.active /\ N.maintenance = {}
             /\ everAssigned' = everAssigned
    <2>1. stageOf(N) = "requested" /\ staffOf(N) = {}
      BY <1>3, <1>9 DEF stageOf, staffOf
    <2>2. Ledger!Submit(o)
      BY <1>4, <1>5, <1>8, <1>9, <2>1 DEF Ledger!Submit
    <2>. QED
      BY <1>1, <2>2 DEF Ledger!LedgerNext
  <1>10. CASE /\ docs[o] # None /\ N.reviewed /\ N.active = docs[o].active
              /\ N.maintenance # {} /\ N.maintenance \subseteq Workers
              /\ everAssigned' = [everAssigned EXCEPT ![o] = @ \union N.maintenance]
    <2>1. /\ staffOf(N) = N.maintenance
          /\ stageOf(docs[o]) # "none"
          /\ stageOf(N) = IF stageOf(docs[o]) = "completed" THEN stageOf(docs[o]) ELSE "assigned"
      BY <1>3, <1>10 DEF stageOf, staffOf
    <2>2. Ledger!Assign(o, N.maintenance)
      <3>1. Stage' = [Stage EXCEPT ![o] = IF @ = "completed" THEN @ ELSE "assigned"]
        BY <1>8, <2>1
      <3>2. Staff' = [Staff EXCEPT ![o] = N.maintenance]
        BY <1>8, <2>1
      <3>. QED
        BY <1>4, <1>8, <1>10, <2>1, <3>1, <3>2 DEF Ledger!Assign
    <2>. QED
      BY <1>1, <1>10, <2>2 DEF Ledger!LedgerNext
  <1>11. CASE /\ docs[o] # None /\ everAssigned[o] # {} /\ ~N.active
              /\ N.maintenance = docs[o].maintenance
              /\ everAssigned' = everAssigned
    <2>1. staffOf(N) = staffOf(docs[o]) /\ stageOf(N) = "completed" /\ stageOf(docs[o]) # "none"
      BY <1>3, <1>11 DEF staffOf, stageOf
    <2>2. Staff' = Staff
      BY <1>7, <1>8, <2>1
    <2>3. Ledger!Complete(o)
      BY <1>4, <1>8, <1>11, <2>1, <2>2 DEF Ledger!Complete
    <2>. QED
      BY <1>1, <2>3 DEF Ledger!LedgerNext
  <1>. QED
    BY <1>2, <1>9, <1>10, <1>11

(* An answer, good or bad, settles a tenant's order, or is none of the         *)
(* ledger's.                                                                   *)
LEMMA AnswerIsLedgerStep ==
    ASSUME IndInv, KeptInv, NEW d \in Device, NEW j \in DOMAIN batch[d],
           Reject(d, j) \/ Acknowledge(d, j)
    PROVE  [Ledger!LedgerNext]_(Ledger!LedgerVars)
  <1>1. docs' = docs /\ everAssigned' = everAssigned
    BY DEF Reject, Acknowledge, serverVars
  <1>2. ~Commit(d, j)
    <2>1. batch[d][j].state # "acked" /\ Unsettled(batch[d][j])
      BY DEF Reject, Acknowledge, Unsettled
    <2>2. ASSUME Commit(d, j)
          PROVE  FALSE
      <3>1. SetState(d, j, "committed") /\ batch[d][j].state = "pending"
        BY <2>2 DEF Commit, SetState
      <3>2. "committed" \in BatchState
        BY DEF BatchState
      <3>3. batch'[d][j].state = "committed"
        BY <3>1, <3>2, StateSet
      <3>4. ~Acknowledge(d, j)
        BY <3>1 DEF Acknowledge
      <3>5. ~Reject(d, j)
        BY <3>3, Blamed
      <3>. QED
        BY <3>4, <3>5
    <2>. QED
      BY <2>2
  <1>3. \A e \in Device :
            /\ DOMAIN batch'[e] = DOMAIN batch[e]
            /\ \A k \in DOMAIN batch[e] :
                  /\ batch'[e][k].order = batch[e][k].order
                  /\ Unsettled(batch'[e][k]) <=> Unsettled(batch[e][k]) /\ (e # d \/ k # j)
    BY <1>2, Answered
  <1>4. \A e \in Tenants :
            /\ DOMAIN batch'[e] = DOMAIN batch[e]
            /\ \A k \in DOMAIN batch[e] :
                  /\ batch'[e][k].order = batch[e][k].order
                  /\ Unsettled(batch'[e][k]) <=> Unsettled(batch[e][k]) /\ (e # d \/ k # j)
    BY <1>3 DEF Device
  <1>5. CASE d \in Tenants
    <2>1. Open' = Open \ {batch[d][j].order}
      BY <1>4, <1>5, OpenSettled
    <2>2. Stage' = Stage /\ Staff' = Staff
      BY <1>1 DEF Stage, Staff
    <2>3. Ledger!Settle(batch[d][j].order)
      BY <1>1, <2>1, <2>2 DEF Ledger!Settle
    <2>4. batch[d][j] \in SoundBatch(d)
      BY DeviceFacts
    <2>5. batch[d][j].order \in Orders
      BY <2>4 DEF SoundBatch, Seen
    <2>. QED
      BY <2>3, <2>5 DEF Ledger!LedgerNext
  <1>6. CASE d \notin Tenants
    <2>1. \A e \in Tenants :
            /\ DOMAIN batch'[e] = DOMAIN batch[e]
            /\ \A k \in DOMAIN batch[e] :
                  /\ batch'[e][k].order = batch[e][k].order
                  /\ Unsettled(batch'[e][k]) <=> Unsettled(batch[e][k])
      BY <1>4, <1>6
    <2>2. Open' = Open
      BY <2>1, OpenKept
    <2>. QED
      BY <1>1, <2>2, LedgerStutters
  <1>. QED
    BY <1>5, <1>6

(* Sending an order opens it.                                                  *)
LEMMA SendIsLedgerStep ==
    ASSUME IndInv, NEW d \in Device, NEW i \in DOMAIN screens[d], NEW o \in Orders,
           SendButtonTapped(d, i, o)
    PROVE  Ledger!LedgerNext
  <1>. DEFINE new == [order |-> o, state |-> "pending", handler |-> i,
                      write |-> [kind |-> "create", address |-> screens[d][i].address]]
  <1>1. /\ docs' = docs /\ everAssigned' = everAssigned
        /\ docs[o] = None
        /\ batch' = [batch EXCEPT ![d] = Append(@, new)]
    BY DEF SendButtonTapped, Enqueue, serverVars
  <1>2. d \in Tenants
    <2>1. screens[d][i] \in SoundScreen(d) /\ screens[d][i].kind = "compose"
      BY DeviceFacts DEF SendButtonTapped, Kind
    <2>. QED
      BY <2>1 DEF SoundScreen
  <1>3. new.order = o /\ Unsettled(new)
    BY DEF Unsettled
  <1>. HIDE DEF new
  <1>4. /\ batch'[d] = Append(batch[d], new)
        /\ \A e \in Device \ {d} : batch'[e] = batch[e]
        /\ batch[d] \in Seq(SoundBatch(d))
    BY <1>1, DeviceFacts DEF IndInv, TypeOK
  <1>5. /\ DOMAIN batch'[d] = DOMAIN batch[d] \union {Len(batch[d]) + 1}
        /\ batch'[d][Len(batch[d]) + 1] = new
        /\ \A j \in DOMAIN batch[d] : batch'[d][j] = batch[d][j]
    <2>1. batch[d] \in Seq(SoundBatch(d) \union {new}) /\ new \in SoundBatch(d) \union {new}
      BY <1>4, SeqMonotonic
    <2>. QED
      BY <1>4, <2>1, AppendSound
  <1>6. Open' = {x \in Orders : \E e \in Tenants : \E k \in DOMAIN batch'[e] :
                    batch'[e][k].order = x /\ Unsettled(batch'[e][k])}
    BY DEF Open, Unsettled
  <1>7. \A e \in Tenants \ {d} : batch'[e] = batch[e]
    BY <1>4 DEF Device
  <1>8. Open' = Open \union {o}
    <2>1. o \in Open'
      BY <1>2, <1>3, <1>5, <1>6
    <2>2. ASSUME NEW x \in Open
          PROVE  x \in Open'
      <3>1. PICK e \in Tenants : \E k \in DOMAIN batch[e] :
                    batch[e][k].order = x /\ Unsettled(batch[e][k])
        BY <2>2 DEF Open
      <3>2. x \in Orders
        BY <2>2 DEF Open
      <3>. QED
        BY <1>5, <1>6, <1>7, <3>1, <3>2
    <2>3. ASSUME NEW x \in Open', x # o
          PROVE  x \in Open
      <3>1. PICK e \in Tenants : \E k \in DOMAIN batch'[e] :
                    batch'[e][k].order = x /\ Unsettled(batch'[e][k])
        BY <1>6, <2>3
      <3>2. x \in Orders
        BY <1>6, <2>3
      <3>. QED
        BY <1>3, <1>5, <1>7, <2>3, <3>1, <3>2 DEF Open
    <2>. QED
      BY <2>1, <2>2, <2>3
  <1>9. Stage' = Stage /\ Staff' = Staff /\ Stage[o] = "none"
    BY <1>1 DEF Stage, Staff
  <1>10. Ledger!Send(o)
    BY <1>1, <1>8, <1>9 DEF Ledger!Send
  <1>. QED
    BY <1>10 DEF Ledger!LedgerNext

(* The other steps of a screen are none of the ledger's. *)
LEMMA ScreenIsLedgerStep ==
    ASSUME IndInv, NEW d \in Device, NEW i \in DOMAIN screens[d], ScreenStep(d, i)
    PROVE  [Ledger!LedgerNext]_(Ledger!LedgerVars)
  <1>1. CASE UNCHANGED serverVars /\ batch' = batch
    <2>1. Open' = Open
      BY <1>1, OpenKept
    <2>. QED
      BY <1>1, <2>1, LedgerStutters DEF serverVars
  <1>2. CASE FinishButtonTapped(d, i) \/ ConfirmCompletion(d, i)
    <2>1. UNCHANGED serverVars /\ \A e \in Device \ {d} : batch'[e] = batch[e]
      BY <1>2 DEF FinishButtonTapped, ConfirmCompletion, Enqueue, IndInv, TypeOK
    <2>2. \A e \in Tenants : batch'[e] = batch[e]
      BY <1>2, <2>1, StaffScreens DEF Device
    <2>3. Open' = Open
      BY <2>2, OpenKept
    <2>. QED
      BY <2>1, <2>3, LedgerStutters DEF serverVars
  <1>3. ASSUME NEW o \in Orders, SendButtonTapped(d, i, o)
        PROVE  [Ledger!LedgerNext]_(Ledger!LedgerVars)
    BY <1>3, SendIsLedgerStep
  <1>4. \/ UNCHANGED serverVars /\ batch' = batch
        \/ FinishButtonTapped(d, i) \/ ConfirmCompletion(d, i)
        \/ \E o \in Orders : SendButtonTapped(d, i, o)
    BY DEF ScreenStep, TapListRow, OpenDetail, SelectWorker, DeselectWorker, AddressLoaded,
           WorkOrderCompleteButtonTapped, CancelCompletion
  <1>. QED
    BY <1>1, <1>2, <1>3, <1>4

(* Whatever the devices do, with screens however stale and answers however     *)
(* late, the server's orders go through the ledger's stages.                   *)
LEMMA LedgerGoesOn == IndInv /\ KeptInv /\ [Next]_vars => [Ledger!LedgerNext]_(Ledger!LedgerVars)
  <1>. SUFFICES ASSUME IndInv, KeptInv, [Next]_vars
                PROVE  [Ledger!LedgerNext]_(Ledger!LedgerVars)
    OBVIOUS
  <1>1. CASE UNCHANGED serverVars /\ batch' = batch
    <2>1. Open' = Open
      BY <1>1, OpenKept
    <2>. QED
      BY <1>1, <2>1, LedgerStutters DEF serverVars
  <1>2. ASSUME NEW d \in Device, NEW j \in DOMAIN batch[d], Commit(d, j)
        PROVE  [Ledger!LedgerNext]_(Ledger!LedgerVars)
    BY <1>2, CommitIsLedgerStep
  <1>3. ASSUME NEW d \in Device, NEW i \in DOMAIN screens[d], ScreenStep(d, i)
        PROVE  [Ledger!LedgerNext]_(Ledger!LedgerVars)
    BY <1>3, ScreenIsLedgerStep
  <1>4. ASSUME NEW d \in Device, NEW j \in DOMAIN batch[d], Reject(d, j) \/ Acknowledge(d, j)
        PROVE  [Ledger!LedgerNext]_(Ledger!LedgerVars)
    BY <1>4, AnswerIsLedgerStep
  <1>5. ASSUME NEW d \in Device, Relaunch(d) \/ LoseAnswers(d)
        PROVE  [Ledger!LedgerNext]_(Ledger!LedgerVars)
    <2>1. UNCHANGED serverVars
      BY <1>5 DEF Relaunch, LoseAnswers
    <2>2. /\ \A e \in Device \ {d} : batch'[e] = batch[e]
          /\ DOMAIN batch'[d] = DOMAIN batch[d]
          /\ \A k \in DOMAIN batch[d] :
                /\ batch'[d][k].order = batch[d][k].order
                /\ Unsettled(batch'[d][k]) <=> Unsettled(batch[d][k])
      BY <1>5, RelaunchFacts, LostFacts
    <2>3. \A e \in Tenants :
            /\ DOMAIN batch'[e] = DOMAIN batch[e]
            /\ \A k \in DOMAIN batch[e] :
                  /\ batch'[e][k].order = batch[e][k].order
                  /\ Unsettled(batch'[e][k]) <=> Unsettled(batch[e][k])
      BY <2>2 DEF Device
    <2>4. Open' = Open
      BY <2>3, OpenKept
    <2>. QED
      BY <2>1, <2>4, LedgerStutters DEF serverVars
  <1>6. ASSUME NEW d \in Device, DeviceStep(d)
        PROVE  \/ UNCHANGED serverVars /\ batch' = batch
               \/ \E i \in DOMAIN screens[d] : ScreenStep(d, i)
               \/ Relaunch(d)
    BY <1>6 DEF DeviceStep, TapDashboardRow, DashboardEvent, TenantRead, OpenComposer, Back
  <1>7. CASE UNCHANGED vars
    BY <1>1, <1>7 DEF vars
  <1>. QED
    BY <1>1, <1>2, <1>3, <1>4, <1>5, <1>6, <1>7 DEF Next, QueueStep

(* The app implements the ledger: an order begins again only while its tenant  *)
(* has no answer, and is otherwise assigned and then completed, by those it    *)
(* was given to.                                                               *)
THEOREM Refinement == Spec => ImplementsLedger
  <1>1. Init => Ledger!LedgerInit
    BY LedgerStarts
  <1>2. IndInv /\ KeptInv /\ [Next]_vars => [Ledger!LedgerNext]_(Ledger!LedgerVars)
    BY LedgerGoesOn
  <1>3. Spec => []IndInv /\ []KeptInv
    BY Invariant, OrdersAreKept
  <1>. QED
    BY <1>1, <1>2, <1>3, PTL DEF Spec, ImplementsLedger, Ledger!LedgerSpec

------------------------------------------------------------------------------
(* What the navigation stack of a device guarantees about the writes that its  *)
(* screens have made.                                                          *)

(* Only the device that moves can bring an accepted screen back. *)
LEMMA GoneOnDevice ==
    ASSUME IndInv, AcceptedScreenIsGone, NEW d \in Device,
           \A e \in Device \ {d} : batch'[e] = batch[e] /\ stack'[e] = stack[e],
           \A j \in DOMAIN batch'[d] :
                batch'[d][j].state = "acked" => batch'[d][j].handler \notin stack'[d]
    PROVE  AcceptedScreenIsGone'
  BY DEF AcceptedScreenIsGone

(* Nor can a step that answers nothing and pushes nothing. *)
LEMMA GoneUnlessPushed ==
    ASSUME IndInv, AcceptedScreenIsGone, NEW d \in Device, batch' = batch,
           stack' = [stack EXCEPT ![d] = stack'[d]], stack'[d] \subseteq stack[d]
    PROVE  AcceptedScreenIsGone'
  <1>1. \A e \in Device \ {d} : stack'[e] = stack[e]
    BY DEF IndInv, TypeOK
  <1>2. \A j \in DOMAIN batch[d] :
            batch[d][j].state = "acked" => batch[d][j].handler \notin stack[d]
    BY DEF AcceptedScreenIsGone
  <1>. QED
    BY <1>1, <1>2, GoneOnDevice

(* A pushed screen is a new one, which no answered write belongs to. *)
LEMMA GoneWhenPushed ==
    ASSUME IndInv, AcceptedScreenIsGone, NEW d \in Device, batch' = batch,
           NEW old \in Seq(SoundScreen(d)), DOMAIN old = DOMAIN screens[d],
           NEW new, Push(d, old, new)
    PROVE  AcceptedScreenIsGone'
  <1>1. /\ stack'[d] = stack[d] \union {Len(old) + 1}
        /\ \A e \in Device \ {d} : stack'[e] = stack[e]
    BY DEF Push, IndInv, TypeOK
  <1>2. Len(old) \in Nat /\ DOMAIN old = 1 .. Len(old)
    BY LenProperties
  <1>3. ASSUME NEW j \in DOMAIN batch[d], batch[d][j].state = "acked"
        PROVE  batch[d][j].handler \notin stack'[d]
    <2>1. batch[d][j].handler \notin stack[d]
      BY <1>3 DEF AcceptedScreenIsGone
    <2>2. batch[d][j].handler # 0 => batch[d][j].handler \in DOMAIN old
      BY DeviceFacts
    <2>3. batch[d][j].handler # Len(old) + 1
      BY <1>2, <2>2
    <2>. QED
      BY <1>1, <2>1, <2>3
  <1>. QED
    BY <1>1, <1>3, GoneOnDevice

(* A write that has just been queued is not answered. *)
LEMMA GoneWhenQueued ==
    ASSUME IndInv, AcceptedScreenIsGone, NEW d \in Device, stack' = stack,
           NEW i, NEW o, NEW write, Enqueue(d, i, o, write)
    PROVE  AcceptedScreenIsGone'
  <1>. DEFINE new == [order |-> o, write |-> write, handler |-> i, state |-> "pending"]
  <1>1. /\ batch'[d] = Append(batch[d], new)
        /\ \A e \in Device \ {d} : batch'[e] = batch[e]
    BY DEF Enqueue, IndInv, TypeOK
  <1>2. new.state # "acked"
    OBVIOUS
  <1>. HIDE DEF new
  <1>3. /\ Len(batch[d]) \in Nat
        /\ DOMAIN batch[d] = 1 .. Len(batch[d])
        /\ DOMAIN batch'[d] = 1 .. Len(batch[d]) + 1
        /\ batch'[d][Len(batch[d]) + 1] = new
        /\ \A j \in 1 .. Len(batch[d]) : batch'[d][j] = batch[d][j]
    <2>1. batch[d] \in Seq(SoundBatch(d))
      BY DeviceFacts
    <2>. QED
      BY <1>1, <2>1, LenProperties
  <1>4. ASSUME NEW j \in DOMAIN batch'[d], batch'[d][j].state = "acked"
        PROVE  batch'[d][j].handler \notin stack'[d]
    <2>1. j \in DOMAIN batch[d] /\ batch'[d][j] = batch[d][j]
      BY <1>2, <1>3, <1>4
    <2>. QED
      BY <1>4, <2>1 DEF AcceptedScreenIsGone
  <1>. QED
    BY <1>1, <1>4, GoneOnDevice

(* A commit or a refusal is not an acknowledgement. *)
LEMMA NotAcknowledged ==
    ASSUME IndInv, NEW d \in Device, NEW j \in DOMAIN batch[d], Commit(d, j) \/ Reject(d, j)
    PROVE  ~Acknowledge(d, j)
  <1>1. "acked" \in BatchState
    BY DEF BatchState
  <1>2. ASSUME Acknowledge(d, j)
        PROVE  FALSE
    <2>1. SetState(d, j, "acked") /\ batch[d][j].state = "committed"
      BY <1>2 DEF Acknowledge, SetState
    <2>2. batch'[d][j].state = "acked"
      BY <1>1, <2>1, StateSet
    <2>3. ~Reject(d, j)
      BY <2>2, Blamed
    <2>. QED
      BY <2>1, <2>3 DEF Commit
  <1>. QED
    BY <1>2

(* A commit or a refusal makes no write acknowledged. *)
LEMMA GoneWhenUnanswered ==
    ASSUME IndInv, AcceptedScreenIsGone, NEW d \in Device, NEW j \in DOMAIN batch[d],
           Commit(d, j) \/ Reject(d, j)
    PROVE  AcceptedScreenIsGone'
  <1>1. stack' = stack
    BY DEF Commit, Reject, appVars
  <1>2. ASSUME NEW e \in Device, NEW k \in DOMAIN batch'[e], batch'[e][k].state = "acked"
        PROVE  batch'[e][k].handler \notin stack'[e]
    <2>1. /\ k \in DOMAIN batch[e] /\ batch[e][k].state = "acked"
          /\ batch'[e][k].handler = batch[e][k].handler
      BY <1>2, Answered, NotAcknowledged
    <2>. QED
      BY <1>1, <2>1 DEF AcceptedScreenIsGone
  <1>. QED
    BY <1>2 DEF AcceptedScreenIsGone

(* Nor does the loss of an answer. *)
LEMMA GoneWhenLost ==
    ASSUME IndInv, AcceptedScreenIsGone, NEW d \in Device, LoseAnswers(d)
    PROVE  AcceptedScreenIsGone'
  <1>1. stack' = stack
    BY DEF LoseAnswers, appVars
  <1>2. ASSUME NEW k \in DOMAIN batch'[d], batch'[d][k].state = "acked"
        PROVE  batch'[d][k].handler \notin stack'[d]
    <2>1. /\ k \in DOMAIN batch[d] /\ batch[d][k].state = "acked"
          /\ batch'[d][k].handler = batch[d][k].handler
      BY <1>2, LostFacts
    <2>. QED
      BY <1>1, <2>1 DEF AcceptedScreenIsGone
  <1>. QED
    BY <1>1, <1>2, LostFacts, GoneOnDevice

(* The completion block takes its own screen off the stack, with all others. *)
LEMMA GoneWhenAcknowledged ==
    ASSUME IndInv, AcceptedScreenIsGone, NEW d \in Device, NEW j \in DOMAIN batch[d],
           Acknowledge(d, j)
    PROVE  AcceptedScreenIsGone'
  <1>. DEFINE h == batch[d][j].handler
  <1>1. /\ batch'[d] = [batch[d] EXCEPT ![j].state = "acked"]
        /\ \A e \in Device \ {d} : batch'[e] = batch[e] /\ stack'[e] = stack[e]
        /\ \/ h \in stack[d] /\ stack'[d] = {}
           \/ h \notin stack[d] /\ stack'[d] = stack[d]
    BY DEF Acknowledge, IndInv, TypeOK
  <1>2. batch[d][j] \in SoundBatch(d)
    BY DeviceFacts
  <1>3. batch'[d][j].handler = h
    BY <1>1, <1>2 DEF SoundBatch
  <1>. HIDE DEF h
  <1>4. ASSUME NEW k \in DOMAIN batch'[d], batch'[d][k].state = "acked"
        PROVE  batch'[d][k].handler \notin stack'[d]
    <2>1. CASE k = j
      BY <1>1, <1>3, <2>1
    <2>2. CASE k # j
      <3>1. k \in DOMAIN batch[d] /\ batch'[d][k] = batch[d][k]
        BY <1>1, <2>2
      <3>2. batch[d][k].handler \notin stack[d]
        BY <1>4, <3>1 DEF AcceptedScreenIsGone
      <3>. QED
        BY <1>1, <3>1, <3>2
    <2>. QED
      BY <2>1, <2>2
  <1>. QED
    BY <1>1, <1>4, GoneOnDevice

(* A relaunched app has an empty stack. *)
LEMMA GoneWhenRelaunched ==
    ASSUME IndInv, AcceptedScreenIsGone, NEW d \in Device, Relaunch(d)
    PROVE  AcceptedScreenIsGone'
  <1>1. /\ stack'[d] = {}
        /\ \A e \in Device \ {d} : batch'[e] = batch[e] /\ stack'[e] = stack[e]
    BY DEF Relaunch, IndInv, TypeOK
  <1>. QED
    BY <1>1, GoneOnDevice

(* The steps of a screen. *)
LEMMA GoneAfterScreenStep ==
    ASSUME IndInv, AcceptedScreenIsGone, NEW d \in Device, NEW i \in DOMAIN screens[d],
           ScreenStep(d, i)
    PROVE  AcceptedScreenIsGone'
  <1>1. CASE batch' = batch /\ stack' = stack
    <2>1. stack' = [stack EXCEPT ![d] = stack'[d]] /\ stack'[d] \subseteq stack[d]
      BY <1>1, DeviceFacts
    <2>. QED
      BY <1>1, <2>1, GoneUnlessPushed
  <1>2. ASSUME NEW w \in WorkOrder, OpenDetail(d, i, w)
        PROVE  AcceptedScreenIsGone'
    <2>. DEFINE opened == [screens[d] EXCEPT ![i].tapped = @ \ {w}]
    <2>1. batch' = batch
      BY <1>2 DEF OpenDetail
    <2>2. CASE stack' = stack
      BY <1>1, <2>1, <2>2
    <2>3. ASSUME NEW new, Push(d, opened, new)
          PROVE  AcceptedScreenIsGone'
      <3>. DEFINE s == [screens[d][i] EXCEPT !.tapped = @ \ {w}]
      <3>1. screens[d][i] \in SoundScreen(d) /\ screens[d][i].kind = "list"
        BY <1>2, DeviceFacts DEF OpenDetail, Kind
      <3>2. s \in SoundScreen(d)
        BY <3>1 DEF SoundScreen
      <3>3. opened = [screens[d] EXCEPT ![i] = s]
        OBVIOUS
      <3>. HIDE DEF s
      <3>4. opened \in Seq(SoundScreen(d)) /\ DOMAIN opened = DOMAIN screens[d]
        BY <3>2, <3>3, DeviceFacts, ExceptSound
      <3>. HIDE DEF opened
      <3>. QED
        BY <2>1, <2>3, <3>4, GoneWhenPushed
    <2>. HIDE DEF opened
    <2>4. stack' = stack \/ \E new : Push(d, opened, new)
      BY <1>2 DEF OpenDetail, opened
    <2>. QED
      BY <2>2, <2>3, <2>4
  <1>3. ASSUME stack' = stack, NEW o, NEW write, Enqueue(d, i, o, write)
        PROVE  AcceptedScreenIsGone'
    BY <1>3, GoneWhenQueued
  <1>4. CASE FinishButtonTapped(d, i) \/ ConfirmCompletion(d, i)
             \/ \E o \in Orders : SendButtonTapped(d, i, o)
    <2>1. stack' = stack /\ \E o, write : Enqueue(d, i, o, write)
      BY <1>4 DEF FinishButtonTapped, ConfirmCompletion, SendButtonTapped, appVars
    <2>. QED
      BY <1>3, <2>1
  <1>5. CASE \/ \E w \in WorkOrder : TapListRow(d, i, w)
             \/ \E p \in Workers : SelectWorker(d, i, p) \/ DeselectWorker(d, i, p)
             \/ AddressLoaded(d, i)
             \/ WorkOrderCompleteButtonTapped(d, i)
             \/ CancelCompletion(d, i)
    <2>1. batch' = batch /\ stack' = stack
      BY <1>5 DEF TapListRow, SelectWorker, DeselectWorker, AddressLoaded,
                  WorkOrderCompleteButtonTapped, CancelCompletion
    <2>. QED
      BY <1>1, <2>1
  <1>. QED
    BY <1>2, <1>4, <1>5 DEF ScreenStep

(* No step brings back the screen of a write that has been accepted. *)
LEMMA GoneStaysGone ==
    IndInv /\ AcceptedScreenIsGone /\ [Next]_vars => AcceptedScreenIsGone'
  <1>. SUFFICES ASSUME IndInv, AcceptedScreenIsGone, [Next]_vars
                PROVE  AcceptedScreenIsGone'
    OBVIOUS
  <1>1. ASSUME NEW d \in Device, NEW q \in Query, TapDashboardRow(d, q)
        PROVE  AcceptedScreenIsGone'
    <2>1. batch' = batch /\ stack' = [stack EXCEPT ![d] = stack'[d]] /\ stack'[d] \subseteq stack[d]
      BY <1>1, DeviceFacts DEF TapDashboardRow
    <2>. QED
      BY <2>1, GoneUnlessPushed
  <1>2. ASSUME NEW d \in Device, NEW k \in DOMAIN listener[d], DashboardEvent(d, k)
        PROVE  AcceptedScreenIsGone'
    <2>1. batch' = batch /\ stack' = stack
      BY <1>2 DEF DashboardEvent
    <2>. QED
      BY <2>1 DEF AcceptedScreenIsGone
  <1>11. ASSUME NEW d \in Device, NEW p \in DOMAIN parses[d], NEW w \in WorkOrder,
                TenantRead(d, p, w)
         PROVE  AcceptedScreenIsGone'
    <2>1. batch' = batch /\ (stack' = stack \/ \E new : Push(d, screens[d], new))
      BY <1>11 DEF TenantRead
    <2>2. screens[d] \in Seq(SoundScreen(d))
      BY DeviceFacts
    <2>3. CASE stack' = stack
      BY <2>1, <2>3 DEF AcceptedScreenIsGone
    <2>4. CASE \E new : Push(d, screens[d], new)
      BY <2>1, <2>2, <2>4, GoneWhenPushed
    <2>. QED
      BY <2>1, <2>3, <2>4
  <1>3. ASSUME NEW d \in Device, NEW i \in DOMAIN screens[d], ScreenStep(d, i)
        PROVE  AcceptedScreenIsGone'
    BY <1>3, GoneAfterScreenStep
  <1>4. ASSUME NEW d \in Device, OpenComposer(d)
        PROVE  AcceptedScreenIsGone'
    <2>1. batch' = batch /\ \E new : Push(d, screens[d], new)
      BY <1>4 DEF OpenComposer
    <2>2. screens[d] \in Seq(SoundScreen(d))
      BY DeviceFacts
    <2>. QED
      BY <2>1, <2>2, GoneWhenPushed
  <1>5. ASSUME NEW d \in Device, Back(d)
        PROVE  AcceptedScreenIsGone'
    <2>1. batch' = batch /\ stack' = [stack EXCEPT ![d] = stack'[d]] /\ stack'[d] \subseteq stack[d]
      BY <1>5 DEF Back, IndInv, TypeOK
    <2>. QED
      BY <2>1, GoneUnlessPushed
  <1>6. ASSUME NEW d \in Device, Relaunch(d)
        PROVE  AcceptedScreenIsGone'
    BY <1>6, GoneWhenRelaunched
  <1>7. ASSUME NEW d \in Device, NEW j \in DOMAIN batch[d], Commit(d, j) \/ Reject(d, j)
        PROVE  AcceptedScreenIsGone'
    BY <1>7, GoneWhenUnanswered
  <1>8. ASSUME NEW d \in Device, NEW j \in DOMAIN batch[d], Acknowledge(d, j)
        PROVE  AcceptedScreenIsGone'
    BY <1>8, GoneWhenAcknowledged
  <1>9. CASE UNCHANGED vars
    BY <1>9 DEF vars, appVars, AcceptedScreenIsGone
  <1>10. ASSUME NEW d \in Device, LoseAnswers(d)
         PROVE  AcceptedScreenIsGone'
    BY <1>10, GoneWhenLost
  <1>. QED
    BY <1>1, <1>2, <1>3, <1>4, <1>5, <1>6, <1>7, <1>8, <1>9, <1>10, <1>11
       DEF Next, DeviceStep, QueueStep

(* Once a review, a completion or a new order is accepted, the user cannot go  *)
(* back to the screen it was sent from: popToViewController, and the numbering *)
(* of the screens, leave no way back to it.                                    *)
THEOREM AcceptedScreenNeverReturns == Spec => []AcceptedScreenIsGone
  <1>1. Init => AcceptedScreenIsGone
    BY DEF Init, AcceptedScreenIsGone
  <1>2. IndInv /\ AcceptedScreenIsGone /\ [Next]_vars => AcceptedScreenIsGone'
    BY GoneStaysGone
  <1>3. Spec => []IndInv
    BY Invariant
  <1>. QED
    BY <1>1, <1>2, <1>3, PTL DEF Spec
==============================================================================
