------------------------------ MODULE ListProofs ------------------------------
(* Proofs about DashboardLists, for any orders and any number of snapshots and *)
(* calls.  What makes a snapshot push one list only is that a parse's count    *)
(* never falls: after the list it is at least the size of the snapshot, and    *)
(* every later call of a listener takes it beyond.                             *)
EXTENDS DashboardLists, FiniteSetTheorems, TLAPS

(* A list comes from a parse that had counted all of its orders by then. *)
ListedIsFinished ==
    \A i \in DOMAIN lists :
        lists[i].parse \in DOMAIN parses /\ Finished(parses[lists[i].parse])

ListInv == TypeOK /\ ListedIsFinished /\ OneListPerParse

(* The size of a snapshot is a number the count can be compared with. *)
LEMMA SizeIsNat ==
    ASSUME NEW p \in Parse
    PROVE  Cardinality(p.docs) \in Nat
<1>1. p.docs \subseteq Orders  BY DEF Parse
<1> QED  BY <1>1, ListAssumption, FS_Subset, FS_CardinalityType DEF ListAssumption

(* A call of a listener leaves the number of parses and their snapshots alone, *)
(* and takes no count down.                                                    *)
LEMMA CalledCounts ==
    ASSUME TypeOK, NEW p \in DOMAIN parses, NEW o \in Orders
    PROVE  /\ Called(p, o) \in Seq(Parse)
           /\ Len(Called(p, o)) = Len(parses)
           /\ Called(p, o)[p].count = parses[p].count + 1
           /\ \A q \in DOMAIN parses :
                /\ Called(p, o)[q].docs = parses[q].docs
                /\ Called(p, o)[q].count >= parses[q].count
<1>1. parses \in Seq(Parse)  BY DEF TypeOK
<1>2. DOMAIN parses = 1 .. Len(parses) /\ Len(parses) \in Nat  BY <1>1
<1>3. ASSUME NEW q \in DOMAIN parses
      PROVE  parses[q] \in Parse
  BY <1>1, <1>3
<1>4. ASSUME NEW q \in DOMAIN parses
      PROVE  /\ Called(p, o)[q] \in Parse
             /\ Called(p, o)[q].docs = parses[q].docs
             /\ Called(p, o)[q].count >= parses[q].count
             /\ q = p => Called(p, o)[q].count = parses[q].count + 1
  <2>1. parses[q] \in Parse  BY <1>3
  <2>2. CASE q = p
    <3> DEFINE quiet == parses[q].alone /\ (parses[q].calls[o] = 0 \/ Finished(parses[q]))
    <3>1. quiet \in BOOLEAN  OBVIOUS
    <3>2. Called(p, o)[q] = [parses[q] EXCEPT !.count = @ + 1, !.calls[o] = @ + 1, !.alone = quiet]
      BY <2>2, Zenon DEF Called
    <3> DEFINE calls == [parses[q].calls EXCEPT ![o] = @ + 1]
    <3>3. calls \in [Orders -> Nat]  BY <2>1 DEF Parse
    <3> HIDE DEF quiet
    <3>4. Called(p, o)[q] = [docs |-> parses[q].docs, count |-> parses[q].count + 1,
                             calls |-> calls, alone |-> quiet]
      BY <2>1, <3>2 DEF Parse
    <3> HIDE DEF calls
    <3> QED  BY <2>1, <2>2, <3>1, <3>3, <3>4 DEF Parse
  <2>3. CASE q # p
    <3> DEFINE quiet == parses[q].alone /\ Finished(parses[q])
    <3>1. quiet \in BOOLEAN  OBVIOUS
    <3>2. Called(p, o)[q] = [parses[q] EXCEPT !.alone = quiet]
      BY <2>3, Zenon DEF Called
    <3> HIDE DEF quiet
    <3> QED  BY <2>1, <2>3, <3>1, <3>2 DEF Parse
  <2> QED  BY <2>2, <2>3
<1>5. DOMAIN Called(p, o) = 1 .. Len(parses)  BY <1>2 DEF Called
<1>6. Called(p, o) \in [1 .. Len(parses) -> Parse]
  BY <1>2, <1>4, <1>5 DEF Called
<1>7. Called(p, o) \in Seq(Parse) /\ Len(Called(p, o)) = Len(parses)  BY <1>2, <1>6
<1> QED  BY <1>4, <1>7

LEMMA ListInit == Init => ListInv
  BY DEF Init, ListInv, TypeOK, ListedIsFinished, OneListPerParse

(* A new snapshot is a new parse, and no list comes from it yet. *)
LEMMA ListParse ==
    ASSUME ListInv, NEW docs \in SUBSET Orders, ParseWorkOrders(docs)
    PROVE  ListInv'
<1> DEFINE new == [docs |-> docs, count |-> 0, calls |-> [o \in Orders |-> 0], alone |-> TRUE]
           old == [p \in DOMAIN parses |->
                      [parses[p] EXCEPT !.alone = @ /\ Finished(parses[p])]]
<1>1. parses \in Seq(Parse) /\ lists \in Seq(List)  BY DEF ListInv, TypeOK
<1>2. DOMAIN parses = 1 .. Len(parses) /\ Len(parses) \in Nat  BY <1>1
<1>3. new \in Parse  BY DEF Parse
<1>4. ASSUME NEW p \in DOMAIN parses
      PROVE  old[p] \in Parse /\ old[p].docs = parses[p].docs /\ old[p].count = parses[p].count
  <2> DEFINE quiet == parses[p].alone /\ Finished(parses[p])
  <2>1. quiet \in BOOLEAN  OBVIOUS
  <2>2. old[p] = [parses[p] EXCEPT !.alone = quiet]  BY Zenon
  <2>3. parses[p] \in Parse  BY <1>1
  <2> HIDE DEF quiet, old
  <2> QED  BY <2>1, <2>2, <2>3 DEF Parse
<1>5. old \in [1 .. Len(parses) -> Parse]  BY <1>2, <1>4
<1> HIDE DEF old, new
<1>6. old \in Seq(Parse) /\ Len(old) = Len(parses)  BY <1>2, <1>5
<1>7. parses' = Append(old, new)  BY DEF ParseWorkOrders, old, new
<1>8. TypeOK'
  <2>1. parses' \in Seq(Parse)  BY <1>3, <1>6, <1>7
  <2>2. workOrders' = <<>> /\ lists' = lists  BY DEF ParseWorkOrders
  <2> QED  BY <1>1, <2>1, <2>2 DEF TypeOK
<1>9. lists' = lists  BY DEF ParseWorkOrders
<1>10. ListedIsFinished'
  <2> SUFFICES ASSUME NEW i \in DOMAIN lists
               PROVE  /\ lists[i].parse \in DOMAIN parses'
                      /\ Finished(parses'[lists[i].parse])
    BY <1>9 DEF ListedIsFinished
  <2>1. lists[i].parse \in DOMAIN parses /\ Finished(parses[lists[i].parse])
    BY DEF ListInv, ListedIsFinished
  <2>2. /\ lists[i].parse \in DOMAIN parses'
        /\ parses'[lists[i].parse] = old[lists[i].parse]
    BY <1>2, <1>3, <1>6, <1>7, <2>1
  <2> QED  BY <1>4, <2>1, <2>2 DEF Finished
<1> QED  BY <1>8, <1>9, <1>10 DEF ListInv, OneListPerParse

(* A call takes the count up, so it reaches the size of the snapshot once. *)
LEMMA ListRead ==
    ASSUME ListInv, NEW p \in DOMAIN parses, NEW o \in Orders, TenantRead(p, o)
    PROVE  ListInv'
<1>1. TypeOK  BY DEF ListInv
<1>2. /\ parses' \in Seq(Parse)
      /\ Len(parses') = Len(parses)
      /\ parses'[p].count = parses[p].count + 1
      /\ \A q \in DOMAIN parses :
           parses'[q].docs = parses[q].docs /\ parses'[q].count >= parses[q].count
  BY <1>1, CalledCounts DEF TenantRead
<1>3. parses \in Seq(Parse) /\ lists \in Seq(List) /\ workOrders \in Seq(Orders)
  BY <1>1 DEF TypeOK
<1>4. DOMAIN parses' = DOMAIN parses /\ DOMAIN parses = 1 .. Len(parses) /\ p \in Nat
  BY <1>2, <1>3
<1>5. ASSUME NEW q \in DOMAIN parses
      PROVE  /\ parses[q].count \in Nat /\ parses'[q].count \in Nat
             /\ Cardinality(parses[q].docs) \in Nat
  <2>1. parses[q] \in Parse /\ parses'[q] \in Parse  BY <1>2, <1>3, <1>4
  <2>2. parses[q].count \in Nat /\ parses'[q].count \in Nat  BY <2>1 DEF Parse
  <2> QED  BY <2>1, <2>2, SizeIsNat
<1>6. workOrders' \in Seq(Orders)  BY <1>3 DEF TenantRead
<1>7. ASSUME NEW i \in DOMAIN lists
      PROVE  lists[i].parse \in DOMAIN parses' /\ Finished(parses'[lists[i].parse])
  <2> DEFINE q == lists[i].parse
  <2>1. q \in DOMAIN parses /\ Finished(parses[q])  BY DEF ListInv, ListedIsFinished
  <2> HIDE DEF q
  <2>2. q \in DOMAIN parses' /\ Finished(parses'[q])  BY <1>2, <1>4, <1>5, <2>1 DEF Finished
  <2> QED  BY <2>2 DEF q
<1>8. CASE parses'[p].count = Cardinality(parses[p].docs)
  <2> DEFINE new == [parse |-> p, rows |-> workOrders']
  <2>1. new \in List  BY <1>4, <1>6 DEF List
  <2>2. lists' = Append(lists, new)  BY <1>8 DEF TenantRead
  <2>3. ~Finished(parses[p])  BY <1>2, <1>5, <1>8 DEF Finished
  <2>4. Finished(parses'[p])  BY <1>2, <1>5, <1>8 DEF Finished
  <2>5. \A i \in DOMAIN lists : lists[i].parse # p
    BY <2>3 DEF ListInv, ListedIsFinished
  <2>6. new.parse = p  OBVIOUS
  <2> HIDE DEF new
  <2>7. /\ DOMAIN lists' = 1 .. Len(lists) + 1
        /\ DOMAIN lists = 1 .. Len(lists) /\ Len(lists) \in Nat
        /\ \A i \in DOMAIN lists : lists'[i] = lists[i]
        /\ lists'[Len(lists) + 1] = new
    BY <1>3, <2>1, <2>2
  <2>8. TypeOK'  BY <1>2, <1>3, <1>6, <2>1, <2>2 DEF TypeOK
  <2>9. ListedIsFinished'  BY <1>4, <1>7, <2>4, <2>6, <2>7 DEF ListedIsFinished
  <2>10. OneListPerParse'  BY <2>5, <2>6, <2>7 DEF ListInv, OneListPerParse
  <2> QED  BY <2>8, <2>9, <2>10 DEF ListInv
<1>9. CASE parses'[p].count # Cardinality(parses[p].docs)
  <2>1. lists' = lists  BY <1>9 DEF TenantRead
  <2>2. TypeOK'  BY <1>2, <1>3, <1>6, <2>1 DEF TypeOK
  <2>3. ListedIsFinished'  BY <1>7, <2>1 DEF ListedIsFinished
  <2> QED  BY <2>1, <2>2, <2>3 DEF ListInv, OneListPerParse
<1> QED  BY <1>8, <1>9

LEMMA ListNext == ListInv /\ [Next]_vars => ListInv'
<1> SUFFICES ASSUME ListInv, [Next]_vars
             PROVE  ListInv'
  OBVIOUS
<1>1. ASSUME NEW docs \in SUBSET Orders, ParseWorkOrders(docs)
      PROVE  ListInv'
  BY <1>1, ListParse
<1>2. ASSUME NEW p \in DOMAIN parses, NEW o \in Orders, TenantRead(p, o)
      PROVE  ListInv'
  BY <1>2, ListRead
<1>3. CASE UNCHANGED vars
  BY <1>3 DEF vars, ListInv, TypeOK, ListedIsFinished, OneListPerParse
<1> QED  BY <1>1, <1>2, <1>3 DEF Next

(* One snapshot never pushes two lists, although the listeners of its parse    *)
(* are never removed and go on counting: parseWorkOrders compares with ==.     *)
THEOREM SnapshotPushesOnce == Spec => []OneListPerParse
<1>1. ListInv => OneListPerParse  BY DEF ListInv
<1> QED  BY <1>1, ListInit, ListNext, PTL DEF Spec

(* Orders, parses, rows and lists keep their types, whatever overlaps.         *)
THEOREM ListsTypeCorrect == Spec => []TypeOK
<1>1. ListInv => TypeOK  BY DEF ListInv
<1> QED  BY <1>1, ListInit, ListNext, PTL DEF Spec

------------------------------------------------------------------------------
(* A parse that has the array to itself fills it with the orders it was called *)
(* about, one row each, until it is done.                                      *)

Rows == {workOrders[k] : k \in DOMAIN workOrders}

Filling ==
    \A p \in DOMAIN parses : parses[p].alone /\ ~Finished(parses[p]) =>
        /\ Rows \subseteq parses[p].docs
        /\ \A o \in Rows : parses[p].calls[o] > 0
        /\ Cardinality(Rows) = Len(workOrders)
        /\ Len(workOrders) = parses[p].count

QuietInv == ListInv /\ Filling /\ QuietListIsItsSnapshot

(* What a call of a listener makes of who is alone, and of the calls.          *)
LEMMA CalledAlone ==
    ASSUME TypeOK, NEW p \in DOMAIN parses, NEW o \in Orders
    PROVE  /\ Called(p, o)[p].calls = [parses[p].calls EXCEPT ![o] = @ + 1]
           /\ Called(p, o)[p].alone =>
                parses[p].alone /\ (parses[p].calls[o] = 0 \/ Finished(parses[p]))
           /\ \A q \in DOMAIN parses \ {p} :
                /\ Called(p, o)[q].count = parses[q].count
                /\ Called(p, o)[q].alone => parses[q].alone /\ Finished(parses[q])
<1>1. parses \in Seq(Parse)  BY DEF TypeOK
<1>2. \A q \in DOMAIN parses : parses[q] \in Parse  BY <1>1
<1> DEFINE quiet == parses[p].alone /\ (parses[p].calls[o] = 0 \/ Finished(parses[p]))
           calls == [parses[p].calls EXCEPT ![o] = @ + 1]
<1>3. quiet \in BOOLEAN  OBVIOUS
<1>4. Called(p, o)[p] = [parses[p] EXCEPT !.count = @ + 1, !.calls[o] = @ + 1, !.alone = quiet]
  BY Zenon DEF Called
<1>5. quiet => parses[p].alone /\ (parses[p].calls[o] = 0 \/ Finished(parses[p]))  OBVIOUS
<1> HIDE DEF quiet
<1>6. Called(p, o)[p] = [docs |-> parses[p].docs, count |-> parses[p].count + 1,
                         calls |-> calls, alone |-> quiet]
  BY <1>2, <1>4 DEF Parse
<1>7. Called(p, o)[p].calls = calls /\ (Called(p, o)[p].alone => quiet)
  BY <1>3, <1>6
<1>8. ASSUME NEW q \in DOMAIN parses \ {p}
      PROVE  /\ Called(p, o)[q].count = parses[q].count
             /\ Called(p, o)[q].alone => parses[q].alone /\ Finished(parses[q])
  <2> DEFINE still == parses[q].alone /\ Finished(parses[q])
  <2>1. still \in BOOLEAN  OBVIOUS
  <2>2. Called(p, o)[q] = [parses[q] EXCEPT !.alone = still]  BY Zenon DEF Called
  <2>3. still => parses[q].alone /\ Finished(parses[q])  OBVIOUS
  <2> HIDE DEF still
  <2>4. Called(p, o)[q] = [docs |-> parses[q].docs, count |-> parses[q].count,
                           calls |-> parses[q].calls, alone |-> still]
    BY <1>2, <2>2 DEF Parse
  <2> QED  BY <2>1, <2>3, <2>4
<1> QED  BY <1>5, <1>7, <1>8

LEMMA QuietInit == Init => QuietInv
  BY ListInit DEF Init, QuietInv, Filling, QuietListIsItsSnapshot

(* A new snapshot empties the array, and leaves those alone that are done.     *)
LEMMA QuietParse ==
    ASSUME QuietInv, NEW docs \in SUBSET Orders, ParseWorkOrders(docs)
    PROVE  QuietInv'
<1> DEFINE new == [docs |-> docs, count |-> 0, calls |-> [o \in Orders |-> 0], alone |-> TRUE]
           old == [p \in DOMAIN parses |->
                      [parses[p] EXCEPT !.alone = @ /\ Finished(parses[p])]]
<1>1. parses \in Seq(Parse)  BY DEF QuietInv, ListInv, TypeOK
<1>2. DOMAIN parses = 1 .. Len(parses) /\ Len(parses) \in Nat  BY <1>1
<1>3. ASSUME NEW p \in DOMAIN parses
      PROVE  /\ old[p] \in Parse /\ old[p].docs = parses[p].docs
             /\ old[p].count = parses[p].count
             /\ old[p].alone => parses[p].alone /\ Finished(parses[p])
  <2> DEFINE quiet == parses[p].alone /\ Finished(parses[p])
  <2>1. quiet \in BOOLEAN  OBVIOUS
  <2>2. old[p] = [parses[p] EXCEPT !.alone = quiet]  BY Zenon
  <2>3. quiet => parses[p].alone /\ Finished(parses[p])  OBVIOUS
  <2>4. parses[p] \in Parse  BY <1>1
  <2> HIDE DEF quiet, old
  <2> QED  BY <2>1, <2>2, <2>3, <2>4 DEF Parse
<1>4. old \in [1 .. Len(parses) -> Parse]  BY <1>2, <1>3
<1>5. new \in Parse /\ new.count = 0  BY DEF Parse
<1> HIDE DEF old, new
<1>6. parses' = Append(old, new) /\ workOrders' = <<>> /\ lists' = lists
  BY DEF ParseWorkOrders, old, new
<1>7. old \in Seq(Parse) /\ Len(old) = Len(parses)  BY <1>2, <1>4
<1>8. /\ DOMAIN parses' = 1 .. Len(parses) + 1
      /\ \A p \in DOMAIN parses : parses'[p] = old[p]
      /\ parses'[Len(parses) + 1] = new
  BY <1>2, <1>5, <1>6, <1>7
<1>9. Filling'
  <2> SUFFICES ASSUME NEW p \in DOMAIN parses', parses'[p].alone, ~Finished(parses'[p])
               PROVE  /\ Rows' \subseteq parses'[p].docs
                      /\ \A o \in Rows' : parses'[p].calls[o] > 0
                      /\ Cardinality(Rows') = Len(workOrders')
                      /\ Len(workOrders') = parses'[p].count
    BY Zenon DEF Filling
  <2>1. p = Len(parses) + 1
    BY <1>2, <1>3, <1>8 DEF Finished
  <2>2. Rows' = {} /\ Len(workOrders') = 0  BY <1>6 DEF Rows
  <2> QED  BY <1>5, <1>8, <2>1, <2>2, FS_EmptySet
<1>10. QuietListIsItsSnapshot'
  <2> SUFFICES ASSUME NEW i \in DOMAIN lists, parses'[lists[i].parse].alone
               PROVE  IsSnapshot(lists[i])'
    BY <1>6 DEF QuietListIsItsSnapshot
  <2>1. lists[i].parse \in DOMAIN parses  BY DEF QuietInv, ListInv, ListedIsFinished
  <2>2. parses'[lists[i].parse] = old[lists[i].parse]  BY <1>8, <2>1
  <2>3. parses[lists[i].parse].alone /\ parses'[lists[i].parse].docs = parses[lists[i].parse].docs
    BY <1>3, <2>1, <2>2
  <2>4. IsSnapshot(lists[i])  BY <2>3 DEF QuietInv, QuietListIsItsSnapshot
  <2> QED  BY <1>6, <2>3, <2>4 DEF IsSnapshot, Shown
<1> QED  BY <1>9, <1>10, ListParse DEF QuietInv

(* A call adds one row; when a parse is still alone it is a new one, and when  *)
(* that was the last, the rows are the snapshot.                               *)
LEMMA QuietRead ==
    ASSUME QuietInv, NEW p \in DOMAIN parses, NEW o \in Orders, TenantRead(p, o)
    PROVE  QuietInv'
<1>1. ListInv /\ TypeOK  BY DEF QuietInv, ListInv
<1>2. ListInv'  BY <1>1, ListRead
<1>3. /\ parses \in Seq(Parse) /\ parses' \in Seq(Parse) /\ Len(parses') = Len(parses)
      /\ lists \in Seq(List) /\ workOrders \in Seq(Orders)
      /\ parses' = Called(p, o) /\ workOrders' = Append(workOrders, o)
      /\ o \in parses[p].docs
  BY <1>1, <1>2, CalledCounts DEF TypeOK, ListInv, TenantRead
<1>4. DOMAIN parses' = DOMAIN parses /\ DOMAIN parses = 1 .. Len(parses)  BY <1>3
<1>5. /\ parses'[p].count = parses[p].count + 1
      /\ parses'[p].calls = [parses[p].calls EXCEPT ![o] = @ + 1]
      /\ parses'[p].alone => parses[p].alone /\ (parses[p].calls[o] = 0 \/ Finished(parses[p]))
      /\ \A q \in DOMAIN parses : parses'[q].docs = parses[q].docs
      /\ \A q \in DOMAIN parses \ {p} :
            /\ parses'[q].count = parses[q].count
            /\ parses'[q].alone => parses[q].alone /\ Finished(parses[q])
  BY <1>1, <1>3, CalledCounts, CalledAlone
<1>6. /\ parses[p].count \in Nat /\ Cardinality(parses[p].docs) \in Nat
      /\ parses[p].calls \in [Orders -> Nat] /\ parses[p].docs \subseteq Orders
  <2>1. parses[p] \in Parse  BY <1>3
  <2> QED  BY <2>1, SizeIsNat DEF Parse
<1>7. Rows' = Rows \union {o} /\ Rows \subseteq Orders /\ Len(workOrders') = Len(workOrders) + 1
  <2>1. /\ DOMAIN workOrders' = DOMAIN workOrders \union {Len(workOrders) + 1}
        /\ workOrders'[Len(workOrders) + 1] = o
        /\ \A k \in DOMAIN workOrders : workOrders'[k] = workOrders[k]
        /\ Len(workOrders') = Len(workOrders) + 1
    BY <1>3
  <2>2. Rows \subseteq Orders  BY <1>3 DEF Rows
  <2> QED  BY <2>1, <2>2 DEF Rows
<1>8. ASSUME parses'[p].alone, ~Finished(parses[p])
      PROVE  /\ Rows' \subseteq parses[p].docs
             /\ \A r \in Rows' : parses'[p].calls[r] > 0
             /\ Cardinality(Rows') = Len(workOrders')
             /\ Len(workOrders') = parses'[p].count
  <2>1. /\ Rows \subseteq parses[p].docs
        /\ \A r \in Rows : parses[p].calls[r] > 0
        /\ Cardinality(Rows) = Len(workOrders)
        /\ Len(workOrders) = parses[p].count
    BY <1>5, <1>8 DEF QuietInv, Filling
  <2>2. parses[p].calls[o] = 0  BY <1>5, <1>8
  <2>3. o \notin Rows  BY <2>1, <2>2
  <2>4. IsFiniteSet(Rows)  BY <1>7, ListAssumption, FS_Subset DEF ListAssumption
  <2>5. Cardinality(Rows') = Cardinality(Rows) + 1  BY <1>7, <2>3, <2>4, FS_AddElement
  <2>6. \A r \in Rows' : parses'[p].calls[r] > 0
    <3> SUFFICES ASSUME NEW r \in Rows' PROVE parses'[p].calls[r] > 0
      OBVIOUS
    <3>1. r \in Orders /\ (r = o \/ r \in Rows)  BY <1>7
    <3>2. CASE r = o  BY <1>5, <1>6, <2>2, <3>2
    <3>3. CASE r # o /\ r \in Rows  BY <1>5, <1>6, <2>1, <3>1, <3>3
    <3> QED  BY <3>1, <3>2, <3>3
  <2> QED  BY <1>3, <1>5, <1>7, <2>1, <2>5, <2>6
<1>9. Filling'
  <2> SUFFICES ASSUME NEW q \in DOMAIN parses, parses'[q].alone, ~Finished(parses'[q])
               PROVE  /\ Rows' \subseteq parses'[q].docs
                      /\ \A r \in Rows' : parses'[q].calls[r] > 0
                      /\ Cardinality(Rows') = Len(workOrders')
                      /\ Len(workOrders') = parses'[q].count
    BY <1>4, Zenon DEF Filling
  <2>1. q = p  BY <1>5 DEF Finished
  <2>2. ~Finished(parses[p])  BY <1>5, <1>6, <2>1 DEF Finished
  <2> QED  BY <1>5, <1>8, <2>1, <2>2
<1>10. ASSUME NEW i \in DOMAIN lists, parses'[lists[i].parse].alone
       PROVE  IsSnapshot(lists[i])'
  <2> DEFINE q == lists[i].parse
  <2>1. q \in DOMAIN parses  BY <1>1 DEF ListInv, ListedIsFinished
  <2>2. parses[q].alone  BY <1>5, <1>10, <2>1
  <2>3. IsSnapshot(lists[i])  BY <2>2 DEF QuietInv, QuietListIsItsSnapshot
  <2>4. parses'[q].docs = parses[q].docs  BY <1>5, <2>1
  <2>5. CASE lists'[i] = lists[i]  BY <2>3, <2>4, <2>5 DEF IsSnapshot, Shown
  <2>6. lists'[i] = lists[i]  BY <1>3 DEF TenantRead
  <2> QED  BY <2>5, <2>6
<1>11. CASE lists' = lists
  <2>1. QuietListIsItsSnapshot'
    <3> SUFFICES ASSUME NEW i \in DOMAIN lists, parses'[lists[i].parse].alone
                 PROVE  IsSnapshot(lists[i])'
      BY <1>11 DEF QuietListIsItsSnapshot
    <3> QED  BY <1>10
  <2> QED  BY <1>2, <1>9, <2>1 DEF QuietInv
<1>12. CASE parses'[p].count = Cardinality(parses[p].docs)
  <2> DEFINE new == [parse |-> p, rows |-> workOrders']
  <2>1. new \in List  BY <1>2, <1>4 DEF List, ListInv, TypeOK
  <2>2. lists' = Append(lists, new)  BY <1>12 DEF TenantRead
  <2>3. new.parse = p /\ new.rows = workOrders'  OBVIOUS
  <2> HIDE DEF new
  <2>4. /\ DOMAIN lists' = DOMAIN lists \union {Len(lists) + 1}
        /\ \A i \in DOMAIN lists : lists'[i] = lists[i]
        /\ lists'[Len(lists) + 1] = new
    BY <1>3, <2>1, <2>2
  <2>5. ~Finished(parses[p])  BY <1>5, <1>6, <1>12 DEF Finished
  <2>6. ASSUME parses'[p].alone
        PROVE  /\ {workOrders'[k] : k \in DOMAIN workOrders'} = parses'[p].docs
               /\ Len(workOrders') = Cardinality(parses'[p].docs)
    <3>1. /\ Rows' \subseteq parses[p].docs
          /\ Cardinality(Rows') = Len(workOrders')
          /\ Len(workOrders') = Cardinality(parses[p].docs)
      BY <1>8, <1>12, <2>5, <2>6
    <3>2. IsFiniteSet(parses[p].docs)  BY <1>6, ListAssumption, FS_Subset DEF ListAssumption
    <3>3. Rows' = parses[p].docs  BY <3>1, <3>2, FS_Subset
    <3> QED  BY <1>5, <3>1, <3>3 DEF Rows
  <2>7. QuietListIsItsSnapshot'
    <3> SUFFICES ASSUME NEW i \in DOMAIN lists', parses'[lists'[i].parse].alone
                 PROVE  IsSnapshot(lists[i])'
      BY Zenon DEF QuietListIsItsSnapshot
    <3>1. CASE i \in DOMAIN lists
      <4>1. IsSnapshot(lists[i])'  BY <1>10, <2>4, <3>1
      <4> QED  BY <4>1
    <3>2. CASE i = Len(lists) + 1
      <4>1. lists'[i].parse = p /\ lists'[i].rows = workOrders'  BY <2>3, <2>4, <3>2
      <4>2. /\ {workOrders'[k] : k \in DOMAIN workOrders'} = parses'[p].docs
            /\ Len(workOrders') = Cardinality(parses'[p].docs)
        BY <2>6, <4>1
      <4> QED  BY <4>1, <4>2 DEF IsSnapshot, Shown
    <3> QED  BY <2>4, <3>1, <3>2
  <2> QED  BY <1>2, <1>9, <2>7 DEF QuietInv
<1>13. CASE parses'[p].count # Cardinality(parses[p].docs)
  <2>1. lists' = lists  BY <1>13 DEF TenantRead
  <2> QED  BY <1>11, <2>1
<1> QED  BY <1>12, <1>13

LEMMA QuietNext == QuietInv /\ [Next]_vars => QuietInv'
<1> SUFFICES ASSUME QuietInv, [Next]_vars
             PROVE  QuietInv'
  OBVIOUS
<1>1. ASSUME NEW docs \in SUBSET Orders, ParseWorkOrders(docs)
      PROVE  QuietInv'
  BY <1>1, QuietParse
<1>2. ASSUME NEW p \in DOMAIN parses, NEW o \in Orders, TenantRead(p, o)
      PROVE  QuietInv'
  BY <1>2, QuietRead
<1>3. CASE UNCHANGED vars
  <2>1. ListInv'  BY <1>3, ListNext DEF QuietInv
  <2>2. parses' = parses /\ lists' = lists /\ Rows' = Rows /\ workOrders' = workOrders
    BY <1>3 DEF vars, Rows
  <2>3. Filling'  BY <2>2, Zenon DEF QuietInv, Filling, Finished
  <2>4. \A i \in DOMAIN lists : IsSnapshot(lists[i])' = IsSnapshot(lists[i])
    BY <2>2, Zenon DEF IsSnapshot, Shown
  <2>5. QuietListIsItsSnapshot'  BY <2>2, <2>4 DEF QuietInv, QuietListIsItsSnapshot
  <2> QED  BY <2>1, <2>3, <2>5 DEF QuietInv
<1> QED  BY <1>1, <1>2, <1>3 DEF Next

(* The answers of the tenants come in any order; as long as no newer snapshot  *)
(* and no second call comes between, parseWorkOrders pushes its snapshot.      *)
THEOREM QuietListIsRight == Spec => []QuietListIsItsSnapshot
<1>1. QuietInv => QuietListIsItsSnapshot  BY DEF QuietInv
<1> QED  BY <1>1, QuietInit, QuietNext, PTL DEF Spec
==============================================================================
