---------------------------- MODULE DashboardLists ----------------------------
(* How the dashboard turns a snapshot into the rows of a list.  Every snapshot *)
(* empties the one workOrders array and starts a parse, which reads the tenant *)
(* of each order through a listener of its own; each answer appends a row, and *)
(* the answer that makes the parse's count equal to the size of its snapshot   *)
(* pushes a list with whatever rows the array then has.  Nothing separates the *)
(* parses, and no tenant listener is ever removed.                            *)
EXTENDS Naturals, Sequences, FiniteSets

CONSTANTS
    Orders,         \* work order document ids
    Unreadable,     \* the orders whose tenant document cannot be read
    MaxParses,      \* bound: non-empty snapshots in one session
    MaxCalls        \* bound: calls of one tenant listener

ListAssumption ==
    /\ IsFiniteSet(Orders)
    /\ Unreadable \subseteq Orders
    /\ MaxParses \in Nat

ASSUME ListAssumption

(* One call of parseWorkOrders: its snapshot, its local count, how often each  *)
(* tenant listener it added was called, and (history) whether it has had the   *)
(* array to itself: no newer snapshot, no listener called but its own, once.   *)
Parse == [docs : SUBSET Orders, count : Nat, calls : [Orders -> Nat], alone : BOOLEAN]

List == [parse : Nat, rows : Seq(Orders)]

VARIABLES
    workOrders,     \* the dashboard's array of rows
    parses,         \* the parses begun, in order
    lists           \* the lists pushed, in order

vars == <<workOrders, parses, lists>>

TypeOK ==
    /\ workOrders \in Seq(Orders)
    /\ parses \in Seq(Parse)
    /\ lists \in Seq(List)

Finished(p) == p.count >= Cardinality(p.docs)

Init ==
    /\ workOrders = <<>>
    /\ parses = <<>>
    /\ lists = <<>>

(* A snapshot of one of the dashboard's listeners; an empty one does nothing. *)
ParseWorkOrders(docs) ==
    /\ Len(parses) < MaxParses
    /\ docs # {}
    /\ workOrders' = <<>>
    /\ parses' = Append([p \in DOMAIN parses |->
                            [parses[p] EXCEPT !.alone = @ /\ Finished(parses[p])]],
                        [docs |-> docs, count |-> 0, calls |-> [o \in Orders |-> 0],
                         alone |-> TRUE])
    /\ UNCHANGED lists

(* Mutant of Called: the count goes down from zero. *)
Called_CountsDown(p, o) ==
    [q \in DOMAIN parses |->
        IF q = p
        THEN [parses[q] EXCEPT !.count = @ - 1, !.calls[o] = @ + 1,
                               !.alone = @ /\ (parses[q].calls[o] = 0 \/ Finished(parses[q]))]
        ELSE [parses[q] EXCEPT !.alone = @ /\ Finished(parses[q])]]

(* The parses after the listener of parse p for order o was called.           *)
Called(p, o) ==
    [q \in DOMAIN parses |->
        IF q = p
        THEN [parses[q] EXCEPT !.count = @ + 1, !.calls[o] = @ + 1,
                               !.alone = @ /\ (parses[q].calls[o] = 0 \/ Finished(parses[q]))]
        ELSE [parses[q] EXCEPT !.alone = @ /\ Finished(parses[q])]]

(* Mutant of TenantRead: the array's length decides when the parse is done. *)
TenantRead_CountsRows(p, o) ==
    /\ o \in parses[p].docs \ Unreadable
    /\ parses[p].calls[o] < MaxCalls
    /\ workOrders' = Append(workOrders, o)
    /\ parses' = Called(p, o)
    /\ lists' = IF Len(workOrders') = Cardinality(parses[p].docs)
                THEN Append(lists, [parse |-> p, rows |-> workOrders'])
                ELSE lists

(* Mutant of TenantRead: the parse is done from its last order on. *)
TenantRead_AtLeast(p, o) ==
    /\ o \in parses[p].docs \ Unreadable
    /\ parses[p].calls[o] < MaxCalls
    /\ workOrders' = Append(workOrders, o)
    /\ parses' = Called(p, o)
    /\ lists' = IF parses'[p].count >= Cardinality(parses[p].docs)
                THEN Append(lists, [parse |-> p, rows |-> workOrders'])
                ELSE lists

(* Mutant of TenantRead: the count is tested before it is incremented. *)
TenantRead_TestsFirst(p, o) ==
    /\ o \in parses[p].docs \ Unreadable
    /\ parses[p].calls[o] < MaxCalls
    /\ workOrders' = Append(workOrders, o)
    /\ parses' = Called(p, o)
    /\ lists' = IF parses[p].count = Cardinality(parses[p].docs)
                THEN Append(lists, [parse |-> p, rows |-> workOrders'])
                ELSE lists

(* The listener of one tenant's document is called: first with the document,   *)
(* then whenever it changes.  An error is printed and counts for nothing.      *)
TenantRead(p, o) ==
    /\ o \in parses[p].docs \ Unreadable
    /\ parses[p].calls[o] < MaxCalls
    /\ workOrders' = Append(workOrders, o)
    /\ parses' = Called(p, o)
    /\ lists' = IF parses'[p].count = Cardinality(parses[p].docs)
                THEN Append(lists, [parse |-> p, rows |-> workOrders'])
                ELSE lists

Next ==
    \/ \E docs \in SUBSET Orders : ParseWorkOrders(docs)
    \/ \E p \in DOMAIN parses : \E o \in Orders : TenantRead(p, o)

Spec == Init /\ [][Next]_vars

(* Firestore calls each new listener at least once. *)
FirstRead(p, o) ==
    /\ p \in DOMAIN parses
    /\ parses[p].calls[o] = 0
    /\ TenantRead(p, o)

ListFairness == \A p \in 1 .. MaxParses : \A o \in Orders : WF_vars(FirstRead(p, o))

LiveSpec == Spec /\ ListFairness

------------------------------------------------------------------------------
(* Properties. *)

(* A snapshot pushes one list, however often its tenants' documents change     *)
(* while the listeners of its parse live on.                                   *)
OneListPerParse ==
    \A i, j \in DOMAIN lists : lists[i].parse = lists[j].parse => i = j

Shown(list) == {list.rows[k] : k \in DOMAIN list.rows}

IsSnapshot(list) ==
    /\ Shown(list) = parses[list.parse].docs
    /\ Len(list.rows) = Cardinality(parses[list.parse].docs)

(* A parse that had the array to itself pushes each order of its snapshot once. *)
(* The tenants may answer in any order.                                        *)
QuietListIsItsSnapshot ==
    \A i \in DOMAIN lists : parses[lists[i].parse].alone => IsSnapshot(lists[i])

(* A snapshot all of whose tenants can be read is shown in the end, whatever   *)
(* parses run beside it.                                                       *)
EveryReadableParseIsShown ==
    \A p \in 1 .. MaxParses :
        (p \in DOMAIN parses /\ parses[p].docs \intersect Unreadable = {})
            ~> (\E i \in DOMAIN lists : lists[i].parse = p)

(* DashboardViewController+TableView.swift:122, of the rows of a list: "go to   *)
(* work order vc // display pening  work orders if user is management".        *)
ListIsItsSnapshot == \A i \in DOMAIN lists : IsSnapshot(lists[i])
==============================================================================
