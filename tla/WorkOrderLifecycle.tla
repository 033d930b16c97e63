-------------------------- MODULE WorkOrderLifecycle --------------------------
(* The life of a work order in the app: a tenant's device creates it, a       *)
(* manager's device reviews it and assigns staff, a worker's device completes *)
(* it.  Every device shows screens built from snapshots read earlier, writes  *)
(* through a Firestore queue whose answer comes later, and keeps two counts   *)
(* on its dashboard that only the handlers of its own writes adjust.          *)
EXTENDS Integers, FiniteSets, Sequences

CONSTANTS
    Orders,         \* work order document ids
    Existing,       \* the orders on the server when the run begins
    Tenants,        \* the signed-in device of each tenant
    Managers,       \*   of each member of the management
    Workers,        \*   of each maintenance worker, whose id it also stands for
    Addresses,      \* the apartments
    AddressOf,      \* the apartment of each tenant
    MaxTaps,        \* bound: dashboard rows tapped per device and session
    MaxParses,      \* bound: snapshots parsed per device and session
    MaxScreens,     \* bound: screens opened per device and session
    MaxBatches,     \* bound: writes per device
    MayRelaunch,    \* bound: the devices whose app is killed and restarted
    MayLoseAnswers, \* bound: the devices whose write stream breaks at a bad time
    None            \* no document, no address, no snapshot yet

Device == Tenants \union Managers \union Workers

WorkOrderAssumption ==
    /\ IsFiniteSet(Orders)
    /\ Existing \subseteq Orders
    /\ Tenants \intersect Managers = {}
    /\ Tenants \intersect Workers = {}
    /\ Managers \intersect Workers = {}
    /\ AddressOf \in [Tenants -> Addresses]
    /\ None \notin Addresses

ASSUME WorkOrderAssumption

(* The fields of a workOrders document that a query or a handler reads. *)
Document == [address : Addresses, reviewed : BOOLEAN, active : BOOLEAN,
             maintenance : SUBSET Workers]

ASSUME NoneAssumption == None \notin Document

(* The WorkOrder object a screen holds: a copy taken when the list was built. *)
WorkOrder == [id : Orders, reviewed : BOOLEAN]

ListScreen   == [kind : {"list"}, rows : SUBSET WorkOrder, tapped : SUBSET WorkOrder]
DetailScreen == [kind : {"detail"}, workOrder : WorkOrder,
                 selected : SUBSET Workers, addMaintenance : BOOLEAN]
UpdateScreen == [kind : {"update"}, workOrder : WorkOrder, asking : BOOLEAN]
Composer     == [kind : {"compose"}, address : Addresses \union {None}]
Screen       == ListScreen \union DetailScreen \union UpdateScreen \union Composer

(* One Firestore mutation batch; handler is the screen whose completion block  *)
(* awaits the answer, 0 when the app was relaunched since.                     *)
Write == [kind : {"create"}, address : Addresses]
           \union [kind : {"review"}, staff : SUBSET Workers]
           \union [kind : {"complete"}]
BatchState == {"pending", "committed", "acked", "rejected"}
Batch == [order : Orders, write : Write, handler : Nat, state : BatchState]

Query    == {"requests", "active"}
Snapshot == SUBSET [id : Orders, data : Document]
Listener == [query : Query, delivered : Snapshot \union {None}]

(* A call of parseWorkOrders: the rows it makes once their tenants are read,   *)
(* and the number of reads that were answered.                                 *)
Parse == [rows : SUBSET WorkOrder, count : Nat]

VARIABLES
    docs,          \* the server's workOrders collection
    everAssigned,  \* history: the workers the server ever had on each order
    begunAgain,    \* history: the orders that were added when they were there
    batch,         \* each device's writes, in the order they were made
    listener,      \* each dashboard's snapshot listeners, never removed
    parses,        \* each dashboard's calls of parseWorkOrders
    workOrders,    \* the array those calls share, as the set of its rows
    screens,       \* each device's view controllers, in the order of creation
    stack,         \* the ones on the navigation stack, above the dashboard
    dash,          \* the dashboard's counts
    baseline       \* history: the counts the dashboard was opened with

serverVars == <<docs, everAssigned, begunAgain>>
parseVars == <<parses, workOrders>>
appVars == <<listener, parseVars, screens, stack, dash, baseline>>
vars == <<serverVars, batch, appVars>>

TypeOK ==
    /\ docs \in [Orders -> Document \union {None}]
    /\ everAssigned \in [Orders -> SUBSET Workers]
    /\ begunAgain \subseteq Orders
    /\ batch \in [Device -> Seq(Batch)]
    /\ listener \in [Device -> Seq(Listener)]
    /\ parses \in [Device -> Seq(Parse)]
    /\ workOrders \in [Device -> SUBSET WorkOrder]
    /\ screens \in [Device -> Seq(Screen)]
    /\ stack \in [Device -> SUBSET Nat]
    /\ \A d \in Device : stack[d] \subseteq DOMAIN screens[d]
    /\ dash \in [Device -> [workOrderCount : Int, requestCount : Int]]
    /\ baseline \in [Device -> [workOrderCount : Int, requestCount : Int]]

------------------------------------------------------------------------------
(* Firestore as the app uses it. *)

NewDocument(a) ==
    [address |-> a, reviewed |-> FALSE, active |-> TRUE, maintenance |-> {}]

(* Mutant of Applied: completing an order without merge: true. *)
Applied_CompleteWithoutMerge(write, doc) ==
    CASE write.kind = "create"   -> NewDocument(write.address)
      [] write.kind = "review"   -> [doc EXCEPT !.reviewed = TRUE,
                                                !.maintenance = write.staff]
      [] write.kind = "complete" -> [NewDocument(doc.address) EXCEPT !.active = FALSE]

(* Mutant of Applied: a review writes active: true along with its own fields. *)
Applied_ReviewReopens(write, doc) ==
    CASE write.kind = "create"   -> NewDocument(write.address)
      [] write.kind = "review"   -> [doc EXCEPT !.reviewed = TRUE, !.active = TRUE,
                                                !.maintenance = write.staff]
      [] write.kind = "complete" -> [doc EXCEPT !.active = FALSE]

(* Mutant of Applied: a review leaves the staff as it is. *)
Applied_ReviewForgetsStaff(write, doc) ==
    CASE write.kind = "create"   -> NewDocument(write.address)
      [] write.kind = "review"   -> [doc EXCEPT !.reviewed = TRUE]
      [] write.kind = "complete" -> [doc EXCEPT !.active = FALSE]

(* What a write does to a document: addDocument, or setData with merge. *)
Applied(write, doc) ==
    CASE write.kind = "create"   -> NewDocument(write.address)
      [] write.kind = "review"   -> [doc EXCEPT !.reviewed = TRUE,
                                                !.maintenance = write.staff]
      [] write.kind = "complete" -> [doc EXCEPT !.active = FALSE]

Unsettled(b) == b.state \in {"pending", "committed"}

(* A new write stream knows nothing of the writes the old one has sent: those  *)
(* without an answer are sent again, whether the server committed them or not. *)
Resent(b) == IF b.state = "committed" THEN [b EXCEPT !.state = "pending"] ELSE b

(* Latency compensation: a device sees its own unanswered writes at once.  All *)
(* the writes one device makes to an order are of one kind and overwrite each  *)
(* other, so the latest stands for all of them.                                *)
LatestWrite(d, o) ==
    LET mine == {i \in DOMAIN batch[d] : batch[d][i].order = o /\ Unsettled(batch[d][i])}
    IN  {i \in mine : \A j \in mine : j <= i}

LocalDoc(d, o) ==
    IF LatestWrite(d, o) = {} THEN docs[o]
    ELSE Applied(batch[d][CHOOSE i \in LatestWrite(d, o) : TRUE].write, docs[o])

(* Mutant of Matches: a worker's query asks for active orders only. *)
Matches_WorkerSeesAll(d, q, doc) ==
    /\ doc # None
    /\ doc.active
    /\ q = "requests" => ~doc.reviewed
    /\ q = "active" /\ d \in Managers => doc.reviewed
    /\ d \in Tenants => doc.address = AddressOf[d]

(* Mutant of Matches: a worker's query has no arrayContains clause. *)
Matches_WorkerSeesReviewed(d, q, doc) ==
    /\ doc # None
    /\ doc.active
    /\ q = "requests" => ~doc.reviewed
    /\ q = "active" /\ d \in Managers \union Workers => doc.reviewed
    /\ d \in Tenants => doc.address = AddressOf[d]

(* The whereField clauses of each role's queries. *)
Matches(d, q, doc) ==
    /\ doc # None
    /\ doc.active
    /\ q = "requests" => ~doc.reviewed
    /\ q = "active" /\ d \in Managers \union Workers => doc.reviewed
    /\ d \in Workers => d \in doc.maintenance
    /\ d \in Tenants => doc.address = AddressOf[d]

QueriesOf(d) == IF d \in Managers THEN {"requests", "active"} ELSE {"active"}

QueryResult(d, q) ==
    {[id |-> o, data |-> LocalDoc(d, o)] : o \in {o \in Orders : Matches(d, q, LocalDoc(d, o))}}

(* Mutant of Counts: the device's own unanswered writes are not counted. *)
Counts_ServerOnly(d) ==
    [workOrderCount |-> Cardinality({o \in Orders : Matches(d, "active", docs[o])}),
     requestCount   |-> IF d \in Managers
                        THEN Cardinality({o \in Orders : Matches(d, "requests", docs[o])}) ELSE 0]

(* The counts the login screen hands to the dashboard. *)
Counts(d) ==
    [workOrderCount |-> Cardinality(QueryResult(d, "active")),
     requestCount   |-> IF d \in Managers THEN Cardinality(QueryResult(d, "requests")) ELSE 0]

------------------------------------------------------------------------------
(* The navigation stack.  Screens are numbered as they are created and each is *)
(* pushed once, so the greatest number on the stack is the visible screen.     *)

IsTop(d, i) == i \in stack[d] /\ \A j \in stack[d] : j <= i

Kind(d, i) == screens[d][i].kind

(* workOrderRequestCountChanged: requestCount is nil for the other roles. *)
RequestCountChanged(d, counts) ==
    [workOrderCount |-> counts.workOrderCount + 1,
     requestCount   |-> IF d \in Managers THEN counts.requestCount - 1 ELSE counts.requestCount]

(* Mutant of WhenTopDisappears: addMaintenance is not asked. *)
WhenTopDisappears_Always(d, shown, counts) ==
    IF \E i \in stack[d] : IsTop(d, i) /\ shown[i].kind = "detail"
    THEN RequestCountChanged(d, counts)
    ELSE counts

(* viewWillDisappear of the visible screen, whatever hides it. *)
WhenTopDisappears(d, shown, counts) ==
    IF \E i \in stack[d] : IsTop(d, i) /\ shown[i].kind = "detail" /\ shown[i].addMaintenance
    THEN RequestCountChanged(d, counts)
    ELSE counts

(* performSegue or pushViewController: the new screen hides the visible one. *)
Push(d, old, new) ==
    /\ Len(old) < MaxScreens[d]
    /\ screens' = [screens EXCEPT ![d] = Append(old, new)]
    /\ stack' = [stack EXCEPT ![d] = @ \union {Len(old) + 1}]
    /\ dash' = [dash EXCEPT ![d] = WhenTopDisappears(d, old, @)]

(* A "Confirm Completion" alert is up and takes every touch. *)
Alerting(d) == \E i \in DOMAIN screens[d] : Kind(d, i) = "update" /\ screens[d][i].asking

(* Queue a write whose completion block is run by screen i. *)
Enqueue(d, i, o, write) ==
    /\ Len(batch[d]) < MaxBatches[d]
    /\ batch' = [batch EXCEPT ![d] =
                   Append(@, [order |-> o, write |-> write, handler |-> i, state |-> "pending"])]
------------------------------------------------------------------------------
(* Initially every app shows a dashboard that has just been opened. *)
Init ==
    /\ docs \in {f \in [Orders -> {NewDocument(a) : a \in Addresses} \union {None}] :
                    \A o \in Orders : f[o] # None <=> o \in Existing}
    /\ everAssigned = [o \in Orders |-> {}]
    /\ begunAgain = {}
    /\ batch = [d \in Device |-> <<>>]
    /\ listener = [d \in Device |-> <<>>]
    /\ parses = [d \in Device |-> <<>>]
    /\ workOrders = [d \in Device |-> {}]
    /\ screens = [d \in Device |-> <<>>]
    /\ stack = [d \in Device |-> {}]
    /\ dash = [d \in Device |-> Counts(d)]
    /\ baseline = dash

(* The dashboard: its table rows and their listeners. *)

(* didSelectRowAt on a work order section: one more listener, for good. *)
TapDashboardRow(d, q) ==
    /\ stack[d] = {}
    /\ ~Alerting(d)
    /\ Len(listener[d]) < MaxTaps[d]
    /\ q \in QueriesOf(d)
    /\ listener' = [listener EXCEPT ![d] = Append(@, [query |-> q, delivered |-> None])]
    /\ UNCHANGED <<serverVars, batch, parseVars, screens, stack, dash, baseline>>

(* A listener is called with every new result of its query.  One that is not  *)
(* empty is parsed: the shared array is emptied and the tenant of each order   *)
(* is asked for.                                                               *)
DashboardEvent(d, k) ==
    LET result == QueryResult(d, listener[d][k].query)
        rows   == {[id |-> r.id, reviewed |-> r.data.reviewed] : r \in result}
    IN  /\ result # listener[d][k].delivered
        /\ listener' = [listener EXCEPT ![d][k].delivered = result]
        /\ \/ /\ result = {}
              /\ UNCHANGED parseVars
           \/ /\ result # {}
              /\ Len(parses[d]) < MaxParses[d]
              /\ parses' = [parses EXCEPT ![d] = Append(@, [rows |-> rows, count |-> 0])]
              /\ workOrders' = [workOrders EXCEPT ![d] = {}]
        /\ UNCHANGED <<serverVars, batch, screens, stack, dash, baseline>>

(* The tenant of one of the rows is read, for the first time or again.  The    *)
(* answer that makes the count equal to the number of orders pushes a list of  *)
(* what the array holds by then, wherever the user is.                         *)
TenantRead(d, p, w) ==
    LET parse == parses[d][p]
        array == workOrders[d] \union {w}
        all   == Cardinality(parse.rows)
    IN  /\ w \in parse.rows
        /\ workOrders' = [workOrders EXCEPT ![d] = array]
        /\ parses' = [parses EXCEPT ![d][p].count = IF @ < all THEN @ + 1 ELSE @]
        /\ \/ /\ parse.count + 1 = all
              /\ Push(d, screens[d], [kind |-> "list", rows |-> array, tapped |-> {}])
           \/ /\ parse.count + 1 # all
              /\ UNCHANGED <<screens, stack, dash>>
        /\ UNCHANGED <<serverVars, batch, listener, baseline>>

(* The list: didSelectRowAt asks for the order's updates ... *)
TapListRow(d, i, w) ==
    /\ IsTop(d, i)
    /\ ~Alerting(d)
    /\ Kind(d, i) = "list"
    /\ w \in screens[d][i].rows \ screens[d][i].tapped
    /\ screens' = [screens EXCEPT ![d][i].tapped = @ \union {w}]
    /\ UNCHANGED <<serverVars, batch, listener, parseVars, stack, dash, baseline>>

(* ... and when they come, from a list still on the stack, opens the order.   *)
OpenDetail(d, i, w) ==
    /\ Kind(d, i) = "list"
    /\ w \in screens[d][i].tapped
    /\ LET opened == [screens[d] EXCEPT ![i].tapped = @ \ {w}]
           new    == IF d \in Workers
                     THEN [kind |-> "update", workOrder |-> w, asking |-> FALSE]
                     ELSE [kind |-> "detail", workOrder |-> w, selected |-> {},
                           addMaintenance |-> FALSE]
       IN  \/ /\ i \in stack[d]
              /\ Push(d, opened, new)
           \/ /\ i \notin stack[d]
              /\ screens' = [screens EXCEPT ![d] = opened]
              /\ UNCHANGED <<stack, dash>>
    /\ UNCHANGED <<serverVars, batch, listener, parseVars, baseline>>

(* The detail screen: management checks and unchecks workers; the button that *)
(* finishes the review is visible while at least one is checked.              *)
SelectWorker(d, i, p) ==
    /\ IsTop(d, i)
    /\ d \in Managers
    /\ Kind(d, i) = "detail"
    /\ ~screens[d][i].workOrder.reviewed
    /\ p \notin screens[d][i].selected
    /\ screens' = [screens EXCEPT ![d][i].selected = @ \union {p}]
    /\ UNCHANGED <<serverVars, batch, listener, parseVars, stack, dash, baseline>>

DeselectWorker(d, i, p) ==
    /\ IsTop(d, i)
    /\ Kind(d, i) = "detail"
    /\ p \in screens[d][i].selected
    /\ screens' = [screens EXCEPT ![d][i].selected = @ \ {p}]
    /\ UNCHANGED <<serverVars, batch, listener, parseVars, stack, dash, baseline>>

(* The button stays enabled after it was tapped. *)
FinishButtonTapped(d, i) ==
    /\ IsTop(d, i)
    /\ Kind(d, i) = "detail"
    /\ screens[d][i].selected # {}
    /\ Enqueue(d, i, screens[d][i].workOrder.id,
               [kind |-> "review", staff |-> screens[d][i].selected])
    /\ UNCHANGED <<serverVars, appVars>>

(* The composer: opened without an address, which getDocument fills in later. *)
OpenComposer(d) ==
    /\ d \in Tenants
    /\ stack[d] = {}
    /\ Push(d, screens[d], [kind |-> "compose", address |-> None])
    /\ UNCHANGED <<serverVars, batch, listener, parseVars, baseline>>

AddressLoaded(d, i) ==
    /\ Kind(d, i) = "compose"
    /\ screens[d][i].address = None
    /\ screens' = [screens EXCEPT ![d][i].address = AddressOf[d]]
    /\ UNCHANGED <<serverVars, batch, listener, parseVars, stack, dash, baseline>>

(* Mutant of SendButtonTapped: the address is not waited for. *)
SendButtonTapped_NoAddress(d, i, o) ==
    /\ IsTop(d, i)
    /\ Kind(d, i) = "compose"
    /\ docs[o] = None
    /\ \A e \in Device : \A j \in DOMAIN batch[e] : batch[e][j].order # o
    /\ Enqueue(d, i, o, [kind |-> "create", address |-> screens[d][i].address])
    /\ UNCHANGED <<serverVars, appVars>>

(* sendButtonTapped, which does nothing until the address is there.  The new   *)
(* document's id is one that no write has used.                                *)
SendButtonTapped(d, i, o) ==
    /\ IsTop(d, i)
    /\ Kind(d, i) = "compose"
    /\ screens[d][i].address # None
    /\ docs[o] = None
    /\ \A e \in Device : \A j \in DOMAIN batch[e] : batch[e][j].order # o
    /\ Enqueue(d, i, o, [kind |-> "create", address |-> screens[d][i].address])
    /\ UNCHANGED <<serverVars, appVars>>

(* The update screen: the alert that asks before an order is completed. *)
WorkOrderCompleteButtonTapped(d, i) ==
    /\ IsTop(d, i)
    /\ ~Alerting(d)
    /\ Kind(d, i) = "update"
    /\ screens' = [screens EXCEPT ![d][i].asking = TRUE]
    /\ UNCHANGED <<serverVars, batch, listener, parseVars, stack, dash, baseline>>

ConfirmCompletion(d, i) ==
    /\ Kind(d, i) = "update"
    /\ screens[d][i].asking
    /\ screens' = [screens EXCEPT ![d][i].asking = FALSE]
    /\ Enqueue(d, i, screens[d][i].workOrder.id, [kind |-> "complete"])
    /\ UNCHANGED <<serverVars, listener, parseVars, stack, dash, baseline>>

CancelCompletion(d, i) ==
    /\ Kind(d, i) = "update"
    /\ screens[d][i].asking
    /\ screens' = [screens EXCEPT ![d][i].asking = FALSE]
    /\ UNCHANGED <<serverVars, batch, listener, parseVars, stack, dash, baseline>>

(* The navigation bar's back button. *)
Back(d) ==
    /\ stack[d] # {}
    /\ ~Alerting(d)
    /\ stack' = [stack EXCEPT ![d] = {i \in @ : ~IsTop(d, i)}]
    /\ dash' = [dash EXCEPT ![d] = WhenTopDisappears(d, screens[d], @)]
    /\ UNCHANGED <<serverVars, batch, listener, parseVars, screens, baseline>>

------------------------------------------------------------------------------
(* The write queue of a device: sent in order, each write committed, its       *)
(* answer delivered later and in order.                                       *)
Commit(d, j) ==
    LET b == batch[d][j]
    IN  /\ b.state = "pending"
        /\ \A k \in 1 .. j - 1 : batch[d][k].state # "pending"
        /\ docs' = [docs EXCEPT ![b.order] = Applied(b.write, @)]
        /\ everAssigned' = [everAssigned EXCEPT ![b.order] =
                              IF b.write.kind = "review" THEN @ \union b.write.staff ELSE @]
        /\ begunAgain' = IF b.write.kind = "create" /\ docs[b.order] # None
                         THEN begunAgain \union {b.order} ELSE begunAgain
        /\ batch' = [batch EXCEPT ![d][j].state = "committed"]
        /\ UNCHANGED appVars

(* The write stream breaks before the answers of the committed writes came. *)
LoseAnswers(d) ==
    /\ d \in MayLoseAnswers
    /\ \E j \in DOMAIN batch[d] : batch[d][j].state = "committed"
    /\ batch' = [batch EXCEPT ![d] = [j \in DOMAIN @ |-> Resent(@[j])]]
    /\ UNCHANGED <<serverVars, appVars>>

(* The server refuses one of the writes in line, which ends the stream, and    *)
(* the oldest unanswered one is blamed for it, whether it is the one refused   *)
(* or the server has committed it.  Its handler only prints the error; the     *)
(* others are sent again.                                                      *)
Reject(d, j) ==
    /\ Unsettled(batch[d][j])
    /\ \A k \in 1 .. j - 1 : ~Unsettled(batch[d][k])
    /\ \E k \in DOMAIN batch[d] : batch[d][k].state = "pending"
    /\ batch' = [batch EXCEPT ![d] = [i \in DOMAIN @ |->
                    IF i = j THEN [@[i] EXCEPT !.state = "rejected"] ELSE Resent(@[i])]]
    /\ UNCHANGED <<serverVars, appVars>>

(* Mutant of Acknowledge: popViewController, which removes the visible screen *)
(* only, in place of popToViewController.                                      *)
Acknowledge_PopsOne(d, j) ==
    LET b        == batch[d][j]
        h        == b.handler
        answered == IF h # 0 /\ b.write.kind = "review"
                    THEN [screens[d] EXCEPT ![h].addMaintenance = TRUE]
                    ELSE screens[d]
    IN  /\ b.state = "committed"
        /\ \A k \in 1 .. j - 1 : ~Unsettled(batch[d][k])
        /\ batch' = [batch EXCEPT ![d][j].state = "acked"]
        /\ screens' = [screens EXCEPT ![d] = answered]
        /\ stack' = [stack EXCEPT ![d] = IF h \in @ THEN {i \in @ : ~IsTop(d, i)} ELSE @]
        /\ dash' = [dash EXCEPT ![d] = IF h \in stack[d] THEN WhenTopDisappears(d, answered, @) ELSE @]
        /\ UNCHANGED <<serverVars, listener, parseVars, baseline>>

(* Mutant of Acknowledge: the send handler does not call workOrderAdded. *)
Acknowledge_NotAdded(d, j) ==
    LET b        == batch[d][j]
        h        == b.handler
        answered == IF h # 0 /\ b.write.kind = "review"
                    THEN [screens[d] EXCEPT ![h].addMaintenance = TRUE]
                    ELSE screens[d]
    IN  /\ b.state = "committed"
        /\ \A k \in 1 .. j - 1 : ~Unsettled(batch[d][k])
        /\ batch' = [batch EXCEPT ![d][j].state = "acked"]
        /\ screens' = [screens EXCEPT ![d] = answered]
        /\ stack' = [stack EXCEPT ![d] = IF h \in @ THEN {} ELSE @]
        /\ dash' = [dash EXCEPT ![d] = IF h \in stack[d] THEN WhenTopDisappears(d, answered, @) ELSE @]
        /\ UNCHANGED <<serverVars, listener, parseVars, baseline>>

(* The completion block: workOrderAdded for a sent order; for a review         *)
(* addMaintenance, so that the screen tells the dashboard as it disappears;    *)
(* nothing for a completion.  Then back to the dashboard, if the block's       *)
(* screen is still on the stack.                                               *)
Acknowledge(d, j) ==
    LET b        == batch[d][j]
        h        == b.handler
        answered == IF h # 0 /\ b.write.kind = "review"
                    THEN [screens[d] EXCEPT ![h].addMaintenance = TRUE]
                    ELSE screens[d]
        counted  == IF h # 0 /\ b.write.kind = "create"
                    THEN [dash[d] EXCEPT !.workOrderCount = @ + 1]
                    ELSE dash[d]
    IN  /\ b.state = "committed"
        /\ \A k \in 1 .. j - 1 : ~Unsettled(batch[d][k])
        /\ batch' = [batch EXCEPT ![d][j].state = "acked"]
        /\ screens' = [screens EXCEPT ![d] = answered]
        /\ \/ /\ h \in stack[d]
              /\ stack' = [stack EXCEPT ![d] = {}]
              /\ dash' = [dash EXCEPT ![d] = WhenTopDisappears(d, answered, counted)]
           \/ /\ h \notin stack[d]
              /\ dash' = [dash EXCEPT ![d] = counted]
              /\ UNCHANGED stack
        /\ UNCHANGED <<serverVars, listener, parseVars, baseline>>

(* Mutant of Relaunch: the navigation stack is restored without its screens. *)
Relaunch_KeepsStack(d) ==
    /\ d \in MayRelaunch
    /\ batch' = [batch EXCEPT ![d] = [j \in DOMAIN @ |-> [Resent(@[j]) EXCEPT !.handler = 0]]]
    /\ listener' = [listener EXCEPT ![d] = <<>>]
    /\ parses' = [parses EXCEPT ![d] = <<>>]
    /\ workOrders' = [workOrders EXCEPT ![d] = {}]
    /\ screens' = [screens EXCEPT ![d] = <<>>]
    /\ dash' = [dash EXCEPT ![d] = Counts(d)]
    /\ baseline' = [baseline EXCEPT ![d] = Counts(d)]
    /\ UNCHANGED <<serverVars, stack>>

(* The app is killed, or crashes, and the user signs in again.  Firestore's    *)
(* persistent queue survives and what it holds is sent, again if need be; the  *)
(* screens, the listeners, the parses and the completion blocks do not, and    *)
(* the dashboard opens with fresh counts.                                      *)
Relaunch(d) ==
    /\ d \in MayRelaunch
    /\ batch' = [batch EXCEPT ![d] = [j \in DOMAIN @ |-> [Resent(@[j]) EXCEPT !.handler = 0]]]
    /\ listener' = [listener EXCEPT ![d] = <<>>]
    /\ parses' = [parses EXCEPT ![d] = <<>>]
    /\ workOrders' = [workOrders EXCEPT ![d] = {}]
    /\ screens' = [screens EXCEPT ![d] = <<>>]
    /\ stack' = [stack EXCEPT ![d] = {}]
    /\ dash' = [dash EXCEPT ![d] = Counts(d)]
    /\ baseline' = [baseline EXCEPT ![d] = Counts(d)]
    /\ UNCHANGED serverVars

------------------------------------------------------------------------------
ScreenStep(d, i) ==
    \/ \E w \in WorkOrder : TapListRow(d, i, w) \/ OpenDetail(d, i, w)
    \/ \E p \in Workers : SelectWorker(d, i, p) \/ DeselectWorker(d, i, p)
    \/ FinishButtonTapped(d, i)
    \/ AddressLoaded(d, i)
    \/ \E o \in Orders : SendButtonTapped(d, i, o)
    \/ WorkOrderCompleteButtonTapped(d, i)
    \/ ConfirmCompletion(d, i)
    \/ CancelCompletion(d, i)

(* Mutant of QueueStep: writes restored from disk are not sent again. *)
QueueStep_NoReplay(d) ==
    \E j \in DOMAIN batch[d] :
        /\ batch[d][j].handler # 0
        /\ Commit(d, j) \/ Reject(d, j) \/ Acknowledge(d, j)

QueueStep(d) ==
    \E j \in DOMAIN batch[d] : Commit(d, j) \/ Reject(d, j) \/ Acknowledge(d, j)

DeviceStep(d) ==
    \/ \E q \in Query : TapDashboardRow(d, q)
    \/ \E k \in DOMAIN listener[d] : DashboardEvent(d, k)
    \/ \E p \in DOMAIN parses[d] : \E w \in WorkOrder : TenantRead(d, p, w)
    \/ \E i \in DOMAIN screens[d] : ScreenStep(d, i)
    \/ OpenComposer(d)
    \/ Back(d)
    \/ Relaunch(d)

Next == \E d \in Device : DeviceStep(d) \/ QueueStep(d) \/ LoseAnswers(d)

Spec == Init /\ [][Next]_vars

(* Firestore retries until the server has answered; the user owes nothing.     *)
(* WritePipeline shows that it does so over streams that break.                *)
Fairness == \A d \in Device : WF_vars(QueueStep(d))

LiveSpec == Spec /\ Fairness
------------------------------------------------------------------------------
(* Properties. *)

(* Only orders that management gave to somebody are ever completed: the update *)
(* screen, the one place that completes an order, is reached through lists of  *)
(* orders that were reviewed when they were read, however stale they are by    *)
(* then.  A completed order is still reviewed unless a write of its tenant,    *)
(* sent again, began it again in the meantime.                                 *)
CompletedWasReviewed ==
    \A o \in Orders : docs[o] # None /\ ~docs[o].active =>
        /\ everAssigned[o] # {}
        /\ o \notin begunAgain => docs[o].reviewed

(* An order leaves the requests with at least one worker on it, although the   *)
(* finish handler sends whatever rows are checked and two managers may be      *)
(* reviewing the same order.                                                   *)
ReviewedHasStaff ==
    \A o \in Orders : docs[o] # None => (docs[o].reviewed <=> docs[o].maintenance # {})

(* Whoever completes an order had been assigned to it at some time, even if a  *)
(* later review replaced the staff while their screen was open.                *)
CompleterWasAssigned ==
    \A d \in Device : \A j \in DOMAIN batch[d] :
        batch[d][j].write.kind = "complete" =>
            d \in Workers /\ d \in everAssigned[batch[d][j].order]

(* The dashboard takes a request off its count at most once for each screen    *)
(* whose review was accepted in this session: not by covering and uncovering   *)
(* the screen, nor by sending the review twice from it.  (The same order can   *)
(* be taken off twice: through a list that was read before its first review.)  *)
AcceptedScreens(d) ==
    {batch[d][j].handler : j \in {j \in DOMAIN batch[d] :
        /\ batch[d][j].write.kind = "review"
        /\ batch[d][j].state = "acked"
        /\ batch[d][j].handler # 0}}

DecrementsBacked ==
    \A d \in Device :
        baseline[d].requestCount - dash[d].requestCount <= Cardinality(AcceptedScreens(d))

(* A tenant who shares the apartment with nobody never sees fewer active       *)
(* orders counted than the server has, but for those whose send handler in     *)
(* this session was not told that the order was added: it waits for the answer *)
(* or was given an error.  Orders sent before the app was killed are counted,  *)
(* wherever they were then.                                                    *)
ServerActive(a) ==
    {o \in Orders : docs[o] # None /\ docs[o].active /\ docs[o].address = a}

Unreported(d) ==
    {batch[d][j].order : j \in {j \in DOMAIN batch[d] :
        batch[d][j].handler # 0 /\ batch[d][j].state # "acked"}}

LivesAlone(d) == \A e \in Tenants \ {d} : AddressOf[e] # AddressOf[d]

NeverUndercounts ==
    \A d \in Tenants : LivesAlone(d) =>
        Cardinality(ServerActive(AddressOf[d]) \ Unreported(d)) <= dash[d].workOrderCount

(* Once a write's completion block has run, the screen that made the write is  *)
(* off the navigation stack and stays off it: the user cannot go back to an    *)
(* order whose review or completion was accepted and send it again from there. *)
AcceptedScreenIsGone ==
    \A d \in Device : \A j \in DOMAIN batch[d] :
        batch[d][j].state = "acked" => batch[d][j].handler \notin stack[d]

(* Every order on the server goes through the stages of the ledger, and begins *)
(* again only while its tenant has no answer yet, whatever the devices, with   *)
(* their stale screens, write to it.                                           *)
Stage == [o \in Orders |->
            IF docs[o] = None THEN "none"
            ELSE IF ~docs[o].active THEN "completed"
            ELSE IF docs[o].reviewed THEN "assigned" ELSE "requested"]

Staff == [o \in Orders |-> IF docs[o] = None THEN {} ELSE docs[o].maintenance]

Open == {o \in Orders : \E d \in Tenants : \E j \in DOMAIN batch[d] :
            batch[d][j].order = o /\ Unsettled(batch[d][j])}

Ledger == INSTANCE OrderLedger
            WITH stage <- Stage, staff <- Staff, given <- everAssigned, open <- Open

ImplementsLedger == Ledger!LedgerSpec

(* Every write is answered in the end, those of an app that was relaunched     *)
(* with the queue still full included, once the app stays up and its answers   *)
(* are not lost for ever: each time they are, the writes are sent again.       *)
StaysUp(d) == <>[][~LoseAnswers(d) /\ ~Relaunch(d)]_vars

WritesAreAnswered ==
    \A d \in Device : StaysUp(d) =>
        \A j \in 1 .. MaxBatches[d] :
            (j \in DOMAIN batch[d]) ~> (j \in DOMAIN batch[d] /\ ~Unsettled(batch[d][j]))

------------------------------------------------------------------------------
(* The inductive invariant.  What makes the first properties hold is that the *)
(* facts a screen was opened on are never undone on the server, so a screen,   *)
(* or a write, is sound however old it is.                                     *)

(* The orders a device can have been shown: for management one that exists,    *)
(* for a worker one that was given to this worker at some time.                *)
Seen(d) ==
    {o \in Orders : /\ d \in Managers \union Workers => docs[o] # None
                    /\ d \in Workers => d \in everAssigned[o]}

SeenOrder(d) == [id : Seen(d), reviewed : BOOLEAN]

SoundParse(d) == [rows : SUBSET SeenOrder(d), count : Nat]

SoundScreen(d) ==
    [kind : {"list"}, rows : SUBSET SeenOrder(d), tapped : SUBSET SeenOrder(d)]
        \union (IF d \in Workers
                THEN [kind : {"update"}, workOrder : SeenOrder(d), asking : BOOLEAN]
                ELSE [kind : {"detail"}, workOrder : SeenOrder(d),
                      selected : IF d \in Managers THEN SUBSET Workers ELSE {{}},
                      addMaintenance : BOOLEAN])
        \union (IF d \in Tenants
                THEN [kind : {"compose"}, address : {AddressOf[d], None}] ELSE {})

SoundWrite(d) ==
    CASE d \in Tenants  -> [kind : {"create"}, address : {AddressOf[d]}]
      [] d \in Managers -> [kind : {"review"}, staff : (SUBSET Workers) \ {{}}]
      [] d \in Workers  -> [kind : {"complete"}]

SoundBatch(d) == [order : Seen(d), write : SoundWrite(d), handler : Nat, state : BatchState]

(* A document is reviewed when it has a staff. *)
SoundDocs ==
    \A o \in Orders : docs[o] # None =>
        /\ docs[o].maintenance \subseteq everAssigned[o]
        /\ docs[o].reviewed <=> docs[o].maintenance # {}

(* A completion block belongs to a screen that exists and can be set by it. *)
SoundHandlers ==
    \A d \in Device : \A j \in DOMAIN batch[d] :
        LET b == batch[d][j]
        IN  b.handler # 0 =>
                /\ b.handler \in DOMAIN screens[d]
                /\ b.write.kind = "review" => Kind(d, b.handler) = "detail"

IndInv ==
    /\ TypeOK
    /\ \A d \in Device : screens[d] \in Seq(SoundScreen(d))
    /\ \A d \in Device : batch[d] \in Seq(SoundBatch(d))
    /\ \A d \in Device : parses[d] \in Seq(SoundParse(d))
    /\ \A d \in Device : workOrders[d] \subseteq SeenOrder(d)
    /\ SoundDocs
    /\ SoundHandlers

(* What an order keeps as well, unless a write of its tenant that was sent     *)
(* again has begun it again.                                                   *)

(* The id of a new order is one that no other write of a tenant has. *)
AddedOnce ==
    \A d, e \in Tenants : \A j \in DOMAIN batch[d], k \in DOMAIN batch[e] :
        batch[d][j].order = batch[e][k].order => d = e /\ j = k

AssignedStaysReviewed ==
    \A o \in Orders : everAssigned[o] # {} =>
        /\ docs[o] # None
        /\ o \notin begunAgain => docs[o].reviewed

KeptInv ==
    /\ AddedOnce
    /\ AssignedStaysReviewed
    /\ CompletedWasReviewed

------------------------------------------------------------------------------
(* What comments in the code say of it, and the code does not do. *)

JustAcked(d, j) ==
    /\ batch[d][j].state = "committed"
    /\ j \in DOMAIN batch'[d]
    /\ batch'[d][j].state = "acked"
    /\ batch[d][j].handler # 0

(* DashboardViewController.swift:21, of workOrderRequestCountChanged: "update  *)
(* table view when a work order is reviewed".                                  *)
ReviewUpdatesCount ==
    [][\A d \in Device : \A j \in DOMAIN batch[d] :
         JustAcked(d, j) /\ batch[d][j].write.kind = "review" =>
            dash'[d].requestCount = dash[d].requestCount - 1]_vars

(* FIRCollectionReference.h:69, of addDocument: "Add a new document to this    *)
(* collection with the specified data".  What a tenant adds does not replace   *)
(* an order that management has reviewed already.                              *)
AddingKeepsReviews ==
    [][\A o \in Orders : docs[o] # None /\ docs[o].reviewed => docs'[o].reviewed]_vars
==============================================================================
