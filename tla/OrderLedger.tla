----------------------------- MODULE OrderLedger -----------------------------
(* What the building is promised about a maintenance work order, whichever    *)
(* devices are used and whatever happens to them: it gets a non-empty staff   *)
(* from management, is completed only after it was given one, and stays       *)
(* completed; it begins again only while its tenant, whose device may send it *)
(* twice, has no answer yet.                                                  *)
(* WorkOrderLifecycle implements this module.                                 *)
EXTENDS FiniteSets

CONSTANTS
    Orders,     \* identities of work orders
    Workers     \* the maintenance workers who can be put on one

VARIABLES
    stage,      \* how far each order has got
    staff,      \* the workers each order is assigned to
    given,      \* the workers each order was ever assigned to
    open        \* the orders that were sent and not answered

Stages == {"none", "requested", "assigned", "completed"}

LedgerTypeOK ==
    /\ stage \in [Orders -> Stages]
    /\ staff \in [Orders -> SUBSET Workers]
    /\ given \in [Orders -> SUBSET Workers]
    /\ open \subseteq Orders

LedgerInit ==
    /\ stage \in [Orders -> {"none", "requested"}]
    /\ staff = [o \in Orders |-> {}]
    /\ given = [o \in Orders |-> {}]
    /\ open = {}

(* A tenant sends an order. *)
Send(o) ==
    /\ stage[o] = "none"
    /\ open' = open \union {o}
    /\ UNCHANGED <<stage, staff, given>>

(* The order reaches the building, for the first time or again. *)
Submit(o) ==
    /\ o \in open
    /\ stage' = [stage EXCEPT ![o] = "requested"]
    /\ staff' = [staff EXCEPT ![o] = {}]
    /\ UNCHANGED <<given, open>>

(* The tenant is told what became of it: from now on it cannot begin again. *)
Settle(o) ==
    /\ open' = open \ {o}
    /\ UNCHANGED <<stage, staff, given>>

(* Management reviews an order that is there and chooses who does it.  A      *)
(* second review, made from a list that was read before the first one,        *)
(* replaces the staff; a completed order stays completed.                     *)
Assign(o, chosen) ==
    /\ stage[o] # "none"
    /\ chosen # {}
    /\ stage' = [stage EXCEPT ![o] = IF @ = "completed" THEN @ ELSE "assigned"]
    /\ staff' = [staff EXCEPT ![o] = chosen]
    /\ given' = [given EXCEPT ![o] = @ \union chosen]
    /\ UNCHANGED open

(* One of the workers it was given to completes it. *)
Complete(o) ==
    /\ stage[o] # "none"
    /\ given[o] # {}
    /\ stage' = [stage EXCEPT ![o] = "completed"]
    /\ UNCHANGED <<staff, given, open>>

LedgerNext ==
    \E o \in Orders :
        \/ Send(o)
        \/ Submit(o)
        \/ Settle(o)
        \/ \E chosen \in SUBSET Workers : Assign(o, chosen)
        \/ Complete(o)

LedgerVars == <<stage, staff, given, open>>

LedgerSpec == LedgerInit /\ [][LedgerNext]_LedgerVars
==============================================================================
