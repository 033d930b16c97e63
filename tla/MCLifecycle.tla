----------------------------- MODULE MCLifecycle -----------------------------
(* Instances of WorkOrderLifecycle for TLC. *)
EXTENDS WorkOrderLifecycle

CONSTANTS o1, o2, t1, m1, w1, w2, a1, a2

MCAddressOf == [t \in Tenants |-> a1]

PerRole(tenant, manager, worker) ==
    [d \in Device |-> CASE d \in Tenants -> tenant [] d \in Managers -> manager [] d \in Workers -> worker]

(* One device of each role: an order is sent, reviewed and completed. *)
RolesTaps    == PerRole(0, 1, 1)
RolesParses  == PerRole(0, 1, 1)
RolesScreens == PerRole(1, 2, 2)
RolesBatches == PerRole(1, 1, 1)

(* A desk: one manager with two listeners, who may get a second list of rows   *)
(* that were read before the first review and review an order twice.           *)
DeskTaps    == PerRole(0, 2, 0)
DeskParses  == PerRole(0, 2, 0)
DeskScreens == PerRole(0, 4, 0)
DeskBatches == PerRole(0, 2, 0)

(* A change of staff: a manager may finish a review twice, for other workers;  *)
(* w1 may complete the order, w2 is only there to be assigned.                 *)
Acting(count) == [d \in Device |-> IF d = w2 THEN 0 ELSE count[d]]
StaffTaps    == Acting(PerRole(0, 1, 1))
StaffParses  == Acting(PerRole(0, 1, 1))
StaffScreens == Acting(PerRole(0, 2, 2))
StaffBatches == Acting(PerRole(0, 2, 1))

(* An apartment whose tenant sends two orders, with room to send one twice.    *)
HomeTaps    == PerRole(1, 0, 0)
HomeParses  == PerRole(2, 0, 0)
HomeScreens == PerRole(2, 0, 0)
HomeBatches == PerRole(2, 0, 0)
==============================================================================
