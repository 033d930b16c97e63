------------------------------- MODULE MCLogin -------------------------------
(* Instances of LoginSession for TLC. *)
EXTENDS LoginSession

CONSTANTS t1, m1, w1

(* One account of each role. *)
MCRoleOf == [u \in Users |-> CASE u = t1 -> "tenants" [] u = m1 -> "management" [] u = w1 -> "maintenance"]
==============================================================================
