------------------------------ MODULE WriteQueue ------------------------------
(* What the Firestore client promises about the writes of this device: a      *)
(* write is applied by the server, possibly more than once, only while it is  *)
(* queued and after every older write of its user that is still queued; it is *)
(* reported as done only after it was applied.  WritePipeline implements it.  *)
EXTENDS Naturals, Sequences, SequencesExt

CONSTANTS
    User,   \* the accounts used on the device
    Bad     \* the batches the server refuses for good

VARIABLES
    owner,      \* owner[n] wrote batch n
    queue,      \* the batches each user still has to get applied, in order
    applied,    \* the batches the server has applied
    acked,      \* the batches reported to the app as done
    refused     \* the batches reported to the app as failed

queueVars == <<owner, queue, applied, acked, refused>>

QueueInit ==
    /\ owner = <<>>
    /\ queue = [u \in User |-> <<>>]
    /\ applied = {}
    /\ acked = {}
    /\ refused = {}

(* The i-th queued write of u is next in line on the server. *)
InLine(u, i) ==
    \A j \in 1..(i - 1) : queue[u][j] \in applied

Add(u) ==
    /\ owner' = Append(owner, u)
    /\ queue' = [queue EXCEPT ![u] = Append(@, Len(owner) + 1)]
    /\ UNCHANGED <<applied, acked, refused>>

(* The server applies a write, for the first time or again. *)
Apply(u) ==
    /\ \E i \in DOMAIN queue[u] :
        /\ InLine(u, i)
        /\ queue[u][i] \notin Bad
        /\ applied' = applied \union {queue[u][i]}
    /\ UNCHANGED <<owner, queue, acked, refused>>

Accept(u) ==
    /\ queue[u] # <<>>
    /\ Head(queue[u]) \in applied
    /\ acked' = acked \union {Head(queue[u])}
    /\ queue' = [queue EXCEPT ![u] = Tail(@)]
    /\ UNCHANGED <<owner, applied, refused>>

(* The oldest write is given up because the server refuses one of the queue.  *)
(* It need not be that one: see WritePipeline.                                *)
GiveUp(u) ==
    /\ \E i \in DOMAIN queue[u] : InLine(u, i) /\ queue[u][i] \in Bad
    /\ refused' = refused \union {Head(queue[u])}
    /\ queue' = [queue EXCEPT ![u] = Tail(@)]
    /\ UNCHANGED <<owner, applied, acked>>

QueueNext ==
    \E u \in User : Add(u) \/ Apply(u) \/ Accept(u) \/ GiveUp(u)

QueueSpec == QueueInit /\ [][QueueNext]_queueVars
-------------------------------------------------------------------------------
(* What the app can rely on. *)

Queued == UNION {Range(queue[u]) : u \in User}

(* Every write of the app is either still queued, or was reported as done, or  *)
(* was reported as failed: none is lost, forgotten or reported twice.          *)
OneFate ==
    /\ DOMAIN owner = Queued \union acked \union refused
    /\ Queued \intersect (acked \union refused) = {}
    /\ acked \intersect refused = {}

(* The writes of a user are reported in the order in which they were made.     *)
ReportedInOrder ==
    \A u \in User : \A n \in Range(queue[u]), m \in acked \union refused :
        owner[m] = u => m < n

(* What is reported as done was applied; and a write is on the server only if  *)
(* the older writes of its user are there too, or were reported as failed.     *)
AppliedInOrder ==
    /\ acked \subseteq applied
    /\ \A n \in applied : \A m \in 1..(n - 1) :
            owner[m] = owner[n] => m \in applied \union refused
===============================================================================
