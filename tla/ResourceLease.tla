--------------------------- MODULE ResourceLease ----------------------------
(***************************************************************************)
(* What a resource pool promises its users, without a queue, a mutex or a  *)
(* cleanup goroutine: every user has at most one lease, no resource is     *)
(* leased to two users, and at most Limit leases are out at a time.        *)
(***************************************************************************)
EXTENDS Integers, FiniteSets

CONSTANTS Users, Items, NoItem, Limit

VARIABLE lease      \* what each user holds

Leased == {lease[u] : u \in Users} \ {NoItem}

Init == lease = [u \in Users |-> NoItem]

Grant(u, item) ==
    /\ lease[u] = NoItem
    /\ item \notin Leased
    /\ Cardinality(Leased) < Limit
    /\ lease' = [lease EXCEPT ![u] = item]

GiveBack(u) ==
    /\ lease[u] # NoItem
    /\ lease' = [lease EXCEPT ![u] = NoItem]

Next == \E u \in Users : GiveBack(u) \/ \E item \in Items : Grant(u, item)

Spec == Init /\ [][Next]_lease
=============================================================================
