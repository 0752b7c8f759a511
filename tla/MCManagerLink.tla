--------------------------- MODULE MCManagerLink ---------------------------
(***************************************************************************)
(* Small instances of ManagerLink for TLC.                                 *)
(***************************************************************************)
EXTENDS ManagerLink, FiniteSets, TLC

\* The goroutines that are between two of their steps, and not waiting for a
\* message, a tick or a response.
Busy ==
    {<<"reader", c>> : c \in {d \in Conns : reader[d] \in Turning \cup {"trigger"}}}
    \cup {<<"heart", c>> : c \in {d \in Conns : heart[d] \in {"ping", "drop", "trigger"}}}
    \cup {<<"handler", c>> : c \in {d \in Conns : handler[d] \in
                                 {"upgraded", "found", "check", "leaving", "remove"}}}
    \cup {<<"request", r>> : r \in {q \in Requests : rq[q] \in
                                 {"register", "write", "return"}}}
    \cup {x \in {<<"loop", 0>>} : isRetrying}
    \cup {x \in {<<"close", 0>>} : closer = "stopping"}

\* The bound of the instance.
Bound == Cardinality(Busy) <= 4
=============================================================================
