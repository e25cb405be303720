------------------------------- MODULE StmtMap -------------------------------
(****************************************************************************)
(* What a client's cache of prepared statements promises: a map from names  *)
(* to statements that holds at most Cap of them.                            *)
(****************************************************************************)
EXTENDS Integers, FiniteSets

CONSTANTS
    Names,       \* statement names
    Statements,  \* what is cached under a name
    Cap,         \* PQPROXY_MAX_CACHED_STMTS
    Absent       \* not a statement

VARIABLES
    map,     \* the statement under each name, Absent for none
    answer   \* the latest call, its name, and whether it succeeded

Cached == {n \in Names : map[n] # Absent}

Init ==
    /\ map = [n \in Names |-> Absent]
    /\ answer = [call |-> "init", name |-> Absent, ok |-> TRUE]

\* A known name is replaced even when the cache is full.
Put(n, s) ==
    LET fits == n \in Cached \/ Cardinality(Cached) < Cap IN
    /\ answer' = [call |-> "put", name |-> n, ok |-> fits]
    /\ map' = IF fits THEN [map EXCEPT ![n] = s] ELSE map

RemoveStmt(n) ==
    /\ answer' = [call |-> "remove", name |-> n, ok |-> n \in Cached]
    /\ map' = [map EXCEPT ![n] = Absent]

\* A statement the wire library cannot hold is refused.
Refuse ==
    /\ answer' = [call |-> "oversized", name |-> Absent, ok |-> FALSE]
    /\ UNCHANGED map

Next ==
    \/ \E n \in Names, s \in Statements : Put(n, s)
    \/ \E n \in Names : RemoveStmt(n)
    \/ Refuse

Spec == Init /\ [][Next]_<<map, answer>>

==============================================================================
