------------------------------ MODULE StmtCache ------------------------------
(****************************************************************************)
(* The prepared statements of one client and the rewriting of its Binds     *)
(* (src/src/rewrite_engine.c): an open-addressing hash table without        *)
(* tombstones, filled by Parse, and the identity slot a Bind is given from  *)
(* it.                                                                      *)
(*                                                                          *)
(* A query is abstracted to the position of the identity column in its      *)
(* INSERT column list, -1 when it has none.                                 *)
(****************************************************************************)
EXTENDS Integers, FiniteSets

CONSTANTS
    Names,       \* statement names
    Columns,     \* positions the identity column has in the queries
    MaxParams,   \* bound: parameters of a Bind
    Cap,         \* PQPROXY_MAX_CACHED_STMTS
    IdSlot,      \* config identity_slot, also the slot of every identity
    ByColumn,    \* config identity_param_name names the identity column
    None

Slots == 0 .. Cap - 1

Statements == [col : Columns, slot : Columns \union {IdSlot}]

Entries == [name : Names, stmt : Statements]

ASSUME CacheAssumption ==
    /\ Cap \in Nat \ {0}
    /\ Columns \subseteq Nat \union {-1}
    /\ IdSlot \in Nat \union {-1}
    /\ MaxParams \in Nat
    /\ ByColumn \in BOOLEAN
    /\ None \notin Names \union Statements \union Entries

VARIABLES
    hash,      \* stmt_name_hash of each name, modulo Cap
    slots,     \* slots[i]: [name, stmt], None when not in use
    count,     \* entries in use
    answer,    \* the latest put or remove, its name, and whether it returned 0
    injected   \* the latest Bind forwarded: [stmt, at], None before the first

vars == <<hash, slots, count, answer, injected>>

Init ==
    /\ hash \in [Names -> Slots]
    /\ slots = [i \in Slots |-> None]
    /\ count = 0
    /\ answer = [call |-> "init", name |-> None, ok |-> TRUE]
    /\ injected = None

-----------------------------------------------------------------------------
(* Probing. The p-th probe for a name, the probes at which a search ends,   *)
(* and the probe it ends with.                                              *)

Probe(n, p) == (hash[n] + p) % Cap

Ends(S, n) ==
    {p \in Slots : S[Probe(n, p)] = None \/ S[Probe(n, p)].name = n}

Stop(S, n) == CHOOSE p \in Ends(S, n) : \A q \in Ends(S, n) : p <= q

\* pqproxy_stmt_cache_get: the statement under a name.
Get(S, n) ==
    IF Ends(S, n) = {} \/ S[Probe(n, Stop(S, n))] = None
      THEN None ELSE S[Probe(n, Stop(S, n))].stmt

\* pqproxy_stmt_cache_put: a table and its count with one more statement, or
\* the same ones when it is full.
Table(S, k) == [slots |-> S, count |-> k]

\* Faulty variant: a full table refuses every put.
FitsEarly(T, n) ==
    /\ Ends(T.slots, n) # {}
    /\ T.count < Cap

Fits(T, n) ==
    /\ Ends(T.slots, n) # {}
    /\ T.slots[Probe(n, Stop(T.slots, n))] # None \/ T.count < Cap

\* Faulty variant: replacing a statement counts as adding one.
PutCountsTwice(T, n, s) ==
    LET i == Probe(n, Stop(T.slots, n)) IN
    IF ~Fits(T, n) THEN T
    ELSE Table([T.slots EXCEPT ![i] = [name |-> n, stmt |-> s]], T.count + 1)

Put(T, n, s) ==
    LET i == Probe(n, Stop(T.slots, n)) IN
    IF ~Fits(T, n) THEN T
    ELSE Table([T.slots EXCEPT ![i] = [name |-> n, stmt |-> s]],
               IF T.slots[i] = None THEN T.count + 1 ELSE T.count)

Reinsert(T, e) == IF e = None THEN T ELSE Put(T, e.name, e.stmt)

\* Faulty variant: the hole is left where it is.
RehashedNot(S) == Table(S, Cardinality({i \in Slots : S[i] # None}))

\* pqproxy_stmt_cache_remove: the other entries are put into an empty table
\* again, in the order of their slots.
Rehashed(S) ==
    LET T[i \in 0 .. Cap] ==
            IF i = 0 THEN Table([j \in Slots |-> None], 0)
            ELSE Reinsert(T[i - 1], S[i - 1])
    IN  T[Cap]

-----------------------------------------------------------------------------
Current == Table(slots, count)

\* on_parse_ex: the slot comes from the column list if that names the column.
Resolved(col) == IF ByColumn /\ col >= 0 THEN col ELSE IdSlot

Parse(n, col) ==
    LET s == [col |-> col, slot |-> Resolved(col)]
        T == Put(Current, n, s)
    IN  /\ slots' = T.slots
        /\ count' = T.count
        /\ answer' = [call |-> "put", name |-> n, ok |-> Fits(Current, n)]
        /\ UNCHANGED <<hash, injected>>

\* pqwire_prepared_from_parse refuses the statement.
ParseRefused ==
    /\ answer' = [call |-> "oversized", name |-> None, ok |-> FALSE]
    /\ UNCHANGED <<hash, slots, count, injected>>

RemoveStmt(n) ==
    LET T == Rehashed([slots EXCEPT ![Probe(n, Stop(slots, n))] = None]) IN
    /\ IF Get(slots, n) = None
         THEN UNCHANGED <<slots, count>>
         ELSE slots' = T.slots /\ count' = T.count
    /\ answer' = [call |-> "remove", name |-> n, ok |-> Get(slots, n) # None]
    /\ UNCHANGED <<hash, injected>>

\* on_bind: the identity overwrites one parameter, or the Bind is refused.
InjectSlot(s) ==
    LET slot == IF IdSlot >= 0 THEN IdSlot ELSE s.slot
    IN  IF slot < 0 THEN 0 ELSE slot

Bind(n, params) ==
    LET s == Get(slots, n) IN
    /\ s # None
    /\ InjectSlot(s) < params
    /\ injected' = [stmt |-> s, at |-> InjectSlot(s)]
    /\ UNCHANGED <<hash, slots, count, answer>>

Next ==
    \/ \E n \in Names, col \in Columns : Parse(n, col)
    \/ ParseRefused
    \/ \E n \in Names : RemoveStmt(n)
    \/ \E n \in Names, params \in 0 .. MaxParams : Bind(n, params)

Spec == Init /\ [][Next]_vars

-----------------------------------------------------------------------------
TypeOK ==
    /\ hash \in [Names -> Slots]
    /\ slots \in [Slots -> Entries \union {None}]
    /\ count \in 0 .. Cap
    /\ answer \in [call : {"init", "put", "oversized", "remove"},
                  name : Names \union {None}, ok : BOOLEAN]
    /\ injected \in [stmt : Statements, at : Nat] \union {None}

InUse == {i \in Slots : slots[i] # None}

\* Whatever the names hash to and in whatever order statements were cached,
\* replaced and removed, a search finds each entry where it lies: no entry is
\* behind a hole, none is stored twice, and the count is the number of them.
EveryEntryFound ==
    /\ \A i \in InUse : Probe(slots[i].name, Stop(slots, slots[i].name)) = i
    /\ count = Cardinality(InUse)

\* The table is a map: lookups, updates, refusals and removals answer as if
\* there were no hashing (README, "StmtCache implements StmtMap").
Map == INSTANCE StmtMap WITH
    map    <- [n \in Names |-> Get(slots, n)],
    answer <- answer,
    Absent <- None

ImplementsMap == Map!Spec

\* "resolve slot from INSERT column list" (config/pqproxy.example.yaml:21), for
\* which identity_slot is the "fallback" (pqproxy.h:110): a Bind of a statement
\* whose column list names the identity column has the verified identity there.
NamedColumnInjected ==
    injected # None /\ ByColumn /\ injected.stmt.col >= 0
        => injected.at = injected.stmt.col

=============================================================================
