------------------------------- MODULE FairLine -------------------------------
(****************************************************************************)
(* What the sharing of backends promises to the clients, without rings,     *)
(* passes or request queues: a waiting line in order of arrival, where a    *)
(* free backend never goes to a client when somebody ahead of it in the     *)
(* line could use it, and where nobody queues for a backend that is free.   *)
(* FairScheduler implements it (module FairSchedulerRefinement).            *)
(****************************************************************************)
EXTENDS Filters, SequencesExt

CONSTANTS Conns, Backends, Groups, Login, UseGroupAsUser, None

VARIABLES
    line,     \* clients waiting for a backend, first come first
    holder,   \* the backend each client holds
    grp       \* the group of each connected client

vars == <<line, holder, grp>>

MayUse(c) == {b \in Backends : UseGroupAsUser => Login[b] = grp[c]}

Free == {b \in Backends : \A c \in Conns : holder[c] # b}

Ahead(c) ==
    IF Contains(line, c)
    THEN {d \in Conns : \E i, j \in 1 .. Len(line) :
              i < j /\ line[i] = d /\ line[j] = c}
    ELSE ToSet(line)

Init ==
    /\ line = <<>>
    /\ holder = [c \in Conns |-> None]
    /\ grp = [c \in Conns |-> None]

Connect(c, g) ==
    /\ grp[c] = None
    /\ grp' = [grp EXCEPT ![c] = g]
    /\ UNCHANGED <<line, holder>>

Join(c) ==
    /\ grp[c] # None
    /\ holder[c] = None
    /\ ~Contains(line, c)
    /\ Free \intersect MayUse(c) = {}
    /\ line' = Append(line, c)
    /\ UNCHANGED <<holder, grp>>

Grant(c, b) ==
    /\ grp[c] # None
    /\ holder[c] = None
    /\ b \in Free \intersect MayUse(c)
    /\ \A d \in Ahead(c) : b \notin MayUse(d)
    /\ holder' = [holder EXCEPT ![c] = b]
    /\ line' = Only(line, Conns \ {c})
    /\ UNCHANGED grp

Release(c) ==
    /\ holder' = [holder EXCEPT ![c] = None]
    /\ UNCHANGED <<line, grp>>

Leave(c) ==
    /\ holder[c] = None
    /\ grp' = [grp EXCEPT ![c] = None]
    /\ line' = Only(line, Conns \ {c})
    /\ UNCHANGED holder

Next ==
    \E c \in Conns :
        \/ \E g \in Groups : Connect(c, g)
        \/ Join(c)
        \/ \E b \in Backends : Grant(c, b)
        \/ Release(c)
        \/ Leave(c)

Spec == Init /\ [][Next]_vars

===============================================================================
