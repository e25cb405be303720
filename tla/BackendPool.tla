----------------------------- MODULE BackendPool -----------------------------
(****************************************************************************)
(* The pool of authenticated Postgres connections (src/src/backend_pool.c): *)
(* warm-up, round-robin checkout by tenant group, lazy logins, health       *)
(* probes, blocking and asynchronous use, reconnects and maintenance.       *)
(*                                                                          *)
(* Callers are the client connections of the loop; every call of the pool's *)
(* API is one step, except a blocking exchange, during which Postgres may   *)
(* go away. Whether Postgres accepts a new connection is the server's       *)
(* choice, made anew each time the pool tries.                              *)
(****************************************************************************)
EXTENDS Integers, FiniteSets

CONSTANTS
    N,                \* max_conns: slots of the pool
    Groups,           \* tenant groups, which may also be database users
    PoolUser,         \* the shared database user, outside group login
    Warm,             \* the user each slot is warmed up for, None for none
    Callers,          \* clients of the pool
    UseGroupAsUser,   \* log in as the tenant group
    LazyConnect,      \* open a login for a group on demand
    HealthCheck,      \* health_check_on_checkout
    NonblockAtStart,  \* set_nonblock after warm-up, as the io_uring loop does
    SyncUse,          \* blocking exchanges happen (exec_bind, exec_query)
    MarkDeadUsed,     \* a holder may call mark_dead
    None

Slots == 0 .. N - 1
Users == Groups \union {PoolUser}

ASSUME PoolAssumption ==
    /\ N \in Nat \ {0}
    /\ None \notin Slots /\ None \notin Users /\ None \notin Callers
    /\ Warm \in [Slots -> Users \union {None}]
    /\ \E s \in Slots : Warm[s] # None
    /\ \A x \in {UseGroupAsUser, LazyConnect, HealthCheck, NonblockAtStart,
                 SyncUse, MarkDeadUsed} : x \in BOOLEAN

VARIABLES
    alive,     \* slots logged in and believed usable
    busy,      \* slots checked out
    login,     \* login_user of each slot, None while it never had one
    nonblock,  \* slots whose socket is O_NONBLOCK
    gone,      \* slots whose session Postgres has dropped, noticed or not
    unread,    \* slots whose socket holds, or will get, a reply nobody has read
    behind,    \* history: slots on which a blocking exchange gave up half-way
    rr,        \* rr_cursor
    want,      \* the group each caller last asked for, None when it is done
    holder,    \* the slot each caller holds
    sync       \* the caller inside a blocking exchange

sockets == <<alive, nonblock, gone, unread, behind>>
calls   == <<want, holder, sync>>
vars    == <<sockets, busy, login, rr, calls>>

Init ==
    /\ alive \in SUBSET {s \in Slots : Warm[s] # None} \ {{}}
    /\ busy = {}
    /\ login \in [Slots -> Users \union {None}]
    /\ \A s \in Slots : login[s] = Warm[s] \/ (s \notin alive /\ login[s] = None)
    /\ nonblock = IF NonblockAtStart THEN alive ELSE {}
    /\ gone = {}
    /\ unread = {}
    /\ behind = {}
    /\ rr = 0
    /\ want = [f \in Callers |-> None]
    /\ holder = [f \in Callers |-> None]
    /\ sync = None

-----------------------------------------------------------------------------
(* Sockets. conn_teardown_io closes one, warm_one opens a blocking one with  *)
(* nothing on it; either way what the old socket was like is forgotten.     *)

Opened(W) ==
    /\ nonblock' = nonblock \ W
    /\ gone' = gone \ W
    /\ unread' = unread \ W
    /\ behind' = behind \ W

\* Faulty variant: slots that never had a login are logged in too.
RewarmableAny == {s \in Slots : s \notin alive /\ s \notin busy}

\* maintain logs idle dead slots in again, as the user they had.
Rewarmable == {s \in Slots : s \notin alive /\ s \notin busy /\ login[s] # None}

\* Faulty variant: slots that are checked out count as idle.
IdleOrBusy(al) == al

Idle(al) == al \ busy

\* The order in which checkout scans the slots.
Dist(s) == (s - rr) % N
Nearest(S) == CHOOSE s \in S : \A t \in S : Dist(s) <= Dist(t)
Before(S, s) == {t \in S : Dist(t) < Dist(s)}

\* health_check fails on a dropped session, and may fail on a non-blocking
\* socket, whose reply is not there yet when it is read, and on one with more
\* left of an earlier reply than it reads. A rest it can read it takes for the
\* answer to its own query.
ProbeMayFail(fresh) ==
    IF HealthCheck THEN (gone \union nonblock \union behind) \ fresh ELSE {}
ProbeMayPass(s, fresh) == HealthCheck => s \in fresh \/ s \notin gone

\* Faulty variant: the round-robin cursor does not wrap.
GiveNoWrap(f, g, s) ==
    /\ busy' = busy \union {s}
    /\ holder' = [holder EXCEPT ![f] = s]
    /\ want' = [want EXCEPT ![f] = g]
    /\ rr' = s + 1
    /\ sync' \in IF SyncUse THEN {None, f} ELSE {None}

\* The caller is async_begin, or exec_bind / exec_query with a blocking
\* exchange ahead of it.
Give(f, g, s) ==
    /\ busy' = busy \union {s}
    /\ holder' = [holder EXCEPT ![f] = s]
    /\ want' = [want EXCEPT ![f] = g]
    /\ rr' = (s + 1) % N
    /\ sync' \in IF SyncUse THEN {None, f} ELSE {None}

\* checkout_try on slot s, after the probes of the slots in D have failed and
\* left them dead, with R re-warmed: the probe passes, which leaves the socket
\* non-blocking, or fails and s is reconnected.
TrySlot(f, g, s, R, D) ==
    /\ \/ /\ ProbeMayPass(s, R)
          /\ nonblock' = (nonblock \ (R \union D))
                           \union (IF HealthCheck THEN {s} ELSE {})
          /\ gone' = gone \ (R \union D)
          /\ unread' = unread \ (R \union D)
          /\ behind' = behind \ (R \union D)
       \/ s \in ProbeMayFail(R) /\ Opened(R \union D \union {s})
    /\ alive' = (alive \union R) \ D
    /\ Give(f, g, s)
    /\ UNCHANGED login

\* A slot logged in as the caller's own group.
CheckoutOwn(f, g, R) ==
    LET own == {s \in Idle(alive \union R) : login[s] = g} IN
    \E s \in own :
        /\ Before(own, s) \subseteq ProbeMayFail(R)
        /\ TrySlot(f, g, s, R, Before(own, s))

\* Faulty variant: any idle slot, whatever the logins are.
CheckoutAnyLogin(f, g, R) ==
    LET idle == Idle(alive \union R)
        own  == {s \in idle : login[s] = g}
    IN  /\ own \subseteq ProbeMayFail(R)
        /\ idle \ own # {}
        /\ TrySlot(f, g, Nearest(idle \ own), R, own)

\* Shared logins: the first idle slot, when none is the group's own.
CheckoutAny(f, g, R) ==
    LET idle == Idle(alive \union R)
        own  == {s \in idle : login[s] = g}
    IN  /\ ~UseGroupAsUser
        /\ own \subseteq ProbeMayFail(R)
        /\ idle \ own # {}
        /\ TrySlot(f, g, Nearest(idle \ own), R, own)

\* Lazy login: the first slot that is not alive is logged in as the group.
CheckoutLazy(f, g, R) ==
    LET own  == {s \in Idle(alive \union R) : login[s] = g}
        dead == Slots \ ((alive \union R) \ own)
        s    == Nearest(dead)
    IN  /\ UseGroupAsUser
        /\ LazyConnect
        /\ own \subseteq ProbeMayFail(R)
        /\ dead # {}
        /\ Opened(R \union own \union {s})
        /\ alive' = ((alive \union R) \ own) \union {s}
        /\ login' = [login EXCEPT ![s] = g]
        /\ Give(f, g, s)

\* NULL: no own slot passes its probe and there is no other to take, or the
\* lazy login or the last reconnect is refused. A lazy login that got as far
\* as authenticating leaves the group's name on the slot.
CheckoutRefused(f, g, R) ==
    LET idle == Idle(alive \union R)
        own  == {s \in idle : login[s] = g}
        dead == Slots \ ((alive \union R) \ own)
        lost == IF UseGroupAsUser \/ idle \ own = {}
                THEN {} ELSE {Nearest(idle \ own)}
    IN  /\ own \union lost \subseteq ProbeMayFail(R)
        /\ alive' = (alive \union R) \ (own \union lost)
        /\ Opened(R \union own \union lost)
        /\ \/ UNCHANGED login
           \/ /\ UseGroupAsUser /\ LazyConnect /\ dead # {}
              /\ login' = [login EXCEPT ![Nearest(dead)] = g]
        /\ want' = [want EXCEPT ![f] = g]
        /\ UNCHANGED <<busy, rr, holder, sync>>

\* checkout, which re-warms the pool first.
Checkout(f, g) ==
    /\ sync = None
    /\ holder[f] = None
    /\ want[f] \in {None, g}
    /\ \E R \in SUBSET Rewarmable :
           \/ CheckoutOwn(f, g, R)
           \/ CheckoutAny(f, g, R)
           \/ CheckoutLazy(f, g, R)
           \/ CheckoutRefused(f, g, R)

-----------------------------------------------------------------------------
(* What a caller does with the slot it got.                                 *)

Drop(f) ==
    /\ busy' = busy \ {holder[f]}
    /\ holder' = [holder EXCEPT ![f] = None]
    /\ want' = [want EXCEPT ![f] = None]

\* async_begin or exec could not build the pipeline: nothing was sent.
CheckinUnsent(f) ==
    /\ sync \in {None, f}
    /\ holder[f] \in Slots \ (unread \ behind)
    /\ sync' = None
    /\ Drop(f)
    /\ UNCHANGED <<sockets, login, rr>>

\* The loop sends the pipeline: a reply is due.
SendPipeline(f) ==
    /\ sync = None
    /\ holder[f] # None
    /\ unread' = unread \union {holder[f]}
    /\ UNCHANGED <<alive, nonblock, gone, behind, busy, login, rr, calls>>

\* async_on_recv saw ReadyForQuery, async_finish checks the slot in. Behind an
\* exchange that gave up it was the earlier one's, and this one's own reply is
\* left, unless it came in the same piece, which async_begin throws away.
FinishOk(f) ==
    /\ sync = None
    /\ holder[f] \in unread \ gone
    /\ \/ /\ unread' = unread \ {holder[f]}
          /\ behind' = behind \ {holder[f]}
       \/ holder[f] \in behind /\ UNCHANGED <<unread, behind>>
    /\ Drop(f)
    /\ UNCHANGED <<alive, nonblock, gone, login, rr, sync>>

\* Faulty variant: the slot is freed as it is.
FinishFailedAsIs(f) ==
    /\ sync = None
    /\ holder[f] # None
    /\ Drop(f)
    /\ UNCHANGED <<sockets, login, rr, sync>>

\* async_finish after a failure: tear down, reconnect at once, free the slot.
FinishFailed(f) ==
    /\ sync = None
    /\ holder[f] # None
    /\ alive' \in {alive \ {holder[f]}, alive \union {holder[f]}}
    /\ Opened({holder[f]})
    /\ Drop(f)
    /\ UNCHANGED <<login, rr, sync>>

\* A caller that was refused goes away (a parked client disconnects).
GiveUp(f) ==
    /\ want[f] # None
    /\ holder[f] = None
    /\ want' = [want EXCEPT ![f] = None]
    /\ UNCHANGED <<sockets, busy, login, rr, holder, sync>>

\* ReadyForQuery was read: its own, or the one of an exchange that gave up.
SyncDone(f) ==
    /\ sync = f
    /\ holder[f] \in alive \ gone
    /\ sync' = None
    /\ Drop(f)
    /\ UNCHANGED <<sockets, login, rr>>

\* Faulty variant: the slot stays alive after an error.
SyncFailStaysAlive(f) ==
    /\ sync = f
    /\ holder[f] \in gone \union nonblock
    /\ unread' = unread \union {holder[f]}
    /\ sync' = None
    /\ Drop(f)
    /\ UNCHANGED <<alive, nonblock, gone, behind, login, rr>>

\* Faulty variant: the error path does not check the slot in.
SyncFailNoCheckin(f) ==
    /\ sync = f
    /\ holder[f] \in gone \union nonblock
    /\ alive' = alive \ {holder[f]}
    /\ unread' = unread \union {holder[f]}
    /\ sync' = None
    /\ holder' = [holder EXCEPT ![f] = None]
    /\ want' = [want EXCEPT ![f] = None]
    /\ UNCHANGED <<nonblock, gone, behind, busy, login, rr>>

\* A write, a read (EAGAIN on a non-blocking socket) or a message failed: the
\* slot is left dead, its socket open. A session that is too slow for the read
\* timeout, or sends a message longer than the buffer, counts as gone.
SyncFail(f) ==
    /\ sync = f
    /\ holder[f] \in gone \union nonblock
    /\ alive' = alive \ {holder[f]}
    /\ unread' = unread \union {holder[f]}
    /\ sync' = None
    /\ Drop(f)
    /\ UNCHANGED <<nonblock, gone, behind, login, rr>>

\* flush_pipeline_ex gives up, because the reply does not fit or has more than
\* 256 messages: the rest stays on the socket, and the slot stays alive.
SyncGivesUp(f) ==
    /\ sync = f
    /\ holder[f] \in alive \ gone
    /\ unread' = unread \union {holder[f]}
    /\ behind' = behind \union {holder[f]}
    /\ sync' = None
    /\ Drop(f)
    /\ UNCHANGED <<alive, nonblock, gone, login, rr>>

\* mark_dead closes the socket under a slot that stays checked out.
MarkDead(f) ==
    /\ MarkDeadUsed
    /\ sync = None
    /\ holder[f] # None
    /\ alive' = alive \ {holder[f]}
    /\ Opened({holder[f]})
    /\ UNCHANGED <<busy, login, rr, calls>>

-----------------------------------------------------------------------------
(* The maintenance tick and the server.                                     *)

Maintain ==
    /\ sync = None
    /\ \E R \in SUBSET Rewarmable :
         /\ alive' = alive \union R
         /\ Opened(R)
    /\ UNCHANGED <<busy, login, rr, calls>>

ServerDrops(s) ==
    /\ s \in alive \ gone
    /\ gone' = gone \union {s}
    /\ UNCHANGED <<alive, nonblock, unread, behind, busy, login, rr, calls>>

Use(f) ==
    \/ \E g \in Groups : Checkout(f, g)
    \/ CheckinUnsent(f) \/ SendPipeline(f) \/ FinishOk(f) \/ FinishFailed(f)
    \/ GiveUp(f)
    \/ SyncDone(f) \/ SyncFail(f) \/ SyncGivesUp(f)
    \/ MarkDead(f)

Next ==
    \/ \E f \in Callers : Use(f)
    \/ Maintain
    \/ \E s \in Slots : ServerDrops(s)

Spec == Init /\ [][Next]_vars

-----------------------------------------------------------------------------
TypeOK ==
    /\ alive \subseteq Slots
    /\ busy \subseteq Slots
    /\ login \in [Slots -> Users \union {None}]
    /\ nonblock \subseteq Slots
    /\ gone \subseteq Slots
    /\ unread \subseteq Slots
    /\ behind \subseteq Slots
    /\ rr \in Slots
    /\ want \in [Callers -> Groups \union {None}]
    /\ holder \in [Callers -> Slots \union {None}]
    /\ sync \in Callers \union {None}

\* A slot is checked out exactly while one caller holds it.
OneOwner ==
    /\ busy = {holder[f] : f \in Callers} \ {None}
    /\ \A f, h \in Callers : holder[f] = holder[h] /\ holder[f] # None => f = h

\* With group logins a caller never works on a session of another tenant,
\* although slots change their login while the pool lives (lazy login), die
\* and come back.
TenantIsolation ==
    UseGroupAsUser =>
        \A f \in Callers : holder[f] # None => login[holder[f]] = want[f]

\* A slot handed out is alive, and every slot alive has a login to come back
\* as: no session is lost for good when Postgres drops it.
Recoverable ==
    /\ busy \subseteq alive
    /\ \A s \in alive : login[s] # None

\* An idle session has a reply of an earlier exchange on it, or on its way, only
\* if a blocking exchange gave up on it (flush_pipeline_ex): no failure, hang-up,
\* lazy login, probe or reconnect hands on a session in the middle of a reply.
DirtyOnlyIfGivenUp == unread \intersect Idle(alive) \subseteq behind

\* "The proxy must leave both FE and BE in a clean state" (ADR 002): an idle
\* session has no reply of an earlier exchange on it or on its way, which the
\* next caller would take for its own.
IdleSessionsClean == unread \intersect Idle(alive) = {}

\* "Returns 0 healthy, -1 dead" (backend_pool.h:187, health_check): a checkout
\* never tears down or reconnects a session that Postgres has not dropped.
ProbeTellsTheTruth ==
    [][\A f \in Callers :
          want[f] = None /\ want'[f] # None =>
              \A s \in alive \ gone : s \in alive' /\ (s \in nonblock => s \in nonblock')]_vars

\* "or any idle if none matched at warm-up" (backend_pool.h:49, checkout): a
\* checkout is refused only when no session is idle.
RefusedOnlyIfNoneIdle ==
    [][\A f \in Callers :
          want[f] = None /\ want'[f] # None /\ holder'[f] = None
              => Idle(alive) = {}]_vars

\* "At least one connection per group" (backend_pool.c:605): a group that has a
\* login in the pool never loses its last one to another group.
GroupKeepsALogin ==
    [][\A g \in Groups :
          (\E s \in Slots : login[s] = g) => (\E s \in Slots : login'[s] = g)]_vars

==============================================================================
