---------------------------- MODULE FairScheduler ----------------------------
(****************************************************************************)
(* How the io_uring loop of pqproxy shares a small pool of Postgres logins  *)
(* among many client connections (src/src/iouring_loop.c).                  *)
(*                                                                          *)
(* A Bind takes a pooled backend; when none can be had the client is parked *)
(* in a FIFO ring and its later messages wait in its own request queue.     *)
(* Whenever a backend is released, the loop makes one pass over the ring,   *)
(* then resumes the queue of the client that released it.                   *)
(*                                                                          *)
(* The loop is one thread: a handler runs to its end before the next event. *)
(* `pc` says where in a handler the loop is, so that Postgres, which is not *)
(* part of the loop, may go away or come back in the middle of one.         *)
(* Modelled with the defaults fair_schedule = 1, async_backend = 1,         *)
(* auto_reconnect = 1, without lazy_connect (see module BackendPool).       *)
(****************************************************************************)
EXTENDS Integers, Sequences, SequencesExt

CONSTANTS
    MaxConns,         \* PQPROXY_MAX_CONNS: client slots
    Backends,         \* warm slots of the backend pool
    Groups,           \* tenant groups a client certificate can name
    Login,            \* the database user each backend is logged in as
    UseGroupAsUser,   \* config use_group_as_user
    FeQMax,           \* FE_Q_MAX: request queue of one client
    Requests,         \* kinds of request the clients send
    MaxOutages,       \* bound: times Postgres stops accepting connections
    None              \* no client / no backend

Conns == 0 .. MaxConns - 1

\* "bind":  a Bind of a known statement, which needs a backend
\* "stray": a Bind of a statement the client never parsed
\* "query": a simple Query, forwarded with blocking I/O
\* "local": Parse, Execute or Sync, answered without taking a backend
RequestKinds == {"bind", "stray", "query", "local"}

ASSUME ConstantAssumption ==
    /\ MaxConns \in Nat \ {0}
    /\ FeQMax \in Nat \ {0}
    /\ MaxOutages \in Nat
    /\ UseGroupAsUser \in BOOLEAN
    /\ Login \in [Backends -> Groups]
    /\ Requests \subseteq RequestKinds
    /\ None \notin Conns
    /\ None \notin Backends /\ None \notin Groups

VARIABLES
    state,    \* conn_t.state: "FREE" or "ACTIVE"
    group,    \* conn_t.id.group, None in a free slot
    beWait,   \* conn_t.be_wait
    be,       \* conn_t.be
    feq,      \* conn_t.fe_q, oldest first
    ring,     \* server_t.waiters, head first
    alive,    \* backend logged in and usable
    busy,     \* backend checked out
    dbUp,     \* Postgres accepts new connections
    outages,  \* outages so far
    pc,       \* "loop", "pass" (fair_schedule_waiters) or "drain" (drain_fe_queue)
    left,     \* attempts left in the pass
    self,     \* the client whose backend was released
    then,     \* what follows the pass: "resume" self or "close" it
    cur       \* the client whose queue is drained

connVars == <<state, group, beWait, be, feq>>
poolVars == <<alive, busy>>
dbVars   == <<dbUp, outages>>
ctlVars  == <<pc, left, self, then, cur>>
vars     == <<connVars, ring, poolVars, dbVars, ctlVars>>

Init ==
    /\ state = [c \in Conns |-> "FREE"]
    /\ group = [c \in Conns |-> None]
    /\ beWait = [c \in Conns |-> "IDLE"]
    /\ be = [c \in Conns |-> None]
    /\ feq = [c \in Conns |-> <<>>]
    /\ ring = <<>>
    /\ alive = [b \in Backends |-> TRUE]
    /\ busy = [b \in Backends |-> FALSE]
    /\ dbUp = TRUE
    /\ outages = 0
    /\ pc = "loop"
    /\ left = 0
    /\ self = None
    /\ then = "resume"
    /\ cur = None

-----------------------------------------------------------------------------
(* The pool as the loop sees it.                                            *)

\* maintain: every dead idle slot is logged in again, if Postgres lets it.
Rewarmed == [b \in Backends |-> alive[b] \/ (~busy[b] /\ dbUp)]

Idle(al) == {b \in Backends : al[b] /\ ~busy[b]}

\* checkout: a login of the client's own group first; any other one only when
\* logins are shared. Which of several is the round-robin cursor's choice.
Eligible(al, g) ==
    LET own == {b \in Idle(al) : Login[b] = g}
    IN  IF own # {} \/ UseGroupAsUser THEN own ELSE Idle(al)

\* checkout re-warms the pool before it looks, whatever it then finds.
Take(c, b) ==
    /\ alive' = Rewarmed
    /\ b \in Eligible(Rewarmed, group[c])
    /\ busy' = [busy EXCEPT ![b] = TRUE]
    /\ be' = [be EXCEPT ![c] = b]
    /\ beWait' = [beWait EXCEPT ![c] = "SENDING"]

NoneToTake(c) ==
    /\ Eligible(Rewarmed, group[c]) = {}
    /\ alive' = Rewarmed
    /\ UNCHANGED <<busy, be>>

\* Faulty variant: the client keeps its pointer to the backend.
FinishKeepsPointer(c, failed) ==
    /\ busy' = [busy EXCEPT ![be[c]] = FALSE]
    /\ alive' = IF failed THEN [alive EXCEPT ![be[c]] = dbUp] ELSE alive
    /\ UNCHANGED be

\* async_finish: a failed backend is torn down and logged in again at once.
Finish(c, failed) ==
    /\ busy' = [busy EXCEPT ![be[c]] = FALSE]
    /\ alive' = IF failed THEN [alive EXCEPT ![be[c]] = dbUp] ELSE alive
    /\ be' = [be EXCEPT ![c] = None]

\* Faulty variants: the entry stays; the last entry fills the gap.
WithoutNothing(s, c) == s

WithoutSwap(s, c) ==
    IF Contains(s, c)
      THEN Front([s EXCEPT ![CHOOSE i \in 1 .. Len(s) : s[i] = c] = Last(s)])
      ELSE s

\* waiters_remove: a client stands in the ring at most once (RingExact).
Without(s, c) ==
    IF Contains(s, c) THEN RemoveAt(s, CHOOSE i \in 1 .. Len(s) : s[i] = c) ELSE s

Park(c) ==
    /\ beWait' = [beWait EXCEPT ![c] = "WAITING_POOL"]
    /\ ring' = IF Contains(ring, c) THEN ring ELSE Append(ring, c)

\* exec_query: checkout, blocking exchange, checkin; an I/O error leaves the
\* slot dead until the next maintain.
SyncQuery(c) ==
    /\ \/ alive' = Rewarmed
       \/ \E b \in Eligible(Rewarmed, group[c]) :
              alive' = [Rewarmed EXCEPT ![b] = FALSE]
    /\ UNCHANGED busy

-----------------------------------------------------------------------------
(* Client events.                                                           *)

Accept(c, g) ==
    /\ pc = "loop"
    /\ state[c] = "FREE"
    /\ \A d \in 0 .. c - 1 : state[d] # "FREE"
    /\ state' = [state EXCEPT ![c] = "ACTIVE"]
    /\ group' = [group EXCEPT ![c] = g]
    /\ UNCHANGED <<beWait, be, feq, ring, poolVars, dbVars, ctlVars>>

\* Faulty variant: one request more than the array holds.
FeEnqueueOneMore(c, k) ==
    /\ pc = "loop"
    /\ state[c] = "ACTIVE"
    /\ beWait[c] # "IDLE"
    /\ Len(feq[c]) <= FeQMax
    /\ feq' = [feq EXCEPT ![c] = Append(@, k)]
    /\ UNCHANGED <<state, group, beWait, be, ring, poolVars, dbVars, ctlVars>>

\* A message of a client whose pipeline is in flight or parked is queued.
FeEnqueue(c, k) ==
    /\ pc = "loop"
    /\ state[c] = "ACTIVE"
    /\ beWait[c] # "IDLE"
    /\ Len(feq[c]) < FeQMax
    /\ feq' = [feq EXCEPT ![c] = Append(@, k)]
    /\ UNCHANGED <<state, group, beWait, be, ring, poolVars, dbVars, ctlVars>>

FeBindStart(c) ==
    /\ pc = "loop"
    /\ "bind" \in Requests
    /\ state[c] = "ACTIVE"
    /\ beWait[c] = "IDLE"
    /\ \E b \in Backends : Take(c, b)
    /\ UNCHANGED <<state, group, feq, ring, dbVars, ctlVars>>

\* async_begin failed: the Bind is pushed and the client parked, whether no
\* backend was idle or the statement is unknown (the backend is checked in).
FeBindPark(c, k) ==
    /\ pc = "loop"
    /\ k \in {"bind", "stray"}
    /\ state[c] = "ACTIVE"
    /\ beWait[c] = "IDLE"
    /\ Len(feq[c]) < FeQMax
    /\ IF k = "bind" THEN NoneToTake(c)
                     ELSE alive' = Rewarmed /\ UNCHANGED <<busy, be>>
    /\ feq' = [feq EXCEPT ![c] = Append(@, k)]
    /\ Park(c)
    /\ UNCHANGED <<state, group, dbVars, ctlVars>>

FeQuery(c) ==
    /\ pc = "loop"
    /\ "query" \in Requests
    /\ state[c] = "ACTIVE"
    /\ beWait[c] = "IDLE"
    /\ SyncQuery(c)
    /\ UNCHANGED <<connVars, ring, dbVars, ctlVars>>

\* close_conn without a backend: hang-up, Terminate, or a failed handler.
CloseIdle(c) ==
    /\ pc = "loop"
    /\ state[c] = "ACTIVE"
    /\ be[c] = None
    /\ state' = [state EXCEPT ![c] = "FREE"]
    /\ beWait' = [beWait EXCEPT ![c] = "IDLE"]
    /\ feq' = [feq EXCEPT ![c] = <<>>]
    /\ ring' = Without(ring, c)
    /\ group' = [group EXCEPT ![c] = None]
    /\ UNCHANGED <<be, poolVars, dbVars, ctlVars>>

\* Faulty variant: the slot is freed without a pass for the others.
CloseOwnerSilent(c) ==
    /\ pc = "loop"
    /\ state[c] = "ACTIVE"
    /\ be[c] # None
    /\ Finish(c, TRUE)
    /\ state' = [state EXCEPT ![c] = "FREE"]
    /\ beWait' = [beWait EXCEPT ![c] = "IDLE"]
    /\ feq' = [feq EXCEPT ![c] = <<>>]
    /\ group' = [group EXCEPT ![c] = None]
    /\ UNCHANGED <<ring, dbVars, ctlVars>>

\* close_conn with a backend: its reply is lost, so it counts as failed; the
\* others get their pass before the slot is freed (CloseDone).
CloseOwner(c) ==
    /\ pc = "loop"
    /\ state[c] = "ACTIVE"
    /\ be[c] # None
    /\ Finish(c, TRUE)
    /\ pc' = "pass"
    /\ left' = Len(ring)
    /\ self' = c
    /\ then' = "close"
    /\ UNCHANGED <<state, group, beWait, feq, ring, dbVars, cur>>

-----------------------------------------------------------------------------
(* Backend completions.                                                     *)

BeSent(c) ==
    /\ pc = "loop"
    /\ beWait[c] = "SENDING"
    /\ beWait' = [beWait EXCEPT ![c] = "READING"]
    /\ UNCHANGED <<state, group, be, feq, ring, poolVars, dbVars, ctlVars>>

\* Faulty variant: one backend released, one waiter tried.
ReleaseOne(c) ==
    /\ beWait' = [beWait EXCEPT ![c] = "IDLE"]
    /\ pc' = "pass"
    /\ left' = IF ring = <<>> THEN 0 ELSE 1
    /\ self' = c
    /\ then' = "resume"
    /\ UNCHANGED <<state, group, ring, dbVars, cur>>

\* after_backend_release: other waiters first, then this client's own queue.
Release(c) ==
    /\ beWait' = [beWait EXCEPT ![c] = "IDLE"]
    /\ pc' = "pass"
    /\ left' = Len(ring)
    /\ self' = c
    /\ then' = "resume"
    /\ UNCHANGED <<state, group, ring, dbVars, cur>>

\* ReadyForQuery arrived; after a SQL error the queued requests are dropped.
BeComplete(c, sqlError) ==
    /\ pc = "loop"
    /\ beWait[c] = "READING"
    /\ Finish(c, FALSE)
    /\ feq' = IF sqlError THEN [feq EXCEPT ![c] = <<>>] ELSE feq
    /\ Release(c)

\* The socket failed, in either direction.
BeFail(c) ==
    /\ pc = "loop"
    /\ beWait[c] \in {"SENDING", "READING"}
    /\ Finish(c, TRUE)
    /\ Release(c)
    /\ UNCHANGED feq

-----------------------------------------------------------------------------
(* fair_schedule_waiters and drain_fe_queue, one loop iteration per step.   *)

PassOver == left = 0 \/ ring = <<>>

\* Faulty variant: the waiter is not marked idle before it is drained.
PassNextStillWaiting ==
    /\ pc = "pass"
    /\ ~PassOver
    /\ LET c == Head(ring) IN
         /\ ring' = Tail(ring)
         /\ left' = left - 1
         /\ IF feq[c] = <<>> THEN UNCHANGED <<pc, cur>>
                             ELSE pc' = "drain" /\ cur' = c
    /\ UNCHANGED <<state, group, beWait, be, feq, poolVars, dbVars, self, then>>

\* Pop the waiter at the head. It is dropped if it has nothing queued.
PassNext ==
    /\ pc = "pass"
    /\ ~PassOver
    /\ LET c == Head(ring) IN
         /\ ring' = Tail(ring)
         /\ left' = left - 1
         /\ beWait' = [beWait EXCEPT ![c] = "IDLE"]
         /\ IF feq[c] = <<>> THEN UNCHANGED <<pc, cur>>
                             ELSE pc' = "drain" /\ cur' = c
    /\ UNCHANGED <<state, group, be, feq, poolVars, dbVars, self, then>>

\* Faulty variant: the releasing client's own queue is not resumed.
PassResumeNobody ==
    /\ pc = "pass"
    /\ PassOver
    /\ then = "resume"
    /\ pc' = "loop"
    /\ self' = None
    /\ left' = 0
    /\ UNCHANGED <<connVars, ring, poolVars, dbVars, then, cur>>

\* The pass is over: resume the releasing client's queue, if it has one.
PassResume ==
    /\ pc = "pass"
    /\ PassOver
    /\ then = "resume"
    /\ IF feq[self] = <<>>
         THEN pc' = "loop" /\ self' = None /\ UNCHANGED cur
         ELSE pc' = "drain" /\ cur' = self /\ UNCHANGED self
    /\ left' = 0
    /\ UNCHANGED <<connVars, ring, poolVars, dbVars, then>>

CloseDone ==
    /\ pc = "pass"
    /\ PassOver
    /\ then = "close"
    /\ state' = [state EXCEPT ![self] = "FREE"]
    /\ beWait' = [beWait EXCEPT ![self] = "IDLE"]
    /\ feq' = [feq EXCEPT ![self] = <<>>]
    /\ group' = [group EXCEPT ![self] = None]
    /\ pc' = "loop"
    /\ self' = None
    /\ left' = 0
    /\ UNCHANGED <<be, ring, poolVars, dbVars, then, cur>>

\* drain_fe_queue returns to whoever called it: the pass, or the loop.
DrainReturn ==
    /\ cur' = None
    /\ IF cur = self THEN pc' = "loop" /\ self' = None
                     ELSE pc' = "pass" /\ UNCHANGED self
    /\ UNCHANGED <<left, then>>

DrainHead(kinds) ==
    /\ pc = "drain"
    /\ feq[cur] # <<>>
    /\ Head(feq[cur]) \in kinds

DrainLocal ==
    /\ DrainHead({"local", "query"})
    /\ feq' = [feq EXCEPT ![cur] = Tail(@)]
    /\ IF Head(feq[cur]) = "query" THEN SyncQuery(cur) ELSE UNCHANGED poolVars
    /\ UNCHANGED <<state, group, beWait, be, ring, dbVars, ctlVars>>

DrainEmpty ==
    /\ pc = "drain"
    /\ feq[cur] = <<>>
    /\ DrainReturn
    /\ UNCHANGED <<connVars, ring, poolVars, dbVars>>

DrainBindStart ==
    /\ DrainHead({"bind"})
    /\ \E b \in Backends : Take(cur, b)
    /\ feq' = [feq EXCEPT ![cur] = Tail(@)]
    /\ DrainReturn
    /\ UNCHANGED <<state, group, ring, dbVars>>

\* The Bind goes back to the head of the queue and the client is parked. An
\* unknown statement is noticed before the pool is asked.
DrainBindPark ==
    /\ DrainHead({"bind", "stray"})
    /\ IF Head(feq[cur]) = "bind" THEN NoneToTake(cur)
                                  ELSE UNCHANGED <<alive, busy, be>>
    /\ Park(cur)
    /\ DrainReturn
    /\ UNCHANGED <<state, group, feq, dbVars>>

-----------------------------------------------------------------------------
(* The maintain tick and Postgres itself.                                   *)

\* server_tick runs between two completions and wakes nobody.
Maintain ==
    /\ pc = "loop"
    /\ alive' = Rewarmed
    /\ UNCHANGED <<connVars, ring, busy, dbVars, ctlVars>>

DbDown ==
    /\ dbUp
    /\ outages < MaxOutages
    /\ dbUp' = FALSE
    /\ outages' = outages + 1
    /\ UNCHANGED <<connVars, ring, poolVars, ctlVars>>

DbRecover ==
    /\ ~dbUp
    /\ dbUp' = TRUE
    /\ UNCHANGED <<connVars, ring, poolVars, outages, ctlVars>>

-----------------------------------------------------------------------------
Client(c) ==
    \/ \E g \in Groups : Accept(c, g)
    \/ \E k \in Requests : FeEnqueue(c, k) \/ FeBindPark(c, k)
    \/ FeBindStart(c)
    \/ FeQuery(c)
    \/ CloseIdle(c)
    \/ CloseOwner(c)

Backend(c) ==
    \/ BeSent(c)
    \/ \E e \in BOOLEAN : BeComplete(c, e)
    \/ BeFail(c)

Pass == PassNext \/ PassResume \/ CloseDone

Drain == DrainLocal \/ DrainEmpty \/ DrainBindStart \/ DrainBindPark

Next ==
    \/ \E c \in Conns : Client(c) \/ Backend(c)
    \/ Pass
    \/ Drain
    \/ Maintain
    \/ DbDown
    \/ DbRecover

Spec == Init /\ [][Next]_vars

\* The loop never stops inside a handler, its maintain tick recurs, an outage
\* ends, and every started pipeline is answered or its socket fails.
Fairness ==
    /\ WF_vars(Pass \/ Drain)
    /\ WF_vars(Maintain)
    /\ WF_vars(DbRecover)
    /\ \A c \in Conns : WF_vars(Backend(c))

FairSpec == Spec /\ Fairness

-----------------------------------------------------------------------------
\* Types, and the request queue stays within its array: a Bind that is put back
\* at the head needs a free place (feq_push, drain_fe_queue).
TypeOK ==
    /\ state \in [Conns -> {"FREE", "ACTIVE"}]
    /\ group \in [Conns -> Groups \union {None}]
    /\ beWait \in [Conns -> {"IDLE", "SENDING", "READING", "WAITING_POOL"}]
    /\ be \in [Conns -> Backends \union {None}]
    /\ feq \in [Conns -> Seq(Requests)]
    /\ \A c \in Conns : Len(feq[c]) <= FeQMax
    /\ ring \in Seq(Conns)
    /\ alive \in [Backends -> BOOLEAN]
    /\ busy \in [Backends -> BOOLEAN]
    /\ dbUp \in BOOLEAN
    /\ outages \in 0 .. MaxOutages
    /\ pc \in {"loop", "pass", "drain"}
    /\ left \in Nat
    /\ self \in IF pc = "loop" THEN {None} ELSE Conns
    /\ then \in {"resume", "close"}
    /\ cur \in IF pc = "drain" THEN Conns ELSE {None}

\* A backend is checked out exactly while one client holds it, and no two
\* clients hold the same one: replies are never delivered to a stranger.
ExclusiveBackend ==
    /\ \A b \in Backends : busy[b] <=> \E c \in Conns : be[c] = b
    /\ \A c, d \in Conns : be[c] = be[d] /\ be[c] # None => c = d

NoRepeat(s) == \A i, j \in 1 .. Len(s) : s[i] = s[j] => i = j

\* The ring holds exactly the parked clients, each of them once: nobody is
\* parked and forgotten, nobody is served for an entry it left behind.
RingExact ==
    /\ NoRepeat(ring)
    /\ \A c \in Conns : beWait[c] = "WAITING_POOL" <=> Contains(ring, c)

\* Between two events a client has queued requests only behind a pipeline in
\* flight or behind the Bind it is parked on, so a release or a pass will
\* reach them: no request is left in a queue that nothing drains.
NoStrandedRequest ==
    pc = "loop" =>
        \A c \in Conns :
            /\ beWait[c] = "IDLE" => feq[c] = <<>>
            /\ beWait[c] = "WAITING_POOL" =>
                 /\ feq[c] # <<>>
                 /\ Head(feq[c]) \in {"bind", "stray"}

\* Between two events no client is parked on a Bind that an idle backend could
\* serve: one pass per release is enough, until Postgres goes away.
WorkConserving ==
    outages = 0 /\ pc = "loop" =>
        \A c \in Conns :
            beWait[c] = "WAITING_POOL" /\ Head(feq[c]) = "bind"
                => Eligible(alive, group[c]) = {}

\* "Pool busy: re-queue bind at head and park" (iouring_loop.c:944): whoever is
\* parked is parked because no backend is idle for it.
ParkedMeansPoolBusy ==
    pc = "loop" =>
        \A c \in Conns :
            beWait[c] = "WAITING_POOL" => Eligible(alive, group[c]) = {}

\* "Park frontend until a backend becomes available" (iouring_loop.c:611): a
\* client parked on a Bind of a known statement does not stay parked.
ParkedIsServed ==
    \A c \in Conns :
        (beWait[c] = "WAITING_POOL" /\ Head(feq[c]) = "bind")
            ~> beWait[c] # "WAITING_POOL"

-----------------------------------------------------------------------------
(* What a step of the loop relies on: the inductive strengthening.          *)

InFlight(c) == beWait[c] \in {"SENDING", "READING"}

\* Within a handler the released client has no backend any more; it is idle,
\* unless it is being closed. Whoever is drained is idle, and a waiter is
\* drained because of the Bind at the head of its queue.
ControlOK ==
    /\ pc # "loop" =>
         /\ be[self] = None
         /\ IF then = "resume" THEN beWait[self] = "IDLE" ELSE InFlight(self)
    /\ pc = "drain" =>
         /\ beWait[cur] = "IDLE"
         /\ cur # self => feq[cur] # <<>> /\ Head(feq[cur]) \in {"bind", "stray"}

HoldingOK ==
    \A c \in Conns :
        be[c] # None <=> InFlight(c) /\ ~(pc # "loop" /\ then = "close" /\ c = self)

QueuedOK ==
    \A c \in Conns :
        /\ beWait[c] = "WAITING_POOL" =>
             feq[c] # <<>> /\ Head(feq[c]) \in {"bind", "stray"}
        /\ beWait[c] = "IDLE" /\ feq[c] # <<>> =>
             (pc # "loop" /\ c = self) \/ (pc = "drain" /\ c = cur)

\* A handler hands backends over in several steps (release, pass, resume), and
\* in every one of them each client is in exactly one place: holding a
\* backend, in the ring, idle, or in the hands of the handler.
SchedulerInv ==
    /\ ControlOK
    /\ HoldingOK
    /\ QueuedOK
    /\ ExclusiveBackend
    /\ RingExact

=============================================================================
