# pqproxy in TLA+

pqproxy sits between many client connections and a few Postgres logins. A
client is identified by its certificate (mTLS), its prepared statements are
cached in the proxy, and each Bind is rewritten, given the verified identity and
run on a pooled backend. One thread with an io_uring does all of this. This
directory models the parts of it where the order of events matters, checks them
with TLC on small instances, and proves the central invariants with TLAPS.

    tlc -config MCFairScheduler_outage.cfg MCFairScheduler.tla
    tlc -config BackendSession_session.cfg BackendSession.tla
    tlapm FairSchedulerProofs.tla

`PROJECT.json` lists the runs, the source lines of every definition, the
hazards, the divergences found and the theorems.

## The system

| Component (source) | State | Operations | Interaction | What makes it correct |
|---|---|---|---|---|
| Scheduler of the loop (`iouring_loop.c` 442-1035) | `be_wait`, `be`, request queue and place in the wait ring of each client | queue, park, pass over the ring, drain, release, close | calls the pool; called by message handlers and backend completions | a backend has one owner; the ring is exact; nothing stranded; first come first served; an idle backend is never left beside a waiter |
| Completion dispatch, connection life cycle (`iouring_loop.c` 221-440, 767-842, 1220-1425, 1560-1690) | connection slots, operations prepared and in the kernel, pending flags | accept, submit, complete, grant, close, tick | every handler; the kernel | a completion reaches the connection it was submitted for; no descriptor leaks (a set-up that fails half-way does leak one); every client and the listener are heard |
| Client socket (`iouring_loop.c` 357-440, 1220-1425, 1560-1655) | `send_buf`, `send_off`, `send_len`, the send or poll in flight, handshake | append, submit, advance, drive reads and writes | handlers, OpenSSL, completions | bytes leave once and in order, and do leave; a client that hangs up is noticed |
| Wait ring and request queue (`iouring_loop.c` 442-560, 880-950) | array, head, tail, count | push, push in front, pop, take out | the scheduler | it is the sequence the scheduler takes it for |
| Reply stream (`iouring_loop.c` 686-765, 915-1208) | `be_resp`, `got_sync`, frontend wire, send buffer | answer Parse, Bind, Execute, Sync, Query at once, queued or from the queue | backend completions, scheduler | each Bind has one outcome, in order; each Sync is answered |
| Backend pool (`backend_pool.c`) | slots: `alive`, `busy`, `login_user`, socket; `rr_cursor` | checkout (re-warm, probe, lazy login), checkin, blocking exchange, async begin/recv/finish, mark_dead, reconnect, maintain | called by the loop and its tick; talks to Postgres | one owner per slot; tenants apart; dead sessions come back; an idle session is clean |
| Backend session (`backend_pool.c` 150-420, 860-1190, `scram_client.c`) | `send_buf`, `recv_acc`, `be_resp`, dialogue of the login | log in (trust, password, SCRAM), begin, send part, receive chunk, filter, finish | the pool; Postgres | a reply is put together exactly; a session goes back in step; a login fails only for a cause; each exchange ends |
| Statement cache and rewrite (`rewrite_engine.c`) | hash table of 64 statements per client | put, get, remove, on_parse, on_bind | Parse and Bind handlers | the table is a map; the identity goes where it should |
| Identity, configuration, kernel TLS | none beyond a call | computation on strings | at connect and start | not a matter of interleaving |
| Metrics (`metrics.c`, `metrics_http.c`) | counters, a thread | increment, serve | loop and thread | counters are consistent (the thread is detached, nothing joins it) |

What is hard about it: a release hands backends over in several steps while
other clients' queues are drained; clients hang up at any time, with operations
of theirs still in the kernel; a completion says only which kind of operation
ended in which slot; a backend's answer races with the client's next messages and
with the bytes of the previous answer; a reply arrives cut anywhere; Postgres
goes away in the middle of anything; and the blocking and non-blocking uses of
the pool share sockets.

## The modules

Each module takes the loop, or what it calls, at one level and leaves the others
out; what one assumes, another shows.

| Module | What it is about | What it leaves to others |
|---|---|---|
| FairScheduler | who gets a backend, and in which order | answers (ReplyStream), slot reuse (EventLoop) |
| EventLoop | which completion belongs to whom | queues of requests (FairScheduler), bytes (ClientSocket) |
| ClientSocket | the bytes to one client | which replies are due (ReplyStream) |
| ReplyStream | which replies one client gets, in which order | hand-over between clients (FairScheduler) |
| BackendPool | what each call of the pool does to its slots | the bytes of a session (BackendSession) |
| BackendSession | the bytes of one session | sharing of sessions (BackendPool) |
| StmtCache | the table of statements, where the identity goes | the conversation (ReplyStream) |
| RingArray | the two rings as arrays | what is in them (FairScheduler, EventLoop) |

**FairScheduler** is the core. One client per slot of `conns`; `feq`, `ring`,
`be`, `beWait` are the fields of the same name in the code (`fe_q`, `waiters`).
A handler of the loop runs to its end before the next event, but it is not one
step here: `pc` says that the loop is inside `fair_schedule_waiters` ("pass") or
`drain_fe_queue` ("drain"), one loop iteration per step, so that Postgres can
fail between two of them and so that the invariants speak of the states in
between. `left`, `self`, `then` and `cur` are the local variables of these
functions. The pool appears as `alive` and `busy`, with the re-warming that
every checkout begins with. A message is one of four kinds ("bind", "stray",
"query", "local"), since that is all the scheduler tells apart; a Bind that
`on_bind` refuses is "stray": an unknown statement, no parameters, or a slot
out of range. Not in the model: `lazy_connect` (see BackendPool), exhaustion of
submission entries (the ring has 512 and one loop iteration prepares at most a
few per client), the blocking fallback of a Bind (taken only with
`fair_schedule` or `async_backend` off). A connection closed because its send
buffer is full is one more reason for `CloseIdle` or `CloseOwner`.

**FairLine** is what waiting clients are promised: a line that is served from
the front, from which anyone may leave, and in which a client that cannot be
served yet keeps its place with respect to the others.
**FairSchedulerRefinement** maps the ring to that line: a pass turns the ring
round, so the line begins where the pass will have brought it back to its front
(`Ranked`), and only those who still want a backend count (`Wanting`).
`FirstComeFirstServed` says that FairScheduler implements FairLine.

**RingArray** has the head, tail and count arithmetic of the wait ring and of
`fe_q`, with `Contents`, the sequence a ring stands for. EventLoop uses it for
its wait ring; FairScheduler and ReplyStream use sequences, which DataLemmas
justifies. **Filters** has the subsequence that satisfies a test and the join of
a sequence of sequences, as recursive functions, for modules that are proved about.

**EventLoop** has the two lifetimes that the handlers cannot see. A prepared
operation (`prepared`) names a descriptor number, and means a file only when it is
submitted; an operation in the kernel (`flight`, a bag) holds the file it was
submitted on, also when the descriptor was closed since. Both carry only a kind
and a slot number, as `pack_ud` does. A file is named by whose it is: client `k`,
or login `n` of backend slot `b`. `pc` says whether a handler is
followed by a close, a pass of the wait ring, or submission. `strayed` is a
history variable: some completion or operation met a connection it was not
meant for; `CleanSlotStaysClean` and `PipelinesSound` say what holds up to then.
`leaked` is another: the connections whose set-up failed after `accept`. Their
slot is still `CS_FREE` when `accept_one` calls `close_conn`, which returns at once
and leaves the descriptor open; `DescriptorsMatch` counts them apart.

**ClientSocket** numbers the bytes for one client in the order in which
`queue_plain_send` takes them. At the end of a pipeline (`binds`, `draining`) the
code closes the connection if the pipeline's own replies or the wire's do not fit, and
drops what comes out of the request queue if that does not (`dropped`).
`out` is `send_buf` with its two indices, cell by cell; `send` the send in flight,
`read` the receive or the poll in flight, `sock` what the kernel holds for the
client, `seen` what it has read. With `ZeroCopy` the kernel holds references to
cells instead of bytes, and what the client sees is what is in a cell when it goes out.

**ReplyStream** models one conversation: the messages of one read are handled one
per step, and the replies are kept in order, with those still on the frontend
wire (`wire`) apart from those in the client's socket (`out`), because the code
copies a held reply to the send buffer directly. A Bind is known by its number,
so a reply carries the Bind it is the outcome of. `Clients` chooses between
clients that wait for ReadyForQuery, clients that pipeline, and clients whose
statement cache may be full.

**BackendPool** models the pool's API, a call per step, with a caller per client.
`sync` marks a blocking exchange in progress, during which Postgres may drop the
session. Sockets are described by what matters to the next user: `nonblock`,
`gone` (Postgres has dropped it), `unread` (a reply is or will be on it). `behind`
is a history variable: the sessions that a blocking exchange gave up on, because its
reply had too many bytes for the buffer or more than 256 messages. Whether
a connection attempt succeeds is Postgres's choice at each attempt. The
constants select how the pool is configured and used (`UseGroupAsUser`,
`LazyConnect`, `HealthCheck`, `SyncUse`, ...).

**BackendSession** is one slot's session in units of a byte stream: a message has
a two-unit header (type and length) and a body, a receive takes any number of the
units that have arrived, a send takes any number of messages that fit. The
login is the dialogue of `backend_authenticate`, with the SCRAM messages as
terms: what is signed with which password over which nonces, so that a server
that does not know the password cannot make the signature. `server` is Postgres.
`said` is a ghost: what the server has answered to the request in progress, with
which the reply collected is compared. **BackendExchange** is what the loop may
assume: down, idle or busy; an exchange ends with a whole answer to
this very request, or with the loss of the session. `KeepsItsPromise` says that
BackendSession implements it.

**StmtCache** models the hash table and the rewrite. The hash of each name is an
arbitrary initial choice, so all collisions are covered; a query is reduced to
where its column list has the identity column. `remove` is part of the cache's
API and tests, the loop does not call it. **StmtMap** is the bounded map the
table promises to be; "StmtCache implements StmtMap" is `ImplementsMap`, with
the map obtained by looking each name up.

Definitions marked "Faulty variant" are not used by any specification. Each is
a plausible mistake in the code; put in place of the definition that follows it,
it makes a property fail, which shows that the property depends on that code.

## What the runs show

| Run | Question | Result |
|---|---|---|
| scheduler_outage | Do ownership, ring and queue invariants hold in every interleaving of 3 clients on 2 shared logins, with an outage at any moment, and is no idle backend left beside a waiter before one? | holds |
| scheduler_service | With a login per group and without outages, is every parked client served in the end, and first come, first served? | holds |
| scheduler_lostwakeup | Is it also served when there was an outage? | violated |
| loop | With slots and descriptors that change hands while operations are in the kernel: does `close_conn` leak no descriptor, is everybody heard, does each reply reach its client until a completion meets a stranger? | holds |
| loop_reuse | Does a reply always reach the client whose Bind it answers? | violated |
| socket | Do the bytes that the send buffer took leave once and in order, do all of them arrive, is a client that hangs up closed, in plain and in TLS mode? | holds |
| socket_stall | Does a byte that waits in TLS mode always have a poll for writability? | violated |
| replies_order | Has each Bind one outcome, in order, whether the client waits or pipelines; does one that waits lose no result, and get an answer to its Sync unless a Bind before it stays parked? | holds |
| pool_tenants | Ownership, tenant isolation, recovery, with lazy logins, probes, blocking and asynchronous use; is only a session that a blocking exchange gave up on idle in the middle of a reply? | holds |
| pool_shared | Ownership with shared logins, overlong replies and holders that mark slots dead | holds |
| session | Are replies put together exactly from any chunks; does an idle session have nothing left on it; does a login fail only for a cause; does every exchange end, and one that fits succeed; is BackendExchange implemented? | holds |
| cache_table | Is the table a bounded map, whatever the names hash to? | holds |

`WorkConserving` speaks of states before the first outage: after it a
backend may come back with nobody to notice, which is what scheduler_lostwakeup
shows.

### Divergences

- scheduler_lostwakeup: the tick logs dead backends in again but wakes no parked
  client; after an outage one can stay parked for ever.
- loop_reuse: a client hangs up while its pipeline is in flight and another one
  is accepted into its slot. The completion, which names the slot only, is taken
  for the new client's, whose Bind is answered with the other one's reply.
- socket_stall: in TLS mode a reply that the backend completes is buffered while
  the poll in flight asks for input only, so it is not written until
  the client sends something; a client that waits for the reply never does.

More configurations, not among the runs of `PROJECT.json`, state what a
comment or document says, or what one would expect, and show that the code does
otherwise:

| Configuration | Property | What happens |
|---|---|---|
| MCFairScheduler_stray | ParkedMeansPoolBusy | a Bind that cannot be rewritten parks its client as if the pool were busy, for ever |
| MCBackendPool_markdead | OneOwner | a slot its holder marked dead is given away by a lazy login |
| MCBackendPool_overflow | IdleSessionsClean | a blocking exchange gives up on a reply that does not fit or has more than 256 messages, and its session goes back to the pool alive, where ADR 002 wants a clean state on both sides |
| MCBackendPool_probe | ProbeTellsTheTruth | on a non-blocking socket the probe condemns healthy sessions |
| MCBackendPool_refused | RefusedOnlyIfNoneIdle | group logins never fall back to another login |
| MCBackendPool_lostgroup | GroupKeepsALogin | a lazy login takes over the last slot of another group |
| BackendSession_notice | InFrame | a message the server sends unasked is cut by the last read of an exchange; the rest is read as the beginning of the next reply |
| ReplyStream_afterready | EndsAtReady | with Execute and Sync queued behind a Bind in flight, rows and ReadyForQuery are followed by BindComplete, "SELECT 0" and ReadyForQuery again |
| ReplyStream_lostsync | EverySyncAnswered | a SQL error discards the Syncs of later batches |
| ReplyStream_torn | ReplyIntact | a simple Query overwrites a held reply |
| MCEventLoop_leak | NothingLeaks | the descriptor of a connection whose set-up fails after `accept` (lines 1382-1393) stays open |
| ClientSocket_dropped | NothingDropped | a reply to a queued Sync or Query for which there is no room is dropped (lines 996 and 1013) while the connection goes on |
| ClientSocket_zerocopy | QueuedOnceInOrder | the send buffer is reused at the first completion, before the kernel has let go of it |
| MCStmtCache_column | NamedColumnInjected | the connection's `identity_slot`, 0 unless it is configured, comes before the slot found in the column list, though `pqproxy.h` calls it the fallback |

MCBackendPool_async is the one that passes: with asynchronous exchanges only,
`IdleSessionsClean` holds.

### Bounds

FairScheduler: three clients suffice for the hand-over: one that releases, one
that a pass starts and one that it parks again; a fourth is needed to see the
order of waiters change while one of them leaves. Two backends allow a pass to start more
than one client. A queue of two holds a Bind and what waits behind it, and is
full with it. `MaxOutages` = 1 puts an outage at every point.

EventLoop: two slots and three accepts give a slot to a second client while
another client is there; with one backend and `MaxSessions` = 1 its descriptor
is closed and opened again; `MaxTurnover` = 3 allows three clients, or two with
a later login or a session dropped. loop_reuse needs one slot only.

ClientSocket: a buffer of three cells and a socket of two make both full, with
sends that are partial and a beginning that was sent before the rest is
appended. Seven bytes go round more than twice. Replies of no, one or two bytes, and
three messages from the client, put a reply before, in and behind each send.

ReplyStream: `MaxSent` = 8 is two batches of a waiting client, and three parses or
a Query with them; `MaxPipelined` = 7 with a queue of three lets a pipelining client
fill the queue and have a whole batch behind a Bind in flight.

BackendPool: three pool slots and two callers leave one slot idle, dead or lazily
logged in beside two that are used. MCBackendPool_async and _overflow ask about a
slot and who has it next, for which two slots and two callers do.

BackendSession: with `Cap` = 8, an answer with a row of 0 or 2 units always fits
both buffers, one with 3 fits or not depending on how it is cut, and one with
5 never does. `UpCap` = 2 is less than a pipeline, so sends are partial.
`MaxRounds` = 6 and one or two ParameterStatus messages make the SCRAM dialogue
just fit, or one message too long. Two requests and three logins show a
session used again and one replaced; `MaxCuts` = 2 loses the connection at two points.

StmtCache: four names and three slots make the table full, with clusters
that wrap around and a hole in the middle of one; names are symmetric because
their hashes range over everything.

### Fairness

- FairScheduler: a handler does not stop half-way (one thread, no blocking call
  without a timeout); the tick runs again and again (each wake-up, at the latest
  after the tick interval); an outage ends (an assumption about Postgres); a
  pipeline is answered or its socket fails (Postgres or TCP). Clients have no
  fairness: they may say nothing for ever.
- ReplyStream: a handler goes on to its end and a pipeline is answered or fails. That
  a parked client is ever tried again is not assumed: it is not after an outage
  (scheduler_lostwakeup) nor with a stray Bind (MCFairScheduler_stray), so
  `SyncAnswered` excepts a client that stays parked. Clients that pipeline are
  not covered: ReplyStream_lostsync shows that a Sync of theirs may stay unanswered.
- ClientSocket: the kernel ends the operations it can end, the loop handles their
  completions, a handler that drains the request queue comes to its end, and, for
  `QueuedArrives`, the client reads what has arrived.
  Nobody is assumed to send.
- BackendSession: the proxy's steps, and the server's: Postgres answers what it
  has received or the connection is lost. The asynchronous exchange has no timeout of its
  own, so nothing weaker would do. Neither cuts nor unasked messages are fair.

EventLoop has safety properties only, and no fairness.

## What is proved

`FairSchedulerProofs`, for any number of clients, backends, groups and outages,
any queue bound and any assignment of logins, from `ConstantAssumption` alone:

- `TypeCorrect`: `Spec => []TypeOK`;
- `HandOverSafe`: `Spec => []SchedulerInv`;
- `BackendsExclusive`, `RingIsExact`, `NoRequestStranded`: the properties the
  runs check, as consequences;
- `WorkConserved`: `Spec => []WorkConserving`, no idle backend beside a parked
  client it could serve, before an outage;
- `FirstServed`: as long as there is no outage, `Spec` implies
  `FirstComeFirstServed`, that is, FairScheduler implements FairLine.

None of the first three properties is inductive. In the middle of a release the
client that released has no backend yet is not done; in the middle of a pass a
client has left the ring and is not parked. `SchedulerInv` says where everybody
is in such states: `ControlOK` (what the loop's local variables imply),
`HoldingOK` (who holds a backend) and `QueuedOK` (who may have requests queued),
beside `ExclusiveBackend` and `RingExact`. The proof has one step per action.
The lemmas about the ring (`AppendToRing`, `PopFromRing`, `RemoveFromRing`,
`ParkKeepsRing`) and about taking and returning a backend (`TakeIsExclusive`,
`FinishIsExclusive`) carry the arguments shared by several actions.

`WorkConserving` is about states in which no pass is under way; its invariant
says of a pass which waiters it has already tried in vain. `FirstServed`
follows each step of a pass to the line: taking the head off the ring and
parking it again at the tail leaves the line as it is, because the ring has only
been turned; starting it removes the first that can be served. Its hypothesis excludes outages:
a login that a checkout in a pass finds dead can come back for the next one, so that
the next client overtakes.

`DataLemmas` has the facts about numbers and sequences that all proofs use:
least elements, what `Append`, `Tail` and concatenation do, and what `Filters`
selects and joins. Facts about a recursive function for every argument are proved without
an induction theorem: the set of numbers for which they fail would have a
least element (`NaturalsFrom0`).

It also has the theorems about RingArray, for any `Size` of at least one and any
ring whose fields agree (`Exact`): `PushAppends`, `PopTakesFirst`, `PushFrontPrepends` and `TakeOutRemoves`
say what each operation does to `Contents`, and that the fields agree afterwards.
The arithmetic is modulo `Size`, which the SMT solver does not do for a variable
`Size`; the lemmas first say what a cell's number is before and after wrapping around.
`PushHolds`, `PopHolds`, `TakeOutHolds` and `CountHolds` say the same of a ring
as a set of waiters: its entries stay distinct, it gains or loses just the one
meant, and its count is their number. EventLoop's proofs rest on these.

`BackendPoolProofs`, for any number of slots, callers and groups and any
warm-up, from `PoolAssumption`:

- `SlotsExclusive` (`OneOwner`) and `TenantsIsolated` (`TenantIsolation`), if
  lazy logins and `mark_dead` are not both in use (`SoundUse`); with both,
  MCBackendPool_markdead shows a slot with two owners;
- `SessionsRecoverable` (`Recoverable`), if `mark_dead` is not used.

The three need each other: a lazy login renames a dead slot, which leaves its
tenant alone only because no slot in use is dead, and a slot stays recoverable
only because its one owner checks it in. `PoolInv` is their conjunction with
`TypeOK`. `NearestIsOne` says that the round-robin scan finds a slot if there is
one; `GiveIsExclusive` and `DropSafe` carry the checkouts and the ways an
exchange ends.

- `SessionsDirtyOnlyIfGivenUp` (`DirtyOnlyIfGivenUp`) under `SoundUse`, and
  `AsyncSessionsClean` (`IdleSessionsClean`) if besides no caller uses blocking
  exchanges; with them MCBackendPool_overflow violates it.

`CleanInv` adds the caller in a blocking exchange, whose slot must have been clean
all through it, because the exchange ends with the slot idle at once. `PoolTypeCorrect` is `TypeOK`. The scan for the nearest slot needs that a
set of numbers has a least one (`LeastNatural`).

`ReplyStreamProofs`, for any set of messages and kinds of client, any length of the
queue and any number of messages, from `StreamAssumption`:

- `OutcomesInOrder`: `Spec => []OutcomeOnceInOrder`;
- `StreamTypeCorrect`: `Spec => []TypeOK`;
- `NoResultLost`: `Spec => []NoLostResult`, if the queue holds three messages.

A Bind passes through the queue, the pipeline in flight and the held reply before
its outcome is in the client's stream or in the frontend wire. `StreamInv` says
that in terms of numbers: what is shown (`StreamsOK`) and what is pending
(`PendingOK`) are disjoint, what is pending comes after every result shown, and
the queue is in order behind the Bind in flight or held (`QueueOK`). `ToSocket`
carries every path on which replies reach the socket.

`NoResultLost` is about clients that wait for ReadyForQuery. `WaitInv` says how
far the batch of such a client can be while its Bind is where it is: waiting with
Execute and Sync behind it (`Queued`), in flight (`Started`), held back
(`Held`), or done (`Settled`), with every earlier Bind answered and nothing
on the frontend wire. The hypothesis is needed and satisfied: Bind, Execute and Sync must fit
the queue (`FE_Q_MAX` is 32), and with a bound of two TLC finds the result lost.

`EventLoopProofs`, for any number of slots, clients, backends, sessions and
completions, from `LoopAssumption`:

- `DescriptorsOwned` (`DescriptorsMatch`), `EverybodyHeard` (`HearsEverybody`),
  `CleanSlotsSafe` (`CleanSlotStaysClean`) and `LoopTypeCorrect` (`TypeOK`);
- `WaitRingKept` (`WaitRingExact`) and `PipelinesKept` (`PipelinesSound`).

`LoopInv` is the conjunction of types, `Owned` (the open descriptors are those of
the connections, each of one, and those leaked), `Heard` (an accept is under way, and every
connection has its read or poll
under way, except one that is about to be closed, which is how a handler may end
on a path that arms nothing) and `Undisturbed` (what is under way for a slot that
was clean when it was taken is on that connection's own socket). Most handlers
change the connection they run for and what they prepare; such steps are proved
once and each handler has a lemma that brings it into that form.
The finding about reused slots does not contradict these theorems: they say what
holds of clean slots, and `ReplyReachesItsClient` fails on one that was not.

The last two need `PipeInv`, inductive with `LoopInv`, in three parts.
`WaitersInv` (the ring is exact, its entries distinct, and every client that waits
in it) and `KernelInv` (what is in the kernel is on sessions there have been; a busy
backend is alive; nothing arrives from a login to come) hold whatever strays.
`Sound` holds until the first operation meets a connection it was not meant
for: each busy backend has one client and that client one operation under way,
prepared or in flight, on this very session, and the bytes to come are the
answer to its Bind. A single stray completion makes two handlers
run for one pipeline, and every part of `Sound` may be lost; so
`PipelinesSound` says what holds until `strayed`. An operation that was prepared
on a descriptor closed before it was submitted counts as stray: if it does
not, TLC finds `PipelinesSound` violated with one slot and two accepts.

`ClientSocketProofs`, for any capacity of the send buffer and of the socket and
any number of messages and bytes, from `SocketAssumption`, if `SO_ZEROCOPY` is off:

- `BytesInOrder` (`QueuedOnceInOrder`) and `SocketTypeCorrect` (`TypeOK`).

`SocketInv` follows the bytes from one place to the next: the socket holds those that
follow what the client has seen (`InOrder`), and the buffer, behind what a send
in flight has already taken (`Taken`), those that follow the socket's (`Unsent`).
A send in flight begins at the offset and ends inside the buffer (`SendInFlight`),
which is what makes it safe to append behind it and to reset the buffer
when a completion has caught up. With zero copy the socket refers to the
buffer itself and the theorem is false, as ClientSocket_zerocopy shows.

`StmtCacheProofs`, for any capacity, any set of names and whatever they hash to,
from `CacheAssumption`:

- `EntriesFound` (`EveryEntryFound`) and `CacheTypeCorrect` (`TypeOK`);
- `CacheIsMap` (`ImplementsMap`): the table implements StmtMap, step by step.

`Sound` says of a table that a search for the name in a slot ends at that slot,
and that the count is right; `PutSafe` shows that a put keeps it and changes one
lookup at most. Emptying a slot does not keep it: a search may now end at the hole. But no
name is stored twice, and that is all that refilling needs (`RehashSafe`, by
induction over the slots): every entry fits in turn, since fewer have been put than
there are slots. For the refinement the number of entries is that of
the names with a statement, which a bijection between them shows.

`BackendSessionProofs`, for any sizes of the buffers, the sockets and the rows and
any number of parameters, rounds, logins, requests and cuts, from
`SessionAssumption`:

- `SessionTypes` (`TypeOK`), `SessionIdleInStep` (`IdleInStep`) and
  `SessionReplyAccounted` (`ReplyAccounted`);
- `SessionLoginFailsForCause` (`LoginFailsForCause`) and
  `SessionSmallReplyIsServed` (`SmallReplyIsServed`), which are about steps;
- `SessionKeepsItsPromise` (`KeepsItsPromise`): the session implements
  BackendExchange, step by step.

They are about `Spec`, in which the server speaks only when it is spoken to; under
`NoticeSpec` the invariant fails, as BackendSession_notice shows.

None of the properties says what the server will still say, so none is inductive.
`SessionInv` (`SessionInvariant`) does: the units not yet read, in `recv_acc`, the
socket and the server laid end to end, are those of a sequence of messages, or
the beginning of them if the connection was lost (`Carries`), and the stage of the
dialogue says which messages. In a login (`WhenLogin`, `Stage`) it is either the
proxy's turn to be answered, with one message on its way up and nothing coming down, or
the server's messages are the rest of a dialogue whose length and the rounds already
read add up to that of the whole; what both sides sign is the same term. In an
exchange (`WhenExchange`) the server has answered `j` of the four request messages
and the others are in `up` and `send_buf` (`Asking`); what it said (`Heard`) falls
into `a`, whose visible messages are `be_resp`, and `b`, which the stream carries.
So `ReplyAccounted` follows, and a ReadyForQuery, which is the last message of `Heard`
and only there when `j` is four, leaves nothing in flight.

The lemmas are about messages and streams: what joining and cutting into units do
to each other (`FlatBehind`, `UnitPlace`), that whole messages can be taken off the
front of a stream (`TakenOff`, `ReadOne`), that what `async_on_recv` consumes
ends with a message and contains just the messages that end in it (`ConsumedIs`,
`Recognised`), and that a collected part of a reply is no larger than the whole
(`FitsInPart`). Every action then has one lemma, those of a receive the longest
(`OnRecvInv`), and `StepSeen` says what each step is to BackendExchange.

Only model-checked:

- everything under fairness (liveness and ENABLED are out of the prover's reach):
  `ParkedIsServed`, `SyncAnswered`, `QueuedArrives`, `EveryTurnEnds` and the like;
- what a violated run states, and what `BackendSession_notice` and the other
  configurations above show.

## Plan

1. Done: FairScheduler with its refinement and proofs, BackendPool and its
   proofs, ReplyStream, StmtCache, RingArray and its proofs, EventLoop, ClientSocket,
   BackendSession and its abstract specification.
2. Done: proofs about the pool's clean sessions, ReplyStream, EventLoop and
   ClientSocket; about the scheduler's order and work conservation, the wait ring
   and the pipelines of EventLoop, results of waiting clients, and StmtCache.
3. Done: the proofs about BackendSession, its refinement of BackendExchange
   included. With them every safety invariant and action property of a passing run
   is a theorem, some under a hypothesis named above.
4. Next models: warm-up's distribution of slots among groups; the blocking path of the loop with `fair_schedule` off.

## Not modelled

- Certificate parsing, YAML and flags compute on strings; their results are
  constants or inputs of the modules. How warm-up shares slots out among groups
  is a constant (`Warm`) for the same reason: it happens once, before the loop.
- Metrics: no code branches on a counter. The endpoint's thread copies
  them without a lock, which C leaves undefined but no property is about.
- Kernel TLS is only detected and reported.
- Base64, HMAC and PBKDF2 of the SCRAM client are terms of their arguments.
- The send buffer's limit in ReplyStream: there every reply fits. What becomes of
  one that does not is in ClientSocket.
- A receive timeout of the login, for a server that is slow, and its limits on the size
  of one message (8192 and 512 bytes) are not among the causes for which
  `LoginFailsForCause` lets a login fail; the modelled server keeps to them.
- The blocking fallback with `fair_schedule` or `async_backend` off appears in
  BackendPool (`SyncUse`), not in the scheduler.
- OpenSSL, liburing, libyaml and the pique wire library are external and appear
  where the loop relies on them.
- Time: a step may take arbitrarily long, so that blocking reconnects inside the
  loop delay but do not change what is reachable.
