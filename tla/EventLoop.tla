------------------------------ MODULE EventLoop ------------------------------
(****************************************************************************)
(* The dispatch loop of pqproxy (pqproxy_run in src/src/iouring_loop.c): a  *)
(* handler prepares operations, io_uring_submit hands them to the kernel,   *)
(* and each comes back as a completion that carries only the kind of        *)
(* operation and the number of the connection slot it was prepared for.     *)
(*                                                                          *)
(* Two things outlive the handler that caused them. An operation in the     *)
(* kernel holds the file it was submitted on: closing the descriptor        *)
(* neither cancels the operation nor closes the file. A prepared operation  *)
(* holds a descriptor number, which means a file only when it is submitted. *)
(* So a slot, and a descriptor number, may have changed hands meanwhile.    *)
(*                                                                          *)
(* Of a conversation there remain Bind and reply; a client sends its next   *)
(* Bind when it has a reply (queues of requests: modules FairScheduler and  *)
(* ReplyStream). Bytes and readiness of the client's socket are in module   *)
(* ClientSocket, bytes of the backend's in BackendSession.                  *)
(****************************************************************************)
EXTENDS Integers, Sequences, FiniteSets, BagsExt, Bags

CONSTANTS
    MaxConns,      \* PQPROXY_MAX_CONNS: connection slots
    Backends,      \* slots of the backend pool
    Modes,         \* which of "plain" and "tls" (cfg->plain) to start in
    MaxAccepts,    \* bound: clients that connect
    MaxSessions,   \* bound: logins of one backend slot after the first
    MaxTurnover,   \* bound: clients, later logins and drops of sessions, together
    None           \* no backend

Slots == 0 .. MaxConns - 1
Clients == 1 .. MaxAccepts
Sessions == Backends \X (0 .. MaxSessions)

ASSUME LoopAssumption ==
    /\ MaxConns \in Nat \ {0}
    /\ Modes \subseteq {"plain", "tls"}
    /\ MaxAccepts \in Nat /\ MaxSessions \in Nat /\ MaxTurnover \in Nat
    /\ None \notin Backends
    /\ Backends \intersect {"client", "listen", "closed"} = {}

Ring == INSTANCE RingArray WITH Size <- MaxConns

VARIABLES
    mode,       \* "plain" or "tls", for the whole run
    conn,       \* server_t.conns
    waiters,    \* server_t.waiters, wait_head, wait_tail, wait_count
    sess,       \* the pool: alive, busy, and which login of the slot it is
    buf,        \* whose Bind is in the send buffer of a backend
    unsent,     \* send_off < send_len in that buffer
    prepared,   \* submission queue: operations not submitted yet
    flight,     \* bag of operations the kernel works on
    pc,         \* "wait", or in a handler: "close", "grant", "submit"
    cur,        \* the slot whose handler returned -1
    left,       \* attempts left in fair_schedule_waiters
    accepted,   \* clients accepted or refused so far
    here,       \* clients that have not hung up
    open,       \* client descriptors the proxy has open
    inbox,      \* per session: whose Binds it has received and not answered
    dropped,    \* sessions Postgres has closed
    leaked,     \* history: clients whose set-up failed half-way
    mixed,      \* history: a client got the reply to somebody else's Bind
    strayed     \* history: an operation met a connection it was not meant for

loopVars   == <<mode, pc, cur, left, prepared, flight, waiters>>
poolVars   == <<sess, buf, unsent>>
clientVars == <<accepted, here, open, leaked>>
dbVars     == <<inbox, dropped>>
history    == <<mixed, strayed>>
vars == <<loopVars, conn, poolVars, clientVars, dbVars, history>>

-----------------------------------------------------------------------------
(* Operations: prepared for a descriptor, submitted on a file.              *)

Client(k) == <<"client", k>>
Listen    == <<"listen", 0>>
NoFile    == <<"closed", 0>>    \* the number means no file any more: EBADF

\* Faulty variant: the slot does not survive being packed with the operation.
OpOfSlotZero(op, s, f) == [op |-> op, slot |-> 0, on |-> f]

\* pack_ud
Op(op, s, f) == [op |-> op, slot |-> s, on |-> f]

ReadOp == IF mode = "tls" THEN "poll" ELSE "recv"

FreeConn ==
    [state |-> "FREE", id |-> 0, ask |-> 0, dirty |-> FALSE,
     read |-> FALSE, send |-> FALSE, more |-> FALSE,
     be |-> None, beSend |-> FALSE, beRecv |-> FALSE, wait |-> "IDLE"]

\* The handlers below work on a pair: a connection and what is prepared for it.
With(c, ops) == [c |-> c, ops |-> ops]

\* submit_recv, submit_poll
SubmitRead(s, c) ==
    IF c.read THEN With(c, {})
    ELSE With([c EXCEPT !.read = TRUE], {Op(ReadOp, s, Client(c.id))})

\* submit_send; `more` stands for bytes behind those of the send in flight.
SubmitSend(s, c) ==
    IF c.send THEN With([c EXCEPT !.more = TRUE], {})
    ELSE With([c EXCEPT !.send = TRUE, !.more = FALSE],
              {Op("send", s, Client(c.id))})

\* queue_plain_send
QueueReply(s, c) == IF mode = "tls" THEN SubmitRead(s, c) ELSE SubmitSend(s, c)

SubmitBeRecv(s, c) ==
    IF c.be = None \/ c.beRecv THEN With(c, {})
    ELSE With([c EXCEPT !.beRecv = TRUE, !.wait = "READING"],
              {Op("be_recv", s, c.be)})

\* Faulty variant: when everything is sent nobody waits for the answer.
SubmitBeSendStops(s, c, bytes) ==
    IF c.be = None \/ c.beSend THEN With(c, {})
    ELSE IF bytes
      THEN With([c EXCEPT !.beSend = TRUE, !.wait = "SENDING"],
                {Op("be_send", s, c.be)})
      ELSE With([c EXCEPT !.wait = "READING"], {})

SubmitBeSend(s, c, bytes) ==
    IF c.be = None \/ c.beSend THEN With(c, {})
    ELSE IF bytes
      THEN With([c EXCEPT !.beSend = TRUE, !.wait = "SENDING"],
                {Op("be_send", s, c.be)})
      ELSE SubmitBeRecv(s, [c EXCEPT !.wait = "READING"])

\* Faulty variant: the handler ends without a read.
RearmedNot(s, r) == r

\* The read is armed again when the handler ends.
Rearmed(s, r) ==
    LET again == SubmitRead(s, r.c) IN With(again.c, r.ops \union again.ops)

\* The handler's effect on slot s.
Handled(s, r) ==
    /\ conn' = [conn EXCEPT ![s] = r.c]
    /\ prepared' = prepared \union r.ops

Takes(op) == flight' = BagRemove(flight, op)

-----------------------------------------------------------------------------
(* The pool, as far as descriptors go.                                      *)

Session(b) == <<b, sess[b].login>>

Idle == {b \in Backends : sess[b].alive /\ ~sess[b].busy}

Turnover ==
    accepted + Cardinality(dropped)
      + Cardinality({f \in Sessions : f[2] \in 1 .. sess[f[1]].login})

MayLogin(b) == sess[b].login < MaxSessions /\ Turnover < MaxTurnover

\* async_finish of a session that is fit for the next request.
Release(b) == sess' = [sess EXCEPT ![b].busy = FALSE]

\* async_finish of a failed session: it is closed and the slot logs in again,
\* into a new file with the same descriptor number, if Postgres lets it.
Lose(b) ==
    \E ok \in IF MayLogin(b) THEN BOOLEAN ELSE {FALSE} :
        sess' = [sess EXCEPT ![b] =
                     [alive |-> ok, busy |-> FALSE,
                      login |-> IF ok THEN @.login + 1 ELSE @.login]]

\* async_begin and the first submit_be_send: what is left of an earlier flag
\* decides whether anything is prepared.
Started(s, c, b) ==
    SubmitBeSend(s, [c EXCEPT !.be = b, !.ask = 0], TRUE)

Start(asker, b) ==
    /\ b \in Idle
    /\ sess' = [sess EXCEPT ![b].busy = TRUE]
    /\ buf' = [buf EXCEPT ![b] = asker]
    /\ unsent' = [unsent EXCEPT ![b] = TRUE]

-----------------------------------------------------------------------------
Init ==
    /\ mode \in Modes
    /\ conn = [s \in Slots |-> FreeConn]
    /\ waiters = Ring!EmptyRing(0)
    /\ sess = [b \in Backends |-> [alive |-> TRUE, busy |-> FALSE, login |-> 0]]
    /\ buf = [b \in Backends |-> 0]
    /\ unsent = [b \in Backends |-> FALSE]
    /\ prepared = {Op("accept", 0, Listen)}
    /\ flight = EmptyBag
    /\ pc = "submit"
    /\ cur = 0
    /\ left = 0
    /\ accepted = 0
    /\ here = {}
    /\ open = {}
    /\ leaked = {}
    /\ inbox = [f \in Sessions |-> <<>>]
    /\ dropped = {}
    /\ mixed = FALSE
    /\ strayed = FALSE

FreeSlots == {s \in Slots : conn[s].state = "FREE"}

\* accept_one and submit_accept. A client for which there is no slot, or whose
\* handshake fails at once, is closed again. When there is no memory for the
\* parser or the SSL object close_conn is called too, but takes the slot for free
\* and returns: the descriptor stays open and belongs to nobody.
Accept ==
    /\ pc = "wait"
    /\ accepted < MaxAccepts /\ Turnover < MaxTurnover
    /\ Op("accept", 0, Listen) \in DOMAIN flight
    /\ Takes(Op("accept", 0, Listen))
    /\ accepted' = accepted + 1
    /\ \/ /\ FreeSlots = {} \/ mode = "tls"
          /\ prepared' = {Op("accept", 0, Listen)}
          /\ UNCHANGED <<conn, here, open, leaked>>
       \/ /\ FreeSlots # {}
          /\ prepared' = {Op("accept", 0, Listen)}
          /\ here' = here \union {accepted + 1}
          /\ open' = open \union {accepted + 1}
          /\ leaked' = leaked \union {accepted + 1}
          /\ UNCHANGED conn
       \/ /\ FreeSlots # {}
          /\ LET s == CHOOSE t \in FreeSlots : \A u \in FreeSlots : t <= u
                  c == [FreeConn EXCEPT
                          !.state = IF mode = "tls" THEN "TLS_HS" ELSE "ACTIVE",
                          !.id = accepted + 1,
                          !.dirty = \E op \in DOMAIN flight :
                                        op.op # "accept" /\ op.slot = s]
                  r == SubmitRead(s, c)
              IN  /\ conn' = [conn EXCEPT ![s] = r.c]
                  /\ prepared' = r.ops \union {Op("accept", 0, Listen)}
                  /\ here' = here \union {c.id}
                  /\ open' = open \union {c.id}
          /\ UNCHANGED leaked
    /\ pc' = "submit"
    /\ UNCHANGED <<mode, cur, left, waiters, poolVars, dbVars, history>>

\* Hang-ups and drops show only in what completes, so they are taken while the
\* loop waits.
HangUp(k) ==
    /\ pc = "wait"
    /\ k \in here
    /\ here' = here \ {k}
    /\ UNCHANGED <<loopVars, conn, poolVars, accepted, open, leaked, dbVars, history>>

-----------------------------------------------------------------------------
(* Completions. A handler looks up the slot and, unless it is free, takes   *)
(* the completion for its own.                                              *)

Meets(op) ==
    /\ Takes(op)
    /\ LET c == conn[op.slot]
           own == IF op.op \in {"be_send", "be_recv"}
                    THEN IF c.be = None THEN NoFile ELSE Session(c.be)
                    ELSE Client(c.id)
       IN  strayed' = (strayed \/ op.on # own \/ op.on = NoFile)

\* A completion for a free slot, or of a backend for a connection without one.
Ignored(op) ==
    /\ pc = "wait"
    /\ op \in DOMAIN flight
    /\ op.op # "accept"
    /\ \/ conn[op.slot].state = "FREE"
       \/ op.op \in {"be_send", "be_recv"} /\ conn[op.slot].be = None
    /\ op.op = "be_recv" =>
         op.on = NoFile \/ op.on \in dropped \/ inbox[op.on] # <<>>
    /\ op.op \in {"recv", "poll"} => op.on = NoFile \/ op.on[2] \notin here
    /\ Takes(op)
    /\ inbox' = IF op.op = "be_recv" /\ op.on \in Sessions /\ inbox[op.on] # <<>>
                  THEN [inbox EXCEPT ![op.on] = Tail(@)] ELSE inbox
    /\ pc' = "submit"
    /\ UNCHANGED <<mode, cur, left, prepared, waiters, conn, poolVars,
                   clientVars, dropped, history>>

Completes(op, kind) ==
    /\ pc = "wait"
    /\ op \in DOMAIN flight
    /\ op.op = kind
    /\ conn[op.slot].state # "FREE"
    /\ Meets(op)

\* The client has hung up, or the descriptor was not open.
ReadEnd(op) ==
    /\ Completes(op, ReadOp)
    /\ op.on = NoFile \/ op.on[2] \notin here
    /\ conn' = [conn EXCEPT ![op.slot].read = FALSE]
    /\ pc' = "close"
    /\ cur' = op.slot
    /\ UNCHANGED <<mode, left, prepared, waiters, poolVars, clientVars, dbVars, mixed>>

\* A message that needs no backend, a step of the handshake, or a poll that
\* finds nothing to read. The handshake may fail, and a message be Terminate.
ReadOther(op) ==
    /\ Completes(op, ReadOp)
    /\ op.on # NoFile /\ op.on[2] \in here
    /\ LET s == op.slot
           c == [conn[s] EXCEPT !.read = FALSE, !.state = "ACTIVE"]
       IN  \/ /\ Handled(s, Rearmed(s, With(c, {})))
              /\ pc' = "submit"
              /\ UNCHANGED cur
           \/ /\ conn' = [conn EXCEPT ![s].read = FALSE]
              /\ pc' = "close"
              /\ cur' = s
              /\ UNCHANGED prepared
    /\ UNCHANGED <<mode, left, waiters, poolVars, clientVars, dbVars, mixed>>

\* Whose Bind the handler finds: the buffer of a recv belongs to the slot, but
\* SSL_read goes to the connection's own socket.
Asker(op) == IF mode = "tls" THEN conn[op.slot].id ELSE op.on[2]

ReadsBind(op) ==
    /\ Completes(op, ReadOp)
    /\ op.on # NoFile /\ op.on[2] \in here
    /\ conn[op.slot].state = "ACTIVE"
    /\ conn[op.slot].wait = "IDLE"
    /\ Asker(op) \in here

Unread(s) == [conn[s] EXCEPT !.read = FALSE]

\* The rest of the read may fill the send buffer, which closes the connection
\* before what it prepared has been submitted.
BindStart(op) ==
    /\ ReadsBind(op)
    /\ LET s == op.slot IN
       \E b \in Idle :
           /\ Start(Asker(op), b)
           /\ \/ /\ Handled(s, Rearmed(s, Started(s, Unread(s), b)))
                 /\ pc' = "submit"
                 /\ UNCHANGED cur
              \/ /\ Handled(s, Started(s, Unread(s), b))
                 /\ pc' = "close"
                 /\ cur' = s
    /\ UNCHANGED <<mode, left, waiters, clientVars, dbVars, mixed>>

BindPark(op) ==
    /\ ReadsBind(op)
    /\ Idle = {}
    /\ LET s == op.slot
           c == [Unread(s) EXCEPT !.wait = "WAITING_POOL", !.ask = Asker(op)]
       IN  /\ Handled(s, Rearmed(s, With(c, {})))
           /\ waiters' = Ring!PushOnce(waiters, s)
    /\ pc' = "submit"
    /\ UNCHANGED <<mode, cur, left, poolVars, clientVars, dbVars, mixed>>

\* Bytes of a reply have left for the client. A completion that met the wrong
\* connection counts its bytes there.
SendDone(op) ==
    /\ Completes(op, "send")
    /\ op.on # NoFile
    /\ LET s == op.slot
           c == [conn[s] EXCEPT !.send = FALSE]
       IN  \/ c.more /\ Handled(s, SubmitSend(s, c))
          \/ /\ ~c.more \/ op.on # Client(c.id)
             /\ Handled(s, With([c EXCEPT !.more = FALSE], {}))
    /\ pc' = "submit"
    /\ UNCHANGED <<mode, cur, left, waiters, poolVars, clientVars, dbVars, mixed>>

SendFailed(op) ==
    /\ Completes(op, "send")
    /\ op.on = NoFile \/ op.on[2] \notin here
    /\ conn' = [conn EXCEPT ![op.slot].send = FALSE]
    /\ pc' = "close"
    /\ cur' = op.slot
    /\ UNCHANGED <<mode, left, prepared, waiters, poolVars, clientVars, dbVars, mixed>>

\* on_be_send_cqe: the count of a stray completion may or may not cover what is
\* to be sent now.
BeSendDone(op) ==
    /\ Completes(op, "be_send")
    /\ op.on # NoFile
    /\ LET s == op.slot
           b == conn[s].be
       IN  /\ b # None
           /\ \E rest \in IF op.on = Session(b) THEN {FALSE} ELSE {FALSE, unsent[b]} :
                 /\ unsent' = [unsent EXCEPT ![b] = rest]
                 /\ Handled(s, SubmitBeSend(s, [conn[s] EXCEPT !.beSend = FALSE], rest))
    /\ pc' = "submit"
    /\ UNCHANGED <<mode, cur, left, waiters, sess, buf, clientVars, dbVars, mixed>>

Released(c) == [c EXCEPT !.be = None, !.wait = "IDLE"]

\* backend_async_fail: the client gets an error instead of its reply.
BeFail(op) ==
    /\ \/ Completes(op, "be_send") /\ (op.on = NoFile \/ op.on \in dropped)
       \/ Completes(op, "be_recv") /\ (op.on = NoFile \/ op.on \in dropped)
    /\ LET s == op.slot
           c == [conn[s] EXCEPT
                   !.beSend = IF op.op = "be_send" THEN FALSE ELSE @,
                   !.beRecv = IF op.op = "be_recv" THEN FALSE ELSE @]
       IN  /\ c.be # None
           /\ Lose(c.be)
           /\ Handled(s, QueueReply(s, Released(c)))
    /\ pc' = "grant"
    /\ left' = waiters.count
    /\ UNCHANGED <<mode, cur, waiters, buf, unsent, clientVars, dbVars, mixed>>

\* backend_async_complete, with the reply in be_recv_buf, whoever it is for. If
\* it does not fit into the send buffer the connection is closed.
BeReply(op) ==
    /\ Completes(op, "be_recv")
    /\ op.on \in Sessions
    /\ inbox[op.on] # <<>>
    /\ inbox' = [inbox EXCEPT ![op.on] = Tail(@)]
    /\ LET s == op.slot
           c == [conn[s] EXCEPT !.beRecv = FALSE]
       IN  /\ c.be # None
           /\ \/ /\ Release(c.be)
                 /\ Handled(s, QueueReply(s, Released(c)))
                 /\ mixed' = (mixed \/ c.id # Head(inbox[op.on]))
                 /\ pc' = "grant"
                 /\ left' = waiters.count
                 /\ UNCHANGED cur
              \/ /\ conn' = [conn EXCEPT ![s] = c]
                 /\ pc' = "close"
                 /\ cur' = s
                 /\ UNCHANGED <<sess, prepared, mixed, left>>
    /\ UNCHANGED <<mode, waiters, buf, unsent, clientVars, dropped>>

-----------------------------------------------------------------------------
(* The rest of a handler: close_conn, fair_schedule_waiters, submit.        *)

\* Faulty variant: the slot is freed and the descriptor stays open.
CloseLeaks ==
    /\ pc = "close"
    /\ LET c == conn[cur] IN
         /\ waiters' = Ring!TakeOut(waiters, cur)
         /\ conn' = [conn EXCEPT ![cur] = FreeConn]
         /\ open' = IF c.wait = "WAITING_POOL" THEN open ELSE open \ {c.id}
         /\ left' = waiters'.count
         /\ IF c.be # None THEN Lose(c.be) /\ pc' = "grant"
                           ELSE pc' = "submit" /\ UNCHANGED sess
    /\ cur' = 0
    /\ UNCHANGED <<mode, prepared, flight, buf, unsent, accepted, here, leaked,
                   dbVars, history>>

\* Faulty variant: the pass counts its attempts before the slot is taken out.
CloseCountsFirst ==
    /\ pc = "close"
    /\ LET c == conn[cur] IN
         /\ waiters' = Ring!TakeOut(waiters, cur)
         /\ conn' = [conn EXCEPT ![cur] = FreeConn]
         /\ open' = open \ {c.id}
         /\ left' = waiters.count
         /\ IF c.be # None THEN Lose(c.be) /\ pc' = "grant"
                           ELSE pc' = "submit" /\ UNCHANGED sess
    /\ cur' = 0
    /\ UNCHANGED <<mode, prepared, flight, buf, unsent, accepted, here, leaked,
                   dbVars, history>>

\* What the slot has prepared or in flight is left alone.
Close ==
    /\ pc = "close"
    /\ LET c == conn[cur] IN
         /\ waiters' = Ring!TakeOut(waiters, cur)
         /\ conn' = [conn EXCEPT ![cur] = FreeConn]
         /\ open' = open \ {c.id}
         /\ left' = waiters'.count
         /\ IF c.be # None THEN Lose(c.be) /\ pc' = "grant"
                           ELSE pc' = "submit" /\ UNCHANGED sess
    /\ cur' = 0
    /\ UNCHANGED <<mode, prepared, flight, buf, unsent, accepted, here, leaked,
                   dbVars, history>>

\* One waiter of the pass: started, or parked again at the tail. An entry whose
\* connection no longer waits is dropped.
Grant ==
    /\ pc = "grant"
    /\ left > 0
    /\ left' = left - 1
    /\ LET s == Ring!First(waiters)
           c == [conn[s] EXCEPT !.wait = "IDLE"]
       IN  \/ /\ conn[s].wait # "WAITING_POOL"
              /\ waiters' = Ring!Pop(waiters)
              /\ UNCHANGED <<conn, prepared, sess, buf, unsent>>
           \/ /\ conn[s].wait = "WAITING_POOL"
              /\ Idle = {}
              /\ waiters' = Ring!PushOnce(Ring!Pop(waiters), s)
              /\ UNCHANGED <<conn, prepared, sess, buf, unsent>>
           \/ /\ conn[s].wait = "WAITING_POOL"
              /\ waiters' = Ring!Pop(waiters)
              /\ \E b \in Idle : Start(c.ask, b)
                                /\ Handled(s, Started(s, c, b))
    /\ UNCHANGED <<mode, pc, cur, flight, clientVars, dbVars, history>>

GrantEnd ==
    /\ pc = "grant"
    /\ left = 0
    /\ pc' = "submit"
    /\ UNCHANGED <<mode, cur, left, prepared, flight, waiters, conn, poolVars,
                   clientVars, dbVars, history>>

\* What a descriptor number means now.
File(op) ==
    CASE op.op = "accept" -> Listen
      [] op.op \in {"recv", "poll", "send"} ->
           IF op.on[2] \in open THEN op.on ELSE NoFile
      [] OTHER -> IF sess[op.on].alive THEN Session(op.on) ELSE NoFile

\* A send to a session arrives with what is in the backend's buffer now. One
\* whose connection has lost the backend meanwhile goes to a stranger.
Submit ==
    /\ pc = "submit"
    /\ flight' = flight (+) [op \in {[o EXCEPT !.on = File(o)] : o \in prepared} |->
                   Cardinality({o \in prepared : [o EXCEPT !.on = File(o)] = op})]
    /\ LET sends(f) == {o \in prepared : o.op = "be_send" /\ File(o) = f}
       IN  /\ inbox' = [f \in Sessions |->
                 inbox[f] \o [i \in 1 .. Cardinality(sends(f)) |-> buf[f[1]]]]
           /\ strayed' = (strayed \/ \E o \in prepared :
                 o.op \in {"be_send", "be_recv"} /\ conn[o.slot].be # o.on
                   /\ File(o) # NoFile)
    /\ prepared' = {}
    /\ pc' = "wait"
    /\ UNCHANGED <<mode, cur, left, waiters, conn, poolVars, clientVars, dropped, mixed>>

-----------------------------------------------------------------------------
(* Postgres, and the maintain tick, which runs before the next completion.  *)

Drop(f) ==
    /\ pc = "wait"
    /\ f \in Sessions \ dropped
    /\ Turnover < MaxTurnover
    /\ f[2] <= sess[f[1]].login
    /\ dropped' = dropped \union {f}
    /\ UNCHANGED <<loopVars, conn, poolVars, clientVars, inbox, history>>

Tick(b) ==
    /\ pc = "wait"
    /\ ~sess[b].alive /\ ~sess[b].busy
    /\ MayLogin(b)
    /\ sess' = [sess EXCEPT ![b].alive = TRUE, ![b].login = @ + 1]
    /\ UNCHANGED <<loopVars, conn, buf, unsent, clientVars, dbVars, history>>

-----------------------------------------------------------------------------
Completion(op) ==
    \/ Ignored(op)
    \/ ReadEnd(op) \/ ReadOther(op) \/ BindStart(op) \/ BindPark(op)
    \/ SendDone(op) \/ SendFailed(op)
    \/ BeSendDone(op) \/ BeReply(op) \/ BeFail(op)

Handler == Close \/ Grant \/ GrantEnd \/ Submit

Next ==
    \/ Accept
    \/ \E k \in Clients : HangUp(k)
    \/ \E op \in DOMAIN flight : Completion(op)
    \/ Handler
    \/ \E f \in Sessions : Drop(f)
    \/ \E b \in Backends : Tick(b)

Spec == Init /\ [][Next]_vars

-----------------------------------------------------------------------------
Files == {Listen, NoFile} \union {Client(k) : k \in Clients} \union Sessions

\* The fields of the connections and the pool are what the code declares, and a
\* pass of the wait ring never has more attempts left than there are entries.
TypeOK ==
    /\ mode \in Modes
    /\ conn \in [Slots -> [state : {"FREE", "TLS_HS", "ACTIVE"}, id : 0 .. MaxAccepts,
                           ask : 0 .. MaxAccepts, dirty : BOOLEAN, read : BOOLEAN,
                           send : BOOLEAN, more : BOOLEAN, be : Backends \union {None},
                           beSend : BOOLEAN, beRecv : BOOLEAN,
                           wait : {"IDLE", "SENDING", "READING", "WAITING_POOL"}]]
    /\ waiters \in Ring!Rings(Slots)
    /\ sess \in [Backends -> [alive : BOOLEAN, busy : BOOLEAN, login : 0 .. MaxSessions]]
    /\ pc \in {"wait", "close", "grant", "submit"}
    /\ left \in 0 .. waiters.count
    /\ \A op \in DOMAIN flight : op.slot \in Slots /\ op.on \in Files
    /\ here \subseteq Clients
    /\ open \subseteq Clients

Connected == {s \in Slots : conn[s].state # "FREE"}

\* The open client descriptors are those of the connections, one each, and those
\* whose set-up failed half-way (see Accept): close_conn leaks none on whatever
\* path, and none belongs to two slots.
DescriptorsMatch ==
    pc # "close" =>
        /\ open \ leaked = {conn[s].id : s \in Connected}
        /\ leaked \subseteq open
        /\ \A s, t \in Connected : conn[s].id = conn[t].id => s = t

\* Every open client descriptor belongs to a connection. A failed set-up breaks
\* this: the slot is still free when accept_one calls close_conn.
NothingLeaks == pc = "wait" => open = {conn[s].id : s \in Connected}

\* While the loop waits it hears everybody: an accept is in flight, and each
\* connection has a read in flight on its own socket, strays or not.
HearsEverybody ==
    pc = "wait" =>
        /\ Op("accept", 0, Listen) \in DOMAIN flight
        /\ \A s \in Connected :
              Op(ReadOp, s, Client(conn[s].id)) \in DOMAIN flight

\* The cells of the wait ring between head and tail are the parked clients, each
\* once; after a stray also some that no longer wait, which a pass drops.
WaitRingExact ==
    pc \in {"wait", "submit"} =>
        /\ Ring!Exact(waiters)
        /\ Cardinality({s \in Slots : Ring!Holds(waiters, s)}) = waiters.count
        /\ \A s \in Slots :
              /\ conn[s].wait = "WAITING_POOL" => Ring!Holds(waiters, s)
              /\ Ring!Holds(waiters, s) =>
                     strayed \/ conn[s].wait = "WAITING_POOL"

\* A connection whose slot had nothing in flight when it was accepted is never
\* met by the completion of another one's socket.
CleanSlotStaysClean ==
    \A s \in Connected : ~conn[s].dirty =>
        \A op \in DOMAIN flight :
            op.slot = s /\ op.op \in {"recv", "poll", "send"} =>
                op.on \in {Client(conn[s].id), NoFile}

\* As long as no operation has met a stranger: a backend is busy for exactly
\* one connection, something in flight will wake that connection, and every
\* reply has gone to the client whose Bind it answers.
PipelinesSound ==
    ~strayed =>
        /\ \A b \in Backends : pc = "wait" =>
              Cardinality({s \in Slots : conn[s].be = b}) = IF sess[b].busy THEN 1 ELSE 0
        /\ pc = "wait" => \A s \in Connected : conn[s].be # None =>
              \E op \in DOMAIN flight :
                  /\ op.op \in {"be_send", "be_recv"} /\ op.slot = s
                  /\ op.on = Session(conn[s].be)
        /\ ~mixed

\* "backend read  (slot = frontend slot)" (iouring_loop.c:34): what arrives in
\* a slot is for the frontend in that slot.
ReplyReachesItsClient == ~mixed

==============================================================================
