----------------------------- MODULE ClientSocket -----------------------------
(****************************************************************************)
(* The client's side of one connection: its send buffer, the send or poll   *)
(* in flight, and the bytes themselves (queue_plain_send, submit_send,      *)
(* submit_poll, tls_drive_write, tls_drive_read, on_tls_poll and the recv   *)
(* and send completions of src/src/iouring_loop.c).                         *)
(*                                                                          *)
(* The bytes for the client are numbered 1, 2, ... in the order in which    *)
(* queue_plain_send takes them. A reply that it refuses for want of room    *)
(* takes its connection with it; one that comes out of the request queue is *)
(* dropped alone, and its bytes have no numbers. In plain mode the kernel   *)
(* takes the bytes from the buffer by a send in flight; in TLS mode         *)
(* SSL_write does, inside the handler of a poll that reports the socket as  *)
(* writable or readable. With SO_ZEROCOPY the kernel takes references to    *)
(* the buffer instead of bytes.                                             *)
(*                                                                          *)
(* Which replies are due is in module ReplyStream; here a message from the  *)
(* client, or the end of its pipeline at the backend, makes some bytes. The *)
(* descriptors and slots of EventLoop are left out.                         *)
(****************************************************************************)
EXTENDS Integers, Sequences

CONSTANTS
    Modes,       \* which of "plain" and "tls" to start in
    ZeroCopy,    \* cfg->msg_zerocopy, and the socket accepts SO_ZEROCOPY
    Cap,         \* sizeof send_buf
    SockCap,     \* what the kernel buffers for the client
    ZcMin,       \* shortest send that is sent with MSG_ZEROCOPY
    Flights,     \* messages of the client in the TLS handshake
    MaxReply,    \* bound: bytes that one handler makes
    MaxBytes,    \* bound: bytes made in all
    MaxMsgs      \* bound: messages the client sends

ASSUME SocketAssumption ==
    /\ Modes \subseteq {"plain", "tls"}
    /\ ZeroCopy \in BOOLEAN
    /\ Cap \in Nat \ {0} /\ SockCap \in Nat \ {0} /\ ZcMin \in Nat \ {0}
    /\ Flights \in Nat /\ MaxReply \in Nat /\ MaxBytes \in Nat /\ MaxMsgs \in Nat

VARIABLES
    mode,
    state,      \* conn_t.state
    out,        \* send_buf, send_off, send_len: cells off .. len-1 are unsent
    send,       \* the send in flight: where from, how long, and its result
    read,       \* {} or the events of the recv or poll in flight
    wantOut,    \* want_poll_out
    binds,      \* Binds not answered: one at the backend, the others queued
    draining,   \* draining_queue, at the end of a pipeline
    made,       \* bytes made so far, but for those dropped
    sock,       \* what the kernel holds for the client, in order
    seen,       \* bytes the client has read
    hs,         \* messages of the client's handshake still to be read
    inq,        \* messages of the client that the proxy has not read
    sent,       \* messages the client has sent
    hup,        \* the client has closed the connection
    late,       \* history: a reply was queued behind a poll for input only
    dropped     \* history: drain_fe_queue lost a reply for which there was no room

connVars   == <<state, out, send, read, wantOut, binds, draining, made>>
clientVars == <<seen, sent, hup>>
history    == <<late, dropped>>
vars == <<mode, connVars, sock, hs, inq, clientVars, history>>

NoSend == [from |-> 0, n |-> 0, zc |-> FALSE, res |-> 0, done |-> FALSE]

EmptyBuf(cells) == [cell |-> cells, off |-> 0, len |-> 0]

Rest(o) == o.len - o.off

\* What the kernel holds: bytes, or cells lent to it.
Copied(n) == <<"byte", n>>
Lent(i)   == <<"cell", i>>

\* What the client gets to see: a lent cell is looked at when it goes out.
Value(e) == IF e[1] = "cell" THEN out.cell[e[2]] ELSE e[2]

Room == SockCap - Len(sock)

Init ==
    /\ mode \in Modes
    /\ state = IF mode = "tls" THEN "TLS_HS" ELSE "ACTIVE"
    /\ out = EmptyBuf([i \in 0 .. Cap - 1 |-> 0])
    /\ send = NoSend
    /\ read = {"in"}
    /\ wantOut = FALSE
    /\ binds = 0
    /\ draining = FALSE
    /\ made = 0
    /\ sock = <<>>
    /\ seen = 0
    /\ hs = IF mode = "tls" THEN Flights ELSE 0
    /\ inq = 0
    /\ sent = 0
    /\ hup = FALSE
    /\ late = FALSE
    /\ dropped = FALSE

-----------------------------------------------------------------------------
(* queue_plain_send. A handler queues its replies in several calls; as long *)
(* as they fit, that comes to one call with all of them.                    *)

\* Faulty variant: what has left is taken for room at the end.
FitsUnsent(o, n) == Rest(o) + n <= Cap

Fits(o, n) == o.len + n <= Cap \/ (o.off = o.len /\ n <= Cap)

\* Faulty variant: a buffer filled to the end is started afresh, whether or not
\* everything in it has left.
QueuedOver(o, n) ==
    LET full == o.len + n > Cap \/ o.len = Cap
        at == IF full THEN 0 ELSE o.len
    IN  [cell |-> [i \in 0 .. Cap - 1 |->
                      IF i \in at .. at + n - 1 THEN made + 1 + i - at ELSE o.cell[i]],
         off |-> IF full THEN 0 ELSE o.off, len |-> at + n]

Queued(o, n) ==
    LET again == o.len + n > Cap /\ o.off = o.len
        at == IF again THEN 0 ELSE o.len
    IN  [cell |-> [i \in 0 .. Cap - 1 |->
                      IF i \in at .. at + n - 1 THEN made + 1 + i - at ELSE o.cell[i]],
         off |-> IF again THEN 0 ELSE o.off, len |-> at + n]

MayMake(n) == n \in 0 .. MaxReply /\ made + n <= MaxBytes

\* submit_send
Submitted(sending, o) ==
    IF sending # NoSend \/ Rest(o) = 0 THEN sending
    ELSE [NoSend EXCEPT !.from = o.off, !.n = Rest(o),
                        !.zc = ZeroCopy /\ Rest(o) >= ZcMin]

\* close_conn: what becomes of the slot is in module EventLoop.
Close ==
    /\ state' = "FREE"
    /\ out' = EmptyBuf(out.cell)
    /\ send' = NoSend
    /\ read' = {}
    /\ wantOut' = FALSE
    /\ binds' = 0
    /\ draining' = FALSE
    /\ UNCHANGED <<made, history>>

-----------------------------------------------------------------------------
(* Plain mode.                                                              *)

\* OP_RECV: some messages, Binds among them. A Terminate closes at once.
Recv(k, n) ==
    /\ mode = "plain" /\ ~draining /\ read # {} /\ k \in 1 .. inq /\ MayMake(n)
    /\ inq' = inq - k
    /\ \/ /\ state = "ACTIVE" /\ Fits(out, n)
          /\ out' = Queued(out, n)
          /\ made' = made + n
          /\ send' = Submitted(send, out')
          /\ binds' \in binds .. binds + k
          /\ UNCHANGED <<state, read, wantOut, draining, history>>
       \/ Close
    /\ UNCHANGED <<mode, sock, hs, clientVars>>

\* recv returns 0: closed in the same handler.
RecvEnd ==
    /\ mode = "plain" /\ ~draining /\ read # {} /\ hup /\ inq = 0
    /\ Close
    /\ UNCHANGED <<mode, sock, hs, inq, clientVars>>

\* The kernel takes a part of the send in flight, or finds the client gone.
KernelSends(n) ==
    /\ send # NoSend /\ ~send.done
    /\ \/ /\ n \in 1 .. send.n /\ n <= Room
          /\ sock' = sock \o
                [i \in 1 .. n |-> IF send.zc THEN Lent(send.from + i - 1)
                                   ELSE Copied(out.cell[send.from + i - 1])]
       \/ n = 0 /\ hup /\ UNCHANGED sock
    /\ send' = [send EXCEPT !.res = n, !.done = TRUE]
    /\ UNCHANGED <<mode, state, out, read, wantOut, binds, draining, made, hs, inq,
                   clientVars, history>>

\* Faulty variant: the rest of a send that was taken in part is left for later.
SendDoneOnce ==
    /\ send.done /\ ~draining
    /\ \/ send.res = 0 /\ Close
       \/ /\ send.res > 0
          /\ out' = IF send.res < Rest(out) THEN [out EXCEPT !.off = @ + send.res]
                                            ELSE EmptyBuf(out.cell)
          /\ send' = NoSend
          /\ UNCHANGED <<state, read, wantOut, binds, draining, made, history>>
    /\ UNCHANGED <<mode, sock, hs, inq, clientVars>>

\* OP_SEND. A connection in CS_CLOSING stays until its replies have left.
SendDone ==
    /\ send.done /\ ~draining
    /\ \/ send.res = 0 /\ Close
       \/ send.res > 0 /\ send.res >= Rest(out) /\ state = "CLOSING" /\ Close
       \/ /\ send.res > 0
          /\ send.res < Rest(out) \/ state # "CLOSING"
          /\ out' = IF send.res < Rest(out) THEN [out EXCEPT !.off = @ + send.res]
                                            ELSE EmptyBuf(out.cell)
          /\ send' = Submitted(NoSend, out')
          /\ UNCHANGED <<state, read, wantOut, binds, draining, made, history>>
    /\ UNCHANGED <<mode, sock, hs, inq, clientVars>>

-----------------------------------------------------------------------------
(* A pipeline ends at the backend (backend_async_complete, -_fail, then     *)
(* after_backend_release and drain_fe_queue). Its replies, and those to the *)
(* messages queued behind it, are made outside of the handlers of the       *)
(* client's socket, where a poll or a recv is in flight. The handler runs   *)
(* to its end before another one starts; kernel and client go on meanwhile. *)

\* queue_plain_send, outside of the handlers of the client's socket.
QueuePlainSend(n) ==
    /\ Fits(out, n)
    /\ out' = Queued(out, n)
    /\ made' = made + n
    /\ send' = IF mode = "plain" THEN Submitted(send, out') ELSE send
    /\ wantOut' = (wantOut \/ (mode = "tls" /\ n > 0))
    /\ late' = (late \/ (mode = "tls" /\ n > 0 /\ "out" \notin read))
    /\ UNCHANGED <<read, dropped>>

\* The replies of the pipeline: without room for them the connection is closed.
\* After an error the queued messages are discarded.
BackendReply(n) ==
    /\ binds > 0 /\ ~draining /\ MayMake(n)
    /\ \/ /\ QueuePlainSend(n)
          /\ binds' \in {binds - 1, 0}
          /\ draining' = TRUE
          /\ UNCHANGED state
       \/ ~Fits(out, n) /\ Close
    /\ UNCHANGED <<mode, sock, hs, inq, clientVars>>

\* A queued Sync with a held reply, or a queued Query: what queue_plain_send
\* returns is ignored, and a reply for which there is no room is gone.
DrainReply(n) ==
    /\ draining /\ n > 0 /\ MayMake(n)
    /\ \/ QueuePlainSend(n)
       \/ /\ ~Fits(out, n)
          /\ dropped' = TRUE
          /\ UNCHANGED <<out, made, send, read, wantOut, late>>
    /\ UNCHANGED <<mode, state, binds, draining, sock, hs, inq, clientVars>>

\* The drain ends at the next Bind or with the queue empty, and hands over what
\* it has made in the wire's own buffer. A queued Terminate may have been met.
DrainEnd(n) ==
    /\ draining /\ MayMake(n)
    /\ \/ /\ QueuePlainSend(n)
          /\ draining' = FALSE
          /\ state' \in {state, "CLOSING"}
          /\ UNCHANGED binds
       \/ ~Fits(out, n) /\ Close
    /\ UNCHANGED <<mode, sock, hs, inq, clientVars>>

-----------------------------------------------------------------------------
(* TLS mode: on_tls_poll.                                                   *)

Events(writable) == IF writable THEN {"in", "out"} ELSE {"in"}

Reported ==
    read \intersect ((IF inq > 0 \/ hup THEN {"in"} ELSE {})
                        \union (IF Room > 0 THEN {"out"} ELSE {}))

\* A handshake or a record that SSL refuses.
SslFails ==
    /\ mode = "tls" /\ ~draining /\ read # {} /\ inq > 0
    /\ Close
    /\ UNCHANGED <<mode, sock, hs, inq, clientVars>>

\* POLLHUP or POLLERR.
PollFails ==
    /\ mode = "tls" /\ ~draining /\ read # {} /\ hup
    /\ Close
    /\ UNCHANGED <<mode, sock, hs, inq, clientVars>>

\* Faulty variant: the poll is not armed again.
HandshakeUnarmed ==
    /\ mode = "tls" /\ state = "TLS_HS" /\ Reported # {}
    /\ \E blocked \in BOOLEAN :
          LET k == IF inq > 0 /\ hs > 0 THEN 1 ELSE 0
          IN  /\ inq' = inq - k
              /\ hs' = hs - k
              /\ hs' > 0 \/ blocked
              /\ wantOut' = blocked
              /\ read' = {}
    /\ UNCHANGED <<mode, state, out, send, binds, draining, made, sock, clientVars,
                   history>>

\* The handshake goes on: it reads a message if there is one, and waits for
\* the socket if its own did not fit.
Handshake ==
    /\ mode = "tls" /\ state = "TLS_HS" /\ Reported # {}
    /\ \E blocked \in BOOLEAN :
          LET k == IF inq > 0 /\ hs > 0 THEN 1 ELSE 0
          IN  /\ inq' = inq - k
              /\ hs' = hs - k
              /\ hs' > 0 \/ blocked
              /\ wantOut' = blocked
              /\ read' = Events(blocked)
    /\ UNCHANGED <<mode, state, out, send, binds, draining, made, sock, clientVars,
                   history>>

\* tls_drive_write: SSL_write until all is written or the socket is full.
Written(o, room) ==
    LET w == IF Rest(o) < room THEN Rest(o) ELSE room
    IN  [out |-> IF w = Rest(o) THEN EmptyBuf(o.cell) ELSE [o EXCEPT !.off = @ + w],
         bytes |-> [i \in 1 .. w |-> Copied(o.cell[o.off + i - 1])]]

\* The handshake is over, with this message or before: write, read all there is,
\* and write again what that has made.
Drive(n) ==
    /\ mode = "tls" /\ ~draining /\ Reported # {} /\ MayMake(n)
    /\ state = "TLS_HS" => hs <= 1 /\ hs <= inq
    /\ LET rev == Reported
           k == IF "in" \in rev THEN inq - hs ELSE 0
           w1 == IF "out" \in rev THEN Written(out, Room)
                                   ELSE [out |-> out, bytes |-> <<>>]
           o2 == Queued(w1.out, n)
           w2 == Written(o2, Room - Len(w1.bytes))
           idle == "out" \notin rev /\ Rest(o2) = 0    \* nothing to write
       IN  /\ n > 0 => k > 0
           /\ inq' = inq - hs - k
           /\ hs' = 0
           /\ \/ /\ ~Fits(w1.out, n)
                 /\ sock' = sock \o w1.bytes
                 /\ Close
              \/ /\ Fits(w1.out, n)
                 /\ sock' = sock \o w1.bytes \o w2.bytes
                 /\ \E st \in {IF state = "CLOSING" THEN state ELSE "ACTIVE"}
                                \union (IF k > 0 THEN {"CLOSING"} ELSE {}) :
                       LET ended == st = "CLOSING" \/ (hup /\ "in" \in rev)
                       IN  IF ended /\ w2.out.len = 0
                             THEN Close
                             ELSE /\ state' = IF ended THEN "CLOSING" ELSE st
                                  /\ out' = w2.out
                                  /\ made' = made + n
                                  /\ binds' \in binds .. binds + k
                                  /\ wantOut' = (w2.out.len > 0 \/ (idle /\ wantOut))
                                  /\ read' = Events(n > 0 \/ wantOut')
                                  /\ late' = FALSE
                                  /\ UNCHANGED <<send, draining, dropped>>
    /\ UNCHANGED <<mode, clientVars>>

-----------------------------------------------------------------------------
(* The client.                                                              *)

ClientSends ==
    /\ ~hup /\ state # "FREE" /\ sent < MaxMsgs
    /\ sent' = sent + 1
    /\ inq' = inq + 1
    /\ UNCHANGED <<mode, connVars, sock, hs, seen, hup, history>>

ClientReads ==
    /\ ~hup /\ sock # <<>>
    /\ sock' = Tail(sock)
    /\ seen' = seen + 1
    /\ UNCHANGED <<mode, connVars, hs, inq, sent, hup, history>>

HangUp ==
    /\ ~hup /\ state # "FREE"
    /\ hup' = TRUE
    /\ UNCHANGED <<mode, connVars, sock, hs, inq, seen, sent, history>>

-----------------------------------------------------------------------------
Next ==
    \/ \E k \in 1 .. MaxMsgs, n \in 0 .. MaxReply : Recv(k, n)
    \/ RecvEnd
    \/ \E n \in 0 .. Cap : KernelSends(n)
    \/ SendDone
    \/ \E n \in 0 .. MaxReply : BackendReply(n) \/ DrainReply(n) \/ DrainEnd(n)
    \/ PollFails \/ SslFails
    \/ Handshake
    \/ \E n \in 0 .. MaxReply : Drive(n)
    \/ ClientSends \/ ClientReads \/ HangUp

Spec == Init /\ [][Next]_vars

\* The kernel and the loop go on, and the client reads. A poll that reports an
\* event is handled, by a handler that may make any reply.
FairSpec ==
    /\ Spec
    /\ WF_vars(\E n \in 0 .. Cap : KernelSends(n))
    /\ WF_vars(SendDone)
    /\ WF_vars(\E n \in 0 .. MaxReply : DrainEnd(n))
    /\ WF_vars(RecvEnd \/ \E k \in 1 .. MaxMsgs, n \in 0 .. MaxReply : Recv(k, n))
    /\ WF_vars(PollFails)
    /\ WF_vars(Handshake \/ \E n \in 0 .. MaxReply : Drive(n))
    /\ WF_vars(ClientReads)

-----------------------------------------------------------------------------
\* Offset and length of the send buffer stay in order and within it, whatever
\* is queued, taken and reset (queue_plain_send, the send completions).
TypeOK ==
    /\ mode \in Modes
    /\ state \in {"TLS_HS", "ACTIVE", "CLOSING", "FREE"}
    /\ out \in [cell : [0 .. Cap - 1 -> 0 .. MaxBytes], off : 0 .. Cap, len : 0 .. Cap]
    /\ out.off <= out.len
    /\ send \in [from : 0 .. Cap, n : 0 .. Cap, zc : BOOLEAN, res : 0 .. Cap,
                 done : BOOLEAN]
    /\ read \subseteq {"in", "out"}
    /\ wantOut \in BOOLEAN /\ draining \in BOOLEAN /\ hup \in BOOLEAN
    /\ late \in BOOLEAN /\ dropped \in BOOLEAN
    /\ binds \in 0 .. MaxMsgs
    /\ made \in 0 .. MaxBytes /\ seen \in 0 .. MaxBytes
    /\ Len(sock) <= SockCap
    /\ hs \in 0 .. Flights
    /\ inq \in 0 .. MaxMsgs /\ sent \in 0 .. MaxMsgs

\* The bytes of the send in flight that the kernel has taken already.
Taken == IF send.done THEN send.res ELSE 0

\* Every byte that queue_plain_send has taken is in one place, in order: what the
\* client has read, what the kernel holds, what is still in the buffer. However a
\* send is taken in parts, whatever is queued behind it or dropped meanwhile, and
\* whenever the buffer is reset.
QueuedOnceInOrder ==
    /\ \A i \in 1 .. Len(sock) : Value(sock[i]) = seen + i
    /\ state # "FREE" =>
          /\ made = seen + Len(sock) + Rest(out) - Taken
          /\ \A i \in 1 .. Rest(out) - Taken :
                out.cell[out.off + Taken + i - 1] = seen + Len(sock) + i

\* A byte that queue_plain_send has taken reaches a client that keeps reading,
\* unless the connection is closed - in TLS mode, unless it was queued by a backend
\* completion and the client has not been heard of since.
QueuedArrives ==
    \A k \in 1 .. MaxBytes :
        made >= k ~> seen >= k \/ state = "FREE" \/ hup \/ late

\* A reply for which there is no room takes the connection with it, so that no
\* client waits for it in vain. Replies to queued messages break this.
NothingDropped == ~dropped

\* A connection whose client has gone is closed, whatever was under way.
HangUpFrees == hup ~> state = "FREE"

\* "Buffer plaintext; drained via SSL_write on POLLOUT" (iouring_loop.c:408):
\* while plaintext is buffered the poll in flight asks for POLLOUT.
BufferedAsksForPollout ==
    mode = "tls" /\ state # "FREE" /\ Rest(out) > 0 => "out" \in read

===============================================================================
