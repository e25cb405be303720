--------------------------- MODULE EventLoopProofs ---------------------------
(****************************************************************************)
(* Every client descriptor belongs to one connection, but for those whose   *)
(* set-up failed half-way, and everybody is heard, for any number of slots, *)
(* clients, backends and sessions, although slots and descriptors change    *)
(* hands while operations on them are in the kernel.                        *)
(*                                                                          *)
(* Whoever waits for a backend is in the wait ring once; and as long as no  *)
(* operation has met a connection it was not meant for, a busy backend      *)
(* serves one connection, exactly one operation on its session is under     *)
(* way, and the reply goes to the client that asked.                        *)
(****************************************************************************)
EXTENDS EventLoop, DataLemmas

Conns ==
    [state : {"FREE", "TLS_HS", "ACTIVE"}, id : 0 .. MaxAccepts,
     ask : 0 .. MaxAccepts, dirty : BOOLEAN, read : BOOLEAN,
     send : BOOLEAN, more : BOOLEAN, be : Backends \union {None},
     beSend : BOOLEAN, beRecv : BOOLEAN,
     wait : {"IDLE", "SENDING", "READING", "WAITING_POOL"}]

\* What a handler prepares names a client's descriptor, a backend's or the
\* listener's.
Prepares(op) ==
    /\ op = Op(op.op, op.slot, op.on) /\ op.slot \in Slots
    /\ \/ op.op = "accept" /\ op.on = Listen
       \/ op.op \in {"recv", "poll", "send"} /\ op.on \in {Client(k) : k \in Clients}
       \/ op.op \in {"be_send", "be_recv"} /\ op.on \in Backends

LoopTypes ==
    /\ TypeOK
    /\ unsent \in [Backends -> BOOLEAN]
    /\ accepted \in 0 .. MaxAccepts
    /\ here \subseteq 1 .. accepted
    /\ open \subseteq 1 .. accepted
    /\ \A op \in prepared : Prepares(op)
    /\ \A s \in Slots : conn[s].state = "FREE" => conn[s].wait = "IDLE"
    /\ pc = "close" => cur \in Connected
    /\ pc = "wait" => prepared = {}

Owned ==
    /\ open \ leaked = {conn[s].id : s \in Connected}
    /\ leaked \subseteq open
    /\ \A s, t \in Connected : conn[s].id = conn[t].id => s = t

Coming == prepared \union DOMAIN flight

Armed(s) == conn[s].read /\ Op(ReadOp, s, Client(conn[s].id)) \in Coming

\* A connection about to be closed need not be heard any more.
Heard ==
    /\ Op("accept", 0, Listen) \in Coming
    /\ \A s \in Connected : Armed(s) \/ (pc = "close" /\ s = cur)

SocketOps == {"recv", "poll", "send"}

\* What is under way for a slot that was clean when it was taken is on the socket
\* of the connection that has it.
Undisturbed ==
    \A s \in Connected : ~conn[s].dirty =>
        \A op \in Coming : op.slot = s /\ op.op \in SocketOps =>
            op.on \in {Client(conn[s].id), NoFile}

LoopInv == LoopTypes /\ Owned /\ Heard /\ Undisturbed

-----------------------------------------------------------------------------
(* The wait ring: fields in their range.                                    *)

LEMMA RingCells ==
    /\ 0 \in Slots
    /\ \A x \in Int : x % MaxConns \in Slots
    /\ Ring!Cells = Slots
<1>1. MaxConns \in Nat \ {0}
  BY LoopAssumption
<1>2. \A x \in Int : x % MaxConns \in 0 .. MaxConns - 1
  BY <1>1
<1> QED
  BY <1>1, <1>2 DEF Slots, Ring!Cells

LEMMA RingPush ==
    ASSUME NEW r \in Ring!Rings(Slots), NEW s \in Slots
    PROVE  /\ Ring!PushOnce(r, s) \in Ring!Rings(Slots)
           /\ Ring!PushOnce(r, s).count >= r.count
<1>1. /\ r.cell \in [Slots -> Slots] /\ r.head \in Slots /\ r.tail \in Slots
      /\ r.count \in 0 .. MaxConns
  BY RingCells DEF Ring!Rings
<1>2. MaxConns \in Nat /\ r.tail + 1 \in Int
  BY <1>1, LoopAssumption DEF Slots
<1>3. CASE ~Ring!Holds(r, s) /\ ~Ring!Full(r)
  <2>1. Ring!PushOnce(r, s) =
          [cell |-> [r.cell EXCEPT ![r.tail] = s], head |-> r.head,
           tail |-> (r.tail + 1) % MaxConns, count |-> r.count + 1]
    BY <1>3 DEF Ring!PushOnce, Ring!Push
  <2>2. r.count + 1 \in 0 .. MaxConns
    BY <1>1, <1>2, <1>3 DEF Ring!Full
  <2>3. (r.tail + 1) % MaxConns \in Slots
    BY <1>2, RingCells
  <2>4. [r.cell EXCEPT ![r.tail] = s] \in [Slots -> Slots]
    BY <1>1
  <2> QED
    BY <1>1, <2>1, <2>2, <2>3, <2>4, RingCells DEF Ring!Rings
<1>4. CASE Ring!Holds(r, s) \/ Ring!Full(r)
  BY <1>1, <1>4 DEF Ring!PushOnce, Ring!Push
<1> QED
  BY <1>3, <1>4

LEMMA RingPop ==
    ASSUME NEW r \in Ring!Rings(Slots), r.count > 0
    PROVE  /\ Ring!Pop(r) \in Ring!Rings(Slots)
           /\ Ring!Pop(r).count = r.count - 1
           /\ Ring!First(r) \in Slots
<1>1. /\ r.cell \in [Slots -> Slots] /\ r.head \in Slots /\ r.tail \in Slots
      /\ r.count \in 0 .. MaxConns
  BY RingCells DEF Ring!Rings
<1>2. r.head + 1 \in Int
  BY <1>1 DEF Slots
<1>3. (r.head + 1) % MaxConns \in Slots
  BY <1>2, RingCells
<1>4. r.count - 1 \in 0 .. MaxConns
  BY <1>1, LoopAssumption
<1> QED
  BY <1>1, <1>3, <1>4, RingCells DEF Ring!Pop, Ring!First, Ring!Rings

LEMMA RingTakeOut ==
    ASSUME NEW r \in Ring!Rings(Slots), NEW s \in Slots
    PROVE  Ring!TakeOut(r, s) \in Ring!Rings(Slots)
<1>1. /\ r.cell \in [Slots -> Slots] /\ r.head \in Slots /\ r.tail \in Slots
      /\ r.count \in 0 .. MaxConns
  BY RingCells DEF Ring!Rings
<1>2. CASE Ring!Holds(r, s)
  <2> DEFINE k == CHOOSE i \in 0 .. r.count - 1 : r.cell[Ring!Cell(r, i)] = s
             moved == [i \in Slots |->
                         IF i >= r.count - 1 THEN r.cell[i]
                         ELSE r.cell[Ring!Cell(r, IF i < k THEN i ELSE i + 1)]]
  <2>1. Ring!TakeOut(r, s) =
          [cell |-> moved, head |-> 0,
           tail |-> (r.count - 1) % MaxConns, count |-> r.count - 1]
    BY <1>2, RingCells DEF Ring!TakeOut
  <2>2. r.count - 1 \in 0 .. MaxConns
    <3>1. PICK i \in 0 .. r.count - 1 : r.cell[Ring!Cell(r, i)] = s
      BY <1>2 DEF Ring!Holds
    <3> QED
      BY <1>1, <3>1, LoopAssumption
  <2>3. \A i \in Int : Ring!Cell(r, i) \in Slots
    <3>1. \A i \in Int : r.head + i \in Int
      BY <1>1 DEF Slots
    <3> QED
      BY <3>1, RingCells DEF Ring!Cell
  <2>4. moved \in [Slots -> Slots]
    <3>1. ASSUME NEW i \in Slots
          PROVE  r.cell[Ring!Cell(r, IF i < k THEN i ELSE i + 1)] \in Slots
      <4>1. (IF i < k THEN i ELSE i + 1) \in Int
        BY DEF Slots
      <4> QED
        BY <1>1, <2>3, <4>1
    <3> QED
      BY <1>1, <3>1
  <2>5. (r.count - 1) % MaxConns \in Slots
    BY <2>2, RingCells
  <2> HIDE DEF moved
  <2> QED
    BY <2>1, <2>2, <2>4, <2>5, RingCells DEF Ring!Rings
<1>3. CASE ~Ring!Holds(r, s)
  BY <1>3 DEF Ring!TakeOut
<1> QED
  BY <1>2, <1>3

-----------------------------------------------------------------------------
(* Bags.                                                                    *)

LEMMA TakenFromBag ==
    ASSUME NEW b, NEW e
    PROVE  /\ DOMAIN BagRemove(b, e) \subseteq DOMAIN b
           /\ \A x \in DOMAIN b : x # e => x \in DOMAIN BagRemove(b, e)
BY DEF BagRemove

-----------------------------------------------------------------------------
(* What the helpers of the handlers do to a connection.                     *)

\* The connection stays who it is; if it reads now and did not before, a read of
\* its own socket has been prepared.
Tame(s, c, r) ==
    /\ r.c \in Conns
    /\ r.c.state = c.state /\ r.c.id = c.id /\ r.c.dirty = c.dirty
    /\ \A op \in r.ops : /\ Prepares(op) /\ op.slot = s
                         /\ op.op \in SocketOps => op.on = Client(c.id)
    /\ \/ r.c.read = c.read
       \/ r.c.read /\ Op(ReadOp, s, Client(c.id)) \in r.ops

LEMMA HelpersTame ==
    ASSUME NEW s \in Slots, NEW c \in Conns, c.id \in Clients
    PROVE  /\ Tame(s, c, With(c, {}))
           /\ Tame(s, c, SubmitRead(s, c)) /\ SubmitRead(s, c).c.read
           /\ Tame(s, c, SubmitSend(s, c))
           /\ Tame(s, c, QueueReply(s, c))
           /\ Tame(s, c, SubmitBeRecv(s, c))
           /\ \A bytes \in BOOLEAN : Tame(s, c, SubmitBeSend(s, c, bytes))
<1>1. /\ Prepares(Op(ReadOp, s, Client(c.id)))
      /\ Prepares(Op("send", s, Client(c.id)))
      /\ c.be # None => Prepares(Op("be_recv", s, c.be)) /\ Prepares(Op("be_send", s, c.be))
      /\ \A kind, on : LET o == Op(kind, s, on) IN o.slot = s /\ o.op = kind /\ o.on = on
      /\ "be_send" \notin SocketOps /\ "be_recv" \notin SocketOps
  BY DEF Prepares, Op, ReadOp, Conns, SocketOps
<1>2. Tame(s, c, With(c, {}))
  BY DEF Tame, With
<1>3. Tame(s, c, SubmitRead(s, c)) /\ SubmitRead(s, c).c.read
  <2>1. CASE c.read
    BY <1>2, <2>1 DEF SubmitRead, With
  <2>2. CASE ~c.read
    <3> DEFINE d == [c EXCEPT !.read = TRUE]
               o == Op(ReadOp, s, Client(c.id))
    <3>1. d \in Conns /\ d.id = c.id /\ d.dirty = c.dirty /\ d.state = c.state /\ d.read
      BY DEF Conns
    <3>2. SubmitRead(s, c).c = d /\ SubmitRead(s, c).ops = {o}
      BY <2>2 DEF SubmitRead, With
    <3>3. Prepares(o) /\ o.slot = s /\ o.on = Client(c.id)
      BY <1>1
    <3> HIDE DEF d, o
    <3>4. o = Op(ReadOp, s, Client(c.id))
      BY DEF o
    <3> QED
      BY <3>1, <3>2, <3>3, <3>4 DEF Tame
  <2> QED
    BY <2>1, <2>2
<1>4. Tame(s, c, SubmitSend(s, c))
  <2>1. CASE c.send
    <3>1. /\ [c EXCEPT !.more = TRUE] \in Conns
          /\ SubmitSend(s, c).c = [c EXCEPT !.more = TRUE] /\ SubmitSend(s, c).ops = {}
      BY <2>1 DEF With, SubmitSend, Conns
    <3> QED
      BY <3>1 DEF Tame, Conns
  <2>2. CASE ~c.send
    <3>1. /\ [c EXCEPT !.send = TRUE, !.more = FALSE] \in Conns
          /\ SubmitSend(s, c).c = [c EXCEPT !.send = TRUE, !.more = FALSE]
          /\ SubmitSend(s, c).ops = {Op("send", s, Client(c.id))}
      BY <2>2 DEF With, SubmitSend, Conns
    <3> QED
      BY <1>1, <3>1 DEF Tame, Conns
  <2> QED
    BY <2>1, <2>2
<1>5. Tame(s, c, QueueReply(s, c))
  BY <1>3, <1>4 DEF QueueReply
<1>6. ASSUME NEW d \in Conns, d.id = c.id
      /\ d.dirty = c.dirty, d.state = c.state, d.be = c.be, d.read = c.read
      PROVE  Tame(s, c, SubmitBeRecv(s, d))
  <2>1. CASE d.be = None \/ d.beRecv
    <3>1. SubmitBeRecv(s, d).c = d /\ SubmitBeRecv(s, d).ops = {}
      BY <2>1 DEF With, SubmitBeRecv
    <3> QED
      BY <1>6, <3>1 DEF Tame
  <2>2. CASE d.be # None /\ ~d.beRecv
    <3> DEFINE e == [d EXCEPT !.beRecv = TRUE, !.wait = "READING"]
    <3>1. /\ e \in Conns
          /\ e.id = d.id /\ e.dirty = d.dirty /\ e.state = d.state /\ e.read = d.read
      BY DEF Conns
    <3>2. SubmitBeRecv(s, d).c = e /\ SubmitBeRecv(s, d).ops = {Op("be_recv", s, d.be)}
      BY <2>2 DEF With, SubmitBeRecv
    <3>3. /\ Prepares(Op("be_recv", s, d.be)) /\ Op("be_recv", s, d.be).slot = s
          /\ Op("be_recv", s, d.be).op \notin SocketOps
      BY <1>1, <1>6, <2>2
    <3> HIDE DEF e
    <3> QED
      BY <1>6, <3>1, <3>2, <3>3 DEF Tame
  <2> QED
    BY <2>1, <2>2
<1>7. ASSUME NEW bytes \in BOOLEAN
      PROVE  Tame(s, c, SubmitBeSend(s, c, bytes))
  <2>1. CASE c.be = None \/ c.beSend
    BY <1>2, <2>1 DEF SubmitBeSend, With
  <2>2. CASE ~(c.be = None \/ c.beSend) /\ bytes
    <3> DEFINE e == [c EXCEPT !.beSend = TRUE, !.wait = "SENDING"]
    <3>1. /\ e \in Conns
          /\ e.id = c.id /\ e.dirty = c.dirty /\ e.state = c.state /\ e.read = c.read
      BY DEF Conns
    <3>2. /\ SubmitBeSend(s, c, bytes).c = e
          /\ SubmitBeSend(s, c, bytes).ops = {Op("be_send", s, c.be)}
      BY <2>2 DEF With, SubmitBeSend
    <3>3. /\ Prepares(Op("be_send", s, c.be)) /\ Op("be_send", s, c.be).slot = s
          /\ Op("be_send", s, c.be).op \notin SocketOps
      BY <1>1, <2>2
    <3> HIDE DEF e
    <3> QED
      BY <3>1, <3>2, <3>3 DEF Tame
  <2>3. CASE ~(c.be = None \/ c.beSend) /\ ~bytes
    <3> DEFINE d == [c EXCEPT !.wait = "READING"]
    <3>1. /\ d \in Conns /\ d.id = c.id /\ d.dirty = c.dirty /\ d.state = c.state /\ d.be = c.be
          /\ d.read = c.read
      BY DEF Conns
    <3>2. SubmitBeSend(s, c, bytes) = SubmitBeRecv(s, d)
      BY <2>3 DEF SubmitBeSend
    <3> HIDE DEF d
    <3> QED
      BY <1>6, <3>1, <3>2
  <2> QED
    BY <2>1, <2>2, <2>3
<1> QED
  BY <1>2, <1>3, <1>4, <1>5, <1>6, <1>7

\* The end of a handler arms the read again.
LEMMA RearmedTame ==
    ASSUME NEW s \in Slots, NEW c \in Conns, c.id \in Clients, NEW r, Tame(s, c, r)
    PROVE  Tame(s, c, Rearmed(s, r)) /\ Rearmed(s, r).c.read
<1> DEFINE again == SubmitRead(s, r.c)
<1>1. Tame(s, r.c, again) /\ again.c.read
  BY HelpersTame DEF Tame
<1>2. Rearmed(s, r).c = again.c /\ Rearmed(s, r).ops = r.ops \union again.ops
  BY DEF Rearmed, With
<1> HIDE DEF again
<1> QED
  BY <1>1, <1>2 DEF Tame

-----------------------------------------------------------------------------
(* One handler at one connection. What distinguishes the handlers are the   *)
(* connection they leave and what they have prepared.                       *)

PoolTypes(p) ==
    p \in [Backends -> [alive : BOOLEAN, busy : BOOLEAN, login : 0 .. MaxSessions]]

Idents == /\ DOMAIN conn = Slots
          /\ \A s \in Connected : s \in Slots /\ conn[s] \in Conns /\ conn[s].id \in Clients

LEMMA WhoIsConnected ==
    ASSUME LoopInv
    PROVE  /\ Idents
           /\ \A s \in Connected : conn[s].id \in open /\ conn[s].id \in 1 .. accepted
           /\ \A s \in Slots : s \notin Connected => conn[s].wait = "IDLE"
<1>1. conn \in [Slots -> Conns]
  BY DEF LoopInv, LoopTypes, TypeOK, Conns
<1>2. \A s \in Connected : conn[s].id \in open
  BY DEF LoopInv, Owned
<1>3. open \subseteq 1 .. accepted /\ open \subseteq Clients
  BY DEF LoopInv, LoopTypes, TypeOK
<1> QED
  BY <1>1, <1>2, <1>3 DEF Idents, Connected, LoopInv, LoopTypes

\* Nothing in flight is lost but an operation of this slot.
Keeps(s) ==
    /\ DOMAIN flight' \subseteq DOMAIN flight
    /\ \A x \in DOMAIN flight : x \in DOMAIN flight' \/ (x.slot = s /\ x.op # "accept")

LEMMA HandlerSafe ==
    ASSUME LoopInv, pc # "close",
           NEW s \in Connected, NEW r,
           r.c \in Conns, r.c.state # "FREE", r.c.id = conn[s].id /\ r.c.dirty = conn[s].dirty,
           \A op \in r.ops : /\ Prepares(op) /\ op.slot = s
                             /\ op.op \in SocketOps => op.on = Client(r.c.id),
           Handled(s, r), Keeps(s),
           \/ r.c.read /\ Op(ReadOp, s, Client(r.c.id)) \in prepared' \union DOMAIN flight'
           \/ pc' = "close" /\ cur' = s,
           pc' \in {"close", "grant", "submit"},
           pc' = "close" => cur' = s,
           waiters' \in Ring!Rings(Slots), left' \in 0 .. waiters'.count,
           PoolTypes(sess'), unsent' \in [Backends -> BOOLEAN],
           UNCHANGED <<mode, clientVars>>
    PROVE  LoopInv'
<1> USE DEF clientVars
<1>1. /\ conn \in [Slots -> Conns] /\ s \in Slots /\ conn[s].state # "FREE"
      /\ conn' = [conn EXCEPT ![s] = r.c]
      /\ prepared' = prepared \union r.ops
  BY WhoIsConnected DEF LoopInv, LoopTypes, TypeOK, Conns, Handled, Connected
<1>2. conn' \in [Slots -> Conns]
  BY <1>1
<1>3. /\ Connected' = Connected
      /\ \A t \in Slots : conn'[t].id = conn[t].id /\ conn'[t].dirty = conn[t].dirty
      /\ \A t \in Slots : t # s => conn'[t] = conn[t]
      /\ conn'[s] = r.c
  BY <1>1 DEF Connected
<1>4. LoopTypes'
  <2>1. TypeOK'
    BY <1>2 DEF TypeOK, LoopInv, LoopTypes, PoolTypes, Keeps, Conns, Files, Client
  <2>2. \A op \in prepared' : Prepares(op)
    BY <1>1 DEF LoopInv, LoopTypes
  <2>3. \A op \in prepared' : Prepares(op)'
    BY <2>2 DEF Prepares
  <2>4. \A t \in Slots : conn'[t].state = "FREE" => conn'[t].wait = "IDLE"
    BY <1>3 DEF LoopInv, LoopTypes
  <2> QED
    BY <1>3, <2>1, <2>3, <2>4 DEF LoopInv, LoopTypes
<1>5. Owned'
  <2>1. \A t \in Connected : t \in Slots
    BY DEF Connected
  <2>2. {conn'[t].id : t \in Connected'} = {conn[t].id : t \in Connected}
    BY <1>3, <2>1
  <2>3. \A t, u \in Connected : conn[t].id = conn[u].id => t = u
    BY DEF LoopInv, Owned
  <2> QED
    BY <1>3, <2>1, <2>2, <2>3 DEF LoopInv, Owned
<1>6. Heard'
  <2>1. Op("accept", 0, Listen) \in Coming'
    BY <1>1 DEF LoopInv, Heard, Coming, Keeps, Op
  <2>2. ASSUME NEW t \in Connected, t # s
        PROVE  Armed(t)'
    <3>1. conn[t].read /\ Op(ReadOp, t, Client(conn[t].id)) \in Coming
      BY DEF LoopInv, Heard, Armed
    <3>2. Op(ReadOp, t, Client(conn[t].id)) \in Coming'
      BY <1>1, <2>2, <3>1 DEF Coming, Keeps, Op
    <3>3. t \in Slots /\ ReadOp' = ReadOp
      BY DEF Connected, ReadOp
    <3> QED
      BY <1>3, <2>2, <3>1, <3>2, <3>3 DEF Armed
  <2>3. Armed(s)' \/ (pc' = "close" /\ cur' = s)
    <3>1. ReadOp' = ReadOp
      BY DEF ReadOp
    <3> QED
      BY <1>3, <3>1 DEF Armed, Coming
  <2> QED
    BY <1>3, <2>1, <2>2, <2>3 DEF Heard
<1>7. Undisturbed'
  <2>1. ASSUME NEW t \in Connected, ~conn[t].dirty, NEW op \in Coming', op.slot = t,
               op.op \in SocketOps
        PROVE  op.on \in {Client(conn[t].id), NoFile}
    <3>1. CASE op \in Coming
      BY <2>1, <3>1 DEF LoopInv, Undisturbed
    <3>2. CASE op \in r.ops
      BY <2>1, <3>2
    <3> QED
      BY <1>1, <2>1, <3>1, <3>2 DEF Coming, Keeps
  <2>2. \A t \in Connected : t \in Slots
    BY DEF Connected
  <2> QED
    BY <1>3, <2>1, <2>2 DEF Undisturbed
<1> QED
  BY <1>4, <1>5, <1>6, <1>7 DEF LoopInv

-----------------------------------------------------------------------------
(* Completions.                                                             *)

LEMMA CompletionFacts ==
    ASSUME LoopInv, NEW op, NEW kind, kind # "accept", Completes(op, kind)
    PROVE  /\ op.slot \in Connected /\ op.slot \in Slots
           /\ conn[op.slot] \in Conns /\ conn[op.slot].id \in Clients
           /\ pc = "wait" /\ prepared = {} /\ op.op = kind
           /\ Keeps(op.slot)
           /\ kind # ReadOp => /\ conn[op.slot].read
                              /\ Op(ReadOp, op.slot, Client(conn[op.slot].id)) \in DOMAIN flight'
<1>1. op \in DOMAIN flight /\ op.op = kind /\ pc = "wait" /\ flight' = BagRemove(flight, op)
  BY DEF Completes, Meets, Takes
<1>2. op.slot \in Slots /\ op.slot \in Connected /\ prepared = {}
  BY <1>1 DEF LoopInv, LoopTypes, TypeOK, Completes, Connected
<1>3. Keeps(op.slot)
  BY <1>1, TakenFromBag DEF Keeps
<1>4. ASSUME kind # ReadOp
      PROVE  /\ conn[op.slot].read
             /\ Op(ReadOp, op.slot, Client(conn[op.slot].id)) \in DOMAIN flight'
  <2>1. /\ conn[op.slot].read
        /\ Op(ReadOp, op.slot, Client(conn[op.slot].id)) \in DOMAIN flight
    BY <1>1, <1>2 DEF LoopInv, Heard, Armed, Coming
  <2>2. Op(ReadOp, op.slot, Client(conn[op.slot].id)) # op
    BY <1>1, <1>4 DEF Op
  <2> QED
    BY <1>1, <2>1, <2>2, TakenFromBag
<1> QED
  BY <1>1, <1>2, <1>3, <1>4, WhoIsConnected DEF Idents

\* A completion that is not of a read leaves the read of its slot alone.
LEMMA StillArmed ==
    ASSUME LoopInv, NEW op, NEW kind, kind # "accept", kind # ReadOp,
           Completes(op, kind), NEW c, NEW r, Tame(op.slot, c, r),
           c.read = conn[op.slot].read, c.id = conn[op.slot].id, c.dirty = conn[op.slot].dirty,
           prepared' = prepared \union r.ops
    PROVE  /\ r.c.read
           /\ Op(ReadOp, op.slot, Client(r.c.id)) \in prepared' \union DOMAIN flight'
BY CompletionFacts DEF Tame

\* Arming the read again after it has completed.
LEMMA ArmedAgain ==
    ASSUME NEW s \in Slots, NEW c \in Conns, c.id \in Clients, ~c.read,
           NEW r, Tame(s, c, r), prepared' = prepared \union Rearmed(s, r).ops
    PROVE  /\ Rearmed(s, r).c.read
           /\ Op(ReadOp, s, Client(Rearmed(s, r).c.id)) \in prepared' \union DOMAIN flight'
           /\ Tame(s, c, Rearmed(s, r))
BY RearmedTame DEF Tame

LEMMA ReadOpIsRead == ReadOp \in {"recv", "poll"}
BY DEF ReadOp

\* The ring and the pool as they are.
LEMMA RestTyped ==
    ASSUME LoopInv
    PROVE  /\ waiters \in Ring!Rings(Slots) /\ left \in 0 .. waiters.count
           /\ waiters.count \in Nat
           /\ PoolTypes(sess) /\ unsent \in [Backends -> BOOLEAN]
           /\ \A b \in Idle : PoolTypes([sess EXCEPT ![b].busy = TRUE])
           /\ \A b \in Backends : PoolTypes([sess EXCEPT ![b].busy = FALSE])
           /\ \A b \in Backends : Lose(b) => PoolTypes(sess')
<1>1. /\ waiters \in Ring!Rings(Slots) /\ left \in 0 .. waiters.count
      /\ PoolTypes(sess) /\ unsent \in [Backends -> BOOLEAN]
  BY DEF LoopInv, LoopTypes, TypeOK, PoolTypes
<1>2. waiters.count \in Nat
  BY <1>1, LoopAssumption DEF Ring!Rings
<1>3. \A b \in Idle : PoolTypes([sess EXCEPT ![b].busy = TRUE])
  BY <1>1 DEF PoolTypes, Idle
<1>4. \A b \in Backends : PoolTypes([sess EXCEPT ![b].busy = FALSE])
  BY <1>1 DEF PoolTypes
<1>5. ASSUME NEW b \in Backends, Lose(b)
      PROVE  PoolTypes(sess')
  <2>1. PICK ok \in BOOLEAN :
          /\ ok => sess[b].login < MaxSessions
          /\ sess' = [sess EXCEPT ![b] = [alive |-> ok, busy |-> FALSE,
                        login |-> IF ok THEN sess[b].login + 1 ELSE sess[b].login]]
    BY <1>5 DEF Lose, MayLogin
  <2>2. /\ sess[b].login \in 0 .. MaxSessions
        /\ (IF ok THEN sess[b].login + 1 ELSE sess[b].login) \in 0 .. MaxSessions
    BY <1>1, <2>1, LoopAssumption DEF PoolTypes
  <2> QED
    BY <1>1, <2>1, <2>2 DEF PoolTypes
<1> QED
  BY <1>1, <1>2, <1>3, <1>4, <1>5

LEMMA ReadsSafe ==
    ASSUME LoopInv, NEW op,
           ReadEnd(op) \/ ReadOther(op) \/ BindStart(op) \/ BindPark(op)
    PROVE  LoopInv'
<1> DEFINE s == op.slot
           u == [conn[s] EXCEPT !.read = FALSE]
<1>1. Completes(op, ReadOp) /\ ReadOp # "accept"
  BY ReadOpIsRead DEF ReadEnd, ReadOther, BindStart, BindPark, ReadsBind
<1>2. /\ s \in Connected /\ s \in Slots /\ conn[s] \in Conns /\ conn[s].id \in Clients
      /\ pc = "wait" /\ prepared = {} /\ Keeps(s)
  BY <1>1, CompletionFacts
<1>3. u \in Conns /\ u.id = conn[s].id /\ u.dirty = conn[s].dirty /\ ~u.read
      /\ u.state = conn[s].state
  BY <1>2 DEF Conns
<1>4. conn[s].state # "FREE"
  BY <1>2 DEF Connected
<1> HIDE DEF u
<1>5. CASE ReadEnd(op)
  <2>1. Handled(s, With(u, {}))
    BY <1>2, <1>5 DEF ReadEnd, Handled, With, u, LoopInv, LoopTypes, TypeOK
  <2>2. pc' = "close" /\ cur' = s /\ waiters' = waiters /\ left' = left
        /\ sess' = sess /\ unsent' = unsent /\ UNCHANGED <<mode, clientVars>>
    BY <1>5 DEF ReadEnd, poolVars
  <2> QED
    BY <1>2, <1>3, <1>4, <2>1, <2>2, RestTyped, HandlerSafe DEF With
<1>6. CASE ReadOther(op)
  <2>1. /\ waiters' = waiters /\ left' = left /\ sess' = sess /\ unsent' = unsent
        /\ UNCHANGED <<mode, clientVars>>
    BY <1>6 DEF ReadOther, poolVars
  <2> DEFINE c == [conn[s] EXCEPT !.read = FALSE, !.state = "ACTIVE"]
             r == With(c, {})
  <2>2. c \in Conns /\ c.id = conn[s].id /\ c.dirty = conn[s].dirty /\ ~c.read /\ c.state = "ACTIVE"
    BY <1>2 DEF Conns
  <2>3. Tame(s, c, r)
    BY <2>2 DEF Tame, With
  <2>4. CASE Handled(s, Rearmed(s, r)) /\ pc' = "submit"
    <3> HIDE DEF c, r
    <3>1. prepared' = prepared \union Rearmed(s, r).ops
      BY <2>4 DEF Handled
    <3>2. /\ Rearmed(s, r).c.read
          /\ Op(ReadOp, s, Client(Rearmed(s, r).c.id)) \in prepared' \union DOMAIN flight'
          /\ Tame(s, c, Rearmed(s, r))
      BY <1>2, <2>2, <2>3, <3>1, ArmedAgain
    <3> QED
      BY <1>2, <2>1, <2>2, <2>4, <3>2, RestTyped, HandlerSafe DEF Tame
  <2>5. CASE conn' = [conn EXCEPT ![s].read = FALSE] /\ pc' = "close" /\ cur' = s
             /\ prepared' = prepared
    <3>1. Handled(s, With(u, {}))
      BY <1>2, <2>5 DEF Handled, With, u, LoopInv, LoopTypes, TypeOK
    <3> QED
      BY <1>2, <1>3, <1>4, <2>1, <2>5, <3>1, RestTyped, HandlerSafe DEF With
  <2> QED
    BY <1>6, <2>4, <2>5 DEF ReadOther
<1>7. CASE BindStart(op)
  <2>1. waiters' = waiters /\ left' = left /\ UNCHANGED <<mode, clientVars>>
    BY <1>7 DEF BindStart
  <2>2. PICK b \in Idle :
          /\ Start(Asker(op), b)
          /\ \/ Handled(s, Rearmed(s, Started(s, u, b))) /\ pc' = "submit"
             \/ Handled(s, Started(s, u, b)) /\ pc' = "close" /\ cur' = s
    BY <1>7 DEF BindStart, Unread, u
  <2>3. PoolTypes(sess') /\ unsent' \in [Backends -> BOOLEAN]
    BY <2>2, RestTyped DEF Start
  <2> DEFINE c == [u EXCEPT !.be = b, !.ask = 0]
             r == Started(s, u, b)
  <2>4. b \in Backends
    BY DEF Idle
  <2>5. c \in Conns /\ c.id = conn[s].id /\ c.dirty = conn[s].dirty /\ ~c.read
        /\ c.state = conn[s].state
    <3>1. 0 \in 0 .. MaxAccepts /\ b \in Backends \union {None}
      BY <2>4, LoopAssumption
    <3>2. u \in Conns => c \in Conns /\ c.id = u.id /\ c.dirty = u.dirty
          /\ c.read = u.read /\ c.state = u.state
      BY <3>1 DEF Conns
    <3> QED
      BY <1>3, <3>2
  <2>6. Tame(s, c, r)
    <3>1. r = SubmitBeSend(s, c, TRUE)
      BY DEF Started
    <3> HIDE DEF c, r
    <3> QED
      BY <1>2, <2>5, <3>1, HelpersTame
  <2> HIDE DEF c
  <2>7. CASE Handled(s, Rearmed(s, r)) /\ pc' = "submit"
    <3> HIDE DEF r
    <3>1. prepared' = prepared \union Rearmed(s, r).ops
      BY <2>7 DEF Handled
    <3>2. /\ Rearmed(s, r).c.read
          /\ Op(ReadOp, s, Client(Rearmed(s, r).c.id)) \in prepared' \union DOMAIN flight'
          /\ Tame(s, c, Rearmed(s, r))
      BY <1>2, <2>5, <2>6, <3>1, ArmedAgain
    <3> QED
      BY <1>2, <1>4, <2>1, <2>3, <2>5, <2>7, <3>2, RestTyped, HandlerSafe DEF Tame
  <2>8. CASE Handled(s, r) /\ pc' = "close" /\ cur' = s
    <3> HIDE DEF r
    <3> QED
      BY <1>2, <1>4, <2>1, <2>3, <2>5, <2>6, <2>8, RestTyped, HandlerSafe DEF Tame
  <2> QED
    BY <2>2, <2>7, <2>8
<1>8. CASE BindPark(op)
  <2> DEFINE c == [u EXCEPT !.wait = "WAITING_POOL", !.ask = Asker(op)]
             r == With(c, {})
  <2>1. /\ Handled(s, Rearmed(s, r))
        /\ waiters' = Ring!PushOnce(waiters, s)
        /\ pc' = "submit" /\ left' = left /\ sess' = sess /\ unsent' = unsent
        /\ UNCHANGED <<mode, clientVars>>
    BY <1>8 DEF BindPark, Unread, u, poolVars
  <2>2. Asker(op) \in 0 .. MaxAccepts
    BY <1>8, LoopAssumption DEF BindPark, ReadsBind, LoopInv, LoopTypes, TypeOK, Clients
  <2>3. c \in Conns /\ c.id = conn[s].id /\ c.dirty = conn[s].dirty /\ ~c.read
        /\ c.state = conn[s].state
    BY <1>3, <2>2 DEF Conns
  <2>4. Tame(s, c, r)
    BY <2>3 DEF Tame, With
  <2> HIDE DEF c, r
  <2>5. prepared' = prepared \union Rearmed(s, r).ops
    BY <2>1 DEF Handled
  <2>6. /\ Rearmed(s, r).c.read
        /\ Op(ReadOp, s, Client(Rearmed(s, r).c.id)) \in prepared' \union DOMAIN flight'
        /\ Tame(s, c, Rearmed(s, r))
    BY <1>2, <2>3, <2>4, <2>5, ArmedAgain
  <2>7. waiters' \in Ring!Rings(Slots) /\ left' \in 0 .. waiters'.count
    <3>1. /\ waiters' \in Ring!Rings(Slots)
          /\ waiters'.count >= waiters.count
      BY <1>2, <2>1, RestTyped, RingPush
    <3>2. waiters'.count \in Nat
      BY <3>1, LoopAssumption DEF Ring!Rings
    <3> QED
      BY <2>1, <3>1, <3>2, RestTyped
  <2> QED
    BY <1>2, <1>4, <2>1, <2>3, <2>6, <2>7, RestTyped, HandlerSafe DEF Tame
<1> QED
  BY <1>5, <1>6, <1>7, <1>8

LEMMA SendsSafe ==
    ASSUME LoopInv, NEW op, SendDone(op) \/ SendFailed(op) \/ BeSendDone(op)
    PROVE  LoopInv'
<1> DEFINE s == op.slot
<1>1. PICK kind \in {"send", "be_send"} : Completes(op, kind)
  BY DEF SendDone, SendFailed, BeSendDone
<1>2. kind # ReadOp /\ kind # "accept"
  BY ReadOpIsRead
<1>3. /\ s \in Connected /\ s \in Slots /\ conn[s] \in Conns /\ conn[s].id \in Clients
      /\ pc = "wait" /\ prepared = {} /\ Keeps(s)
  BY <1>1, <1>2, CompletionFacts
<1>4. conn[s].state # "FREE"
  BY <1>3 DEF Connected
<1>5. waiters' = waiters /\ left' = left /\ sess' = sess /\ UNCHANGED <<mode, clientVars>>
  BY DEF SendDone, SendFailed, BeSendDone, poolVars
<1>6. ASSUME NEW c \in Conns, NEW r, Tame(s, c, r), c.id = conn[s].id /\ c.dirty = conn[s].dirty,
             c.state = conn[s].state, c.read = conn[s].read, Handled(s, r),
             pc' \in {"close", "submit"}, pc' = "close" => cur' = s,
             unsent' \in [Backends -> BOOLEAN]
      PROVE  LoopInv'
  <2>1. prepared' = prepared \union r.ops
    BY <1>6 DEF Handled
  <2>2. r.c.read /\ Op(ReadOp, s, Client(r.c.id)) \in prepared' \union DOMAIN flight'
    BY <1>1, <1>2, <1>6, <2>1, StillArmed
  <2> QED
    BY <1>3, <1>4, <1>5, <1>6, <2>2, RestTyped, HandlerSafe DEF Tame
<1>7. CASE SendDone(op)
  <2> DEFINE c == [conn[s] EXCEPT !.send = FALSE]
             d == [c EXCEPT !.more = FALSE]
  <2>1. /\ c \in Conns /\ c.id = conn[s].id /\ c.dirty = conn[s].dirty /\ c.state = conn[s].state
        /\ c.read = conn[s].read
        /\ d \in Conns /\ d.id = conn[s].id /\ d.dirty = conn[s].dirty /\ d.state = conn[s].state
        /\ d.read = conn[s].read
    BY <1>3 DEF Conns
  <2>2. /\ Handled(s, SubmitSend(s, c)) \/ Handled(s, With(d, {}))
        /\ pc' = "submit" /\ unsent' = unsent
    BY <1>7 DEF SendDone, poolVars
  <2> HIDE DEF c, d
  <2>3. Tame(s, c, SubmitSend(s, c)) /\ Tame(s, d, With(d, {}))
    BY <1>3, <2>1, HelpersTame
  <2> QED
    BY <1>6, <2>1, <2>2, <2>3, RestTyped
<1>8. CASE SendFailed(op)
  <2> DEFINE c == [conn[s] EXCEPT !.send = FALSE]
  <2>1. /\ c \in Conns /\ c.id = conn[s].id /\ c.dirty = conn[s].dirty /\ c.state = conn[s].state
        /\ c.read = conn[s].read
    BY <1>3 DEF Conns
  <2>2. Handled(s, With(c, {})) /\ pc' = "close" /\ cur' = s
        /\ unsent' = unsent
    BY <1>3, <1>8 DEF SendFailed, poolVars, Handled, With, LoopInv, LoopTypes, TypeOK
  <2> HIDE DEF c
  <2>3. Tame(s, c, With(c, {}))
    BY <1>3, <2>1, HelpersTame
  <2> QED
    BY <1>6, <2>1, <2>2, <2>3, RestTyped
<1>9. CASE BeSendDone(op)
  <2> DEFINE c == [conn[s] EXCEPT !.beSend = FALSE]
  <2>1. /\ c \in Conns /\ c.id = conn[s].id /\ c.dirty = conn[s].dirty /\ c.state = conn[s].state
        /\ c.read = conn[s].read
    BY <1>3 DEF Conns
  <2>2. conn[s].be \in Backends
    BY <1>3, <1>9 DEF BeSendDone, Conns
  <2>3. PICK rest \in BOOLEAN :
          /\ unsent' = [unsent EXCEPT ![conn[s].be] = rest]
          /\ Handled(s, SubmitBeSend(s, c, rest))
    BY <1>9, <2>2, RestTyped DEF BeSendDone
  <2>5. pc' = "submit"
    BY <1>9 DEF BeSendDone
  <2> HIDE DEF c
  <2>4. Tame(s, c, SubmitBeSend(s, c, rest))
    BY <1>3, <2>1, HelpersTame
  <2> QED
    BY <1>6, <2>1, <2>3, <2>4, <2>5, RestTyped
<1> QED
  BY <1>7, <1>8, <1>9

LEMMA RepliesSafe ==
    ASSUME LoopInv, NEW op, BeFail(op) \/ BeReply(op)
    PROVE  LoopInv'
<1> DEFINE s == op.slot
<1>1. PICK kind \in {"be_send", "be_recv"} : Completes(op, kind)
  BY DEF BeFail, BeReply
<1>2. kind # ReadOp /\ kind # "accept"
  BY ReadOpIsRead
<1>3. /\ s \in Connected /\ s \in Slots /\ conn[s] \in Conns /\ conn[s].id \in Clients
      /\ pc = "wait" /\ prepared = {} /\ Keeps(s)
  BY <1>1, <1>2, CompletionFacts
<1>4. conn[s].state # "FREE"
  BY <1>3 DEF Connected
<1>5. waiters' = waiters /\ unsent' = unsent /\ UNCHANGED <<mode, clientVars>>
  BY DEF BeFail, BeReply
<1>6. ASSUME NEW c \in Conns, NEW r, Tame(s, c, r), c.id = conn[s].id /\ c.dirty = conn[s].dirty,
             c.state = conn[s].state, c.read = conn[s].read, Handled(s, r),
             pc' \in {"close", "grant"}, pc' = "close" => cur' = s,
             left' \in {left, waiters.count}, PoolTypes(sess')
      PROVE  LoopInv'
  <2>1. prepared' = prepared \union r.ops
    BY <1>6 DEF Handled
  <2>2. r.c.read /\ Op(ReadOp, s, Client(r.c.id)) \in prepared' \union DOMAIN flight'
    BY <1>1, <1>2, <1>6, <2>1, StillArmed
  <2>3. left' \in 0 .. waiters'.count
    BY <1>5, <1>6, RestTyped
  <2> QED
    BY <1>3, <1>4, <1>5, <1>6, <2>2, <2>3, RestTyped, HandlerSafe DEF Tame
<1>7. CASE BeFail(op)
  <2> DEFINE c == [conn[s] EXCEPT
                     !.beSend = IF op.op = "be_send" THEN FALSE ELSE @,
                     !.beRecv = IF op.op = "be_recv" THEN FALSE ELSE @]
             d == Released(c)
  <2>1. /\ c \in Conns /\ c.id = conn[s].id /\ c.dirty = conn[s].dirty /\ c.state = conn[s].state
        /\ c.read = conn[s].read
    BY <1>3 DEF Conns
  <2>2. /\ c.be # None /\ Lose(c.be) /\ Handled(s, QueueReply(s, d))
        /\ pc' = "grant" /\ left' = waiters.count
    BY <1>7 DEF BeFail
  <2> HIDE DEF c
  <2>3. /\ d \in Conns /\ d.id = conn[s].id /\ d.dirty = conn[s].dirty /\ d.state = conn[s].state
        /\ d.read = conn[s].read
    BY <2>1 DEF Conns, Released
  <2>4. PoolTypes(sess')
    BY <2>1, <2>2, RestTyped DEF Conns
  <2> HIDE DEF d
  <2>5. Tame(s, d, QueueReply(s, d))
    BY <1>3, <2>3, HelpersTame
  <2> QED
    BY <1>6, <2>2, <2>3, <2>4, <2>5
<1>8. CASE BeReply(op)
  <2> DEFINE c == [conn[s] EXCEPT !.beRecv = FALSE]
             d == Released(c)
  <2>1. /\ c \in Conns /\ c.id = conn[s].id /\ c.dirty = conn[s].dirty /\ c.state = conn[s].state
        /\ c.read = conn[s].read
    BY <1>3 DEF Conns
  <2>2. c.be # None
    BY <1>8 DEF BeReply
  <2>3. CASE /\ Release(c.be) /\ Handled(s, QueueReply(s, d))
             /\ pc' = "grant" /\ left' = waiters.count
    <3> HIDE DEF c
    <3>1. /\ d \in Conns /\ d.id = conn[s].id /\ d.dirty = conn[s].dirty /\ d.state = conn[s].state
          /\ d.read = conn[s].read
      BY <2>1 DEF Conns, Released
    <3>2. c.be \in Backends
      BY <2>1, <2>2 DEF Conns
    <3>3. PoolTypes(sess')
      BY <2>3, <3>2, RestTyped DEF Release
    <3> HIDE DEF d
    <3>4. Tame(s, d, QueueReply(s, d))
      BY <1>3, <3>1, HelpersTame
    <3> QED
      BY <1>6, <2>3, <3>1, <3>3, <3>4
  <2>4. CASE /\ conn' = [conn EXCEPT ![s] = c] /\ pc' = "close" /\ cur' = s
             /\ UNCHANGED <<sess, prepared, left>>
    <3>1. Handled(s, With(c, {}))
      BY <2>4 DEF Handled, With
    <3> HIDE DEF c
    <3>2. Tame(s, c, With(c, {}))
      BY <1>3, <2>1, HelpersTame
    <3> QED
      BY <1>6, <2>1, <2>4, <3>1, <3>2, RestTyped
  <2> QED
    BY <1>8, <2>3, <2>4 DEF BeReply
<1> QED
  BY <1>7, <1>8

-----------------------------------------------------------------------------
(* Steps that leave every connection alone.                                 *)

LEMMA QuietSafe ==
    ASSUME LoopInv,
           UNCHANGED <<mode, conn, waiters, open, leaked, accepted, prepared, unsent, cur, left>>,
           here' \subseteq here, PoolTypes(sess'),
           DOMAIN flight' \subseteq DOMAIN flight,
           Op("accept", 0, Listen) \in DOMAIN flight => Op("accept", 0, Listen) \in DOMAIN flight',
           \A s \in Connected : Op(ReadOp, s, Client(conn[s].id)) \in DOMAIN flight =>
                                  Op(ReadOp, s, Client(conn[s].id)) \in DOMAIN flight',
           pc' = pc \/ (pc \in {"wait", "grant"} /\ pc' = "submit")
    PROVE  LoopInv'
<1>1. Connected' = Connected /\ ReadOp' = ReadOp
  BY DEF Connected, ReadOp
<1>2. LoopTypes'
  <2>1. TypeOK'
    BY DEF TypeOK, LoopInv, LoopTypes, PoolTypes, Files, Client
  <2>2. \A op \in prepared' : Prepares(op)'
    BY DEF LoopInv, LoopTypes, Prepares
  <2> QED
    BY <1>1, <2>1, <2>2 DEF LoopInv, LoopTypes
<1>3. Owned'
  BY <1>1 DEF LoopInv, Owned
<1>4. Heard'
  BY <1>1 DEF LoopInv, Heard, Coming, Armed
<1>5. Undisturbed'
  BY <1>1 DEF LoopInv, Undisturbed, Coming
<1> QED
  BY <1>2, <1>3, <1>4, <1>5 DEF LoopInv

LEMMA OthersSafe ==
    ASSUME LoopInv,
           \/ \E k \in Clients : HangUp(k)
           \/ \E op \in DOMAIN flight : Ignored(op)
           \/ \E f \in Sessions : Drop(f)
           \/ \E b \in Backends : Tick(b)
           \/ GrantEnd
           \/ UNCHANGED vars
    PROVE  LoopInv'
<1> USE DEF vars, loopVars, poolVars, clientVars, dbVars, history
<1>1. ASSUME NEW k \in Clients, HangUp(k)
      PROVE  LoopInv'
  BY <1>1, QuietSafe, RestTyped DEF HangUp
<1>2. ASSUME NEW op \in DOMAIN flight, Ignored(op)
      PROVE  LoopInv'
  <2>1. flight' = BagRemove(flight, op) /\ op.op # "accept"
    BY <1>2 DEF Ignored, Takes
  <2>2. ASSUME NEW s \in Connected
        PROVE  Op(ReadOp, s, Client(conn[s].id)) # op
    <3>1. ReadOp \notin {"be_send", "be_recv"}
      BY ReadOpIsRead
    <3> QED
      BY <1>2, <3>1 DEF Ignored, Op, Connected
  <2>3. Op("accept", 0, Listen) # op
    BY <2>1 DEF Op
  <2>4. /\ DOMAIN flight' \subseteq DOMAIN flight
        /\ \A x \in DOMAIN flight : x # op => x \in DOMAIN flight'
    BY <2>1, TakenFromBag
  <2> QED
    BY <1>2, <2>2, <2>3, <2>4, QuietSafe, RestTyped DEF Ignored
<1>3. ASSUME NEW f \in Sessions, Drop(f)
      PROVE  LoopInv'
  BY <1>3, QuietSafe, RestTyped DEF Drop
<1>4. ASSUME NEW b \in Backends, Tick(b)
      PROVE  LoopInv'
  <2>1. sess[b].login + 1 \in 0 .. MaxSessions
    BY <1>4, RestTyped, LoopAssumption DEF Tick, MayLogin, PoolTypes
  <2>2. PoolTypes(sess')
    BY <1>4, <2>1, RestTyped DEF Tick, PoolTypes
  <2> QED
    BY <1>4, <2>2, QuietSafe DEF Tick
<1>5. CASE GrantEnd
  BY <1>5, QuietSafe, RestTyped DEF GrantEnd
<1>6. CASE UNCHANGED vars
  BY <1>6, QuietSafe, RestTyped
<1> QED
  BY <1>1, <1>2, <1>3, <1>4, <1>5, <1>6

-----------------------------------------------------------------------------
(* The pass over the wait ring, the close and the submission.               *)

LEMMA GrantSafe ==
    ASSUME LoopInv, Grant
    PROVE  LoopInv'
<1> USE DEF clientVars
<1> DEFINE s == Ring!First(waiters)
<1>1. /\ pc = "grant" /\ left \in 1 .. waiters.count /\ left' = left - 1
      /\ waiters.count > 0 /\ waiters.count \in Nat
  BY RestTyped DEF Grant
<1>2. /\ Ring!Pop(waiters) \in Ring!Rings(Slots)
      /\ Ring!Pop(waiters).count = waiters.count - 1
      /\ s \in Slots
  BY <1>1, RestTyped, RingPop
<1>3. pc' = pc /\ cur' = cur /\ flight' = flight /\ UNCHANGED <<mode, clientVars>>
  BY DEF Grant
<1> HIDE DEF s
<1>4. CASE waiters' \in {Ring!Pop(waiters), Ring!PushOnce(Ring!Pop(waiters), s)}
           /\ UNCHANGED <<conn, prepared, sess, unsent>>
  <2>1. waiters' \in Ring!Rings(Slots) /\ left' \in 0 .. waiters'.count
    <3>1. waiters' \in Ring!Rings(Slots) /\ waiters'.count >= waiters.count - 1
      BY <1>1, <1>2, <1>4, RingPush
    <3>2. waiters'.count \in Nat
      BY <3>1, LoopAssumption DEF Ring!Rings
    <3> QED
      BY <1>1, <3>1, <3>2
  <2>2. Connected' = Connected /\ ReadOp' = ReadOp
    BY <1>3, <1>4 DEF Connected, ReadOp
  <2>3. LoopTypes'
    <3>1. TypeOK'
      BY <1>1, <1>3, <1>4, <2>1 DEF TypeOK, LoopInv, LoopTypes, Files, Client
    <3>2. \A op \in prepared' : Prepares(op)'
      BY <1>4 DEF LoopInv, LoopTypes, Prepares
    <3> QED
      BY <1>1, <1>3, <1>4, <2>2, <3>1, <3>2 DEF LoopInv, LoopTypes
  <2>4. Owned'
    BY <1>3, <1>4, <2>2 DEF LoopInv, Owned
  <2>5. Heard'
    BY <1>3, <1>4, <2>2 DEF LoopInv, Heard, Coming, Armed
  <2>6. Undisturbed'
    BY <1>3, <1>4, <2>2 DEF LoopInv, Undisturbed, Coming
  <2> QED
    BY <2>3, <2>4, <2>5, <2>6 DEF LoopInv
<1>5. ASSUME conn[s].wait = "WAITING_POOL", waiters' = Ring!Pop(waiters),
             NEW b \in Idle, Start(conn[s].ask, b),
             Handled(s, Started(s, [conn[s] EXCEPT !.wait = "IDLE"], b))
      PROVE  LoopInv'
  <2> DEFINE c == [[conn[s] EXCEPT !.wait = "IDLE"] EXCEPT !.be = b, !.ask = 0]
             r == Started(s, [conn[s] EXCEPT !.wait = "IDLE"], b)
  <2>1. s \in Connected /\ conn[s] \in Conns /\ conn[s].id \in Clients
    BY <1>2, <1>5, WhoIsConnected DEF Idents
  <2>2. b \in Backends
    BY DEF Idle
  <2>3. c \in Conns /\ c.id = conn[s].id /\ c.dirty = conn[s].dirty
        /\ c.read = conn[s].read /\ c.state = conn[s].state
    <3>1. 0 \in 0 .. MaxAccepts /\ b \in Backends \union {None}
      BY <2>2, LoopAssumption
    <3> QED
      BY <2>1, <3>1 DEF Conns
  <2>4. r = SubmitBeSend(s, c, TRUE)
    BY DEF Started
  <2> HIDE DEF c, r
  <2>5. Tame(s, c, r)
    BY <1>2, <2>1, <2>3, <2>4, HelpersTame
  <2>6. Handled(s, r)
    BY <1>5 DEF r
  <2>7. conn[s].read /\ Op(ReadOp, s, Client(conn[s].id)) \in Coming
    BY <1>1, <2>1 DEF LoopInv, Heard, Armed
  <2>8. r.c.read /\ Op(ReadOp, s, Client(r.c.id)) \in prepared' \union DOMAIN flight'
    BY <1>3, <2>3, <2>5, <2>6, <2>7 DEF Tame, Handled, Coming
  <2>9. PoolTypes(sess') /\ unsent' \in [Backends -> BOOLEAN]
    BY <1>5, RestTyped DEF Start
  <2>10. Keeps(s) /\ conn[s].state # "FREE"
    BY <1>3, <2>1 DEF Keeps, Connected
  <2>11. waiters' \in Ring!Rings(Slots) /\ left' \in 0 .. waiters'.count
    BY <1>1, <1>2, <1>5
  <2> QED
    BY <1>1, <1>3, <2>1, <2>3, <2>5, <2>6, <2>8, <2>9, <2>10, <2>11, HandlerSafe DEF Tame
<1> QED
  BY <1>4, <1>5 DEF Grant, s

LEMMA CloseSafe ==
    ASSUME LoopInv, Close
    PROVE  LoopInv'
<1>1. pc = "close" /\ cur \in Connected /\ cur \in Slots /\ conn \in [Slots -> Conns]
  BY DEF Close, LoopInv, LoopTypes, TypeOK, Conns, Connected
<1>2. /\ waiters' = Ring!TakeOut(waiters, cur)
      /\ conn' = [conn EXCEPT ![cur] = FreeConn]
      /\ open' = open \ {conn[cur].id}
      /\ left' = waiters'.count
      /\ pc' \in {"grant", "submit"}
      /\ UNCHANGED <<mode, prepared, flight, unsent, accepted, here, leaked>>
  BY DEF Close
<1>3. waiters' \in Ring!Rings(Slots) /\ left' \in 0 .. waiters'.count
  <2>1. waiters' \in Ring!Rings(Slots)
    BY <1>1, <1>2, RestTyped, RingTakeOut
  <2> QED
    BY <1>2, <2>1, LoopAssumption DEF Ring!Rings
<1>4. PoolTypes(sess')
  <2>1. conn[cur].be \in Backends \union {None}
    BY <1>1 DEF Conns
  <2> QED
    BY <2>1, RestTyped DEF Close
<1>5. FreeConn \in Conns /\ FreeConn.state = "FREE" /\ FreeConn.wait = "IDLE"
  BY LoopAssumption DEF FreeConn, Conns
<1>6. /\ conn' \in [Slots -> Conns]
      /\ Connected' = Connected \ {cur}
      /\ \A t \in Slots : t # cur => conn'[t] = conn[t]
  BY <1>1, <1>2, <1>5 DEF Connected
<1>7. LoopTypes'
  <2>1. TypeOK'
    BY <1>1, <1>2, <1>3, <1>4, <1>6
       DEF TypeOK, LoopInv, LoopTypes, PoolTypes, Conns, Files, Client
  <2>2. \A op \in prepared' : Prepares(op)'
    BY <1>2 DEF LoopInv, LoopTypes, Prepares
  <2>3. \A t \in Slots : conn'[t].state = "FREE" => conn'[t].wait = "IDLE"
    BY <1>1, <1>2, <1>5 DEF LoopInv, LoopTypes
  <2>4. pc' # "close" /\ pc' # "wait"
    BY <1>2
  <2> QED
    BY <1>2, <2>1, <2>2, <2>3, <2>4 DEF LoopInv, LoopTypes
<1>8. Owned'
  <2>1. \A t \in Connected : t \in Slots
    BY DEF Connected
  <2>2. \A t, u \in Connected : conn[t].id = conn[u].id => t = u
    BY DEF LoopInv, Owned
  <2>3. open \ leaked = {conn[t].id : t \in Connected} /\ leaked \subseteq open
    BY DEF LoopInv, Owned
  <2>4. open' \ leaked' = {conn'[t].id : t \in Connected'}
    BY <1>1, <1>2, <1>6, <2>1, <2>2, <2>3
  <2>5. leaked' \subseteq open'
    BY <1>1, <1>2, <2>3
  <2> QED
    BY <1>6, <2>1, <2>2, <2>4, <2>5 DEF Owned
<1>9. Heard'
  <2>1. ReadOp' = ReadOp /\ Coming' = Coming
    BY <1>2 DEF ReadOp, Coming
  <2>2. ASSUME NEW t \in Connected'
        PROVE  Armed(t)'
    <3>1. t \in Connected /\ t # cur /\ t \in Slots
      BY <1>6, <2>2 DEF Connected
    <3> QED
      BY <1>6, <2>1, <3>1 DEF LoopInv, Heard, Armed
  <2> QED
    BY <2>1, <2>2 DEF LoopInv, Heard
<1>10. Undisturbed'
  <2>1. Coming' = Coming
    BY <1>2 DEF Coming
  <2>2. \A t \in Connected' : t \in Connected /\ t # cur /\ t \in Slots
    BY <1>6 DEF Connected
  <2> QED
    BY <1>6, <2>1, <2>2 DEF LoopInv, Undisturbed
<1> QED
  BY <1>7, <1>8, <1>9, <1>10 DEF LoopInv

\* What an operation prepared by a handler is submitted as.
Submitted(o) == [o EXCEPT !.on = File(o)]

LEMMA SubmittedIs ==
    ASSUME LoopInv, NEW o \in prepared
    PROVE  /\ Submitted(o) = Op(o.op, o.slot, File(o))
           /\ Submitted(o).slot \in Slots /\ Submitted(o).on \in Files
<1>1. Prepares(o)
  BY DEF LoopInv, LoopTypes
<1>2. Submitted(o) = Op(o.op, o.slot, File(o))
  BY <1>1 DEF Submitted, Prepares, Op
<1>3. File(o) \in Files
  <2>1. CASE o.op = "accept"
    BY <2>1 DEF File, Files
  <2>2. CASE o.op \in {"recv", "poll", "send"}
    BY <1>1, <2>2 DEF File, Files, Prepares
  <2>3. CASE o.op \in {"be_send", "be_recv"}
    <3>1. o.on \in Backends
      BY <1>1, <2>3 DEF Prepares
    <3>2. sess[o.on].login \in 0 .. MaxSessions
      BY <3>1, RestTyped DEF PoolTypes
    <3>3. Session(o.on) \in Sessions
      BY <3>1, <3>2 DEF Session, Sessions
    <3> QED
      BY <2>3, <3>3 DEF File, Files
  <2> QED
    BY <1>1, <2>1, <2>2, <2>3 DEF Prepares
<1> QED
  BY <1>1, <1>2, <1>3 DEF Prepares, Op

LEMMA SubmitSafe ==
    ASSUME LoopInv, Submit
    PROVE  LoopInv'
<1>1. /\ pc = "submit" /\ pc' = "wait" /\ prepared' = {}
      /\ UNCHANGED <<mode, cur, left, waiters, conn, sess, unsent, clientVars>>
  BY DEF Submit, poolVars
<1>2. DOMAIN flight' = DOMAIN flight \union {Submitted(o) : o \in prepared}
  BY DEF Submit, Submitted, (+)
<1>3. Connected' = Connected /\ ReadOp' = ReadOp
  BY <1>1 DEF Connected, ReadOp
<1>4. LoopTypes'
  <2>1. \A op \in DOMAIN flight' : op.slot \in Slots /\ op.on \in Files
    BY <1>2, SubmittedIs DEF LoopInv, LoopTypes, TypeOK
  <2>2. TypeOK'
    BY <1>1, <2>1 DEF TypeOK, LoopInv, LoopTypes, clientVars, Files, Client
  <2> QED
    BY <1>1, <1>3, <2>2 DEF LoopInv, LoopTypes, clientVars
<1>5. Owned'
  BY <1>1, <1>3 DEF LoopInv, Owned, clientVars
<1>6. Heard'
  <2>1. ASSUME NEW o \in prepared, o.op = "accept" \/ File(o) = o.on
        PROVE  o.op = "accept" => (o.on = Listen => o \in DOMAIN flight')
    <3>1. Prepares(o)
      BY DEF LoopInv, LoopTypes
    <3> QED
      BY <1>2, <3>1, SubmittedIs DEF File, Prepares
  <2>2. Op("accept", 0, Listen) \in DOMAIN flight'
    BY <1>2, <2>1 DEF LoopInv, Heard, Coming, Op
  <2>3. ASSUME NEW s \in Connected
        PROVE  conn[s].read /\ Op(ReadOp, s, Client(conn[s].id)) \in DOMAIN flight'
    <3> DEFINE o == Op(ReadOp, s, Client(conn[s].id))
    <3>1. conn[s].read /\ o \in Coming
      BY <1>1 DEF LoopInv, Heard, Armed
    <3>2. CASE o \in DOMAIN flight
      BY <1>2, <3>1, <3>2
    <3>3. CASE o \in prepared
      <4>1. conn[s].id \in open
        BY WhoIsConnected
      <4>2. o.op = ReadOp /\ o.slot = s /\ o.on = Client(conn[s].id)
        BY DEF Op
      <4>3. File(o) = o.on
        BY <4>1, <4>2, ReadOpIsRead DEF File, Client
      <4> HIDE DEF o
      <4>4. Submitted(o) = o
        BY <3>3, <4>3, SubmittedIs DEF LoopInv, LoopTypes, Prepares
      <4>5. o \in DOMAIN flight'
        BY <1>2, <3>3, <4>4
      <4> QED
        BY <3>1, <4>5 DEF o
    <3> QED
      BY <3>1, <3>2, <3>3 DEF Coming
  <2> QED
    BY <1>1, <1>3, <2>2, <2>3 DEF Heard, Armed, Coming
<1>7. Undisturbed'
  <2>1. ASSUME NEW s \in Connected, ~conn[s].dirty, NEW op \in DOMAIN flight', op.slot = s,
               op.op \in SocketOps
        PROVE  op.on \in {Client(conn[s].id), NoFile}
    <3>1. CASE op \in DOMAIN flight
      BY <2>1, <3>1 DEF LoopInv, Undisturbed, Coming
    <3>2. ASSUME NEW o \in prepared, op = Submitted(o)
          PROVE  op.on \in {Client(conn[s].id), NoFile}
      <4>1. op = Op(o.op, o.slot, File(o))
        BY <3>2, SubmittedIs
      <4>2. o.slot = s /\ o.op \in SocketOps
        BY <2>1, <4>1 DEF Op
      <4>3. o.on \in {Client(conn[s].id), NoFile}
        BY <2>1, <4>2 DEF LoopInv, Undisturbed, Coming
      <4>4. File(o) \in {o.on, NoFile}
        BY <4>2 DEF File, SocketOps
      <4> QED
        BY <4>1, <4>3, <4>4 DEF Op
    <3> QED
      BY <1>2, <3>1, <3>2
  <2> QED
    BY <1>1, <1>3, <2>1 DEF Undisturbed, Coming
<1> QED
  BY <1>4, <1>5, <1>6, <1>7 DEF LoopInv

-----------------------------------------------------------------------------
(* A new client.                                                            *)

LEMMA AcceptSafe ==
    ASSUME LoopInv, Accept
    PROVE  LoopInv'
<1> DEFINE listen == Op("accept", 0, Listen)
           refused == UNCHANGED <<conn, here, open, leaked>>
           lost == /\ here' = here \union {accepted + 1}
                   /\ open' = open \union {accepted + 1}
                   /\ leaked' = leaked \union {accepted + 1}
                   /\ UNCHANGED conn
<1>1. /\ pc = "wait" /\ pc' = "submit" /\ prepared = {} /\ flight' = BagRemove(flight, listen)
      /\ accepted < MaxAccepts /\ accepted' = accepted + 1 /\ accepted \in 0 .. MaxAccepts
      /\ UNCHANGED <<mode, cur, left, waiters, sess, unsent>>
      /\ open \subseteq 1 .. accepted /\ here \subseteq 1 .. accepted
  BY DEF Accept, Takes, poolVars, LoopInv, LoopTypes
<1>2. /\ DOMAIN flight' \subseteq DOMAIN flight
      /\ \A x \in DOMAIN flight : x # listen => x \in DOMAIN flight'
  BY <1>1, TakenFromBag
<1>3. accepted' \in 0 .. MaxAccepts /\ accepted + 1 \in Clients /\ MaxAccepts \in Nat
  BY <1>1, LoopAssumption DEF Clients
<1>4. Prepares(listen) /\ listen.op = "accept"
  BY RingCells DEF Prepares, Op
<1>5. \A s \in Connected : Op(ReadOp, s, Client(conn[s].id)) # listen
  BY ReadOpIsRead DEF Op
<1>6. /\ conn \in [Slots -> Conns]
      /\ ReadOp' = ReadOp
  BY <1>1 DEF LoopInv, LoopTypes, TypeOK, Conns, ReadOp
<1>7. \A s \in Connected :
         conn[s].read /\ Op(ReadOp, s, Client(conn[s].id)) \in DOMAIN flight'
  BY <1>1, <1>2, <1>5 DEF LoopInv, Heard, Armed, Coming
<1> HIDE DEF listen
<1>8. CASE prepared' = {listen} /\ (refused \/ lost)
  <2>1. Connected' = Connected
    BY <1>8 DEF Connected
  <2>2. LoopTypes'
    <3>1. TypeOK'
      BY <1>1, <1>2, <1>3, <1>8 DEF TypeOK, LoopInv, LoopTypes, Files, Client
    <3>2. \A op \in prepared' : Prepares(op)'
      BY <1>4, <1>8 DEF Prepares
    <3>3. here' \subseteq 1 .. accepted' /\ open' \subseteq 1 .. accepted'
      <4>1. 1 .. accepted \subseteq 1 .. accepted' /\ accepted + 1 \in 1 .. accepted'
        BY <1>1
      <4> QED
        BY <1>1, <1>8, <4>1
    <3> QED
      BY <1>1, <1>3, <1>8, <2>1, <3>1, <3>2, <3>3 DEF LoopInv, LoopTypes
  <2>3. Owned'
    <3>1. /\ open \ leaked = {conn[t].id : t \in Connected} /\ leaked \subseteq open
          /\ \A t, u \in Connected : conn[t].id = conn[u].id => t = u
      BY DEF LoopInv, Owned
    <3>2. accepted + 1 \notin open
      BY <1>1
    <3>3. open' \ leaked' = open \ leaked /\ leaked' \subseteq open'
      BY <1>8, <3>1, <3>2
    <3> QED
      BY <1>8, <2>1, <3>1, <3>3 DEF Owned
  <2>4. Heard'
    BY <1>6, <1>7, <1>8, <2>1 DEF Heard, Armed, Coming, listen
  <2>5. Undisturbed'
    <3>1. \A op \in Coming' : op.op \in SocketOps => op \in Coming
      BY <1>2, <1>4, <1>8 DEF Coming, SocketOps
    <3> QED
      BY <1>8, <2>1, <3>1 DEF LoopInv, Undisturbed
  <2> QED
    BY <2>2, <2>3, <2>4, <2>5 DEF LoopInv
<1>9. CASE FreeSlots # {} /\ ~(prepared' = {listen} /\ (refused \/ lost))
  <2> DEFINE first == CHOOSE t \in FreeSlots : \A u \in FreeSlots : t <= u
  <2>1. PICK s \in Slots : s = first /\ s \notin Connected
    <3>1. FreeSlots \in SUBSET Nat
      BY DEF FreeSlots, Slots
    <3>2. first \in FreeSlots
      BY <1>9, <3>1, LeastNatural
    <3> QED
      BY <3>2 DEF FreeSlots, Connected
  <2> DEFINE c == [FreeConn EXCEPT
                     !.state = IF mode = "tls" THEN "TLS_HS" ELSE "ACTIVE",
                     !.id = accepted + 1,
                     !.dirty = \E op \in DOMAIN flight :
                                   op.op # "accept" /\ op.slot = s]
             r == SubmitRead(s, c)
  <2>2. /\ conn' = [conn EXCEPT ![s] = r.c]
        /\ prepared' = r.ops \union {listen}
        /\ here' = here \union {c.id}
        /\ open' = open \union {c.id}
        /\ leaked' = leaked
    BY <1>9, <2>1 DEF Accept, listen
  <2> HIDE DEF first
  <2>3. c \in Conns /\ c.id = accepted + 1 /\ ~c.read /\ c.state # "FREE"
    <3> DEFINE hs == IF mode = "tls" THEN "TLS_HS" ELSE "ACTIVE"
               stale == \E op \in DOMAIN flight : op.op # "accept" /\ op.slot = s
    <3>1. FreeConn \in Conns /\ ~FreeConn.read
      BY LoopAssumption DEF FreeConn, Conns
    <3>2. hs \in {"TLS_HS", "ACTIVE"} /\ stale \in BOOLEAN /\ accepted + 1 \in 0 .. MaxAccepts
      BY <1>1, <1>3
    <3>3. c = [FreeConn EXCEPT !.state = hs, !.id = accepted + 1, !.dirty = stale]
      OBVIOUS
    <3> HIDE DEF hs, stale, c
    <3> QED
      BY <3>1, <3>2, <3>3 DEF Conns
  <2>11. c.dirty = \E op \in DOMAIN flight : op.op # "accept" /\ op.slot = s
    BY DEF FreeConn
  <2> HIDE DEF c, r
  <2>4. Tame(s, c, r) /\ r.c.read
    BY <1>3, <2>1, <2>3, HelpersTame DEF r
  <2>5. /\ r.c \in Conns /\ r.c.state # "FREE" /\ r.c.id = accepted + 1
        /\ Op(ReadOp, s, Client(r.c.id)) \in prepared'
    BY <2>2, <2>3, <2>4 DEF Tame
  <2>6. /\ conn' \in [Slots -> Conns]
        /\ Connected' = Connected \union {s}
        /\ \A t \in Connected : t \in Slots /\ t # s /\ conn'[t] = conn[t]
        /\ conn'[s] = r.c
    BY <1>6, <2>1, <2>2, <2>5 DEF Connected
  <2>7. here' \subseteq 1 .. accepted' /\ open' \subseteq 1 .. accepted'
    BY <1>1, <2>2, <2>3
  <2>8. LoopTypes'
    <3>1. TypeOK'
      BY <1>1, <1>2, <1>3, <2>6, <2>7
         DEF TypeOK, LoopInv, LoopTypes, Conns, Files, Client, Clients
    <3>2. \A op \in prepared' : Prepares(op)'
      BY <1>4, <2>2, <2>4 DEF Tame, Prepares
    <3>3. \A t \in Slots : conn'[t].state = "FREE" => conn'[t].wait = "IDLE"
      BY <1>6, <2>1, <2>2, <2>5 DEF LoopInv, LoopTypes
    <3>4. pc' # "close" /\ pc' # "wait"
      BY <1>1
    <3> QED
      BY <1>3, <2>7, <3>1, <3>2, <3>3, <3>4, RestTyped, <1>1 DEF LoopTypes
  <2>9. Owned'
    <3>1. \A t \in Connected : conn[t].id \in 1 .. accepted
      BY WhoIsConnected
    <3>2. /\ \A t, u \in Connected : conn[t].id = conn[u].id => t = u
          /\ open \ leaked = {conn[t].id : t \in Connected} /\ leaked \subseteq open
      BY DEF LoopInv, Owned
    <3>3. /\ \A t \in Connected : conn[t].id # accepted + 1
          /\ accepted + 1 \notin leaked
      BY <1>1, <3>1, <3>2
    <3>4. /\ open' \ leaked' = {conn'[t].id : t \in Connected'}
          /\ leaked' \subseteq open'
      <4>1. open' \ leaked' = (open \ leaked) \union {accepted + 1}
        BY <2>2, <2>3, <3>3
      <4> QED
        BY <2>2, <2>5, <2>6, <3>2, <4>1
    <3>5. \A t, u \in Connected' : conn'[t].id = conn'[u].id => t = u
      BY <2>5, <2>6, <3>2, <3>3
    <3> QED
      BY <3>4, <3>5 DEF Owned
  <2>10. Heard'
    <3>1. Op("accept", 0, Listen) \in prepared'
      BY <2>2 DEF listen
    <3>2. Armed(s)'
      <4>1. conn'[s].read /\ Op(ReadOp, s, Client(conn'[s].id)) \in prepared'
        BY <2>4, <2>5, <2>6
      <4> QED
        BY <1>6, <4>1 DEF Armed, Coming
    <3>3. ASSUME NEW t \in Connected
          PROVE  Armed(t)'
      BY <1>6, <1>7, <2>6 DEF Armed, Coming
    <3> QED
      BY <2>6, <3>1, <3>2, <3>3 DEF Heard, Coming
  <2>12. Undisturbed'
    <3>1. ASSUME NEW t \in Connected, ~conn[t].dirty, NEW op \in Coming', op.slot = t,
                 op.op \in SocketOps
          PROVE  op.on \in {Client(conn[t].id), NoFile}
      <4>1. op \in DOMAIN flight
        BY <1>2, <1>4, <2>2, <2>4, <2>6, <3>1 DEF Coming, Tame, SocketOps
      <4> QED
        BY <3>1, <4>1 DEF LoopInv, Undisturbed, Coming
    <3>2. ASSUME ~r.c.dirty, NEW op \in Coming', op.slot = s, op.op \in SocketOps
          PROVE  op.on = Client(r.c.id)
      <4>1. ~c.dirty
        BY <2>4, <3>2 DEF Tame
      <4>2. op \notin DOMAIN flight /\ op # listen
        BY <1>4, <2>11, <3>2, <4>1 DEF SocketOps
      <4>3. op \in r.ops
        BY <1>2, <2>2, <3>2, <4>2 DEF Coming
      <4> QED
        BY <2>4, <3>2, <4>3 DEF Tame
    <3> QED
      BY <2>6, <3>1, <3>2 DEF Undisturbed
  <2> QED
    BY <2>8, <2>9, <2>10, <2>12 DEF LoopInv
<1>10. FreeSlots # {} \/ (prepared' = {listen} /\ refused)
  BY DEF Accept, listen
<1> QED
  BY <1>8, <1>9, <1>10

-----------------------------------------------------------------------------
(* The invariant holds.                                                     *)

LEMMA LoopStart == Init => LoopInv
<1> SUFFICES ASSUME Init PROVE LoopInv
  OBVIOUS
<1>1. FreeConn \in Conns /\ FreeConn.state = "FREE" /\ FreeConn.wait = "IDLE"
  BY LoopAssumption DEF FreeConn, Conns
<1>2. /\ conn \in [Slots -> Conns] /\ Connected = {}
      /\ \A s \in Slots : conn[s].wait = "IDLE"
  BY <1>1 DEF Init, Connected
<1>3. waiters \in Ring!Rings(Slots) /\ left \in 0 .. waiters.count
  BY RingCells, LoopAssumption DEF Init, Ring!EmptyRing, Ring!Rings, Slots
<1>4. DOMAIN flight = {}
  BY DEF Init, EmptyBag, SetToBag
<1>5. TypeOK
  BY <1>2, <1>3, <1>4, LoopAssumption DEF Init, TypeOK, Conns
<1>6. Prepares(Op("accept", 0, Listen))
  BY RingCells DEF Prepares, Op
<1>7. LoopTypes
  BY <1>2, <1>5, <1>6, LoopAssumption DEF Init, LoopTypes
<1> QED
  BY <1>2, <1>7 DEF Init, LoopInv, Owned, Heard, Undisturbed, Coming

LEMMA LoopStep == LoopInv /\ [Next]_vars => LoopInv'
<1> SUFFICES ASSUME LoopInv, [Next]_vars PROVE LoopInv'
  OBVIOUS
<1>1. CASE Next
  BY <1>1, AcceptSafe, OthersSafe, ReadsSafe, SendsSafe, RepliesSafe, CloseSafe, GrantSafe,
     SubmitSafe DEF Next, Completion, Handler
<1>2. CASE UNCHANGED vars
  BY <1>2, OthersSafe
<1> QED
  BY <1>1, <1>2

LEMMA LoopInvHolds == Spec => []LoopInv
BY LoopStart, LoopStep, PTL DEF Spec

\* The open client descriptors are at any time those of the connections, one
\* each, and those whose set-up failed half-way in accept_one: whatever the order
\* in which operations on closed descriptors complete, close_conn leaks none and
\* none belongs to two slots.
THEOREM DescriptorsOwned == Spec => []DescriptorsMatch
<1>1. LoopInv => DescriptorsMatch
  BY DEF LoopInv, Owned, DescriptorsMatch
<1> QED
  BY <1>1, LoopInvHolds, PTL

\* Whenever the loop waits for completions an accept is in the kernel, and for
\* each connection a read of its own socket, whatever stray completions of
\* earlier users of the slot its handlers have taken for its own.
THEOREM EverybodyHeard == Spec => []HearsEverybody
<1>1. LoopInv => HearsEverybody
  BY DEF LoopInv, LoopTypes, Heard, Armed, Coming, HearsEverybody
<1> QED
  BY <1>1, LoopInvHolds, PTL

\* A connection that got a slot with nothing in flight is not met, as long as it
\* has the slot, by the completion of another connection's read or send.
THEOREM CleanSlotsSafe == Spec => []CleanSlotStaysClean
<1>1. LoopInv => CleanSlotStaysClean
  BY DEF LoopInv, Undisturbed, Coming, SocketOps, CleanSlotStaysClean
<1> QED
  BY <1>1, LoopInvHolds, PTL

\* Connections, wait ring, pool and operations in flight keep their types, and a
\* pass never has more attempts left than the ring has entries.
THEOREM LoopTypeCorrect == Spec => []TypeOK
<1>1. LoopInv => TypeOK
  BY DEF LoopInv, LoopTypes
<1> QED
  BY <1>1, LoopInvHolds, PTL

-----------------------------------------------------------------------------
(* Wait ring and pipelines. WaitersInv and KernelInv hold whatever strays;  *)
(* Sound is the part that one stray operation destroys. All three are       *)
(* inductive with LoopInv.                                                  *)

\* The kinds of operations on backends.
BeOps == {"be_send", "be_recv"}

\* Whoever waits for a backend is in the wait ring, once.
WaitersInv ==
    /\ Ring!Exact(waiters)
    /\ Ring!Distinct(waiters)
    /\ \A s \in Slots : conn[s].wait = "WAITING_POOL" => Ring!Holds(waiters, s)

\* What holds of pool and kernel however operations stray. No operation is on a
\* session that is yet to come, and none has received anything.
KernelInv ==
    /\ DOMAIN inbox = Sessions /\ DOMAIN buf = Backends
    /\ \A s \in Slots : conn[s].state = "FREE" => conn[s] = FreeConn
    /\ \A b \in Backends : sess[b].busy => sess[b].alive
    /\ \A o \in DOMAIN flight : o = Op(o.op, o.slot, o.on)
    /\ \A o \in DOMAIN flight : o.op \in BeOps =>
          \/ o.on = NoFile
          \/ o.on \in Sessions /\ o.on[2] <= sess[o.on[1]].login
    /\ \A f \in Sessions : f[2] > sess[f[1]].login => inbox[f] = <<>>

\* The one operation of this kind for slot s and its backend: prepared, or once
\* in flight.
Comes(kind, s) ==
    LET o == Op(kind, s, conn[s].be)
        f == Op(kind, s, Session(conn[s].be))
    IN  \/ o \in prepared /\ f \notin DOMAIN flight
        \/ o \notin prepared /\ f \in DOMAIN flight /\ flight[f] = 1

\* A connection with a backend sends its Bind, or awaits the answer to it, or is
\* being closed because the answer did not fit.
Underway(s) ==
    LET c == conn[s]
        got == inbox[Session(c.be)]
    IN  \/ /\ c.beSend /\ ~c.beRecv /\ c.wait = "SENDING" /\ Comes("be_send", s)
           /\ got = IF Op("be_send", s, c.be) \in prepared THEN <<>> ELSE <<c.id>>
        \/ /\ ~c.beSend /\ c.beRecv /\ c.wait = "READING" /\ Comes("be_recv", s)
           /\ got = <<c.id>>
        \/ ~c.beSend /\ ~c.beRecv /\ c.wait = "READING" /\ pc = "close" /\ s = cur

\* Backend, flags and wait state of a connection agree.
Fits(s) ==
    LET c == conn[s] IN
    /\ c.be = None => ~c.beSend /\ ~c.beRecv /\ c.wait \in {"IDLE", "WAITING_POOL"}
    /\ c.be # None => sess[c.be].busy /\ buf[c.be] = c.id /\ Underway(s)
    /\ c.wait = "WAITING_POOL" => c.ask = c.id
    /\ Ring!Holds(waiters, s) => c.wait = "WAITING_POOL"

\* The operation belongs to the connection that has backend b.
Owns(o, b) ==
    /\ conn[o.slot].be = b
    /\ o.op = "be_send" => conn[o.slot].beSend
    /\ o.op = "be_recv" => conn[o.slot].beRecv

\* A busy backend has one connection, an idle one a silent session; what is in
\* flight on the session belongs to that connection.
Serves(b) ==
    /\ sess[b].busy => \E s \in Slots : conn[s].be = b
    /\ \A s, t \in Slots : conn[s].be = b /\ conn[t].be = b => s = t
    /\ sess[b].alive /\ ~sess[b].busy => inbox[Session(b)] = <<>>
    /\ sess[b].alive =>
          \A o \in DOMAIN flight : o.op \in BeOps /\ o.on = Session(b) => Owns(o, b)

\* What is prepared belongs to its connection, unless that has been closed.
Belongs(o) == o.op \in BeOps => conn[o.slot] = FreeConn \/ Owns(o, o.on)

Sound ==
    /\ ~mixed
    /\ \A s \in Slots : Fits(s)
    /\ \A b \in Backends : Serves(b)
    /\ \A o \in prepared : Belongs(o)

PipeInv == WaitersInv /\ KernelInv /\ (~strayed => Sound)

-----------------------------------------------------------------------------
(* The wait ring.                                                           *)

\* The lemmas about ring arrays speak of this ring.
LEMMA SameRing ==
    ASSUME NEW r
    PROVE  /\ Array(MaxConns)!Exact(r) <=> Ring!Exact(r)
           /\ Array(MaxConns)!Full(r) <=> Ring!Full(r)
           /\ Array(MaxConns)!Distinct(r) <=> Ring!Distinct(r)
           /\ Array(MaxConns)!Pop(r) = Ring!Pop(r)
           /\ Array(MaxConns)!First(r) = Ring!First(r)
           /\ \A x : /\ Array(MaxConns)!Holds(r, x) <=> Ring!Holds(r, x)
                     /\ Array(MaxConns)!Push(r, x) = Ring!Push(r, x)
                     /\ Array(MaxConns)!TakeOut(r, x) = Ring!TakeOut(r, x)
                     /\ Array(MaxConns)!Rings(x) = Ring!Rings(x)
BY DEF Array!Push, Ring!Push, Array!Pop, Ring!Pop, Array!First, Ring!First,
       Array!TakeOut, Ring!TakeOut, Array!Exact, Ring!Exact, Array!Holds,
       Ring!Holds, Array!Rings, Ring!Rings, Array!Cell, Ring!Cell, Array!Full,
       Ring!Full, Array!Cells, Ring!Cells, Array!Distinct, Ring!Distinct

\* There are MaxConns slots.
LEMMA SlotsCounted == IsFiniteSet(Slots) /\ Cardinality(Slots) = MaxConns
<1>1. MaxConns - 1 \in Int /\ 0 \in Int /\ ~(0 > MaxConns - 1) /\ MaxConns - 1 - 0 + 1 = MaxConns
  BY LoopAssumption
<1> QED
  BY <1>1, FS_Interval DEF Slots

\* A ring in order, with each slot at most once.
GoodRing(r) == r \in Ring!Rings(Slots) /\ Ring!Exact(r) /\ Ring!Distinct(r)

\* waiters_push: there is always room, because each slot is in the ring at most once.
LEMMA WaiterPushed ==
    ASSUME NEW r, GoodRing(r), NEW s \in Slots
    PROVE  /\ GoodRing(Ring!PushOnce(r, s))
           /\ \A y \in Slots : Ring!Holds(Ring!PushOnce(r, s), y) <=> Ring!Holds(r, y) \/ y = s
<1> USE LoopAssumption
<1>1. CASE Ring!Holds(r, s)
  BY <1>1 DEF Ring!PushOnce
<1>2. CASE ~Ring!Holds(r, s)
  <2>1. r \in Ring!Rings(Slots) /\ Ring!Exact(r) /\ ~Ring!Holds(r, s)
    BY <1>2 DEF GoodRing
  <2>2. ~Ring!Full(r)
    <3> DEFINE held == {x \in Slots : Ring!Holds(r, x)}
    <3>1. MaxConns \in Nat \ {0} /\ Ring!Distinct(r)
      BY DEF GoodRing
    <3>2. r \in Array(MaxConns)!Rings(Slots) /\ Array(MaxConns)!Distinct(r)
      BY <2>1, <3>1, SameRing
    <3>3. held = {x \in Slots : Array(MaxConns)!Holds(r, x)}
      BY SameRing
    <3>4. Array(MaxConns)!Full(r) => held = Slots
      <4> HIDE DEF held
      <4> QED
        BY <3>1, <3>2, <3>3, SlotsCounted, CountHolds
    <3>5. Ring!Full(r) => held = Slots
      BY <3>4, SameRing
    <3> QED
      BY <2>1, <3>5
  <2> DEFINE q == Ring!Push(r, s)
  <2>3. /\ q \in Ring!Rings(Slots) /\ Ring!Exact(q) /\ Ring!Distinct(q)
        /\ \A y : Ring!Holds(q, y) <=> Ring!Holds(r, y) \/ y = s
    BY <2>1, <2>2, PushHolds, SameRing DEF GoodRing
  <2>4. Ring!PushOnce(r, s) = q
    BY <1>2 DEF Ring!PushOnce
  <2> HIDE DEF q
  <2> QED
    BY <2>3, <2>4 DEF GoodRing
<1> QED
  BY <1>1, <1>2

\* The head of a pass is a slot, and the ring loses just that.
LEMMA WaiterPopped ==
    ASSUME NEW r, GoodRing(r), r.count > 0
    PROVE  /\ GoodRing(Ring!Pop(r))
           /\ Ring!First(r) \in Slots /\ Ring!Holds(r, Ring!First(r))
           /\ \A y \in Slots : Ring!Holds(Ring!Pop(r), y) <=>
                                   Ring!Holds(r, y) /\ y # Ring!First(r)
<1> DEFINE q == Ring!Pop(r)
<1>1. r \in Ring!Rings(Slots) /\ Ring!Exact(r)
  BY DEF GoodRing
<1>2. /\ q \in Ring!Rings(Slots) /\ Ring!Exact(q) /\ Ring!Distinct(q)
      /\ Ring!First(r) \in Slots /\ Ring!Holds(r, Ring!First(r))
      /\ \A y : Ring!Holds(q, y) <=> Ring!Holds(r, y) /\ y # Ring!First(r)
  BY <1>1, LoopAssumption, PopHolds, SameRing DEF GoodRing
<1> QED
  BY <1>2 DEF GoodRing

\* waiters_remove: the ring loses just that slot.
LEMMA WaiterTakenOut ==
    ASSUME NEW r, GoodRing(r), NEW s
    PROVE  /\ GoodRing(Ring!TakeOut(r, s))
           /\ \A y \in Slots : Ring!Holds(Ring!TakeOut(r, s), y) <=> Ring!Holds(r, y) /\ y # s
<1> DEFINE q == Ring!TakeOut(r, s)
<1>1. r \in Ring!Rings(Slots) /\ Ring!Exact(r)
  BY DEF GoodRing
<1>2. /\ q \in Ring!Rings(Slots) /\ Ring!Exact(q) /\ Ring!Distinct(q)
      /\ \A y : Ring!Holds(q, y) <=> Ring!Holds(r, y) /\ y # s
  BY <1>1, LoopAssumption, TakeOutHolds, SameRing DEF GoodRing
<1> QED
  BY <1>2 DEF GoodRing

-----------------------------------------------------------------------------
(* What a step leaves alone.                                                *)

\* What pack_ud packs can be taken out again.
LEMMA OpIs ==
    ASSUME NEW kind, NEW t, NEW on
    PROVE  /\ Op(kind, t, on).op = kind /\ Op(kind, t, on).slot = t /\ Op(kind, t, on).on = on
BY DEF Op

\* The current session of a backend names that backend.
LEMMA SessionIs ==
    ASSUME LoopInv
    PROVE  \A b \in Backends :
              /\ Session(b) \in Sessions /\ Session(b)[1] = b /\ Session(b)[2] = sess[b].login
              /\ Session(b) # NoFile /\ sess[b].login \in Nat
<1>1. ASSUME NEW b \in Backends
      PROVE  sess[b].login \in 0 .. MaxSessions
  BY RestTyped DEF PoolTypes
<1>2. \A b \in Backends : b # "closed"
  BY LoopAssumption
<1> QED
  BY <1>1, <1>2, LoopAssumption DEF Session, Sessions, NoFile

\* The same after a step.
LEMMA SessionIsThen ==
    ASSUME LoopInv'
    PROVE  \A b \in Backends :
              /\ Session(b)' \in Sessions /\ Session(b)'[1] = b
              /\ Session(b)'[2] = sess'[b].login
              /\ Session(b)' # NoFile /\ sess'[b].login \in Nat
<1>1. ASSUME NEW b \in Backends
      PROVE  sess'[b].login \in 0 .. MaxSessions
  BY DEF LoopInv, LoopTypes, TypeOK
<1>2. \A b \in Backends : b # "closed"
  BY LoopAssumption
<1> QED
  BY <1>1, <1>2, LoopAssumption DEF Session, Sessions, NoFile

\* One operation completes, the others stay.
LEMMA TakenIs ==
    ASSUME NEW op, op \in DOMAIN flight, Takes(op)
    PROVE  /\ DOMAIN flight' \subseteq DOMAIN flight
           /\ \A x : x # op => /\ x \in DOMAIN flight' <=> x \in DOMAIN flight
                               /\ x \in DOMAIN flight => flight'[x] = flight[x]
           /\ flight[op] = 1 => op \notin DOMAIN flight'
BY DEF Takes, BagRemove

\* A step leaves the prepared operations on backends for slot t alone.
SamePrepared(t) ==
    \A on : \A kind \in BeOps :
        Op(kind, t, on) \in prepared' <=> Op(kind, t, on) \in prepared

\* And those in flight.
SameFlight(t) ==
    \A on : \A kind \in BeOps :
        /\ Op(kind, t, on) \in DOMAIN flight' <=> Op(kind, t, on) \in DOMAIN flight
        /\ Op(kind, t, on) \in DOMAIN flight =>
              flight'[Op(kind, t, on)] = flight[Op(kind, t, on)]

\* Two records of a connection that are the same towards the backend.
SameSide(c, d) ==
    /\ d.be = c.be /\ d.beSend = c.beSend /\ d.beRecv = c.beRecv
    /\ d.wait = c.wait /\ d.ask = c.ask /\ d.id = c.id

\* A step leaves backend b, and what its session has received, alone.
SameBackend(b) ==
    /\ sess'[b] = sess[b] /\ buf'[b] = buf[b]
    /\ sess[b].alive => inbox'[Session(b)] = inbox[Session(b)]

\* A connection about which a step changes nothing still fits.
LEMMA FitsStill ==
    ASSUME LoopInv, KernelInv, NEW t \in Slots, Fits(t),
           SameSide(conn[t], conn'[t]), SamePrepared(t), SameFlight(t),
           conn[t].be # None => SameBackend(conn[t].be),
           pc = "close" => t # cur,
           Ring!Holds(waiters', t) => Ring!Holds(waiters, t)
    PROVE  Fits(t)'
<1> USE DEF SameSide
<1>1. conn[t].be \in Backends \union {None}
  BY DEF LoopInv, LoopTypes, TypeOK
<1>2. CASE conn[t].be = None
  BY <1>2 DEF Fits
<1>3. CASE conn[t].be # None
  <2> DEFINE b == conn[t].be
  <2>1. b \in Backends /\ conn'[t].be = b
    BY <1>1, <1>3
  <2>2. sess[b].busy /\ buf[b] = conn[t].id /\ Underway(t) /\ sess[b].alive
    BY <1>3, <2>1 DEF Fits, KernelInv
  <2>3. /\ sess'[b] = sess[b] /\ buf'[b] = buf[b] /\ Session(b)' = Session(b)
        /\ inbox'[Session(b)] = inbox[Session(b)]
    BY <1>3, <2>1, <2>2 DEF SameBackend, Session
  <2>4. \A kind \in BeOps : Comes(kind, t)' <=> Comes(kind, t)
    <3> SUFFICES ASSUME NEW kind \in BeOps
                 PROVE  Comes(kind, t)' <=> Comes(kind, t)
      OBVIOUS
    <3>1. /\ Op(kind, t, b) \in prepared' <=> Op(kind, t, b) \in prepared
          /\ Op(kind, t, Session(b)) \in DOMAIN flight' <=>
                Op(kind, t, Session(b)) \in DOMAIN flight
          /\ Op(kind, t, Session(b)) \in DOMAIN flight =>
                flight'[Op(kind, t, Session(b))] = flight[Op(kind, t, Session(b))]
      BY DEF SamePrepared, SameFlight
    <3> QED
      BY <2>1, <2>3, <3>1 DEF Comes
  <2>5. /\ Op("be_send", t, b) \in prepared' <=> Op("be_send", t, b) \in prepared
        /\ "be_send" \in BeOps /\ "be_recv" \in BeOps
    BY DEF SamePrepared, BeOps
  <2> HIDE DEF b
  <2>6. Underway(t)'
    BY <2>1, <2>2, <2>3, <2>4, <2>5 DEF Underway, b
  <2> QED
    BY <1>3, <2>1, <2>2, <2>3, <2>6 DEF Fits, b
<1> QED
  BY <1>2, <1>3

\* So for a backend.
LEMMA ServesStill ==
    ASSUME LoopInv, NEW b \in Backends, Serves(b), SameBackend(b),
           \A t \in Slots : /\ conn'[t].be = b <=> conn[t].be = b
                            /\ conn[t].be = b => SameSide(conn[t], conn'[t]),
           DOMAIN flight' \subseteq DOMAIN flight
    PROVE  Serves(b)'
<1>1. /\ Session(b)' = Session(b) /\ sess'[b] = sess[b]
      /\ sess[b].alive => inbox'[Session(b)] = inbox[Session(b)]
  BY DEF SameBackend, Session
<1>2. \A o \in DOMAIN flight : o.slot \in Slots
  BY DEF LoopInv, LoopTypes, TypeOK
<1>3. ASSUME NEW o \in DOMAIN flight, Owns(o, b)
      PROVE  Owns(o, b)'
  BY <1>2, <1>3 DEF Owns, SameSide
<1>4. sess'[b].busy => \E t \in Slots : conn'[t].be = b
  BY <1>1 DEF Serves
<1>5. \A t, u \in Slots : conn'[t].be = b /\ conn'[u].be = b => t = u
  BY DEF Serves
<1>6. sess'[b].alive /\ ~sess'[b].busy => inbox'[Session(b)'] = <<>>
  BY <1>1 DEF Serves
<1>7. sess'[b].alive => \A o \in DOMAIN flight' :
          o.op \in BeOps /\ o.on = Session(b)' => Owns(o, b)'
  BY <1>1, <1>3 DEF Serves
<1> QED
  BY <1>4, <1>5, <1>6, <1>7 DEF Serves

\* Completions, and logins that only advance, keep what the kernel has in order.
LEMMA KernelStill ==
    ASSUME LoopInv, KernelInv, DOMAIN flight' \subseteq DOMAIN flight,
           \A b \in Backends : /\ sess'[b].login \in Nat /\ sess'[b].login >= sess[b].login
                               /\ sess'[b].busy => sess'[b].alive,
           DOMAIN buf' = DOMAIN buf, DOMAIN inbox' = DOMAIN inbox,
           \A f \in Sessions : inbox[f] = <<>> => inbox'[f] = <<>>,
           \A s \in Slots : conn'[s].state = "FREE" => conn'[s] = FreeConn
    PROVE  KernelInv'
<1>1. \A b \in Backends : sess[b].login \in Nat
  BY SessionIs
<1>2. \A f \in Sessions : f[1] \in Backends /\ f[2] \in Nat
  BY LoopAssumption DEF Sessions
<1>3. \A f \in Sessions : f[2] <= sess[f[1]].login => f[2] <= sess'[f[1]].login
  BY <1>1, <1>2
<1>4. \A f \in Sessions : f[2] > sess'[f[1]].login => f[2] > sess[f[1]].login
  BY <1>1, <1>2
<1> QED
  BY <1>3, <1>4 DEF KernelInv

\* A step at slot s and at the backends in B.
LEMMA OneSlotSound ==
    ASSUME LoopInv, LoopInv', KernelInv, Sound, ~mixed',
           NEW s \in Slots, NEW B \in SUBSET Backends,
           \A t \in Slots : t # s => /\ conn'[t] = conn[t] /\ conn[t].be \notin B
                                     /\ SamePrepared(t) /\ SameFlight(t)
                                     /\ Ring!Holds(waiters', t) => Ring!Holds(waiters, t),
           \A b \in Backends \ B : SameBackend(b),
           \/ SameSide(conn[s], conn'[s])
           \/ conn[s].be \in B \union {None} /\ conn'[s].be \in B \union {None},
           DOMAIN flight' \subseteq DOMAIN flight,
           pc = "close" => cur = s,
           Fits(s)',
           \A b \in B : Serves(b)',
           \A o \in prepared' : o.slot = s => Belongs(o)'
    PROVE  Sound'
<1>1. \A t \in Slots : conn[t].be \in Backends \union {None}
  BY DEF LoopInv, LoopTypes, TypeOK
<1>2. ASSUME NEW t \in Slots, t # s
      PROVE  Fits(t)'
  <2>1. conn[t].be # None => SameBackend(conn[t].be)
    BY <1>1, <1>2
  <2> QED
    BY <1>2, <2>1, FitsStill DEF Sound, SameSide
<1>3. ASSUME NEW b \in Backends \ B
      PROVE  Serves(b)'
  <2>1. b # None
    BY LoopAssumption
  <2>2. ASSUME NEW t \in Slots
        PROVE  /\ conn'[t].be = b <=> conn[t].be = b
               /\ conn[t].be = b => SameSide(conn[t], conn'[t])
    BY <1>3, <2>1 DEF SameSide
  <2> QED
    BY <1>3, <2>2, ServesStill DEF Sound
<1>4. ASSUME NEW o \in prepared', o.slot # s
      PROVE  Belongs(o)'
  <2>1. o = Op(o.op, o.slot, o.on) /\ o.slot \in Slots
    BY DEF LoopInv, LoopTypes, Prepares
  <2>2. conn'[o.slot] = conn[o.slot]
    BY <1>4, <2>1
  <2>3. o.op \in BeOps => o \in prepared
    BY <1>4, <2>1 DEF SamePrepared
  <2> QED
    BY <2>2, <2>3 DEF Sound, Belongs, Owns
<1> QED
  BY <1>2, <1>3, <1>4 DEF Sound

-----------------------------------------------------------------------------
(* Handlers that have nothing to do with a backend.                         *)

\* A helper that does nothing on the backend side of a connection.
Plain(c, r) ==
    /\ SameSide(c, r.c) /\ r.c.state = c.state
    /\ \A o \in r.ops : o.op \notin BeOps

\* Reads and sends on the client's socket are plain.
LEMMA PlainHelpers ==
    ASSUME NEW s \in Slots, NEW c \in Conns
    PROVE  /\ Plain(c, With(c, {}))
           /\ Plain(c, SubmitRead(s, c))
           /\ Plain(c, SubmitSend(s, c))
           /\ Plain(c, QueueReply(s, c))
<1>1. Plain(c, With(c, {}))
  BY DEF Plain, With, SameSide
<1>2. Plain(c, SubmitRead(s, c))
  <2> DEFINE d == [c EXCEPT !.read = TRUE]
             o == Op(ReadOp, s, Client(c.id))
  <2>1. SameSide(c, d) /\ d.state = c.state
    BY DEF SameSide, Conns
  <2>2. o.op \notin BeOps
    BY OpIs, ReadOpIsRead DEF BeOps
  <2>3. ~c.read => SubmitRead(s, c).c = d /\ SubmitRead(s, c).ops = {o}
    BY DEF SubmitRead, With
  <2>4. c.read => SubmitRead(s, c) = With(c, {})
    BY DEF SubmitRead
  <2> HIDE DEF d, o
  <2> QED
    BY <1>1, <2>1, <2>2, <2>3, <2>4 DEF Plain
<1>3. Plain(c, SubmitSend(s, c))
  <2> DEFINE d == [c EXCEPT !.send = TRUE, !.more = FALSE]
             e == [c EXCEPT !.more = TRUE]
             o == Op("send", s, Client(c.id))
  <2>1. SameSide(c, d) /\ d.state = c.state /\ SameSide(c, e) /\ e.state = c.state
    BY DEF SameSide, Conns
  <2>2. o.op \notin BeOps
    BY OpIs DEF BeOps
  <2>3. ~c.send => SubmitSend(s, c).c = d /\ SubmitSend(s, c).ops = {o}
    BY DEF SubmitSend, With
  <2>4. c.send => SubmitSend(s, c).c = e /\ SubmitSend(s, c).ops = {}
    BY DEF SubmitSend, With
  <2> HIDE DEF d, e, o
  <2> QED
    BY <2>1, <2>2, <2>3, <2>4 DEF Plain
<1> QED
  BY <1>1, <1>2, <1>3 DEF QueueReply

\* Arming the read again adds nothing for the backend.
LEMMA PlainRearmed ==
    ASSUME NEW s \in Slots, NEW r, r.c \in Conns
    PROVE  /\ SameSide(r.c, Rearmed(s, r).c) /\ Rearmed(s, r).c.state = r.c.state
           /\ r.ops \subseteq Rearmed(s, r).ops
           /\ \A o \in Rearmed(s, r).ops : o \in r.ops \/ o.op \notin BeOps
<1> DEFINE again == SubmitRead(s, r.c)
<1>1. Plain(r.c, again)
  BY PlainHelpers
<1>2. Rearmed(s, r).c = again.c /\ Rearmed(s, r).ops = r.ops \union again.ops
  BY DEF Rearmed, With
<1> HIDE DEF again
<1> QED
  BY <1>1, <1>2 DEF Plain

\* What a completion has met, as long as none has met a stranger.
LEMMA MetItsOwn ==
    ASSUME LoopInv, KernelInv, NEW op, NEW kind, kind # "accept", Completes(op, kind), ~strayed'
    PROVE  /\ ~strayed /\ op \in DOMAIN flight /\ op.op = kind /\ op.on # NoFile
           /\ op = Op(kind, op.slot, op.on)
           /\ kind \notin BeOps => op.on = Client(conn[op.slot].id)
           /\ kind \in BeOps => /\ conn[op.slot].be \in Backends
                                /\ op.on = Session(conn[op.slot].be)
<1>1. op \in DOMAIN flight /\ op.op = kind /\ Meets(op) /\ op = Op(kind, op.slot, op.on)
  BY DEF Completes, KernelInv
<1>2. op.slot \in Slots /\ conn[op.slot].be \in Backends \union {None}
  BY CompletionFacts DEF LoopInv, LoopTypes, TypeOK
<1>3. ~strayed /\ op.on # NoFile
  BY <1>1 DEF Meets
<1>4. kind \notin BeOps => op.on = Client(conn[op.slot].id)
  BY <1>1 DEF Meets, BeOps
<1>5. kind \in BeOps => conn[op.slot].be # None /\ op.on = Session(conn[op.slot].be)
  BY <1>1, <1>3 DEF Meets, BeOps
<1> QED
  BY <1>1, <1>2, <1>3, <1>4, <1>5

\* A completion of the client's socket leaves the operations of backends alone.
LEMMA ClientOpTaken ==
    ASSUME KernelInv, NEW op, op \in DOMAIN flight, Takes(op), op.op \notin BeOps
    PROVE  \A t : SameFlight(t)
<1>1. \A t, on : \A kind \in BeOps : Op(kind, t, on) # op
  BY OpIs
<1> QED
  BY <1>1, TakenIs DEF SameFlight

\* A handler that does not touch the backend side of its connection.
LEMMA PlainStep ==
    ASSUME LoopInv, LoopInv', PipeInv, pc # "close",
           NEW s \in Slots, NEW d, conn' = [conn EXCEPT ![s] = d],
           SameSide(conn[s], d), conn[s].state # "FREE", d.state # "FREE",
           prepared \subseteq prepared',
           \A o \in prepared' : o \in prepared \/ o.op \notin BeOps,
           \A t : SameFlight(t), DOMAIN flight' \subseteq DOMAIN flight,
           UNCHANGED <<waiters, sess, buf, inbox, mixed>>,
           ~strayed' => ~strayed
    PROVE  PipeInv'
<1>1. /\ conn'[s] = d /\ \A t \in Slots : t # s => conn'[t] = conn[t]
      /\ \A t \in Slots : SameSide(conn[t], conn'[t])
  BY DEF LoopInv, LoopTypes, TypeOK, SameSide
<1>2. WaitersInv'
  BY <1>1 DEF PipeInv, WaitersInv, SameSide
<1>3. KernelInv'
  <2>1. \A b \in Backends : sess[b].login \in Nat
    BY SessionIs
  <2>2. \A t \in Slots : conn'[t].state = "FREE" => conn'[t] = FreeConn
    BY <1>1 DEF PipeInv, KernelInv
  <2> QED
    BY <2>1, <2>2, KernelStill DEF PipeInv, KernelInv
<1>4. ASSUME ~strayed'
      PROVE  Sound'
  <2>1. Sound /\ KernelInv
    BY <1>4 DEF PipeInv
  <2>2. \A t : SamePrepared(t)
    BY OpIs DEF SamePrepared
  <2>3. \A b \in Backends : SameBackend(b)
    BY DEF SameBackend
  <2>4. Fits(s)'
    <3>1. conn[s].be \in Backends \union {None} /\ SameSide(conn[s], conn'[s])
      BY <1>1 DEF LoopInv, LoopTypes, TypeOK
    <3> QED
      BY <2>1, <2>2, <2>3, <3>1, FitsStill DEF Sound
  <2>5. ASSUME NEW o \in prepared', o.slot = s
        PROVE  Belongs(o)'
    <3>1. CASE o.op \notin BeOps
      BY <3>1 DEF Belongs
    <3>2. CASE o \in prepared
      <4>1. conn[s] # FreeConn
        BY DEF FreeConn
      <4> QED
        BY <1>1, <2>1, <2>5, <3>2, <4>1 DEF Sound, Belongs, Owns, SameSide
    <3> QED
      BY <3>1, <3>2
  <2>6. \A t \in Slots : t # s => /\ conn'[t] = conn[t] /\ conn[t].be \notin {}
                                  /\ SamePrepared(t) /\ SameFlight(t)
                                  /\ Ring!Holds(waiters', t) => Ring!Holds(waiters, t)
    BY <1>1, <2>2
  <2>7. ~mixed'
    BY <2>1 DEF Sound
  <2>8. /\ {} \in SUBSET Backends /\ \A b \in {} : Serves(b)'
        /\ \A b \in Backends \ {} : SameBackend(b)
    BY <2>3
  <2> QED
    BY <1>1, <2>1, <2>4, <2>5, <2>6, <2>7, <2>8, OneSlotSound
<1> QED
  BY <1>2, <1>3, <1>4 DEF PipeInv

\* What is done with the completions of the client's socket.
LEMMA PlainHandlers ==
    ASSUME LoopInv, LoopInv', PipeInv, NEW op,
           ReadEnd(op) \/ ReadOther(op) \/ SendDone(op) \/ SendFailed(op)
    PROVE  PipeInv'
<1> DEFINE s == op.slot
           u == [conn[s] EXCEPT !.read = FALSE]
           v == [conn[s] EXCEPT !.send = FALSE]
<1>1. PICK kind \in {ReadOp, "send"} : Completes(op, kind)
  BY DEF ReadEnd, ReadOther, SendDone, SendFailed
<1>2. kind # "accept" /\ kind \notin BeOps
  BY ReadOpIsRead DEF BeOps
<1>3. /\ s \in Slots /\ conn[s] \in Conns /\ pc = "wait" /\ prepared = {} /\ op.op = kind
      /\ conn[s].state # "FREE"
  BY <1>1, <1>2, CompletionFacts DEF Completes
<1>4. op \in DOMAIN flight /\ Takes(op) /\ (~strayed' => ~strayed)
  BY <1>1 DEF Completes, Meets
<1>5. (\A t : SameFlight(t)) /\ DOMAIN flight' \subseteq DOMAIN flight
  BY <1>2, <1>3, <1>4, ClientOpTaken, TakenIs DEF PipeInv
<1>6. UNCHANGED <<waiters, sess, buf, inbox, mixed>>
  BY DEF ReadEnd, ReadOther, SendDone, SendFailed, poolVars, dbVars
<1>7. ASSUME NEW r, SameSide(conn[s], r.c), r.c.state # "FREE",
             \A o \in r.ops : o.op \notin BeOps, Handled(s, r)
      PROVE  PipeInv'
  <2>1. /\ conn' = [conn EXCEPT ![s] = r.c]
        /\ prepared \subseteq prepared'
        /\ \A o \in prepared' : o \in prepared \/ o.op \notin BeOps
    BY <1>7 DEF Handled
  <2> QED
    BY <1>3, <1>4, <1>5, <1>6, <1>7, <2>1, PlainStep
<1>8. /\ SameSide(conn[s], u) /\ u.state = conn[s].state /\ u \in Conns
      /\ SameSide(conn[s], v) /\ v.state = conn[s].state /\ v \in Conns
  BY <1>3 DEF SameSide, Conns
<1>9. ASSUME NEW d, d = u \/ d = v, conn' = [conn EXCEPT ![s] = d], prepared' = prepared
      PROVE  PipeInv'
  BY <1>3, <1>4, <1>5, <1>6, <1>8, <1>9, PlainStep
<1>10. CASE ReadEnd(op)
  <2>1. conn' = [conn EXCEPT ![s] = u] /\ prepared' = prepared
    BY <1>3, <1>10 DEF ReadEnd, LoopInv, LoopTypes, TypeOK
  <2> QED
    BY <1>9, <2>1
<1>11. CASE ReadOther(op)
  <2> DEFINE c == [conn[s] EXCEPT !.read = FALSE, !.state = "ACTIVE"]
             r == With(c, {})
  <2>1. SameSide(conn[s], c) /\ c.state = "ACTIVE" /\ c \in Conns /\ r.c = c /\ r.ops = {}
    BY <1>3 DEF SameSide, Conns, With
  <2>2. CASE Handled(s, Rearmed(s, r))
    <3> HIDE DEF c, r
    <3>1. /\ SameSide(r.c, Rearmed(s, r).c) /\ Rearmed(s, r).c.state = "ACTIVE"
          /\ \A o \in Rearmed(s, r).ops : o.op \notin BeOps
      BY <1>3, <2>1, PlainRearmed
    <3> QED
      BY <1>7, <2>1, <2>2, <3>1 DEF SameSide
  <2>3. CASE conn' = [conn EXCEPT ![s].read = FALSE] /\ prepared' = prepared
    <3>1. conn' = [conn EXCEPT ![s] = u]
      BY <1>3, <2>3 DEF LoopInv, LoopTypes, TypeOK
    <3> QED
      BY <1>9, <2>3, <3>1
  <2> QED
    BY <1>11, <2>2, <2>3 DEF ReadOther
<1>12. CASE SendDone(op)
  <2> DEFINE w == [v EXCEPT !.more = FALSE]
  <2>1. SameSide(conn[s], w) /\ w.state = conn[s].state
    BY <1>3 DEF SameSide, Conns
  <2>2. Handled(s, SubmitSend(s, v)) \/ Handled(s, With(w, {}))
    BY <1>12 DEF SendDone
  <2> HIDE DEF v, w
  <2>3. Plain(v, SubmitSend(s, v))
    BY <1>3, <1>8, PlainHelpers
  <2>4. CASE Handled(s, SubmitSend(s, v))
    BY <1>3, <1>7, <1>8, <2>3, <2>4 DEF Plain, SameSide
  <2>5. CASE Handled(s, With(w, {}))
    <3>1. With(w, {}).c = w /\ With(w, {}).ops = {}
      BY DEF With
    <3> QED
      BY <1>3, <1>7, <2>1, <2>5, <3>1
  <2> QED
    BY <2>2, <2>4, <2>5
<1>13. CASE SendFailed(op)
  <2>1. conn' = [conn EXCEPT ![s] = v] /\ prepared' = prepared
    BY <1>3, <1>13 DEF SendFailed, LoopInv, LoopTypes, TypeOK
  <2> QED
    BY <1>9, <2>1
<1> QED
  BY <1>10, <1>11, <1>12, <1>13

\* Steps at no connection.
LEMMA NoSlotStep ==
    ASSUME LoopInv, LoopInv', PipeInv, UNCHANGED <<conn, waiters, prepared, mixed, strayed>>,
           \A t : SameFlight(t), DOMAIN flight' \subseteq DOMAIN flight,
           DOMAIN buf' = DOMAIN buf, DOMAIN inbox' = DOMAIN inbox,
           \A f \in Sessions : inbox[f] = <<>> => inbox'[f] = <<>>,
           \A b \in Backends :
              \/ SameBackend(b) /\ buf'[b] = buf[b]
              \/ /\ ~sess[b].alive /\ ~sess'[b].busy /\ inbox' = inbox
                 /\ sess'[b].login = sess[b].login + 1,
           pc = "close" => pc' = "close" /\ cur' = cur
    PROVE  PipeInv'
<1>1. \A b \in Backends : sess[b].login \in Nat
  BY SessionIs
<1>2. WaitersInv'
  BY DEF PipeInv, WaitersInv
<1>3. KernelInv'
  <2>1. ASSUME NEW b \in Backends
        PROVE  /\ sess'[b].login \in Nat /\ sess'[b].login >= sess[b].login
               /\ sess'[b].busy => sess'[b].alive
    BY <1>1 DEF SameBackend, PipeInv, KernelInv
  <2> QED
    BY <2>1, KernelStill DEF PipeInv, KernelInv
<1>4. ASSUME ~strayed'
      PROVE  Sound'
  <2>1. Sound /\ KernelInv
    BY <1>4 DEF PipeInv
  <2>2. ASSUME NEW t \in Slots
        PROVE  Fits(t)'
    <3>1. conn[t].be \in Backends \union {None}
      BY DEF LoopInv, LoopTypes, TypeOK
    <3>2. CASE conn[t].be = None
      BY <2>1, <3>2 DEF Sound, Fits
    <3>3. CASE conn[t].be \in Backends
      <4> DEFINE b == conn[t].be
      <4>1. Fits(t) /\ b # None /\ sess[b].busy /\ sess[b].alive
        BY <2>1, <3>3, LoopAssumption DEF Sound, Fits, KernelInv
      <4>2. SameBackend(b)
        BY <3>3, <4>1
      <4>3. /\ Session(b)' = Session(b) /\ inbox'[Session(b)] = inbox[Session(b)]
            /\ sess'[b] = sess[b] /\ buf'[b] = buf[b]
        BY <4>1, <4>2 DEF SameBackend, Session
      <4>4. \A kind \in BeOps : Comes(kind, t)' <=> Comes(kind, t)
        BY <4>3 DEF Comes, SameFlight
      <4>5. Underway(t)'
        <5>1. Underway(t) /\ "be_send" \in BeOps /\ "be_recv" \in BeOps
          BY <4>1 DEF Fits, BeOps
        <5> QED
          BY <4>3, <4>4, <5>1 DEF Underway
      <4> QED
        BY <4>1, <4>3, <4>5 DEF Fits
    <3> QED
      BY <3>1, <3>2, <3>3
  <2>3. ASSUME NEW b \in Backends
        PROVE  Serves(b)'
    <3>1. CASE SameBackend(b)
      BY <2>1, <3>1, ServesStill DEF Sound, SameSide
    <3>2. CASE /\ ~sess[b].alive /\ ~sess'[b].busy /\ inbox' = inbox
               /\ sess'[b].login = sess[b].login + 1
      <4>1. \A t \in Slots : conn'[t].be # b
        BY <2>1, <3>2, LoopAssumption DEF Sound, Fits, KernelInv
      <4>2. /\ Session(b)' \in Sessions /\ Session(b)'[1] = b
            /\ Session(b)'[2] = sess[b].login + 1 /\ Session(b)' # NoFile
        BY <3>2, SessionIsThen
      <4>3. inbox'[Session(b)'] = <<>>
        BY <1>1, <2>1, <3>2, <4>2 DEF KernelInv
      <4>4. \A o \in DOMAIN flight' : o.op \in BeOps => o.on # Session(b)'
        BY <1>1, <2>1, <3>2, <4>2 DEF KernelInv
      <4> QED
        BY <3>2, <4>1, <4>3, <4>4 DEF Serves
    <3> QED
      BY <3>1, <3>2
  <2>4. \A o \in prepared' : Belongs(o)'
    BY <2>1 DEF Sound, Belongs, Owns
  <2>5. ~mixed'
    BY <2>1 DEF Sound
  <2> QED
    BY <2>2, <2>3, <2>4, <2>5 DEF Sound
<1> QED
  BY <1>2, <1>3, <1>4 DEF PipeInv

\* Hang-ups, drops, the tick, and the end of a pass.
LEMMA NoSlotActions ==
    ASSUME LoopInv, LoopInv', PipeInv,
           \/ \E k \in Clients : HangUp(k)
           \/ \E f \in Sessions : Drop(f)
           \/ \E b \in Backends : Tick(b)
           \/ GrantEnd
           \/ UNCHANGED vars
    PROVE  PipeInv'
<1> USE DEF vars, loopVars, poolVars, clientVars, dbVars, history
<1>1. ASSUME UNCHANGED <<conn, waiters, prepared, flight, buf, inbox, history>>,
             \A b \in Backends : \/ sess'[b] = sess[b]
                                 \/ /\ ~sess[b].alive /\ ~sess'[b].busy
                                    /\ sess'[b].login = sess[b].login + 1,
             pc = "close" => pc' = "close" /\ cur' = cur
      PROVE  PipeInv'
  <2>1. \A t : SameFlight(t)
    BY <1>1 DEF SameFlight
  <2> QED
    BY <1>1, <2>1, NoSlotStep DEF SameBackend
<1>2. ASSUME NEW b \in Backends, Tick(b)
      PROVE  PipeInv'
  <2>1. \A x \in Backends : \/ sess'[x] = sess[x]
                            \/ /\ ~sess[x].alive /\ ~sess'[x].busy
                               /\ sess'[x].login = sess[x].login + 1
    BY <1>2, RestTyped DEF Tick, PoolTypes
  <2> QED
    BY <1>1, <1>2, <2>1 DEF Tick
<1> QED
  BY <1>1, <1>2 DEF HangUp, Drop, GrantEnd

\* A completion nobody waits for is not one of a session in use.
LEMMA IgnoredPipe ==
    ASSUME LoopInv, LoopInv', PipeInv, NEW op, Ignored(op)
    PROVE  PipeInv'
<1> DEFINE s == op.slot
<1>1. /\ op \in DOMAIN flight /\ Takes(op) /\ op = Op(op.op, s, op.on) /\ s \in Slots
      /\ pc = "wait" /\ pc' = "submit"
      /\ UNCHANGED <<prepared, waiters, conn, sess, buf, mixed, strayed>>
      /\ inbox' = IF op.op = "be_recv" /\ op.on \in Sessions /\ inbox[op.on] # <<>>
                    THEN [inbox EXCEPT ![op.on] = Tail(@)] ELSE inbox
  BY DEF Ignored, poolVars, history, PipeInv, KernelInv, LoopInv, LoopTypes, TypeOK
<1>2. DOMAIN flight' \subseteq DOMAIN flight
  BY <1>1, TakenIs
<1>3. /\ DOMAIN inbox' = DOMAIN inbox
      /\ \A f \in Sessions : inbox[f] = <<>> => inbox'[f] = <<>>
      /\ \A f \in Sessions : inbox'[f] # inbox[f] => op.op = "be_recv" /\ f = op.on
  BY <1>1 DEF PipeInv, KernelInv
<1>4. CASE op.op \notin BeOps
  <2>1. \A t : SameFlight(t)
    BY <1>1, <1>4, ClientOpTaken DEF PipeInv
  <2>2. inbox' = inbox
    BY <1>1, <1>4 DEF BeOps
  <2> QED
    BY <1>1, <1>2, <2>1, <2>2, NoSlotStep DEF SameBackend
<1>5. CASE op.op \in BeOps
  <2>1. conn[s].be = None
    BY <1>1 DEF Ignored, PipeInv, KernelInv, FreeConn
  <2>2. WaitersInv'
    BY <1>1 DEF PipeInv, WaitersInv
  <2>3. KernelInv'
    <3>1. \A b \in Backends : sess[b].login \in Nat
      BY SessionIs
    <3> QED
      BY <1>1, <1>2, <1>3, <3>1, KernelStill DEF PipeInv, KernelInv
  <2>4. ASSUME ~strayed'
        PROVE  Sound'
    <3>1. Sound /\ KernelInv
      BY <1>1, <2>4 DEF PipeInv
    <3>2. \A t : SamePrepared(t)
      BY <1>1 DEF SamePrepared
    <3>3. \A t \in Slots : t # s => SameFlight(t)
      <4>1. \A t, on : \A kind \in BeOps : t # s => Op(kind, t, on) # op
        BY OpIs
      <4> QED
        BY <1>1, <4>1, TakenIs DEF SameFlight
    <3>4. ASSUME NEW b \in Backends
          PROVE  SameBackend(b)
      <4>1. sess[b].alive => op.on # Session(b)
        <5>1. b # None
          BY LoopAssumption
        <5> QED
          BY <1>1, <1>5, <2>1, <3>1, <5>1 DEF Sound, Serves, Owns
      <4>2. Session(b) \in Sessions
        BY SessionIs
      <4> QED
        BY <1>1, <1>3, <4>1, <4>2 DEF SameBackend
    <3>5. Fits(s)'
      BY <1>1, <2>1, <3>1 DEF Sound, Fits
    <3>6. \A o \in prepared' : o.slot = s => Belongs(o)'
      BY <1>1, <3>1 DEF Sound, Belongs, Owns
    <3>7. ~mixed' /\ SameSide(conn[s], conn'[s])
      BY <1>1, <3>1 DEF Sound, SameSide
    <3>8. /\ {} \in SUBSET Backends /\ \A b \in {} : Serves(b)'
          /\ \A b \in Backends \ {} : SameBackend(b)
      BY <3>4
    <3>9. \A t \in Slots : t # s => /\ conn'[t] = conn[t] /\ conn[t].be \notin {}
                                    /\ SamePrepared(t) /\ SameFlight(t)
                                    /\ Ring!Holds(waiters', t) => Ring!Holds(waiters, t)
      BY <1>1, <3>2, <3>3
    <3> QED
      BY <1>1, <1>2, <3>1, <3>5, <3>6, <3>7, <3>8, <3>9, OneSlotSound
  <2> QED
    BY <2>2, <2>3, <2>4 DEF PipeInv
<1> QED
  BY <1>4, <1>5

\* A new client takes a slot of which the wait ring, the pool and the current
\* sessions know nothing.
LEMMA AcceptPipe ==
    ASSUME LoopInv, LoopInv', PipeInv, Accept
    PROVE  PipeInv'
<1> DEFINE listen == Op("accept", 0, Listen)
<1>1. /\ pc = "wait" /\ pc' = "submit" /\ prepared = {}
      /\ listen \in DOMAIN flight /\ Takes(listen)
      /\ UNCHANGED <<waiters, sess, buf, inbox, mixed, strayed>>
  <2>1. pc = "wait" => prepared = {}
    BY DEF LoopInv, LoopTypes
  <2>2. /\ pc = "wait" /\ pc' = "submit" /\ listen \in DOMAIN flight /\ Takes(listen)
        /\ UNCHANGED <<mode, cur, left, waiters, poolVars, dbVars, history>>
    BY Zenon DEF Accept
  <2> QED
    BY <2>1, <2>2 DEF poolVars, dbVars, history
<1>2. listen.op \notin BeOps
  BY OpIs DEF BeOps
<1> HIDE DEF listen
<1>3. (\A t : SameFlight(t)) /\ DOMAIN flight' \subseteq DOMAIN flight
  BY <1>1, <1>2, ClientOpTaken, TakenIs DEF PipeInv
<1>4. \A b \in Backends : SameBackend(b)
  BY <1>1 DEF SameBackend
<1>5. CASE prepared' = {listen} /\ conn' = conn
  <2>1. WaitersInv'
    BY <1>1, <1>5 DEF PipeInv, WaitersInv
  <2>2. KernelInv'
    <3>1. \A b \in Backends : sess[b].login \in Nat
      BY SessionIs
    <3> QED
      BY <1>1, <1>3, <1>5, <3>1, KernelStill DEF PipeInv, KernelInv
  <2>3. ASSUME ~strayed'
        PROVE  Sound'
    <3>1. Sound /\ KernelInv
      BY <1>1, <2>3 DEF PipeInv
    <3>2. \A t : SamePrepared(t)
      BY <1>1, <1>2, <1>5, OpIs DEF SamePrepared
    <3>3. \A t \in Slots : Fits(t)'
      <4>1. \A t \in Slots : conn[t].be \in Backends \union {None}
        BY DEF LoopInv, LoopTypes, TypeOK
      <4> QED
        BY <1>1, <1>3, <1>4, <1>5, <3>1, <3>2, <4>1, FitsStill DEF Sound, SameSide
    <3>4. \A b \in Backends : Serves(b)'
      BY <1>3, <1>4, <1>5, <3>1, ServesStill DEF Sound, SameSide
    <3>5. \A o \in prepared' : Belongs(o)'
      BY <1>2, <1>5 DEF Belongs
    <3> QED
      BY <1>1, <3>1, <3>3, <3>4, <3>5 DEF Sound
  <2> QED
    BY <2>1, <2>2, <2>3 DEF PipeInv
<1>6. CASE FreeSlots # {} /\ ~(prepared' = {listen} /\ conn' = conn)
  <2> DEFINE first == CHOOSE t \in FreeSlots : \A u \in FreeSlots : t <= u
  <2>1. PICK s \in Slots : s = first /\ conn[s].state = "FREE"
    <3>1. FreeSlots \in SUBSET Nat
      BY DEF FreeSlots, Slots
    <3>2. first \in FreeSlots
      BY <1>6, <3>1, LeastNatural
    <3> QED
      BY <3>2 DEF FreeSlots
  <2> DEFINE c == [FreeConn EXCEPT
                     !.state = IF mode = "tls" THEN "TLS_HS" ELSE "ACTIVE",
                     !.id = accepted + 1,
                     !.dirty = \E op \in DOMAIN flight :
                                   op.op # "accept" /\ op.slot = s]
             r == SubmitRead(s, c)
  <2>2. conn' = [conn EXCEPT ![s] = r.c] /\ prepared' = r.ops \union {listen}
    BY <1>6, <2>1, Zenon DEF Accept, listen
  <2> HIDE DEF first
  <2>4. /\ c \in Conns /\ c.state # "FREE" /\ c.be = None /\ ~c.beSend /\ ~c.beRecv
        /\ c.wait = "IDLE"
    <3> DEFINE hs == IF mode = "tls" THEN "TLS_HS" ELSE "ACTIVE"
               stale == \E op \in DOMAIN flight : op.op # "accept" /\ op.slot = s
    <3>0. FreeConn \in Conns
      BY LoopAssumption DEF FreeConn, Conns
    <3>1. /\ FreeConn \in Conns /\ FreeConn.be = None /\ ~FreeConn.beSend /\ ~FreeConn.beRecv
          /\ FreeConn.wait = "IDLE"
      BY <3>0 DEF FreeConn
    <3>2. accepted < MaxAccepts /\ accepted \in 0 .. MaxAccepts
      <4>1. accepted < MaxAccepts
        BY Zenon DEF Accept
      <4> QED
        BY <4>1 DEF LoopInv, LoopTypes
    <3>3. hs \in {"TLS_HS", "ACTIVE"} /\ stale \in BOOLEAN /\ accepted + 1 \in 0 .. MaxAccepts
      BY <3>2, LoopAssumption
    <3>4. c = [FreeConn EXCEPT !.state = hs, !.id = accepted + 1, !.dirty = stale]
      OBVIOUS
    <3> HIDE DEF hs, stale, c
    <3> QED
      BY <3>1, <3>3, <3>4 DEF Conns
  <2> HIDE DEF c
  <2>5. Plain(c, r)
    BY <2>4, PlainHelpers
  <2> HIDE DEF r
  <2>6. /\ conn[s] = FreeConn /\ conn[s].be = None /\ conn[s].wait = "IDLE"
        /\ ~conn[s].beSend /\ ~conn[s].beRecv
    <3>1. conn[s] = FreeConn
      BY <2>1 DEF PipeInv, KernelInv
    <3> QED
      BY <3>1 DEF FreeConn
  <2>7. /\ conn'[s] = r.c /\ \A t \in Slots : t # s => conn'[t] = conn[t]
        /\ r.c.state # "FREE" /\ r.c.be = None /\ ~r.c.beSend /\ ~r.c.beRecv
        /\ r.c.wait = "IDLE"
    BY <2>2, <2>4, <2>5 DEF LoopInv, LoopTypes, TypeOK, Plain, SameSide
  <2>8. \A o \in prepared' : o.op \notin BeOps
    BY <1>2, <2>2, <2>5 DEF Plain
  <2>9. WaitersInv'
    BY <1>1, <2>7 DEF PipeInv, WaitersInv
  <2>10. KernelInv'
    <3>1. \A b \in Backends : sess[b].login \in Nat
      BY SessionIs
    <3>2. \A t \in Slots : conn'[t].state = "FREE" => conn'[t] = FreeConn
      BY <2>7 DEF PipeInv, KernelInv
    <3> QED
      BY <1>1, <1>3, <3>1, <3>2, KernelStill DEF PipeInv, KernelInv
  <2>11. ASSUME ~strayed'
         PROVE  Sound'
    <3>1. Sound /\ KernelInv
      BY <1>1, <2>11 DEF PipeInv
    <3>2. \A t : SamePrepared(t)
      BY <1>1, <2>8, OpIs DEF SamePrepared
    <3>3. Fits(s)'
      BY <1>1, <2>6, <2>7, <3>1 DEF Sound, Fits
    <3>4. \A o \in prepared' : o.slot = s => Belongs(o)'
      BY <2>8 DEF Belongs
    <3>5. /\ {} \in SUBSET Backends /\ \A b \in {} : Serves(b)'
          /\ \A b \in Backends \ {} : SameBackend(b)
      BY <1>4
    <3>6. \A t \in Slots : t # s => /\ conn'[t] = conn[t] /\ conn[t].be \notin {}
                                    /\ SamePrepared(t) /\ SameFlight(t)
                                    /\ Ring!Holds(waiters', t) => Ring!Holds(waiters, t)
      BY <1>1, <1>3, <2>7, <3>2
    <3>7. ~mixed' /\ conn[s].be \in {} \union {None} /\ conn'[s].be \in {} \union {None}
      BY <1>1, <2>6, <2>7, <3>1 DEF Sound
    <3> QED
      BY <1>1, <1>3, <3>1, <3>3, <3>4, <3>5, <3>6, <3>7, OneSlotSound
  <2> QED
    BY <2>9, <2>10, <2>11 DEF PipeInv
<1> QED
  BY <1>5, <1>6, Zenon DEF Accept, listen

-----------------------------------------------------------------------------
(* A Bind starts or waits.                                                  *)

\* What connection d has after it was given backend b.
Sending(d, c, b) ==
    /\ d.be = b /\ d.id = c.id
    /\ d.beSend /\ ~d.beRecv /\ d.wait = "SENDING"

\* A connection without leftovers gets its backend and one send is prepared.
LEMMA StartedIs ==
    ASSUME NEW s \in Slots, NEW c \in Conns, NEW b \in Backends, ~c.beSend, ~c.beRecv
    PROVE  LET r == Started(s, c, b)
           IN  /\ Sending(r.c, c, b) /\ r.c \in Conns /\ r.c.state = c.state
               /\ r.ops = {Op("be_send", s, b)}
<1> DEFINE d == [c EXCEPT !.be = b, !.ask = 0]
           e == [d EXCEPT !.beSend = TRUE, !.wait = "SENDING"]
<1>1. /\ d \in Conns /\ d.be = b /\ ~d.beSend /\ ~d.beRecv /\ d.id = c.id /\ d.state = c.state
  <2>1. 0 \in 0 .. MaxAccepts /\ b \in Backends \union {None}
    BY LoopAssumption
  <2> QED
    BY <2>1 DEF Conns
<1>2. b # None
  BY LoopAssumption
<1>3. Started(s, c, b) = SubmitBeSend(s, d, TRUE)
  BY DEF Started
<1> HIDE DEF d
<1>4. e \in Conns /\ Sending(e, c, b) /\ e.state = c.state
  BY <1>1 DEF Conns, Sending
<1>5. Started(s, c, b) = With(e, {Op("be_send", s, b)})
  BY <1>1, <1>2, <1>3 DEF SubmitBeSend
<1> HIDE DEF e
<1> QED
  BY <1>4, <1>5 DEF With

\* The backend was idle and its session silent; now it is busy for one connection,
\* with one send to come.
LEMMA StartSound ==
    ASSUME LoopInv, LoopInv', KernelInv, Sound, pc # "close",
           NEW s \in Slots, conn[s].be = None, conn[s].state # "FREE",
           NEW b \in Idle, Start(conn[s].id, b),
           NEW d, conn' = [conn EXCEPT ![s] = d], Sending(d, conn[s], b), d.state # "FREE",
           Op("be_send", s, b) \in prepared', prepared \subseteq prepared',
           \A o \in prepared' : \/ o \in prepared \/ o.op \notin BeOps
                                \/ o = Op("be_send", s, b),
           \A t : SameFlight(t), DOMAIN flight' \subseteq DOMAIN flight,
           UNCHANGED <<inbox, mixed>>,
           \A t \in Slots : Ring!Holds(waiters', t) => Ring!Holds(waiters, t) /\ t # s
    PROVE  Sound'
<1>1. /\ conn'[s] = d /\ \A t \in Slots : t # s => conn'[t] = conn[t]
  BY DEF LoopInv, LoopTypes, TypeOK
<1>2. b \in Backends /\ b # None /\ sess[b].alive /\ ~sess[b].busy
  BY LoopAssumption DEF Idle
<1>3. \A t \in Slots : conn[t].be # b
  BY <1>2 DEF Sound, Fits
<1>4. /\ sess'[b].busy /\ sess'[b].alive /\ sess'[b].login = sess[b].login
      /\ buf'[b] = conn[s].id
      /\ \A a \in Backends : a # b => sess'[a] = sess[a] /\ buf'[a] = buf[a]
  BY <1>2 DEF Start, KernelInv, LoopInv, LoopTypes, TypeOK
<1>5. Session(b)' = Session(b) /\ inbox'[Session(b)] = <<>>
  BY <1>2, <1>4 DEF Session, Sound, Serves
<1>6. \A o \in DOMAIN flight : o.op \in BeOps => o.on # Session(b)
  BY <1>2, <1>3 DEF Sound, Serves, Owns, LoopInv, LoopTypes, TypeOK
<1>7. Op("be_send", s, Session(b)) \notin DOMAIN flight'
  BY <1>6, OpIs DEF BeOps
<1>8. Comes("be_send", s)'
  BY <1>1, <1>5, <1>7 DEF Comes, Sending
<1>9. Fits(s)'
  <2>1. Underway(s)'
    BY <1>1, <1>5, <1>8 DEF Underway, Sending
  <2> QED
    BY <1>1, <1>2, <1>4, <2>1 DEF Fits, Sending
<1>10. Serves(b)'
  <2>1. \A t \in Slots : conn'[t].be = b <=> t = s
    BY <1>1, <1>3 DEF Sending
  <2>2. \A o \in DOMAIN flight' : o.op \in BeOps => o.on # Session(b)'
    BY <1>5, <1>6
  <2> QED
    BY <1>4, <2>1, <2>2 DEF Serves
<1>11. ASSUME NEW o \in prepared', o.slot = s
       PROVE  Belongs(o)'
  <2>1. CASE o.op \notin BeOps
    BY <2>1 DEF Belongs
  <2>2. CASE o \in prepared /\ o.op \in BeOps
    <3>1. conn[s] # FreeConn
      BY DEF FreeConn
    <3>2. o.on \in Backends
      BY <2>2 DEF LoopInv, LoopTypes, Prepares, BeOps
    <3>3. conn[s].be = o.on
      BY <1>11, <2>2, <3>1 DEF Sound, Belongs, Owns
    <3> QED
      BY <3>2, <3>3, LoopAssumption
  <2>3. CASE o = Op("be_send", s, b)
    BY <1>1, <2>3, OpIs DEF Belongs, Owns, Sending
  <2> QED
    BY <1>11, <2>1, <2>2, <2>3
<1>12. ASSUME NEW t \in Slots, t # s
       PROVE  /\ conn'[t] = conn[t] /\ conn[t].be \notin {b}
              /\ SamePrepared(t) /\ SameFlight(t)
              /\ Ring!Holds(waiters', t) => Ring!Holds(waiters, t)
  <2>1. SamePrepared(t)
    BY <1>12, OpIs DEF SamePrepared
  <2> QED
    BY <1>1, <1>3, <1>12, <2>1
<1>13. /\ {b} \in SUBSET Backends /\ \A a \in {b} : Serves(a)'
       /\ \A a \in Backends \ {b} : SameBackend(a)
  BY <1>2, <1>4, <1>10 DEF SameBackend
<1>14. /\ ~mixed' /\ conn[s].be \in {b} \union {None} /\ conn'[s].be \in {b} \union {None}
  BY <1>1 DEF Sound, Sending
<1> QED
  BY <1>9, <1>11, <1>12, <1>13, <1>14, OneSlotSound

\* Starting leaves the kernel's part in order, whoever asked.
LEMMA StartKernel ==
    ASSUME LoopInv, KernelInv, NEW asker, NEW b, Start(asker, b), inbox' = inbox,
           DOMAIN flight' \subseteq DOMAIN flight,
           NEW s \in Slots, NEW d, conn' = [conn EXCEPT ![s] = d], d.state # "FREE"
    PROVE  KernelInv'
<1>1. b \in Backends /\ sess[b].alive
  BY DEF Start, Idle
<1>2. \A a \in Backends : sess[a].login \in Nat
  BY SessionIs
<1>3. ASSUME NEW a \in Backends
      PROVE  /\ sess'[a].login \in Nat /\ sess'[a].login >= sess[a].login
             /\ sess'[a].busy => sess'[a].alive
  <2>1. sess'[a].login = sess[a].login /\ sess'[a].alive = sess[a].alive
    BY <1>1 DEF Start, LoopInv, LoopTypes, TypeOK
  <2>2. a # b => sess'[a] = sess[a]
    BY <1>1 DEF Start, LoopInv, LoopTypes, TypeOK
  <2> QED
    BY <1>1, <1>2, <2>1, <2>2 DEF KernelInv
<1>4. \A t \in Slots : conn'[t].state = "FREE" => conn'[t] = FreeConn
  BY DEF KernelInv, LoopInv, LoopTypes, TypeOK
<1>5. DOMAIN buf' = DOMAIN buf
  BY DEF Start
<1> QED
  BY <1>3, <1>4, <1>5, KernelStill

\* Who asks for a backend is the connection itself, and it has none yet.
LEMMA BindIsOwn ==
    ASSUME LoopInv, KernelInv, NEW op, ReadsBind(op)
    PROVE  /\ op.slot \in Slots /\ conn[op.slot] \in Conns /\ conn[op.slot].state # "FREE"
           /\ pc = "wait" /\ prepared = {}
           /\ (\A t : SameFlight(t)) /\ DOMAIN flight' \subseteq DOMAIN flight
           /\ ~strayed' => ~strayed /\ Asker(op) = conn[op.slot].id
           /\ Sound => conn[op.slot].be = None /\ ~conn[op.slot].beSend /\ ~conn[op.slot].beRecv
<1> DEFINE s == op.slot
<1>1. Completes(op, ReadOp) /\ ReadOp # "accept" /\ ReadOp \notin BeOps
  BY ReadOpIsRead DEF ReadsBind, BeOps
<1>2. /\ s \in Slots /\ conn[s] \in Conns /\ pc = "wait" /\ prepared = {} /\ op.op = ReadOp
      /\ op \in DOMAIN flight /\ Takes(op) /\ conn[s].state # "FREE"
  BY <1>1, CompletionFacts DEF Completes, Meets
<1>3. (\A t : SameFlight(t)) /\ DOMAIN flight' \subseteq DOMAIN flight
  BY <1>1, <1>2, ClientOpTaken, TakenIs
<1>4. ~strayed' => ~strayed /\ Asker(op) = conn[s].id
  <2>1. ~strayed' => ~strayed /\ op.on = Client(conn[s].id)
    BY <1>1, MetItsOwn
  <2> QED
    BY <2>1 DEF Asker, Client
<1>5. Sound => conn[s].be = None /\ ~conn[s].beSend /\ ~conn[s].beRecv
  <2>1. conn[s].wait = "IDLE"
    BY DEF ReadsBind
  <2> QED
    BY <1>2, <2>1 DEF Sound, Fits, Underway
<1> QED
  BY <1>2, <1>3, <1>4, <1>5

\* Starting keeps the state of the connection, whatever its flags.
LEMMA StartedTame ==
    ASSUME NEW s \in Slots, NEW c \in Conns, c.id \in Clients, NEW b \in Backends
    PROVE  LET r == Started(s, c, b)
           IN  /\ r.c \in Conns /\ r.c.state = c.state
               /\ r.c.wait \in {c.wait, "SENDING"}
<1> DEFINE d == [c EXCEPT !.be = b, !.ask = 0]
           e == [d EXCEPT !.beSend = TRUE, !.wait = "SENDING"]
           r == SubmitBeSend(s, d, TRUE)
<1>1. d \in Conns /\ d.state = c.state /\ d.wait = c.wait /\ d.id = c.id /\ d.be = b
  <2>1. 0 \in 0 .. MaxAccepts /\ b \in Backends \union {None}
    BY LoopAssumption
  <2> QED
    BY <2>1 DEF Conns
<1>2. Started(s, c, b) = r
  BY DEF Started
<1> HIDE DEF d
<1>3. r.c \in Conns /\ r.c.state = c.state
  BY <1>1, HelpersTame DEF Tame
<1>4. e.wait = "SENDING"
  BY <1>1 DEF Conns
<1>5. d.beSend => r = With(d, {})
  BY DEF SubmitBeSend
<1>6. ~d.beSend => r = With(e, {Op("be_send", s, d.be)})
  <2>1. d.be # None
    BY <1>1, LoopAssumption
  <2> QED
    BY <2>1 DEF SubmitBeSend
<1> HIDE DEF e, r
<1>7. r.c.wait \in {d.wait, "SENDING"}
  BY <1>4, <1>5, <1>6 DEF With
<1> QED
  BY <1>1, <1>2, <1>3, <1>7

\* Starting a Bind, for the handler of a read and for the pass over the waiters.
LEMMA StartPipe ==
    ASSUME LoopInv, LoopInv', PipeInv, pc # "close",
           NEW s \in Slots, conn[s].state # "FREE",
           NEW c \in Conns, c.id \in Clients, c.id = conn[s].id, c.state = conn[s].state,
           c.beSend = conn[s].beSend, c.beRecv = conn[s].beRecv, c.wait # "WAITING_POOL",
           NEW b \in Idle, NEW asker, Start(asker, b),
           NEW r, r = Started(s, c, b),
           NEW d, conn' = [conn EXCEPT ![s] = d], SameSide(r.c, d), d.state = r.c.state,
           prepared \subseteq prepared', r.ops \subseteq prepared',
           \A o \in prepared' : o \in prepared \/ o.op \notin BeOps \/ o \in r.ops,
           \A t : SameFlight(t), DOMAIN flight' \subseteq DOMAIN flight,
           UNCHANGED <<inbox, mixed>>, GoodRing(waiters'),
           \A t \in Slots : t # s => (Ring!Holds(waiters', t) <=> Ring!Holds(waiters, t)),
           ~strayed' => ~strayed /\ asker = conn[s].id,
           Sound => /\ conn[s].be = None /\ ~conn[s].beSend /\ ~conn[s].beRecv
                    /\ ~Ring!Holds(waiters', s)
    PROVE  PipeInv'
<1>1. b \in Backends /\ conn \in [Slots -> Conns]
  BY DEF Idle, LoopInv, LoopTypes, TypeOK, Conns
<1>2. r.c \in Conns /\ r.c.state = c.state /\ r.c.wait \in {c.wait, "SENDING"}
  BY <1>1, StartedTame
<1>3. /\ conn'[s] = d /\ d.wait # "WAITING_POOL" /\ d.state # "FREE"
      /\ \A t \in Slots : t # s => conn'[t] = conn[t]
  BY <1>1, <1>2 DEF SameSide
<1>4. WaitersInv'
  BY <1>3 DEF PipeInv, WaitersInv, GoodRing
<1>5. KernelInv'
  BY <1>3, StartKernel DEF PipeInv
<1>6. ASSUME ~strayed'
      PROVE  Sound'
  <2>1. Sound /\ KernelInv /\ asker = conn[s].id
    BY <1>6 DEF PipeInv
  <2>2. /\ Sending(r.c, c, b) /\ r.ops = {Op("be_send", s, b)}
    BY <1>1, <2>1, StartedIs
  <2>3. Sending(d, conn[s], b)
    BY <2>2 DEF Sending, SameSide
  <2>4. \A t \in Slots : Ring!Holds(waiters', t) => Ring!Holds(waiters, t) /\ t # s
    BY <2>1
  <2> QED
    BY <1>3, <2>1, <2>2, <2>3, <2>4, StartSound
<1> QED
  BY <1>4, <1>5, <1>6 DEF PipeInv

\* The wait ring is in order.
LEMMA WaitersGood == LoopInv /\ PipeInv => GoodRing(waiters)
BY RestTyped DEF PipeInv, WaitersInv, GoodRing

\* A Bind that finds an idle backend.
LEMMA BindStartPipe ==
    ASSUME LoopInv, LoopInv', PipeInv, NEW op, BindStart(op)
    PROVE  PipeInv'
<1> DEFINE s == op.slot
           u == [conn[s] EXCEPT !.read = FALSE]
<1>1. ReadsBind(op) /\ UNCHANGED <<waiters, inbox, mixed>>
  BY DEF BindStart, dbVars
<1>2. /\ s \in Slots /\ conn[s] \in Conns /\ conn[s].state # "FREE"
      /\ pc = "wait" /\ prepared = {}
      /\ (\A t : SameFlight(t)) /\ DOMAIN flight' \subseteq DOMAIN flight
      /\ ~strayed' => ~strayed /\ Asker(op) = conn[s].id
      /\ Sound => conn[s].be = None /\ ~conn[s].beSend /\ ~conn[s].beRecv
  BY <1>1, BindIsOwn DEF PipeInv
<1>3. PICK b \in Idle :
        /\ Start(Asker(op), b)
        /\ Handled(s, Rearmed(s, Started(s, u, b))) \/ Handled(s, Started(s, u, b))
  BY DEF BindStart, Unread
<1>4. /\ u \in Conns /\ u.id = conn[s].id /\ u.state = conn[s].state /\ u.wait = "IDLE"
      /\ u.beSend = conn[s].beSend /\ u.beRecv = conn[s].beRecv
  <2>1. conn[s].wait = "IDLE"
    BY <1>1 DEF ReadsBind
  <2> QED
    BY <1>2, <2>1 DEF Conns
<1>5. u.id \in Clients /\ b \in Backends
  BY <1>2, <1>4, WhoIsConnected DEF Idents, Connected, Idle
<1> DEFINE r == Started(s, u, b)
<1> HIDE DEF u
<1>6. r.c \in Conns
  BY <1>2, <1>4, <1>5, StartedTame
<1>7. PICK d, ops :
        /\ conn' = [conn EXCEPT ![s] = d] /\ prepared' = prepared \union ops
        /\ SameSide(r.c, d) /\ d.state = r.c.state /\ r.ops \subseteq ops
        /\ \A o \in ops : o \in r.ops \/ o.op \notin BeOps
  <2> HIDE DEF r
  <2>1. CASE Handled(s, r)
    BY <2>1 DEF Handled, SameSide
  <2>2. CASE Handled(s, Rearmed(s, r))
    BY <1>2, <1>6, <2>2, PlainRearmed DEF Handled
  <2> QED
    BY <1>3, <2>1, <2>2 DEF r
<1> HIDE DEF r
<1>8. r = Started(s, u, b)
  BY DEF r
<1>9. GoodRing(waiters')
  BY <1>1, WaitersGood
<1>10. Sound => ~Ring!Holds(waiters', s)
  <2>1. conn[s].wait = "IDLE"
    BY <1>1 DEF ReadsBind
  <2> QED
    BY <1>1, <1>2, <2>1 DEF Sound, Fits
<1> QED
  BY <1>1, <1>2, <1>3, <1>4, <1>5, <1>7, <1>8, <1>9, <1>10, StartPipe

\* A Bind that does not is parked.
LEMMA BindParkPipe ==
    ASSUME LoopInv, LoopInv', PipeInv, NEW op, BindPark(op)
    PROVE  PipeInv'
<1> DEFINE s == op.slot
           c == [[conn[s] EXCEPT !.read = FALSE] EXCEPT !.wait = "WAITING_POOL", !.ask = Asker(op)]
           r == Rearmed(s, With(c, {}))
<1>1. /\ ReadsBind(op) /\ UNCHANGED <<sess, buf, inbox, mixed>>
      /\ Handled(s, r) /\ waiters' = Ring!PushOnce(waiters, s)
  BY DEF BindPark, dbVars, poolVars, Unread
<1>2. /\ s \in Slots /\ conn[s] \in Conns /\ conn[s].state # "FREE"
      /\ pc = "wait" /\ prepared = {}
      /\ (\A t : SameFlight(t)) /\ DOMAIN flight' \subseteq DOMAIN flight
      /\ ~strayed' => ~strayed /\ Asker(op) = conn[s].id
      /\ Sound => conn[s].be = None /\ ~conn[s].beSend /\ ~conn[s].beRecv
  BY <1>1, BindIsOwn DEF PipeInv
<1>3. /\ c \in Conns /\ c.state # "FREE" /\ c.wait = "WAITING_POOL" /\ c.ask = Asker(op)
      /\ c.id = conn[s].id /\ c.be = conn[s].be /\ c.beSend = conn[s].beSend
      /\ c.beRecv = conn[s].beRecv
  <2>1. Asker(op) \in 0 .. MaxAccepts
    BY <1>1, LoopAssumption DEF ReadsBind, LoopInv, LoopTypes, TypeOK, Clients
  <2> QED
    BY <1>2, <2>1 DEF Conns
<1> HIDE DEF c
<1>4. /\ SameSide(c, r.c) /\ r.c.state = c.state /\ \A o \in r.ops : o.op \notin BeOps
  <2> DEFINE w == With(c, {})
  <2>1. w.c = c /\ w.ops = {}
    BY DEF With
  <2> HIDE DEF w
  <2>2. SameSide(w.c, Rearmed(s, w).c) /\ Rearmed(s, w).c.state = w.c.state
        /\ \A o \in Rearmed(s, w).ops : o \in w.ops \/ o.op \notin BeOps
    BY <1>2, <1>3, <2>1, PlainRearmed
  <2> QED
    BY <2>1, <2>2 DEF w
<1> HIDE DEF r
<1>5. /\ conn'[s] = r.c /\ \A t \in Slots : t # s => conn'[t] = conn[t]
      /\ \A o \in prepared' : o.op \notin BeOps
  BY <1>1, <1>2, <1>4 DEF Handled, LoopInv, LoopTypes, TypeOK
<1>6. /\ GoodRing(waiters')
      /\ \A y \in Slots : Ring!Holds(waiters', y) <=> Ring!Holds(waiters, y) \/ y = s
  BY <1>1, <1>2, WaitersGood, WaiterPushed
<1>7. WaitersInv'
  BY <1>5, <1>6 DEF PipeInv, WaitersInv, GoodRing
<1>8. KernelInv'
  <2>1. \A b \in Backends : sess[b].login \in Nat
    BY SessionIs
  <2>2. \A t \in Slots : conn'[t].state = "FREE" => conn'[t] = FreeConn
    BY <1>3, <1>4, <1>5 DEF PipeInv, KernelInv
  <2> QED
    BY <1>1, <1>2, <2>1, <2>2, KernelStill DEF PipeInv, KernelInv
<1>9. ASSUME ~strayed'
      PROVE  Sound'
  <2>1. Sound /\ KernelInv /\ Asker(op) = conn[s].id
    BY <1>2, <1>9 DEF PipeInv
  <2>2. \A t : SamePrepared(t)
    BY <1>2, <1>5, OpIs DEF SamePrepared
  <2>3. Fits(s)'
    BY <1>2, <1>3, <1>4, <1>5, <2>1 DEF Fits, SameSide
  <2>4. \A o \in prepared' : o.slot = s => Belongs(o)'
    BY <1>5 DEF Belongs
  <2>5. /\ {} \in SUBSET Backends /\ \A b \in {} : Serves(b)'
        /\ \A b \in Backends \ {} : SameBackend(b)
    BY <1>1 DEF SameBackend
  <2>6. \A t \in Slots : t # s => /\ conn'[t] = conn[t] /\ conn[t].be \notin {}
                                  /\ SamePrepared(t) /\ SameFlight(t)
                                  /\ Ring!Holds(waiters', t) => Ring!Holds(waiters, t)
    BY <1>2, <1>5, <1>6, <2>2
  <2>7. ~mixed' /\ conn[s].be \in {} \union {None} /\ conn'[s].be \in {} \union {None}
    BY <1>1, <1>2, <1>3, <1>4, <1>5, <2>1 DEF Sound, SameSide
  <2> QED
    BY <1>2, <2>1, <2>3, <2>4, <2>5, <2>6, <2>7, OneSlotSound
<1> QED
  BY <1>7, <1>8, <1>9 DEF PipeInv

\* One step of fair_schedule_waiters.
LEMMA GrantPipe ==
    ASSUME LoopInv, LoopInv', PipeInv, Grant
    PROVE  PipeInv'
<1> DEFINE s == Ring!First(waiters)
           q == Ring!Pop(waiters)
<1>1. /\ pc = "grant" /\ left > 0 /\ pc' = pc /\ cur' = cur
      /\ UNCHANGED <<flight, inbox, mixed, strayed>>
  BY DEF Grant, dbVars, history
<1>2. /\ GoodRing(waiters) /\ GoodRing(q) /\ s \in Slots /\ Ring!Holds(waiters, s)
      /\ \A y \in Slots : Ring!Holds(q, y) <=> Ring!Holds(waiters, y) /\ y # s
  <2>1. waiters.count > 0
    BY <1>1, RestTyped
  <2> QED
    BY <2>1, WaitersGood, WaiterPopped
<1>3. \A t : SameFlight(t)
  BY <1>1 DEF SameFlight
<1>4. \/ conn[s].wait # "WAITING_POOL" /\ waiters' = q /\ UNCHANGED <<conn, prepared, sess, buf>>
      \/ waiters' = Ring!PushOnce(q, s) /\ UNCHANGED <<conn, prepared, sess, buf>>
      \/ /\ conn[s].wait = "WAITING_POOL" /\ waiters' = q
         /\ \E b \in Idle : /\ Start(conn[s].ask, b)
                            /\ Handled(s, Started(s, [conn[s] EXCEPT !.wait = "IDLE"], b))
  BY <1>2 DEF Grant
<1> HIDE DEF s, q
<1>5. ASSUME GoodRing(waiters'), UNCHANGED <<conn, prepared, sess, buf>>,
             \A y \in Slots : /\ Ring!Holds(waiters', y) => Ring!Holds(waiters, y)
                              /\ y # s => (Ring!Holds(waiters, y) => Ring!Holds(waiters', y)),
             conn[s].wait = "WAITING_POOL" => Ring!Holds(waiters', s)
      PROVE  PipeInv'
  <2>1. WaitersInv'
    BY <1>5 DEF PipeInv, WaitersInv, GoodRing
  <2>2. KernelInv'
    BY <1>1, <1>5 DEF PipeInv, KernelInv
  <2>3. ASSUME ~strayed'
        PROVE  Sound'
    <3>1. Sound /\ KernelInv
      BY <1>1, <2>3 DEF PipeInv
    <3>2. \A t : SamePrepared(t)
      BY <1>5 DEF SamePrepared
    <3>3. \A b \in Backends : SameBackend(b)
      BY <1>1, <1>5 DEF SameBackend
    <3>4. \A t \in Slots : Fits(t)'
      <4>1. \A t \in Slots : conn[t].be \in Backends \union {None}
        BY DEF LoopInv, LoopTypes, TypeOK
      <4> QED
        BY <1>1, <1>3, <1>5, <3>1, <3>2, <3>3, <4>1, FitsStill DEF Sound, SameSide
    <3>5. \A b \in Backends : Serves(b)'
      BY <1>1, <1>5, <3>1, <3>3, ServesStill DEF Sound, SameSide
    <3>6. \A o \in prepared' : Belongs(o)'
      BY <1>5, <3>1 DEF Sound, Belongs, Owns
    <3> QED
      BY <1>1, <3>1, <3>4, <3>5, <3>6 DEF Sound
  <2> QED
    BY <2>1, <2>2, <2>3 DEF PipeInv
<1>6. CASE conn[s].wait # "WAITING_POOL" /\ waiters' = q /\ UNCHANGED <<conn, prepared, sess, buf>>
  BY <1>2, <1>5, <1>6
<1>7. CASE waiters' = Ring!PushOnce(q, s) /\ UNCHANGED <<conn, prepared, sess, buf>>
  <2>1. /\ GoodRing(waiters')
        /\ \A y \in Slots : Ring!Holds(waiters', y) <=> Ring!Holds(q, y) \/ y = s
    BY <1>2, <1>7, WaiterPushed
  <2> QED
    BY <1>2, <1>5, <1>7, <2>1
<1>8. ASSUME conn[s].wait = "WAITING_POOL", waiters' = q, NEW b \in Idle, Start(conn[s].ask, b),
             Handled(s, Started(s, [conn[s] EXCEPT !.wait = "IDLE"], b))
      PROVE  PipeInv'
  <2> DEFINE c == [conn[s] EXCEPT !.wait = "IDLE"]
             r == Started(s, c, b)
  <2>1. conn[s] \in Conns /\ conn[s].id \in Clients /\ conn[s].state # "FREE"
    BY <1>2, <1>8, WhoIsConnected DEF Idents, Connected
  <2>2. /\ c \in Conns /\ c.id = conn[s].id /\ c.state = conn[s].state /\ c.wait = "IDLE"
        /\ c.beSend = conn[s].beSend /\ c.beRecv = conn[s].beRecv
    BY <2>1 DEF Conns
  <2> HIDE DEF c
  <2>3. r = Started(s, c, b) /\ Handled(s, r)
    BY <1>8 DEF c
  <2> HIDE DEF r
  <2>4. Sound => /\ conn[s].be = None /\ ~conn[s].beSend /\ ~conn[s].beRecv
                 /\ conn[s].ask = conn[s].id
    BY <1>2, <1>8 DEF Sound, Fits, Underway
  <2>5. ~strayed' => ~strayed /\ conn[s].ask = conn[s].id
    BY <1>1, <2>4 DEF PipeInv
  <2>6. /\ conn' = [conn EXCEPT ![s] = r.c] /\ SameSide(r.c, r.c)
        /\ prepared \subseteq prepared' /\ r.ops \subseteq prepared'
        /\ \A o \in prepared' : o \in prepared \/ o.op \notin BeOps \/ o \in r.ops
    BY <2>3 DEF Handled, SameSide
  <2>7. /\ GoodRing(waiters') /\ ~Ring!Holds(waiters', s)
        /\ \A t \in Slots : t # s => (Ring!Holds(waiters', t) <=> Ring!Holds(waiters, t))
    BY <1>2, <1>8
  <2> QED
    BY <1>1, <1>2, <1>3, <1>8, <2>1, <2>2, <2>3, <2>4, <2>5, <2>6, <2>7, StartPipe
<1> QED
  BY <1>4, <1>6, <1>7, <1>8

-----------------------------------------------------------------------------
(* A backend's completion.                                                  *)

\* The completion that wakes a connection is the only operation there was on the
\* session of its backend.
LEMMA BeOpIsOwn ==
    ASSUME LoopInv, KernelInv, Sound, NEW op, NEW kind \in BeOps, Completes(op, kind), ~strayed'
    PROVE  LET s == op.slot
               b == conn[s].be
           IN  /\ b \in Backends /\ b # None /\ op.on = Session(b)
               /\ sess[b].busy /\ sess[b].alive /\ buf[b] = conn[s].id
               /\ inbox[Session(b)] = <<conn[s].id>>
               /\ kind = "be_send" => ~conn[s].beRecv
               /\ kind = "be_recv" => ~conn[s].beSend
               /\ \A o \in DOMAIN flight' : o.op \in BeOps => o.on # Session(b)
               /\ \A t \in Slots : t # s => conn[t].be # b /\ SameFlight(t)
<1> DEFINE s == op.slot
           b == conn[s].be
<1>1. /\ kind # "accept" /\ kind \in {"be_send", "be_recv"} /\ "be_send" \in BeOps
      /\ "be_recv" \in BeOps
  BY DEF BeOps
<1>2. /\ op \in DOMAIN flight /\ op = Op(kind, s, op.on) /\ b \in Backends
      /\ op.on = Session(b) /\ op.op = kind
  BY <1>1, MetItsOwn
<1>3. s \in Slots /\ Takes(op) /\ prepared = {} /\ pc = "wait" /\ b # None
  BY <1>1, <1>2, CompletionFacts, LoopAssumption DEF Completes, Meets
<1>4. Fits(s) /\ sess[b].busy /\ sess[b].alive /\ buf[b] = conn[s].id /\ Underway(s)
  BY <1>2, <1>3 DEF Sound, Fits, KernelInv
<1>5. Owns(op, b)
  BY <1>1, <1>2, <1>4 DEF Sound, Serves
<1>6. /\ inbox[Session(b)] = <<conn[s].id>> /\ Comes(kind, s)
      /\ kind = "be_send" => conn[s].beSend /\ ~conn[s].beRecv
      /\ kind = "be_recv" => conn[s].beRecv /\ ~conn[s].beSend
  BY <1>1, <1>2, <1>3, <1>4, <1>5 DEF Underway, Owns
<1>7. flight[op] = 1
  BY <1>2, <1>3, <1>6 DEF Comes
<1>8. op \notin DOMAIN flight' /\ DOMAIN flight' \subseteq DOMAIN flight
  BY <1>2, <1>3, <1>7, TakenIs
<1>9. \A t \in Slots : t # s => conn[t].be # b
  BY <1>2, <1>3 DEF Sound, Serves
<1>10. ASSUME NEW o \in DOMAIN flight', o.op \in BeOps, o.on = Session(b)
       PROVE  FALSE
  <2>1. o \in DOMAIN flight /\ o = Op(o.op, o.slot, o.on) /\ o.slot \in Slots
    BY <1>8 DEF KernelInv, LoopInv, LoopTypes, TypeOK
  <2>2. Owns(o, b)
    BY <1>2, <1>4, <1>10, <2>1 DEF Sound, Serves
  <2>3. o.slot = s
    BY <1>9, <2>1, <2>2 DEF Owns
  <2>4. o.op = kind
    BY <1>1, <1>6, <1>10, <2>2, <2>3 DEF Owns, BeOps
  <2> QED
    BY <1>2, <1>8, <1>10, <2>1, <2>3, <2>4
<1>11. ASSUME NEW t \in Slots, t # s
       PROVE  SameFlight(t)
  <2>1. \A on : \A k \in BeOps : Op(k, t, on) # op
    BY <1>11, OpIs
  <2> QED
    BY <1>2, <1>3, <2>1, TakenIs DEF SameFlight
<1> QED
  BY <1>1, <1>2, <1>3, <1>4, <1>6, <1>9, <1>10, <1>11

\* submit_be_send keeps the state of the connection, whatever its flags.
LEMMA SendHelperTame ==
    ASSUME NEW s \in Slots, NEW c \in Conns, c.id \in Clients, NEW bytes \in BOOLEAN
    PROVE  LET r == SubmitBeSend(s, c, bytes)
           IN  /\ r.c \in Conns /\ r.c.state = c.state
               /\ r.c.wait \in {c.wait, "SENDING", "READING"}
<1> DEFINE r == SubmitBeSend(s, c, bytes)
           d == [c EXCEPT !.beSend = TRUE, !.wait = "SENDING"]
           e == [c EXCEPT !.wait = "READING"]
           f == [e EXCEPT !.beRecv = TRUE, !.wait = "READING"]
<1>1. r.c \in Conns /\ r.c.state = c.state
  BY HelpersTame DEF Tame
<1>2. d.wait = "SENDING" /\ e.wait = "READING" /\ f.wait = "READING"
  BY DEF Conns
<1>3. r.c = c \/ r.c = d \/ r.c = e \/ r.c = f
  BY DEF SubmitBeSend, SubmitBeRecv, With
<1> HIDE DEF d, e, f, r
<1>4. r.c.wait \in {c.wait, "SENDING", "READING"}
  BY <1>2, <1>3
<1> QED
  BY <1>1, <1>4 DEF r

\* Everything is sent, and the connection waits for the answer.
LEMMA SentIs ==
    ASSUME NEW s \in Slots, NEW c \in Conns, c.be \in Backends, ~c.beSend, ~c.beRecv
    PROVE  LET r == SubmitBeSend(s, c, FALSE)
           IN  /\ r.c.be = c.be /\ r.c.id = c.id /\ ~r.c.beSend /\ r.c.beRecv
               /\ r.c.wait = "READING" /\ r.c.state = c.state
               /\ r.ops = {Op("be_recv", s, c.be)}
<1> DEFINE e == [c EXCEPT !.wait = "READING"]
           f == [e EXCEPT !.beRecv = TRUE, !.wait = "READING"]
<1>1. c.be # None
  BY LoopAssumption
<1>2. e \in Conns /\ e.be = c.be /\ e.id = c.id /\ ~e.beSend /\ ~e.beRecv /\ e.state = c.state
  BY DEF Conns
<1>3. SubmitBeSend(s, c, FALSE) = SubmitBeRecv(s, e)
  BY <1>1 DEF SubmitBeSend
<1> HIDE DEF e
<1>4. /\ f.be = c.be /\ f.id = c.id /\ ~f.beSend /\ f.beRecv /\ f.wait = "READING"
      /\ f.state = c.state
  BY <1>2 DEF Conns
<1>5. SubmitBeRecv(s, e) = With(f, {Op("be_recv", s, c.be)})
  BY <1>1, <1>2 DEF SubmitBeRecv
<1> HIDE DEF f
<1>6. /\ With(f, {Op("be_recv", s, c.be)}).c = f
      /\ With(f, {Op("be_recv", s, c.be)}).ops = {Op("be_recv", s, c.be)}
  BY DEF With
<1> QED
  BY <1>2, <1>3, <1>4, <1>5, <1>6

\* on_be_send_cqe: the Bind is with the backend, the answer is awaited.
LEMMA BeSendDonePipe ==
    ASSUME LoopInv, LoopInv', PipeInv, NEW op, BeSendDone(op)
    PROVE  PipeInv'
<1> DEFINE s == op.slot
           c == [conn[s] EXCEPT !.beSend = FALSE]
<1>0. PICK b : b = conn[s].be
  OBVIOUS
<1>1. /\ Completes(op, "be_send") /\ b # None
      /\ UNCHANGED <<waiters, sess, buf, inbox, mixed>>
  BY <1>0 DEF BeSendDone, dbVars
<1>2. /\ s \in Slots /\ conn[s] \in Conns /\ conn[s].id \in Clients /\ conn[s].state # "FREE"
      /\ pc = "wait" /\ prepared = {} /\ op.op = "be_send"
      /\ op \in DOMAIN flight /\ Takes(op) /\ (~strayed' => ~strayed)
  BY <1>1, CompletionFacts DEF Completes, Meets
<1>3. DOMAIN flight' \subseteq DOMAIN flight /\ "be_send" \in BeOps
  BY <1>2, TakenIs DEF BeOps
<1>4. PICK rest \in BOOLEAN :
        /\ op.on = Session(b) => rest = FALSE
        /\ Handled(s, SubmitBeSend(s, c, rest))
  <2>1. b \in Backends /\ unsent[b] \in BOOLEAN
    BY <1>0, <1>1, <1>2, RestTyped DEF Conns
  <2> QED
    BY <1>0, <2>1 DEF BeSendDone
<1> DEFINE r == SubmitBeSend(s, c, rest)
<1>5. /\ c \in Conns /\ c.id = conn[s].id /\ c.state = conn[s].state /\ c.wait = conn[s].wait
      /\ c.be = b /\ ~c.beSend /\ c.beRecv = conn[s].beRecv
  BY <1>0, <1>2 DEF Conns
<1> HIDE DEF c
<1>6. r.c \in Conns /\ r.c.state = c.state /\ r.c.wait \in {c.wait, "SENDING", "READING"}
  BY <1>2, <1>5, SendHelperTame
<1>7. /\ conn'[s] = r.c /\ \A t \in Slots : t # s => conn'[t] = conn[t]
      /\ prepared' = r.ops
  BY <1>2, <1>4 DEF Handled, LoopInv, LoopTypes, TypeOK
<1>8. WaitersInv'
  BY <1>1, <1>5, <1>6, <1>7 DEF PipeInv, WaitersInv
<1>9. KernelInv'
  <2>1. \A a \in Backends : sess[a].login \in Nat
    BY SessionIs
  <2>2. \A t \in Slots : conn'[t].state = "FREE" => conn'[t] = FreeConn
    BY <1>2, <1>5, <1>6, <1>7 DEF PipeInv, KernelInv
  <2> QED
    BY <1>1, <1>3, <2>1, <2>2, KernelStill DEF PipeInv, KernelInv
<1>10. ASSUME ~strayed'
       PROVE  Sound'
  <2>1. Sound /\ KernelInv
    BY <1>2, <1>10 DEF PipeInv
  <2>2. /\ b \in Backends /\ op.on = Session(b) /\ sess[b].busy /\ sess[b].alive
        /\ buf[b] = conn[s].id /\ inbox[Session(b)] = <<conn[s].id>> /\ ~conn[s].beRecv
        /\ \A o \in DOMAIN flight' : o.op \in BeOps => o.on # Session(b)
        /\ \A t \in Slots : t # s => conn[t].be # b /\ SameFlight(t)
    BY <1>0, <1>1, <1>3, <1>10, <2>1, BeOpIsOwn
  <2>3. /\ r.c.be = b /\ r.c.id = conn[s].id /\ ~r.c.beSend /\ r.c.beRecv
        /\ r.c.wait = "READING" /\ r.ops = {Op("be_recv", s, b)}
    <3>1. rest = FALSE
      BY <1>4, <2>2
    <3> QED
      BY <1>2, <1>5, <2>2, <3>1, SentIs
  <2>4. prepared' = {Op("be_recv", s, b)}
    BY <1>7, <2>3
  <2> HIDE DEF r
  <2>5. Session(b)' = Session(b) /\ "be_recv" \in BeOps
    BY <1>1 DEF Session, BeOps
  <2>6. Op("be_recv", s, Session(b)) \notin DOMAIN flight'
    BY <2>2, <2>5, OpIs
  <2>7. Fits(s)'
    <3>1. Comes("be_recv", s)'
      BY <1>7, <2>3, <2>4, <2>5, <2>6 DEF Comes
    <3>2. Underway(s)'
      BY <1>1, <1>7, <2>2, <2>3, <2>5, <3>1 DEF Underway
    <3>3. ~Ring!Holds(waiters, s)
      <4>1. conn[s].wait # "WAITING_POOL"
        BY <1>0, <1>1, <1>2, <2>1 DEF Sound, Fits, Underway
      <4> QED
        BY <1>2, <2>1, <4>1 DEF Sound, Fits
    <3> QED
      BY <1>1, <1>7, <2>2, <2>3, <3>2, <3>3 DEF Fits
  <2>8. Serves(b)'
    <3>1. \A t \in Slots : conn'[t].be = b <=> t = s
      BY <1>2, <1>7, <2>2, <2>3
    <3> QED
      BY <1>1, <1>2, <2>2, <2>5, <3>1 DEF Serves
  <2>9. \A o \in prepared' : o.slot = s => Belongs(o)'
    BY <1>7, <2>3, <2>4, OpIs DEF Belongs, Owns
  <2>10. ASSUME NEW t \in Slots, t # s
         PROVE  /\ conn'[t] = conn[t] /\ conn[t].be \notin {b}
                /\ SamePrepared(t) /\ SameFlight(t)
                /\ Ring!Holds(waiters', t) => Ring!Holds(waiters, t)
    <3>1. SamePrepared(t)
      BY <1>2, <2>4, <2>10, OpIs DEF SamePrepared
    <3> QED
      BY <1>1, <1>7, <2>2, <2>10, <3>1
  <2>11. /\ {b} \in SUBSET Backends /\ \A a \in {b} : Serves(a)'
         /\ \A a \in Backends \ {b} : SameBackend(a)
    BY <1>1, <2>2, <2>8 DEF SameBackend
  <2>12. ~mixed' /\ conn[s].be \in {b} \union {None} /\ conn'[s].be \in {b} \union {None}
    BY <1>0, <1>1, <1>7, <2>1, <2>3 DEF Sound
  <2> QED
    BY <1>2, <1>3, <2>1, <2>7, <2>9, <2>10, <2>11, <2>12, OneSlotSound
<1> QED
  BY <1>8, <1>9, <1>10 DEF PipeInv

\* A session that fails is never used again: the slot of the pool either stays
\* empty or holds a session nobody has written to yet.
LEMMA LoseIs ==
    ASSUME LoopInv, NEW b \in Backends, Lose(b)
    PROVE  /\ ~sess'[b].busy
           /\ sess'[b].alive => sess'[b].login = sess[b].login + 1
           /\ sess'[b].login \in Nat /\ sess'[b].login >= sess[b].login
           /\ \A a \in Backends : a # b => sess'[a] = sess[a]
<1>1. PICK ok : sess' = [sess EXCEPT ![b] =
                           [alive |-> ok, busy |-> FALSE,
                            login |-> IF ok THEN sess[b].login + 1 ELSE sess[b].login]]
  BY DEF Lose
<1>2. sess[b].login \in Nat /\ b \in DOMAIN sess
  BY SessionIs DEF LoopInv, LoopTypes, TypeOK
<1> QED
  BY <1>1, <1>2

\* The slot of the pool serves nobody after that.
LEMMA LostServes ==
    ASSUME LoopInv, LoopInv', KernelInv, NEW b \in Backends, ~sess'[b].busy,
           sess'[b].alive => sess'[b].login = sess[b].login + 1,
           inbox' = inbox, DOMAIN flight' \subseteq DOMAIN flight,
           \A t \in Slots : conn'[t].be # b
    PROVE  Serves(b)'
<1>1. CASE ~sess'[b].alive
  BY <1>1 DEF Serves
<1>2. CASE sess'[b].login = sess[b].login + 1
  <2>1. sess[b].login \in Nat
    BY SessionIs
  <2>2. /\ Session(b)' \in Sessions /\ Session(b)'[1] = b
        /\ Session(b)'[2] = sess[b].login + 1 /\ Session(b)' # NoFile
    BY <1>2, SessionIsThen
  <2>3. inbox'[Session(b)'] = <<>>
    BY <2>1, <2>2 DEF KernelInv
  <2>4. \A o \in DOMAIN flight' : o.op \in BeOps => o.on # Session(b)'
    BY <2>1, <2>2 DEF KernelInv
  <2> QED
    BY <2>3, <2>4 DEF Serves
<1> QED
  BY <1>1, <1>2

\* A connection gives its backend back, or loses it.
LEMMA DoneSound ==
    ASSUME LoopInv, LoopInv', KernelInv, Sound, pc # "close", prepared = {},
           NEW s \in Slots, NEW b \in Backends, conn[s].be = b, conn[s].wait # "WAITING_POOL",
           NEW d, conn' = [conn EXCEPT ![s] = d],
           d.be = None, ~d.beSend, ~d.beRecv, d.wait = "IDLE",
           \A o \in prepared' : o.op \notin BeOps,
           \A t \in Slots : t # s => conn[t].be # b /\ SameFlight(t),
           DOMAIN flight' \subseteq DOMAIN flight, waiters' = waiters, ~mixed',
           Serves(b)', \A a \in Backends : a # b => SameBackend(a)
    PROVE  Sound'
<1>1. conn'[s] = d /\ \A t \in Slots : t # s => conn'[t] = conn[t]
  BY DEF LoopInv, LoopTypes, TypeOK
<1>2. Fits(s)'
  <2>1. ~Ring!Holds(waiters, s)
    BY DEF Sound, Fits
  <2> QED
    BY <1>1, <2>1 DEF Fits
<1>3. ASSUME NEW t \in Slots, t # s
      PROVE  /\ conn'[t] = conn[t] /\ conn[t].be \notin {b}
             /\ SamePrepared(t) /\ SameFlight(t)
             /\ Ring!Holds(waiters', t) => Ring!Holds(waiters, t)
  <2>1. SamePrepared(t)
    BY OpIs DEF SamePrepared
  <2> QED
    BY <1>1, <1>3, <2>1
<1>4. \A o \in prepared' : o.slot = s => Belongs(o)'
  BY DEF Belongs
<1>5. /\ {b} \in SUBSET Backends /\ \A a \in {b} : Serves(a)'
      /\ \A a \in Backends \ {b} : SameBackend(a)
  OBVIOUS
<1>6. conn[s].be \in {b} \union {None} /\ conn'[s].be \in {b} \union {None}
  BY <1>1
<1> QED
  BY <1>2, <1>3, <1>4, <1>5, <1>6, OneSlotSound

\* What queueing an answer makes of a connection that has given its backend back.
LEMMA ReleasedIs ==
    ASSUME NEW s \in Slots, NEW c \in Conns, ~c.beSend, ~c.beRecv
    PROVE  LET r == QueueReply(s, Released(c))
           IN  /\ r.c.be = None /\ ~r.c.beSend /\ ~r.c.beRecv /\ r.c.wait = "IDLE"
               /\ \A o \in r.ops : o.op \notin BeOps
<1> DEFINE d == Released(c)
<1>1. d \in Conns /\ d.be = None /\ ~d.beSend /\ ~d.beRecv /\ d.wait = "IDLE"
  BY DEF Released, Conns
<1> HIDE DEF d
<1>2. Plain(d, QueueReply(s, d))
  BY <1>1, PlainHelpers
<1> QED
  BY <1>1, <1>2 DEF Plain, SameSide, d

\* The same for a connection in any state.
LEMMA ReleasedTame ==
    ASSUME NEW s \in Slots, NEW c \in Conns
    PROVE  LET r == QueueReply(s, Released(c))
           IN  r.c.wait = "IDLE" /\ r.c.state = c.state /\ r.c.id = c.id
<1> DEFINE d == Released(c)
<1>1. d \in Conns /\ d.wait = "IDLE" /\ d.state = c.state /\ d.id = c.id
  BY DEF Released, Conns
<1> HIDE DEF d
<1>2. Plain(d, QueueReply(s, d))
  BY <1>1, PlainHelpers
<1> QED
  BY <1>1, <1>2 DEF Plain, SameSide, d

\* backend_async_fail.
LEMMA BeFailPipe ==
    ASSUME LoopInv, LoopInv', PipeInv, NEW op, BeFail(op)
    PROVE  PipeInv'
<1> DEFINE s == op.slot
           c == [conn[s] EXCEPT
                   !.beSend = IF op.op = "be_send" THEN FALSE ELSE @,
                   !.beRecv = IF op.op = "be_recv" THEN FALSE ELSE @]
           r == QueueReply(s, Released(c))
<1>1. PICK kind \in BeOps : Completes(op, kind)
  BY DEF BeFail, BeOps
<1>2. PICK b : b = conn[s].be
  OBVIOUS
<1>3. kind \in {"be_send", "be_recv"} /\ kind # "accept"
  BY DEF BeOps
<1>4. /\ s \in Slots /\ conn[s] \in Conns /\ conn[s].state # "FREE"
      /\ pc = "wait" /\ prepared = {} /\ op.op = kind
      /\ op \in DOMAIN flight /\ Takes(op) /\ (~strayed' => ~strayed)
  BY <1>1, <1>3, CompletionFacts DEF Completes, Meets
<1>5. /\ c \in Conns /\ c.state = conn[s].state /\ c.be = b
      /\ c.beSend = (IF kind = "be_send" THEN FALSE ELSE conn[s].beSend)
      /\ c.beRecv = (IF kind = "be_recv" THEN FALSE ELSE conn[s].beRecv)
  BY <1>2, <1>4 DEF Conns
<1>6. /\ c.be # None /\ Lose(c.be) /\ Handled(s, r)
      /\ UNCHANGED <<waiters, buf, inbox, mixed>>
  BY DEF BeFail, dbVars
<1> HIDE DEF c
<1>7. b \in Backends /\ Lose(b)
  BY <1>4, <1>5, <1>6 DEF Conns
<1>8. r.c.wait = "IDLE" /\ r.c.state = conn[s].state
  BY <1>4, <1>5, ReleasedTame
<1> HIDE DEF r
<1>9. /\ conn' = [conn EXCEPT ![s] = r.c] /\ prepared' = r.ops
      /\ conn'[s] = r.c /\ \A t \in Slots : t # s => conn'[t] = conn[t]
  BY <1>4, <1>6 DEF Handled, LoopInv, LoopTypes, TypeOK
<1>10. DOMAIN flight' \subseteq DOMAIN flight
  BY <1>4, TakenIs
<1>11. WaitersInv'
  BY <1>6, <1>8, <1>9 DEF PipeInv, WaitersInv
<1>12. /\ ~sess'[b].busy
       /\ sess'[b].alive => sess'[b].login = sess[b].login + 1
       /\ sess'[b].login \in Nat /\ sess'[b].login >= sess[b].login
       /\ \A a \in Backends : a # b => sess'[a] = sess[a]
  BY <1>7, LoseIs
<1>13. KernelInv'
  <2>1. \A a \in Backends : sess[a].login \in Nat
    BY SessionIs
  <2>2. \A t \in Slots : conn'[t].state = "FREE" => conn'[t] = FreeConn
    BY <1>4, <1>8, <1>9 DEF PipeInv, KernelInv
  <2>3. \A a \in Backends : /\ sess'[a].login \in Nat /\ sess'[a].login >= sess[a].login
                            /\ sess'[a].busy => sess'[a].alive
    BY <1>12, <2>1 DEF PipeInv, KernelInv
  <2> QED
    BY <1>6, <1>10, <2>2, <2>3, KernelStill DEF PipeInv
<1>14. ASSUME ~strayed'
       PROVE  Sound'
  <2>1. Sound /\ KernelInv
    BY <1>4, <1>14 DEF PipeInv
  <2>2. /\ kind = "be_send" => ~conn[s].beRecv
        /\ kind = "be_recv" => ~conn[s].beSend
        /\ \A t \in Slots : t # s => conn[t].be # b /\ SameFlight(t)
    BY <1>1, <1>2, <1>14, <2>1, BeOpIsOwn
  <2>3. ~c.beSend /\ ~c.beRecv
    BY <1>3, <1>5, <2>2
  <2>4. /\ r.c.be = None /\ ~r.c.beSend /\ ~r.c.beRecv
        /\ \A o \in r.ops : o.op \notin BeOps
    BY <1>4, <1>5, <2>3, ReleasedIs DEF r
  <2>5. Serves(b)'
    <3>1. \A t \in Slots : conn'[t].be # b
      BY <1>7, <1>9, <2>2, <2>4, LoopAssumption
    <3> QED
      BY <1>6, <1>7, <1>10, <1>12, <2>1, <3>1, LostServes
  <2>6. \A a \in Backends : a # b => SameBackend(a)
    BY <1>6, <1>12 DEF SameBackend
  <2>7. conn[s].wait # "WAITING_POOL"
    BY <1>2, <1>4, <1>5, <1>6, <2>1 DEF Sound, Fits, Underway
  <2>8. ~mixed'
    BY <1>6, <2>1 DEF Sound
  <2> QED
    BY <1>2, <1>4, <1>6, <1>7, <1>8, <1>9, <1>10, <2>1, <2>2, <2>4, <2>5, <2>6, <2>7, <2>8,
       DoneSound
<1> QED
  BY <1>11, <1>13, <1>14 DEF PipeInv

\* backend_async_complete: the reply taken from the session answers this client's Bind.
LEMMA BeReplyPipe ==
    ASSUME LoopInv, LoopInv', PipeInv, NEW op, BeReply(op)
    PROVE  PipeInv'
<1> DEFINE s == op.slot
           c == [conn[s] EXCEPT !.beRecv = FALSE]
           r == QueueReply(s, Released(c))
<1>1. PICK b : b = conn[s].be
  OBVIOUS
<1>2. /\ Completes(op, "be_recv") /\ "be_recv" \in BeOps
      /\ UNCHANGED <<waiters, buf>>
      /\ op.on \in Sessions /\ inbox[op.on] # <<>>
      /\ inbox' = [inbox EXCEPT ![op.on] = Tail(@)]
  BY DEF BeReply, BeOps
<1>3. /\ s \in Slots /\ conn[s] \in Conns /\ conn[s].state # "FREE"
      /\ pc = "wait" /\ prepared = {} /\ op.op = "be_recv"
      /\ op \in DOMAIN flight /\ Takes(op) /\ (~strayed' => ~strayed)
  BY <1>2, CompletionFacts DEF Completes, Meets
<1>4. /\ c \in Conns /\ c.state = conn[s].state /\ c.be = b /\ c.id = conn[s].id
      /\ c.beSend = conn[s].beSend /\ ~c.beRecv /\ c.wait = conn[s].wait
  BY <1>1, <1>3 DEF Conns
<1>5. /\ b # None
      /\ \/ /\ Release(b) /\ Handled(s, r)
            /\ mixed' = (mixed \/ c.id # Head(inbox[op.on]))
         \/ /\ conn' = [conn EXCEPT ![s] = c] /\ pc' = "close" /\ cur' = s
            /\ UNCHANGED <<sess, prepared, mixed>>
  BY <1>4 DEF BeReply
<1> HIDE DEF c
<1>6. b \in Backends
  BY <1>1, <1>3, <1>5 DEF Conns
<1>7. r.c.wait = "IDLE" /\ r.c.state = conn[s].state
  BY <1>3, <1>4, ReleasedTame
<1> HIDE DEF r
<1>8. PICK d : /\ conn' = [conn EXCEPT ![s] = d] /\ d.state = conn[s].state
               /\ d.wait \in {conn[s].wait, "IDLE"}
  BY <1>4, <1>5, <1>7 DEF Handled
<1>9. conn'[s] = d /\ \A t \in Slots : t # s => conn'[t] = conn[t]
  BY <1>3, <1>8 DEF LoopInv, LoopTypes, TypeOK
<1>10. /\ DOMAIN flight' \subseteq DOMAIN flight
       /\ DOMAIN inbox' = DOMAIN inbox
       /\ \A f \in Sessions : inbox[f] = <<>> => inbox'[f] = <<>>
       /\ \A f \in Sessions : f # op.on => inbox'[f] = inbox[f]
  BY <1>2, <1>3, TakenIs DEF PipeInv, KernelInv
<1>11. WaitersInv'
  BY <1>2, <1>8, <1>9 DEF PipeInv, WaitersInv
<1>12. /\ \A a \in Backends : /\ sess'[a].login = sess[a].login /\ sess'[a].alive = sess[a].alive
                              /\ sess'[a].busy => sess[a].busy
                              /\ a # b => sess'[a] = sess[a]
  BY <1>5, <1>6 DEF Release, LoopInv, LoopTypes, TypeOK
<1>13. KernelInv'
  <2>1. \A a \in Backends : sess[a].login \in Nat
    BY SessionIs
  <2>2. \A t \in Slots : conn'[t].state = "FREE" => conn'[t] = FreeConn
    BY <1>3, <1>8, <1>9 DEF PipeInv, KernelInv
  <2>3. \A a \in Backends : /\ sess'[a].login \in Nat /\ sess'[a].login >= sess[a].login
                            /\ sess'[a].busy => sess'[a].alive
    BY <1>12, <2>1 DEF PipeInv, KernelInv
  <2> QED
    BY <1>2, <1>10, <2>2, <2>3, KernelStill DEF PipeInv
<1>14. ASSUME ~strayed'
       PROVE  Sound'
  <2>1. Sound /\ KernelInv
    BY <1>3, <1>14 DEF PipeInv
  <2>2. /\ op.on = Session(b) /\ sess[b].busy /\ sess[b].alive /\ buf[b] = conn[s].id
        /\ inbox[Session(b)] = <<conn[s].id>> /\ ~conn[s].beSend
        /\ \A o \in DOMAIN flight' : o.op \in BeOps => o.on # Session(b)
        /\ \A t \in Slots : t # s => conn[t].be # b /\ SameFlight(t)
    BY <1>1, <1>2, <1>14, <2>1, BeOpIsOwn
  <2>3. inbox'[Session(b)] = <<>>
    BY <1>2, <2>1, <2>2 DEF KernelInv
  <2>4. \A a \in Backends : a # b => SameBackend(a)
    <3>1. ASSUME NEW a \in Backends, a # b
          PROVE  Session(a) \in Sessions /\ Session(a) # Session(b)
      BY <1>6, <3>1, SessionIs
    <3> QED
      BY <1>2, <1>10, <1>12, <2>2, <3>1 DEF SameBackend
  <2>5. conn[s].wait # "WAITING_POOL"
    BY <1>1, <1>3, <1>5, <2>1 DEF Sound, Fits, Underway
  <2>6. Session(b)' = Session(b)
    BY <1>6, <1>12 DEF Session
  <2>7. CASE /\ Release(b) /\ Handled(s, r)
             /\ mixed' = (mixed \/ c.id # Head(inbox[op.on]))
    <3>1. ~mixed'
      <4>1. inbox[op.on] = <<c.id>>
        BY <1>4, <2>2
      <4>2. Head(<<c.id>>) = c.id
        OBVIOUS
      <4>3. c.id = Head(inbox[op.on])
        BY <4>1, <4>2
      <4> QED
        BY <2>1, <2>7, <4>3 DEF Sound
    <3>2. /\ r.c.be = None /\ ~r.c.beSend /\ ~r.c.beRecv
          /\ \A o \in r.ops : o.op \notin BeOps
      BY <1>3, <1>4, <2>2, ReleasedIs DEF r
    <3>3. conn' = [conn EXCEPT ![s] = r.c] /\ prepared' = r.ops /\ conn'[s] = r.c
      BY <1>3, <2>7 DEF Handled, LoopInv, LoopTypes, TypeOK
    <3>4. Serves(b)'
      <4>1. \A t \in Slots : conn'[t].be # b
        BY <1>5, <1>9, <2>2, <3>2, <3>3
      <4>2. ~sess'[b].busy
        BY <1>6, <2>7 DEF Release, LoopInv, LoopTypes, TypeOK
      <4> QED
        BY <2>2, <2>3, <2>6, <4>1, <4>2 DEF Serves
    <3> QED
      BY <1>1, <1>2, <1>3, <1>6, <1>7, <1>10, <2>1, <2>2, <2>4, <2>5, <3>1, <3>2, <3>3, <3>4,
         DoneSound
  <2>8. CASE /\ conn' = [conn EXCEPT ![s] = c] /\ pc' = "close" /\ cur' = s
             /\ UNCHANGED <<sess, prepared, mixed>>
    <3>1. conn'[s] = c /\ prepared' = {}
      BY <1>3, <2>8 DEF LoopInv, LoopTypes, TypeOK
    <3>2. conn[s].wait = "READING"
      <4>1. conn[s].beRecv
        <5>1. Owns(op, b)
          BY <1>2, <1>3, <1>6, <2>1, <2>2 DEF Sound, Serves
        <5> QED
          BY <1>3, <5>1 DEF Owns
      <4> QED
        BY <1>1, <1>3, <1>5, <2>1, <2>2, <4>1 DEF Sound, Fits, Underway
    <3>3. Fits(s)'
      <4>1. Underway(s)'
        BY <1>4, <2>2, <2>8, <3>1, <3>2 DEF Underway
      <4>2. ~Ring!Holds(waiters, s)
        BY <1>3, <2>1, <2>5 DEF Sound, Fits
      <4> QED
        BY <1>2, <1>4, <1>5, <2>2, <2>8, <3>1, <3>2, <4>1, <4>2 DEF Fits
    <3>4. Serves(b)'
      <4>1. \A t \in Slots : conn'[t].be = b <=> t = s
        BY <1>3, <1>4, <1>9, <2>2, <3>1
      <4> QED
        BY <1>3, <2>2, <2>6, <2>8, <4>1 DEF Serves
    <3>5. ASSUME NEW t \in Slots, t # s
          PROVE  /\ conn'[t] = conn[t] /\ conn[t].be \notin {b}
                 /\ SamePrepared(t) /\ SameFlight(t)
                 /\ Ring!Holds(waiters', t) => Ring!Holds(waiters, t)
      BY <1>2, <1>9, <2>2, <2>8, <3>5 DEF SamePrepared
    <3>6. /\ {b} \in SUBSET Backends /\ \A a \in {b} : Serves(a)'
          /\ \A a \in Backends \ {b} : SameBackend(a)
      BY <1>6, <2>4, <3>4
    <3>7. /\ ~mixed' /\ conn[s].be \in {b} \union {None} /\ conn'[s].be \in {b} \union {None}
          /\ \A o \in prepared' : o.slot = s => Belongs(o)'
      BY <1>1, <1>4, <2>1, <2>8, <3>1 DEF Sound
    <3> QED
      BY <1>3, <1>10, <2>1, <3>3, <3>5, <3>6, <3>7, OneSlotSound
  <2> QED
    BY <1>5, <2>7, <2>8
<1> QED
  BY <1>11, <1>13, <1>14 DEF PipeInv

-----------------------------------------------------------------------------
(* A connection is closed.                                                  *)

\* close_conn: what the slot still has in the kernel is on a session that is lost.
LEMMA ClosePipe ==
    ASSUME LoopInv, LoopInv', PipeInv, Close
    PROVE  PipeInv'
<1>1. PICK s, b : s = cur /\ b = conn[cur].be
  OBVIOUS
<1>2. /\ pc = "close" /\ s \in Slots /\ b \in Backends \union {None}
      /\ conn' = [conn EXCEPT ![s] = FreeConn]
      /\ waiters' = Ring!TakeOut(waiters, s)
      /\ UNCHANGED <<prepared, flight, buf, inbox, mixed, strayed>>
  <2>1. pc = "close" /\ cur \in Slots
    BY DEF Close, LoopInv, LoopTypes, Connected
  <2> QED
    BY <1>1, <2>1 DEF Close, dbVars, history, LoopInv, LoopTypes, TypeOK
<1>3. (b # None => Lose(b)) /\ (b = None => sess' = sess)
  BY <1>1 DEF Close
<1>4. /\ conn'[s] = FreeConn /\ \A t \in Slots : t # s => conn'[t] = conn[t]
  BY <1>2 DEF LoopInv, LoopTypes, TypeOK
<1>5. /\ FreeConn.state = "FREE" /\ FreeConn.be = None /\ ~FreeConn.beSend /\ ~FreeConn.beRecv
      /\ FreeConn.wait = "IDLE"
  BY DEF FreeConn
<1>6. /\ GoodRing(waiters')
      /\ \A y \in Slots : Ring!Holds(waiters', y) <=> Ring!Holds(waiters, y) /\ y # s
  BY <1>2, WaitersGood, WaiterTakenOut
<1>7. WaitersInv'
  BY <1>4, <1>5, <1>6 DEF PipeInv, WaitersInv, GoodRing
<1>8. /\ \A a \in Backends : a # b => sess'[a] = sess[a]
      /\ b # None => /\ ~sess'[b].busy
                     /\ sess'[b].alive => sess'[b].login = sess[b].login + 1
                     /\ sess'[b].login \in Nat /\ sess'[b].login >= sess[b].login
  BY <1>2, <1>3, LoseIs
<1>9. KernelInv'
  <2>1. \A a \in Backends : sess[a].login \in Nat
    BY SessionIs
  <2>2. \A t \in Slots : conn'[t].state = "FREE" => conn'[t] = FreeConn
    BY <1>4 DEF PipeInv, KernelInv
  <2>3. \A a \in Backends : /\ sess'[a].login \in Nat /\ sess'[a].login >= sess[a].login
                            /\ sess'[a].busy => sess'[a].alive
    BY <1>8, <2>1, LoopAssumption DEF PipeInv, KernelInv
  <2> QED
    BY <1>2, <2>2, <2>3, KernelStill DEF PipeInv
<1>10. ASSUME ~strayed'
       PROVE  Sound'
  <2>1. Sound /\ KernelInv
    BY <1>2, <1>10 DEF PipeInv
  <2> DEFINE B == Backends \intersect {b}
  <2>2. \A t \in Slots : t # s => conn[t].be \notin B
    BY <1>1, <1>2, <2>1 DEF Sound, Serves
  <2>3. \A a \in B : Serves(a)'
    <3>1. ASSUME b \in Backends
          PROVE  Serves(b)'
      <4>1. b # None
        BY <3>1, LoopAssumption
      <4>2. \A t \in Slots : conn'[t].be # b
        BY <1>4, <1>5, <2>2, <3>1, <4>1
      <4> QED
        BY <1>2, <1>8, <2>1, <3>1, <4>1, <4>2, LostServes
    <3> QED
      BY <3>1
  <2>4. \A a \in Backends \ B : SameBackend(a)
    BY <1>2, <1>8 DEF SameBackend
  <2>5. Fits(s)'
    BY <1>2, <1>4, <1>5, <1>6 DEF Fits
  <2>6. \A t \in Slots : t # s => /\ conn'[t] = conn[t] /\ conn[t].be \notin B
                                  /\ SamePrepared(t) /\ SameFlight(t)
                                  /\ Ring!Holds(waiters', t) => Ring!Holds(waiters, t)
    BY <1>2, <1>4, <1>6, <2>2 DEF SamePrepared, SameFlight
  <2>7. conn[s].be \in B \union {None} /\ conn'[s].be \in B \union {None}
    BY <1>1, <1>2, <1>4, <1>5
  <2>8. \A o \in prepared' : o.slot = s => Belongs(o)'
    BY <1>4 DEF Belongs
  <2>9. B \in SUBSET Backends /\ ~mixed' /\ DOMAIN flight' \subseteq DOMAIN flight
    BY <1>2, <2>1 DEF Sound
  <2> HIDE DEF B
  <2> QED
    BY <1>1, <1>2, <2>1, <2>3, <2>4, <2>5, <2>6, <2>7, <2>8, <2>9, OneSlotSound
<1> QED
  BY <1>7, <1>9, <1>10 DEF PipeInv

-----------------------------------------------------------------------------
(* What is prepared is submitted.                                           *)

\* An operation of a backend is submitted on its current session, if it has one.
LEMMA SubmittedOn ==
    ASSUME LoopInv, NEW o \in prepared, o.op \in BeOps
    PROVE  /\ o = Op(o.op, o.slot, o.on) /\ o.slot \in Slots /\ o.on \in Backends
           /\ File(o) = IF sess[o.on].alive THEN Session(o.on) ELSE NoFile
           /\ \A b \in Backends : File(o) = Session(b) => o.on = b /\ sess[b].alive
<1>1. o.op \in {"be_send", "be_recv"} /\ Prepares(o)
  BY DEF BeOps, LoopInv, LoopTypes
<1>2. o = Op(o.op, o.slot, o.on) /\ o.slot \in Slots /\ o.on \in Backends
  BY <1>1 DEF Prepares
<1>3. File(o) = IF sess[o.on].alive THEN Session(o.on) ELSE NoFile
  BY <1>1 DEF File
<1>4. ASSUME NEW b \in Backends, File(o) = Session(b)
      PROVE  o.on = b /\ sess[b].alive
  BY <1>2, <1>3, <1>4, SessionIs
<1> QED
  BY <1>2, <1>3, <1>4

\* The sends that are submitted on session f.
Sends(f) == {o \in prepared : o.op = "be_send" /\ File(o) = f}

\* What a session has received after a submission.
LEMMA Arrives ==
    ASSUME Submit, NEW f \in Sessions
    PROVE  /\ Sends(f) = {} => /\ inbox[f] = <<>> => inbox'[f] = <<>>
                               /\ \A x : inbox[f] = <<x>> => inbox'[f] = <<x>>
           /\ \A o : Sends(f) = {o} /\ inbox[f] = <<>> => inbox'[f] = <<buf[f[1]]>>
<1>1. inbox'[f] = inbox[f] \o [i \in 1 .. Cardinality(Sends(f)) |-> buf[f[1]]]
  BY DEF Submit, Sends
<1>2. ASSUME Sends(f) = {}
      PROVE  inbox'[f] = inbox[f] \o <<>>
  <2>1. Cardinality(Sends(f)) = 0
    BY <1>2, FS_EmptySet
  <2>2. [i \in 1 .. 0 |-> buf[f[1]]] = <<>>
    OBVIOUS
  <2> QED
    BY <1>1, <2>1, <2>2
<1>3. ASSUME NEW o, Sends(f) = {o}
      PROVE  inbox'[f] = inbox[f] \o <<buf[f[1]]>>
  <2>1. Cardinality(Sends(f)) = 1
    BY <1>3, FS_Singleton
  <2>2. [i \in 1 .. 1 |-> buf[f[1]]] = <<buf[f[1]]>>
    OBVIOUS
  <2> QED
    BY <1>1, <2>1, <2>2
<1>4. <<>> \o <<>> = <<>> /\ <<>> \o <<buf[f[1]]>> = <<buf[f[1]]>>
  OBVIOUS
<1>5. \A x : <<x>> \o <<>> = <<x>>
  OBVIOUS
<1> QED
  BY <1>2, <1>3, <1>4, <1>5

\* What is in flight after a submission.
LEMMA FlightSubmitted ==
    ASSUME Submit
    PROVE  /\ DOMAIN flight' = DOMAIN flight \union {Submitted(o) : o \in prepared}
           /\ \A x : (\A o \in prepared : Submitted(o) # x) =>
                  /\ x \in DOMAIN flight' <=> x \in DOMAIN flight
                  /\ x \in DOMAIN flight /\ flight[x] \in Int => flight'[x] = flight[x]
           /\ \A x, p : {o \in prepared : Submitted(o) = x} = {p} /\ x \notin DOMAIN flight =>
                  x \in DOMAIN flight' /\ flight'[x] = 1
<1> DEFINE subs == {Submitted(o) : o \in prepared}
           new == [x \in subs |-> Cardinality({o \in prepared : Submitted(o) = x})]
<1>1. flight' = flight (+) new
  BY DEF Submit, Submitted
<1>2. DOMAIN new = subs
  OBVIOUS
<1>3. /\ DOMAIN flight' = DOMAIN flight \union subs
      /\ \A x \in DOMAIN flight' :
            flight'[x] = (IF x \in DOMAIN flight THEN flight[x] ELSE 0)
                         + (IF x \in subs THEN new[x] ELSE 0)
  BY <1>1, <1>2, Zenon DEF (+)
<1>4. ASSUME NEW x, \A o \in prepared : Submitted(o) # x
      PROVE  /\ x \in DOMAIN flight' <=> x \in DOMAIN flight
             /\ x \in DOMAIN flight /\ flight[x] \in Int => flight'[x] = flight[x]
  <2>1. x \notin subs
    BY <1>4
  <2> HIDE DEF subs, new
  <2> QED
    BY <1>3, <2>1
<1>5. ASSUME NEW x, NEW p, {o \in prepared : Submitted(o) = x} = {p}, x \notin DOMAIN flight
      PROVE  x \in DOMAIN flight' /\ flight'[x] = 1
  <2>1. x \in subs
    BY <1>5
  <2>2. new[x] = 1
    BY <1>5, <2>1, FS_Singleton
  <2> HIDE DEF subs, new
  <2> QED
    BY <1>3, <1>5, <2>1, <2>2
<1> QED
  BY <1>3, <1>4, <1>5

\* Submission puts nothing on a session to come.
LEMMA SubmitKernel ==
    ASSUME LoopInv, KernelInv, Submit
    PROVE  KernelInv'
<1>1. UNCHANGED <<conn, sess, buf>> /\ DOMAIN inbox' = Sessions
  BY DEF Submit, poolVars
<1>2. ASSUME NEW x \in DOMAIN flight', x \notin DOMAIN flight
      PROVE  /\ x = Op(x.op, x.slot, x.on)
             /\ x.op \in BeOps => \/ x.on = NoFile
                                  \/ x.on \in Sessions /\ x.on[2] <= sess[x.on[1]].login
  <2>1. PICK o \in prepared : x = Submitted(o)
    BY <1>2, FlightSubmitted
  <2>2. x = Op(o.op, o.slot, File(o)) /\ x.op = o.op /\ x.slot = o.slot /\ x.on = File(o)
    BY <2>1, SubmittedIs, OpIs
  <2>3. ASSUME x.op \in BeOps
        PROVE  \/ x.on = NoFile
               \/ x.on \in Sessions /\ x.on[2] <= sess[x.on[1]].login
    <3>1. o.on \in Backends /\ x.on = IF sess[o.on].alive THEN Session(o.on) ELSE NoFile
      BY <2>2, <2>3, SubmittedOn
    <3>2. /\ Session(o.on) \in Sessions /\ Session(o.on)[1] = o.on
          /\ Session(o.on)[2] = sess[o.on].login /\ sess[o.on].login \in Nat
      BY <3>1, SessionIs
    <3> QED
      BY <3>1, <3>2
  <2> QED
    BY <2>2, <2>3
<1>3. ASSUME NEW f \in Sessions, f[2] > sess[f[1]].login
      PROVE  inbox'[f] = <<>>
  <2>1. ASSUME NEW o \in Sends(f)
        PROVE  FALSE
    <3>1. o \in prepared /\ o.op \in BeOps /\ File(o) = f
      BY <2>1 DEF Sends, BeOps
    <3>2. o.on \in Backends /\ f = IF sess[o.on].alive THEN Session(o.on) ELSE NoFile
      BY <3>1, SubmittedOn
    <3>3. f[1] \in Backends
      BY DEF Sessions
    <3>4. f # NoFile
      BY <3>3, LoopAssumption DEF NoFile
    <3> QED
      BY <1>3, <3>2, <3>4, SessionIs
  <2>2. inbox[f] = <<>>
    BY <1>3 DEF KernelInv
  <2> QED
    BY <2>1, <2>2, Arrives
<1> QED
  BY <1>1, <1>2, <1>3 DEF KernelInv

\* What was prepared goes, once, to the session of the connection's backend.
LEMMA SubmitSound ==
    ASSUME LoopInv, KernelInv, Sound, Submit, ~strayed'
    PROVE  Sound'
<1>1. /\ pc = "submit" /\ prepared' = {} /\ UNCHANGED <<waiters, conn, sess, buf, mixed>>
  BY DEF Submit, poolVars
<1>2. ASSUME NEW o \in prepared, o.op \in BeOps, sess[o.on].alive
      PROVE  Owns(o, o.on)
  <2>1. o.on \in Backends /\ File(o) = Session(o.on) /\ File(o) # NoFile
    BY <1>2, SubmittedOn, SessionIs
  <2>2. conn[o.slot].be = o.on
    BY <1>2, <2>1 DEF Submit, BeOps
  <2>3. conn[o.slot] # FreeConn
    BY <2>1, <2>2, LoopAssumption DEF FreeConn
  <2> QED
    BY <1>2, <2>3 DEF Sound, Belongs
<1>3. ASSUME NEW s \in Slots, NEW b \in Backends, conn[s].be = b,
             NEW o \in prepared, o.op \in BeOps, File(o) = Session(b)
      PROVE  Owns(o, b) /\ o = Op(o.op, s, b)
  <2>1. o.on = b /\ sess[b].alive /\ o = Op(o.op, o.slot, b) /\ o.slot \in Slots
    BY <1>3, SubmittedOn
  <2>2. Owns(o, b)
    BY <1>2, <1>3, <2>1
  <2>3. o.slot = s
    BY <1>3, <2>1, <2>2 DEF Sound, Serves, Owns
  <2> QED
    BY <2>1, <2>2, <2>3
<1>4. ASSUME NEW s \in Slots, NEW b \in Backends, conn[s].be = b, sess[b].alive,
             NEW kind \in BeOps, Comes(kind, s)
      PROVE  Comes(kind, s)'
  <2> DEFINE p == Op(kind, s, b)
             f == Op(kind, s, Session(b))
  <2>1. p.op = kind /\ p.slot = s /\ p.on = b /\ f.op = kind /\ f.slot = s /\ f.on = Session(b)
    BY OpIs
  <2>2. p \in prepared => Submitted(p) = f
    <3>1. p \in prepared => File(p) = Session(b) /\ Submitted(p) = Op(p.op, p.slot, File(p))
      BY <1>4, <2>1, SubmittedOn, SubmittedIs
    <3> QED
      BY <2>1, <3>1
  <2>3. ASSUME NEW o \in prepared, Submitted(o) = f
        PROVE  o = p
    <3>1. Submitted(o) = Op(o.op, o.slot, File(o))
      BY SubmittedIs
    <3>2. o.op = kind /\ File(o) = Session(b)
      BY <2>1, <2>3, <3>1, OpIs
    <3> QED
      BY <1>3, <1>4, <3>2
  <2>4. Session(b)' = Session(b)
    BY <1>1 DEF Session
  <2> HIDE DEF p, f
  <2>5. CASE p \in prepared /\ f \notin DOMAIN flight
    <3>1. {o \in prepared : Submitted(o) = f} = {p}
      BY <2>2, <2>3, <2>5
    <3>2. f \in DOMAIN flight' /\ flight'[f] = 1
      BY <2>5, <3>1, FlightSubmitted
    <3> QED
      BY <1>1, <1>4, <2>4, <3>2 DEF Comes, p, f
  <2>6. CASE p \notin prepared /\ f \in DOMAIN flight /\ flight[f] = 1
    <3>1. \A o \in prepared : Submitted(o) # f
      BY <2>3, <2>6
    <3>2. f \in DOMAIN flight' /\ flight'[f] = 1
      BY <2>6, <3>1, FlightSubmitted
    <3> QED
      BY <1>1, <1>4, <2>4, <3>2 DEF Comes, p, f
  <2> QED
    BY <1>4, <2>5, <2>6 DEF Comes, p, f
<1>5. ASSUME NEW s \in Slots
      PROVE  Fits(s)'
  <2>1. PICK b : b = conn[s].be /\ b \in Backends \union {None}
    BY DEF LoopInv, LoopTypes, TypeOK
  <2>2. CASE b = None
    BY <1>1, <2>1, <2>2 DEF Sound, Fits
  <2>3. CASE b # None
    <3> DEFINE p == Op("be_send", s, b)
    <3>1. b \in Backends /\ b # None /\ "be_send" \in BeOps /\ "be_recv" \in BeOps
      BY <2>1, <2>3 DEF BeOps
    <3>2. Fits(s) /\ sess[b].busy /\ sess[b].alive /\ buf[b] = conn[s].id /\ Underway(s)
      BY <2>1, <3>1 DEF Sound, Fits, KernelInv
    <3>3. Session(b) \in Sessions /\ Session(b)[1] = b /\ Session(b)' = Session(b)
      BY <1>1, <3>1, SessionIs DEF Session
    <3>4. \A o \in Sends(Session(b)) : Owns(o, b) /\ o = p /\ o \in prepared
      BY <1>3, <2>1, <3>1 DEF Sends
    <3>5. p \in prepared => p \in Sends(Session(b))
      <4>1. p.op = "be_send" /\ p.on = b
        BY OpIs
      <4> QED
        BY <3>1, <3>2, <4>1, SubmittedOn DEF Sends
    <3> HIDE DEF p
    <3>6. Sends(Session(b)) = IF p \in prepared THEN {p} ELSE {}
      BY <3>4, <3>5
    <3>7. CASE conn[s].beSend
      <4>1. /\ ~conn[s].beRecv /\ conn[s].wait = "SENDING" /\ Comes("be_send", s)
            /\ inbox[Session(b)] = IF p \in prepared THEN <<>> ELSE <<conn[s].id>>
        BY <2>1, <3>2, <3>7 DEF Underway, p
      <4>2. Comes("be_send", s)'
        BY <1>4, <2>1, <3>1, <3>2, <4>1
      <4>3. inbox'[Session(b)] = <<conn[s].id>>
        BY <3>2, <3>3, <3>6, <4>1, Arrives
      <4>4. Underway(s)'
        BY <1>1, <2>1, <3>3, <3>7, <4>1, <4>2, <4>3 DEF Underway
      <4> QED
        BY <1>1, <2>1, <3>2, <4>4 DEF Fits
    <3>8. CASE ~conn[s].beSend
      <4>1. /\ conn[s].beRecv /\ conn[s].wait = "READING" /\ Comes("be_recv", s)
            /\ inbox[Session(b)] = <<conn[s].id>>
        BY <1>1, <2>1, <3>2, <3>8 DEF Underway
      <4>2. Comes("be_recv", s)'
        BY <1>4, <2>1, <3>1, <3>2, <4>1
      <4>3. Sends(Session(b)) = {}
        <5>1. \A o \in Sends(Session(b)) : o.op = "be_send" /\ o.slot = s
          BY <3>4, OpIs DEF p
        <5> QED
          BY <3>4, <3>8, <5>1 DEF Owns
      <4>4. inbox'[Session(b)] = <<conn[s].id>>
        BY <3>3, <4>1, <4>3, Arrives
      <4>5. Underway(s)'
        BY <1>1, <2>1, <3>3, <3>8, <4>1, <4>2, <4>4 DEF Underway
      <4> QED
        BY <1>1, <2>1, <3>2, <4>5 DEF Fits
    <3> QED
      BY <3>7, <3>8
  <2> QED
    BY <2>2, <2>3
<1>6. ASSUME NEW b \in Backends
      PROVE  Serves(b)'
  <2>1. Session(b)' = Session(b) /\ Session(b) \in Sessions
    BY <1>1, SessionIs DEF Session
  <2>2. ASSUME NEW o \in prepared, o.op \in BeOps, File(o) = Session(b)
        PROVE  Owns(o, b) /\ o.slot \in Slots
    <3>1. o.on = b /\ sess[b].alive /\ o.slot \in Slots
      BY <2>2, SubmittedOn
    <3> QED
      BY <1>2, <2>2, <3>1
  <2>3. ASSUME sess[b].alive, ~sess[b].busy
        PROVE  inbox'[Session(b)] = <<>>
    <3>1. inbox[Session(b)] = <<>>
      BY <2>3 DEF Sound, Serves
    <3>2. Sends(Session(b)) = {}
      <4>1. ASSUME NEW o \in Sends(Session(b))
            PROVE  FALSE
        <5>1. Owns(o, b) /\ o.slot \in Slots
          BY <2>2, <4>1 DEF Sends, BeOps
        <5>2. conn[o.slot].be = b /\ b # None
          BY <5>1, LoopAssumption DEF Owns
        <5> QED
          BY <2>3, <5>1, <5>2 DEF Sound, Fits
      <4> QED
        BY <4>1
    <3> QED
      BY <2>1, <3>1, <3>2, Arrives
  <2>4. ASSUME sess[b].alive, NEW x \in DOMAIN flight', x.op \in BeOps, x.on = Session(b)
        PROVE  Owns(x, b)
    <3>1. CASE x \in DOMAIN flight
      BY <2>4, <3>1 DEF Sound, Serves
    <3>2. ASSUME NEW o \in prepared, x = Submitted(o)
          PROVE  Owns(x, b)
      <4>1. x.op = o.op /\ x.slot = o.slot /\ x.on = File(o)
        BY <3>2, SubmittedIs, OpIs
      <4>2. Owns(o, b)
        BY <2>2, <2>4, <4>1
      <4> QED
        BY <4>1, <4>2 DEF Owns
    <3> QED
      BY <3>1, <3>2, FlightSubmitted
  <2> QED
    BY <1>1, <2>1, <2>3, <2>4 DEF Sound, Serves, Owns
<1> QED
  BY <1>1, <1>5, <1>6 DEF Sound

\* Submission.
LEMMA SubmitPipe ==
    ASSUME LoopInv, LoopInv', PipeInv, Submit
    PROVE  PipeInv'
<1>1. WaitersInv'
  BY DEF Submit, PipeInv, WaitersInv
<1>2. KernelInv'
  BY SubmitKernel DEF PipeInv
<1>3. ~strayed' => Sound'
  <2>1. ~strayed' => ~strayed
    BY DEF Submit
  <2> QED
    BY <2>1, SubmitSound DEF PipeInv
<1> QED
  BY <1>1, <1>2, <1>3 DEF PipeInv

-----------------------------------------------------------------------------
(* The invariant holds.                                                     *)

\* In the beginning nobody waits and nothing is with a backend.
LEMMA PipeStart == Init => PipeInv
<1> SUFFICES ASSUME Init PROVE PipeInv
  OBVIOUS
<1>1. FreeConn.be = None /\ ~FreeConn.beSend /\ ~FreeConn.beRecv /\ FreeConn.wait = "IDLE"
  BY DEF FreeConn
<1>2. /\ \A s \in Slots : conn[s] = FreeConn
      /\ \A b \in Backends : sess[b].alive /\ ~sess[b].busy /\ sess[b].login = 0
      /\ \A f \in Sessions : inbox[f] = <<>>
      /\ DOMAIN inbox = Sessions /\ DOMAIN buf = Backends
      /\ prepared = {Op("accept", 0, Listen)} /\ ~mixed
      /\ waiters = Ring!EmptyRing(0)
  BY DEF Init
<1>3. DOMAIN flight = {}
  BY DEF Init, EmptyBag, SetToBag
<1>4. /\ waiters.count = 0 /\ waiters.head = 0 /\ waiters.tail = 0
      /\ \A x : ~Ring!Holds(waiters, x)
  BY <1>2 DEF Ring!EmptyRing, Ring!Holds
<1>5. WaitersInv
  <2>1. Ring!Exact(waiters)
    BY <1>4, LoopAssumption DEF Ring!Exact, Ring!Cell
  <2>2. Ring!Distinct(waiters)
    BY <1>4 DEF Ring!Distinct
  <2> QED
    BY <1>1, <1>2, <2>1, <2>2 DEF WaitersInv
<1>6. KernelInv
  BY <1>2, <1>3 DEF KernelInv
<1>7. Sound
  <2>1. \A s \in Slots : Fits(s)
    BY <1>1, <1>2, <1>4 DEF Fits
  <2>2. \A b \in Backends : Serves(b)
    <3>1. \A b \in Backends : Session(b) \in Sessions /\ b # None
      BY <1>2, LoopAssumption DEF Session, Sessions
    <3> QED
      BY <1>1, <1>2, <1>3, <3>1 DEF Serves
  <2>3. \A o \in prepared : Belongs(o)
    BY <1>2, OpIs DEF Belongs, BeOps
  <2> QED
    BY <1>2, <2>1, <2>2, <2>3 DEF Sound
<1> QED
  BY <1>5, <1>6, <1>7 DEF PipeInv

\* Every step keeps the invariant.
LEMMA PipeStep == LoopInv /\ LoopInv' /\ PipeInv /\ [Next]_vars => PipeInv'
<1> SUFFICES ASSUME LoopInv, LoopInv', PipeInv, [Next]_vars PROVE PipeInv'
  OBVIOUS
<1>1. ASSUME NEW op \in DOMAIN flight, Completion(op)
      PROVE  PipeInv'
  BY <1>1, IgnoredPipe, PlainHandlers, BindStartPipe, BindParkPipe, BeSendDonePipe, BeReplyPipe,
     BeFailPipe DEF Completion
<1>2. ASSUME Handler
      PROVE  PipeInv'
  BY <1>2, ClosePipe, GrantPipe, SubmitPipe, NoSlotActions DEF Handler
<1> QED
  BY <1>1, <1>2, AcceptPipe, NoSlotActions DEF Next

\* So it always holds.
LEMMA PipeInvHolds == Spec => [](LoopInv /\ PipeInv)
<1>1. Init => LoopInv /\ PipeInv
  BY LoopStart, PipeStart
<1>2. LoopInv /\ PipeInv /\ [Next]_vars => LoopInv' /\ PipeInv'
  BY LoopStep, PipeStep
<1> QED
  BY <1>1, <1>2, PTL DEF Spec

\* Between two handlers the wait ring holds every parked client once, its tail
\* and count agree with its cells, and unless an operation has met a stranger it
\* holds nobody else: pushes, passes and close_conn keep array and connections
\* together, for every number of slots.
THEOREM WaitRingKept == Spec => []WaitRingExact
<1>1. LoopInv /\ PipeInv => WaitRingExact
  <2> SUFFICES ASSUME LoopInv, PipeInv PROVE WaitRingExact
    OBVIOUS
  <2> DEFINE held == {s \in Slots : Ring!Holds(waiters, s)}
  <2>1. GoodRing(waiters)
    BY WaitersGood
  <2>2. waiters \in Ring!Rings(Slots) /\ Ring!Distinct(waiters)
    BY <2>1 DEF GoodRing
  <2>3. Cardinality(held) = waiters.count
    <3>1. waiters \in Array(MaxConns)!Rings(Slots) /\ Array(MaxConns)!Distinct(waiters)
      BY <2>2, SameRing
    <3>2. held = {s \in Slots : Array(MaxConns)!Holds(waiters, s)}
      BY SameRing
    <3> HIDE DEF held
    <3> QED
      BY <3>1, <3>2, LoopAssumption, CountHolds
  <2>4. \A s \in Slots : Ring!Holds(waiters, s) => strayed \/ conn[s].wait = "WAITING_POOL"
    BY DEF PipeInv, Sound, Fits
  <2> QED
    BY <2>3, <2>4 DEF PipeInv, WaitersInv, WaitRingExact
<1> QED
  BY <1>1, PipeInvHolds, PTL

\* As long as no operation has met a connection it was not meant for, a backend
\* is busy for exactly one connection, that connection has an operation on the
\* backend's session in the kernel, and each reply went to the client that asked:
\* a completion carries only kind and slot, and that is enough.
THEOREM PipelinesKept == Spec => []PipelinesSound
<1>1. LoopInv /\ PipeInv => PipelinesSound
  <2> SUFFICES ASSUME LoopInv, Sound, KernelInv PROVE PipelinesSound
    BY DEF PipeInv, PipelinesSound
  <2>1. ASSUME NEW b \in Backends
        PROVE  Cardinality({s \in Slots : conn[s].be = b}) = IF sess[b].busy THEN 1 ELSE 0
    <3> DEFINE S == {s \in Slots : conn[s].be = b}
    <3>1. CASE sess[b].busy
      <4>1. PICK s \in Slots : S = {s}
        BY <2>1, <3>1 DEF Sound, Serves
      <4> QED
        BY <3>1, <4>1, FS_Singleton
    <3>2. CASE ~sess[b].busy
      <4>1. S = {}
        BY <2>1, <3>2, LoopAssumption DEF Sound, Fits
      <4> QED
        BY <3>2, <4>1, FS_EmptySet
    <3> QED
      BY <3>1, <3>2
  <2>2. ASSUME pc = "wait", NEW s \in Connected, conn[s].be # None
        PROVE  \E op \in DOMAIN flight : /\ op.op \in {"be_send", "be_recv"} /\ op.slot = s
                                         /\ op.on = Session(conn[s].be)
    <3>1. s \in Slots /\ prepared = {}
      BY <2>2 DEF Connected, LoopInv, LoopTypes
    <3>2. PICK kind \in {"be_send", "be_recv"} : Comes(kind, s)
      BY <2>2, <3>1 DEF Sound, Fits, Underway
    <3>3. Op(kind, s, Session(conn[s].be)) \in DOMAIN flight
      BY <3>1, <3>2 DEF Comes
    <3> QED
      BY <3>3, OpIs
  <2>3. ~mixed
    BY DEF Sound
  <2> QED
    BY <2>1, <2>2, <2>3 DEF PipelinesSound
<1> QED
  BY <1>1, PipeInvHolds, PTL

=============================================================================
