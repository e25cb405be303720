-------------------------- MODULE ClientSocketProofs --------------------------
(****************************************************************************)
(* Every byte that queue_plain_send takes goes to the client once and in    *)
(* order when the kernel copies what it is given, for any sizes of the send *)
(* buffer and of the socket, and whatever drain_fe_queue drops.             *)
(****************************************************************************)
EXTENDS ClientSocket, SequenceTheorems, TLAPS

Buffers == [cell : [0 .. Cap - 1 -> 0 .. MaxBytes], off : 0 .. Cap, len : 0 .. Cap]

Sends == [from : 0 .. Cap, n : 0 .. Cap, zc : BOOLEAN, res : 0 .. Cap, done : BOOLEAN]

Bytes == {Copied(k) : k \in Nat}

\* The bytes of s are those that follow the first b, in order.
InOrder(s, b) ==
    /\ s \in Seq(Bytes)
    /\ \A i \in 1 .. Len(s) : s[i] = Copied(b + i)

\* Behind the first t unsent cells of the buffer o are the bytes b + 1 to m.
Unsent(o, t, b, m) ==
    /\ o \in Buffers /\ o.off + t <= o.len
    /\ m = b + (o.len - o.off) - t
    /\ \A i \in 1 .. (o.len - o.off) - t : o.cell[o.off + t + i - 1] = b + i

\* Of the messages sent, i are unread and b are Binds to be answered.
Counted(i, b, s) == i \in Nat /\ b \in Nat /\ i + b <= s

SendInFlight ==
    /\ mode = "plain" /\ state # "FREE"
    /\ send.from = out.off /\ send.n \in 1 .. Rest(out) /\ ~send.zc
    /\ send.done => send.res \in 0 .. send.n

SocketInv ==
    /\ TypeOK
    /\ InOrder(sock, seen)
    /\ seen + Len(sock) <= MaxBytes
    /\ Counted(inq, binds, sent)
    /\ send # NoSend => SendInFlight
    /\ state = "FREE" => read = {}
    /\ state \in {"FREE", "TLS_HS"} => binds = 0 /\ ~draining
    /\ state \in {"ACTIVE", "CLOSING"} => hs = 0
    /\ state # "FREE" => Unsent(out, Taken, seen + Len(sock), made)

-----------------------------------------------------------------------------
(* Bytes in order.                                                          *)

(***************************************************************************)
(* Two sums of what a kernel buffer with room r still takes.               *)
(***************************************************************************)
LEMMA WithinRoom ==
    ASSUME NEW a \in Nat, NEW r \in Nat, NEW x \in Nat, NEW y \in Nat,
           NEW c \in Nat, a + r = c, x + y <= r
    PROVE  a + x + y <= c /\ a + x <= c
  OBVIOUS

LEMMA SumWithin ==
    ASSUME NEW a \in Nat, NEW m \in Nat, NEW most \in Nat, NEW off \in Nat, NEW len \in Nat,
           off <= len, m = a + (len - off), m <= most
    PROVE  a <= most
  OBVIOUS


LEMMA CountedWithin ==
    ASSUME NEW most \in Nat, NEW s \in 0 .. most, NEW i, NEW b, Counted(i, b, s)
    PROVE  i \in 0 .. s /\ i \in 0 .. most /\ b \in 0 .. most
  BY DEF Counted

\* A message that is read may be a Bind, and one that is answered is none.
LEMMA CountedRead ==
    ASSUME NEW s \in Nat, NEW i \in Nat, NEW b \in Nat, Counted(i, b, s),
           NEW k \in 0 .. i, NEW c \in 0 .. b + k
    PROVE  Counted(i - k, c, s)
  BY DEF Counted

LEMMA CountedLess ==
    ASSUME NEW s \in Nat, NEW i \in Nat, NEW b \in Nat, Counted(i, b, s),
           NEW j \in 0 .. i, NEW c \in 0 .. b
    PROVE  Counted(j, c, s)
  BY DEF Counted

LEMMA OrderedBehind ==
    ASSUME NEW b \in Nat, NEW s, NEW u, InOrder(s, b), InOrder(u, b + Len(s))
    PROVE  InOrder(s \o u, b) /\ Len(s \o u) = Len(s) + Len(u)
<1>1. /\ s \o u \in Seq(Bytes) /\ Len(s \o u) = Len(s) + Len(u)
      /\ \A i \in 1 .. Len(s) + Len(u) :
            (s \o u)[i] = IF i <= Len(s) THEN s[i] ELSE u[i - Len(s)]
  BY ConcatProperties DEF InOrder
<1>2. Len(s) \in Nat /\ Len(u) \in Nat
  BY LenProperties DEF InOrder
<1>3. ASSUME NEW i \in 1 .. Len(s) + Len(u)
      PROVE  (s \o u)[i] = Copied(b + i)
  <2>1. CASE i <= Len(s)
    BY <1>1, <1>2, <2>1 DEF InOrder
  <2>2. CASE i > Len(s)
    <3>1. i - Len(s) \in 1 .. Len(u) /\ (b + Len(s)) + (i - Len(s)) = b + i
      BY <1>2, <2>2
    <3> QED
      BY <1>1, <1>2, <2>2, <3>1 DEF InOrder
  <2> QED
    BY <1>2, <2>1, <2>2
<1> QED
  BY <1>1, <1>3 DEF InOrder

LEMMA OrderedRest ==
    ASSUME NEW b \in Nat, NEW s, InOrder(s, b), s # <<>>
    PROVE  InOrder(Tail(s), b + 1) /\ Len(Tail(s)) = Len(s) - 1 /\ Len(s) >= 1
<1>1. /\ Tail(s) \in Seq(Bytes) /\ Len(Tail(s)) = Len(s) - 1
      /\ \A i \in 1 .. Len(Tail(s)) : Tail(s)[i] = s[i + 1]
  BY HeadTailProperties DEF InOrder
<1>2. Len(s) \in Nat /\ Len(s) # 0
  BY LenProperties, EmptySeq DEF InOrder
<1>3. ASSUME NEW i \in 1 .. Len(Tail(s))
      PROVE  Tail(s)[i] = Copied(b + 1 + i)
  <2>1. i + 1 \in 1 .. Len(s) /\ b + (i + 1) = b + 1 + i
    BY <1>1, <1>2
  <2> QED
    BY <1>1, <2>1 DEF InOrder
<1> QED
  BY <1>1, <1>2, <1>3 DEF InOrder

LEMMA OrderedCopy ==
    ASSUME NEW b \in Nat, NEW n \in Nat, NEW s, DOMAIN s = 1 .. n,
           s = [i \in 1 .. n |-> s[i]], \A i \in 1 .. n : s[i] = Copied(b + i)
    PROVE  InOrder(s, b) /\ Len(s) = n
<1>1. \A i \in 1 .. n : s[i] = Copied(b + i) /\ b + i \in Nat
  OBVIOUS
<1>2. \A i \in 1 .. n : s[i] \in Bytes
  BY <1>1 DEF Bytes
<1>3. s \in Seq(Bytes) /\ Len(s) = n
  <2>1. s \in [1 .. n -> Bytes]
    BY <1>2
  <2> QED
    BY <2>1, IsASeq
<1> QED
  BY <1>1, <1>3 DEF InOrder

-----------------------------------------------------------------------------
(* The send buffer.                                                         *)

\* Queueing adds what is made behind what is unsent.
LEMMA QueuedBehind ==
    ASSUME NEW o, NEW t \in Nat, NEW b \in Nat, Unsent(o, t, b, made),
           o.off = o.len => t = 0, made \in 0 .. MaxBytes,
           NEW n \in 0 .. MaxReply, MayMake(n), Fits(o, n)
    PROVE  /\ Unsent(Queued(o, n), t, b, made + n)
           /\ Queued(o, n).off = o.off \/ o.off = o.len
           /\ Rest(Queued(o, n)) >= Rest(o)
<1>1. /\ Cap \in Nat /\ MaxBytes \in Nat
      /\ made \in Nat /\ n \in Nat /\ made + n <= MaxBytes
  BY SocketAssumption DEF MayMake
<1>2. PICK cells \in [0 .. Cap - 1 -> 0 .. MaxBytes], off \in 0 .. Cap, len \in 0 .. Cap :
        o.cell = cells /\ o.off = off /\ o.len = len
  BY DEF Unsent, Buffers
<1>3. /\ off + t <= len /\ made = b + (len - off) - t
      /\ \A i \in 1 .. (len - off) - t : cells[off + t + i - 1] = b + i
      /\ off = len => t = 0
  BY <1>2 DEF Unsent
<1>4. len + n <= Cap \/ (off = len /\ n <= Cap)
  BY <1>2 DEF Fits
<1> DEFINE again == len + n > Cap /\ off = len
<1>5. PICK at \in 0 .. Cap : at = IF again THEN 0 ELSE len
  BY <1>1
<1>6. at + n <= Cap
  BY <1>1, <1>4, <1>5
<1> DEFINE newCells == [i \in 0 .. Cap - 1 |->
                          IF i \in at .. at + n - 1 THEN made + 1 + i - at ELSE cells[i]]
           newOff == IF again THEN 0 ELSE off
           q == Queued(o, n)
<1>7. q.cell = newCells /\ q.off = newOff /\ q.len = at + n
  BY <1>2, <1>5 DEF Queued
<1>8. ASSUME NEW i \in at .. at + n - 1
      PROVE  made + 1 + i - at \in 0 .. MaxBytes
  BY <1>1, <1>5
<1>9. newCells \in [0 .. Cap - 1 -> 0 .. MaxBytes]
  BY <1>2, <1>8
<1>10. newOff \in 0 .. Cap /\ at + n \in 0 .. Cap
  BY <1>1, <1>2, <1>5, <1>6
<1>11. q \in Buffers
  <2>1. q = [cell |-> q.cell, off |-> q.off, len |-> q.len]
    BY DEF Queued
  <2> HIDE DEF q, newCells, newOff
  <2> QED
    BY <1>7, <1>9, <1>10, <2>1 DEF Buffers
<1>12. CASE again
  <2>1. at = 0 /\ t = 0 /\ made = b /\ newOff = 0 /\ off = len
    BY <1>1, <1>2, <1>3, <1>5, <1>12
  <2>2. ASSUME NEW i \in 1 .. n
        PROVE  newCells[i - 1] = b + i
    BY <1>1, <1>6, <2>1
  <2> HIDE DEF q, newCells, newOff, again
  <2>3. Unsent(q, t, b, made + n)
    BY <1>1, <1>7, <1>11, <2>1, <2>2 DEF Unsent
  <2>4. Rest(q) = n /\ Rest(o) = 0
    BY <1>1, <1>2, <1>7, <2>1 DEF Rest
  <2> QED
    BY <1>1, <1>2, <2>1, <2>3, <2>4 DEF q
<1>13. CASE ~again
  <2>1. at = len /\ newOff = off
    BY <1>5, <1>13
  <2>2. ASSUME NEW i \in 1 .. (len + n - off) - t
        PROVE  newCells[off + t + i - 1] = b + i
    <3> DEFINE j == off + t + i - 1
    <3>4. /\ off \in Nat /\ len \in Nat /\ Cap \in Nat /\ n \in Nat /\ t \in Nat /\ i \in Nat
          /\ off + t <= len /\ len + n <= Cap
      BY <1>1, <1>2, <1>3, <1>6, <2>1
    <3>5. 1 <= i /\ i <= (len + n - off) - t
      BY <3>4
    <3>1. j \in 0 .. Cap - 1
      BY <3>4, <3>5
    <3>2. CASE j >= len
      <4>1. j \in at .. at + n - 1 /\ made + 1 + j - at = b + i
        BY <1>1, <1>2, <1>3, <2>1, <3>2
      <4> QED
        BY <3>1, <4>1
    <3>3. CASE j < len
      <4>1. j \notin at .. at + n - 1 /\ i \in 1 .. (len - off) - t
        BY <2>1, <3>3, <3>4, <3>5
      <4> QED
        BY <1>3, <3>1, <4>1
    <3> QED
      BY <1>2, <3>2, <3>3
  <2> HIDE DEF q, newCells, newOff, again
  <2>3. Unsent(q, t, b, made + n)
    BY <1>1, <1>2, <1>3, <1>7, <1>11, <2>1, <2>2 DEF Unsent
  <2>4. Rest(q) = len + n - off /\ Rest(o) = len - off
    BY <1>1, <1>2, <1>7, <2>1 DEF Rest
  <2> QED
    BY <1>1, <1>2, <1>7, <2>1, <2>3, <2>4 DEF q
<1> QED
  BY <1>12, <1>13

\* What SSL_write takes is the front of what is unsent.
LEMMA WrittenFront ==
    ASSUME NEW o, NEW b \in Nat, NEW m, Unsent(o, 0, b, m), NEW room \in Nat
    PROVE  /\ InOrder(Written(o, room).bytes, b)
           /\ Len(Written(o, room).bytes) \in 0 .. room
           /\ Unsent(Written(o, room).out, 0, b + Len(Written(o, room).bytes), m)
           /\ Written(o, room).out.len = 0 \/ Len(Written(o, room).bytes) = room
<1>1. PICK cells \in [0 .. Cap - 1 -> 0 .. MaxBytes], off \in 0 .. Cap, len \in 0 .. Cap :
        o = [cell |-> cells, off |-> off, len |-> len]
  BY DEF Unsent, Buffers
<1>2. /\ Cap \in Nat /\ off \in Nat /\ len \in Nat /\ off <= len /\ m = b + (len - off)
      /\ \A i \in 1 .. len - off : cells[off + i - 1] = b + i
      /\ Rest(o) = len - off
  BY <1>1, SocketAssumption DEF Unsent, Rest
<1>3. PICK n \in Nat : n = IF Rest(o) < room THEN Rest(o) ELSE room
  <2>1. Rest(o) \in Nat
    BY <1>2
  <2> QED
    BY <2>1
<1> DEFINE bytes == [i \in 1 .. n |-> Copied(cells[off + i - 1])]
           rest == IF n = len - off THEN EmptyBuf(cells) ELSE [o EXCEPT !.off = @ + n]
<1>4. Written(o, room) = [out |-> rest, bytes |-> bytes]
  BY <1>1, <1>2, <1>3 DEF Written
<1>5. n <= len - off /\ n <= room
  BY <1>2, <1>3
<1>6. InOrder(bytes, b) /\ Len(bytes) = n
  <2>1. \A i \in 1 .. n : cells[off + i - 1] = b + i
    BY <1>2, <1>5
  <2>2. /\ DOMAIN bytes = 1 .. n /\ bytes = [i \in 1 .. n |-> bytes[i]]
        /\ \A i \in 1 .. n : bytes[i] = Copied(b + i)
    BY <2>1
  <2> HIDE DEF bytes
  <2> QED
    BY <2>2, OrderedCopy
<1>7. Unsent(rest, 0, b + n, m)
  <2>1. CASE n = len - off
    <3>1. rest = [cell |-> cells, off |-> 0, len |-> 0]
      <4>1. rest = EmptyBuf(cells)
        BY <2>1
      <4> HIDE DEF rest
      <4> QED
        BY <4>1 DEF EmptyBuf
    <3> HIDE DEF rest
    <3>2. rest \in Buffers
      BY <1>2, <3>1 DEF Buffers
    <3>3. rest.off = 0 /\ rest.len = 0
      BY <3>1
    <3>4. /\ 0 + 0 <= 0 /\ m = (b + n) + (0 - 0) - 0
          /\ \A i \in 1 .. (0 - 0) - 0 : rest.cell[0 + 0 + i - 1] = (b + n) + i
      <4>1. m = b + n
        BY <1>2, <2>1
      <4>2. m = (b + n) + (0 - 0) - 0
        BY <4>1
      <4>3. 1 .. (0 - 0) - 0 = {}
        OBVIOUS
      <4> QED
        BY <4>2, <4>3
    <3> QED
      BY <3>2, <3>3, <3>4 DEF Unsent
  <2>2. CASE n # len - off
    <3>1. rest = [cell |-> cells, off |-> off + n, len |-> len]
      <4>1. rest = [o EXCEPT !.off = @ + n]
        BY <2>2
      <4> HIDE DEF rest
      <4> QED
        BY <1>1, <4>1
    <3>2. rest \in Buffers
      <4> HIDE DEF rest
      <4>1. off + n \in 0 .. Cap
        BY <1>2, <1>5
      <4> QED
        BY <1>2, <3>1, <4>1 DEF Buffers
    <3>3. ASSUME NEW i \in 1 .. len - (off + n)
          PROVE  cells[off + n + i - 1] = (b + n) + i
      <4>1. n + i \in 1 .. len - off /\ off + (n + i) - 1 = off + n + i - 1
            /\ b + (n + i) = (b + n) + i
        BY <1>2, <1>5
      <4> QED
        BY <1>2, <4>1
    <3>4. /\ (off + n) + 0 <= len /\ m = (b + n) + (len - (off + n)) - 0
          /\ \A i \in 1 .. (len - (off + n)) - 0 : cells[(off + n) + 0 + i - 1] = (b + n) + i
      BY <1>2, <1>5, <3>3
    <3>5. rest.cell = cells /\ rest.off = off + n /\ rest.len = len
      BY <3>1
    <3> HIDE DEF rest
    <3> QED
      BY <3>2, <3>4, <3>5 DEF Unsent
  <2> QED
    BY <2>1, <2>2
<1>8. rest.len = 0 \/ n = room
  BY <1>2, <1>3 DEF EmptyBuf
<1> HIDE DEF rest, bytes
<1> QED
  BY <1>4, <1>5, <1>6, <1>7, <1>8

-----------------------------------------------------------------------------
(* Closing, and what a handler finds.                                       *)

LEMMA Known ==
    ASSUME SocketInv
    PROVE  /\ Cap \in Nat \ {0} /\ SockCap \in Nat \ {0} /\ MaxBytes \in Nat
           /\ MaxMsgs \in Nat /\ MaxReply \in Nat /\ Flights \in Nat
           /\ seen \in Nat /\ Len(sock) \in Nat /\ made \in 0 .. MaxBytes
           /\ inq \in Nat /\ hs \in Nat /\ binds \in Nat
           /\ Room \in Nat /\ Room = SockCap - Len(sock)
           /\ out \in Buffers /\ out.off \in Nat /\ out.len \in Nat /\ out.off <= out.len
           /\ out.len <= Cap /\ Rest(out) = out.len - out.off /\ Rest(out) \in Nat
           /\ Taken \in 0 .. Rest(out)
           /\ send = NoSend => Taken = 0 /\ ~send.done
           /\ send # NoSend => Rest(out) > Taken \/ send.done
           /\ send # NoSend => Rest(out) # 0
<1>1. /\ Cap \in Nat \ {0} /\ SockCap \in Nat \ {0} /\ MaxBytes \in Nat
      /\ MaxMsgs \in Nat /\ MaxReply \in Nat /\ Flights \in Nat
  BY SocketAssumption
<1>2. /\ seen \in Nat /\ made \in 0 .. MaxBytes /\ inq \in Nat /\ hs \in Nat
      /\ binds \in Nat /\ Len(sock) <= SockCap
      /\ out \in Buffers /\ out.off <= out.len
  <2>1. /\ seen \in 0 .. MaxBytes /\ made \in 0 .. MaxBytes /\ inq \in 0 .. MaxMsgs
        /\ hs \in 0 .. Flights /\ binds \in 0 .. MaxMsgs
    BY DEF SocketInv, TypeOK
  <2>2. Len(sock) <= SockCap /\ out \in Buffers /\ out.off <= out.len
    BY DEF SocketInv, TypeOK, Buffers
  <2> QED
    BY <1>1, <2>1, <2>2
<1>3. Len(sock) \in Nat
  BY LenProperties DEF SocketInv, InOrder
<1>4. /\ out.off \in Nat /\ out.len \in Nat /\ out.len <= Cap
      /\ Rest(out) = out.len - out.off
  BY <1>1, <1>2 DEF Buffers, Rest
<1>5. Rest(out) \in Nat
  BY <1>2, <1>4
<1>6. CASE send = NoSend
  BY <1>1, <1>2, <1>3, <1>4, <1>5, <1>6 DEF Room, Taken, NoSend
<1>7. CASE send # NoSend
  <2>1. send.n \in 1 .. Rest(out) /\ (send.done => send.res \in 0 .. send.n)
    BY <1>7 DEF SocketInv, SendInFlight
  <2>2. Taken \in 0 .. Rest(out) /\ (~send.done => Taken = 0) /\ Rest(out) >= 1
    BY <1>5, <2>1 DEF Taken
  <2> QED
    BY <1>1, <1>2, <1>3, <1>4, <1>5, <1>7, <2>2 DEF Room
<1> QED
  BY <1>6, <1>7

LEMMA NoSendTyped ==
    NoSend \in Sends /\ NoSend.done = FALSE
BY SocketAssumption DEF NoSend, Sends

\* A connection may be closed at any time: the bytes in the socket stay.
LEMMA CloseSafe ==
    ASSUME SocketInv, Close, UNCHANGED <<mode, clientVars>>,
           InOrder(sock', seen), Len(sock') <= SockCap, seen + Len(sock') <= MaxBytes,
           hs' \in 0 .. hs, inq' \in 0 .. inq
    PROVE  SocketInv'
<1>1. /\ state' = "FREE" /\ send' = NoSend /\ read' = {} /\ wantOut' = FALSE
      /\ binds' = 0 /\ draining' = FALSE /\ made' = made
      /\ late' = late /\ dropped' = dropped
      /\ out' = [cell |-> out.cell, off |-> 0, len |-> 0]
  BY DEF Close, EmptyBuf, history
<1>2. out' \in Buffers /\ out'.off <= out'.len
  BY <1>1, Known DEF Buffers
<1>3. mode' = mode /\ seen' = seen /\ sent' = sent /\ hup' = hup
  BY DEF clientVars
<1>4. /\ MaxMsgs \in Nat /\ Flights \in Nat /\ MaxBytes \in Nat
      /\ hs \in 0 .. Flights /\ inq \in Nat /\ sent \in 0 .. MaxMsgs
      /\ Counted(inq, binds, sent) /\ binds \in Nat
  BY Known DEF SocketInv, TypeOK
<1>5. hs' \in 0 .. Flights
  BY <1>4
<1>6. inq \in 0 .. sent /\ inq' \in 0 .. MaxMsgs
  BY <1>4, CountedWithin
<1>7. Counted(inq', 0, sent)
  <2>1. 0 \in 0 .. binds /\ sent \in Nat
    BY <1>4
  <2> QED
    BY <1>4, <2>1, CountedLess
<1>8. 0 \in 0 .. MaxMsgs /\ 0 \in Nat
  BY <1>4
<1>9. TypeOK'
  BY <1>1, <1>2, <1>3, <1>5, <1>6, <1>8, NoSendTyped
     DEF SocketInv, TypeOK, Buffers, Sends
<1> HIDE DEF Close
<1> QED
  BY <1>1, <1>3, <1>5, <1>7, <1>9 DEF SocketInv

\* What a handler that sends nothing needs for closing.
LEMMA CloseQuietly ==
    ASSUME SocketInv, Close, UNCHANGED <<mode, clientVars, sock>>,
           hs' \in 0 .. hs, inq' \in 0 .. inq
    PROVE  SocketInv'
<1>1. InOrder(sock', seen) /\ Len(sock') <= SockCap /\ seen + Len(sock') <= MaxBytes
  BY DEF SocketInv, TypeOK
<1> HIDE DEF Close
<1> QED
  BY <1>1, CloseSafe

LEMMA CloseStill ==
    ASSUME SocketInv, Close, UNCHANGED <<mode, sock, hs, inq, clientVars>>
    PROVE  SocketInv'
<1>1. hs \in 0 .. hs /\ inq \in 0 .. inq
  <2>1. hs \in Nat /\ inq \in Nat
    BY Known
  <2> QED
    BY <2>1
<1>2. hs' = hs /\ inq' = inq
  OBVIOUS
<1> HIDE DEF Close
<1> QED
  BY <1>1, <1>2, CloseQuietly

-----------------------------------------------------------------------------
(* Handlers that stay.                                                      *)

\* The types that no handler of a connection disturbs.
Steady ==
    /\ mode \in Modes /\ read \subseteq {"in", "out"}
    /\ wantOut \in BOOLEAN /\ draining \in BOOLEAN /\ hup \in BOOLEAN
    /\ late \in BOOLEAN /\ dropped \in BOOLEAN
    /\ made \in 0 .. MaxBytes /\ seen \in Nat /\ Len(sock) <= SockCap
    /\ hs \in 0 .. Flights /\ sent \in 0 .. MaxMsgs /\ Counted(inq, binds, sent)

\* The send in flight is of the front of what is unsent, and copied.
SoundSend(x, o) ==
    x # NoSend => /\ x.from = o.off /\ x.n \in 1 .. Rest(o) /\ ~x.zc
                  /\ x.done => x.res \in 0 .. x.n

Right ==
    /\ Steady
    /\ state \in {"TLS_HS", "ACTIVE", "CLOSING"}
    /\ InOrder(sock, seen)
    /\ Unsent(out, Taken, seen + Len(sock), made)
    /\ send \in Sends /\ SoundSend(send, out) /\ (send # NoSend => mode = "plain")
    /\ state \in {"ACTIVE", "CLOSING"} => hs = 0
    /\ state = "TLS_HS" => binds = 0 /\ ~draining

\* A connection that stays open is right if the buffer and the send are.
LEMMA StaysRight == Right => SocketInv
<1> SUFFICES ASSUME Right PROVE SocketInv
  OBVIOUS
<1> USE DEF Right
<1>1. /\ Cap \in Nat /\ MaxBytes \in Nat /\ Len(sock) \in Nat /\ seen \in Nat
      /\ MaxMsgs \in Nat /\ made \in 0 .. MaxBytes
  BY SocketAssumption, LenProperties DEF InOrder, Steady
<1>2. out \in Buffers /\ out.off \in 0 .. Cap /\ out.len \in 0 .. Cap
  BY DEF Unsent, Buffers
<1>3. Taken \in Nat /\ Taken <= out.len - out.off
  <2>1. CASE send = NoSend
    <3>1. Taken = 0
      BY <2>1, NoSendTyped DEF Taken
    <3> QED
      BY <1>1, <1>2, <3>1 DEF Unsent
  <2>2. CASE send # NoSend
    <3>1. send.n \in 1 .. out.len - out.off /\ (send.done => send.res \in 0 .. send.n)
      BY <2>2 DEF SoundSend, Rest
    <3> QED
      BY <1>1, <1>2, <3>1 DEF Taken
  <2> QED
    BY <2>1, <2>2
<1>4. out.off <= out.len /\ made = seen + Len(sock) + (out.len - out.off) - Taken
  BY <1>1, <1>2, <1>3 DEF Unsent
<1>5. seen + Len(sock) <= MaxBytes /\ seen \in 0 .. MaxBytes
  BY <1>1, <1>2, <1>3, <1>4
<1>6. inq \in 0 .. MaxMsgs /\ binds \in 0 .. MaxMsgs
  BY <1>1, CountedWithin DEF Steady
<1>7. TypeOK
  BY <1>2, <1>4, <1>5, <1>6 DEF TypeOK, Steady, Buffers, Sends
<1>8. send # NoSend => SendInFlight
  BY DEF SoundSend, SendInFlight
<1> QED
  BY <1>5, <1>7, <1>8 DEF SocketInv, Steady

LEMMA StaysRightNext == Right' => SocketInv'
BY StaysRight, PTL

\* And the other way round: what a handler finds.
LEMMA RightFound ==
    ASSUME SocketInv, state # "FREE"
    PROVE  Right
<1>1. Steady
  BY Known DEF SocketInv, TypeOK, Steady
<1>2. SoundSend(send, out) /\ send \in Sends /\ (send # NoSend => mode = "plain")
  BY DEF SocketInv, TypeOK, Sends, SendInFlight, SoundSend
<1> QED
  BY <1>1, <1>2 DEF SocketInv, TypeOK, Right

\* submit_send starts at the front of the buffer, unless a send is in flight.
LEMMA SubmittedSound ==
    ASSUME ~ZeroCopy, NEW x \in Sends, NEW o \in Buffers, SoundSend(x, o), o.off <= o.len
    PROVE  /\ Submitted(x, o) \in Sends /\ SoundSend(Submitted(x, o), o)
           /\ Submitted(x, o).done = x.done /\ Submitted(x, o).res = x.res
<1>1. CASE x # NoSend \/ Rest(o) = 0
  BY <1>1 DEF Submitted
<1>2. CASE x = NoSend /\ Rest(o) # 0
  <2>1. PICK off \in 0 .. Cap, len \in 0 .. Cap : o.off = off /\ o.len = len
    BY DEF Buffers
  <2>2. /\ Cap \in Nat /\ off \in Nat /\ len \in Nat /\ off <= len /\ len - off # 0
        /\ Rest(o) = len - off
    BY <1>2, <2>1, SocketAssumption DEF Rest
  <2>3. Submitted(x, o) = [from |-> off, n |-> len - off, zc |-> FALSE, res |-> 0, done |-> FALSE]
    BY <1>2, <2>1, <2>2 DEF Submitted, NoSend
  <2>4. len - off \in 1 .. Cap /\ off \in 0 .. Cap
    BY <2>2
  <2>5. Submitted(x, o) \in Sends
    BY <2>2, <2>3, <2>4 DEF Sends
  <2>6. /\ Submitted(x, o).from = off /\ Submitted(x, o).n = len - off
        /\ Submitted(x, o).zc = FALSE /\ Submitted(x, o).done = FALSE
        /\ Submitted(x, o).res = 0
    BY <2>3
  <2>7. x.done = FALSE /\ x.res = 0
    BY <1>2 DEF NoSend
  <2>8. SoundSend(Submitted(x, o), o)
    BY <2>1, <2>2, <2>4, <2>6 DEF SoundSend
  <2> QED
    BY <2>5, <2>6, <2>7, <2>8
<1> QED
  BY <1>1, <1>2

\* Room behind the unsent bytes does not concern the send in flight.
LEMMA QueuedSound ==
    ASSUME NEW x \in Sends, NEW o \in Buffers, NEW q \in Buffers, SoundSend(x, o),
           q.off = o.off \/ o.off = o.len, o.off <= o.len, Rest(q) >= Rest(o),
           Rest(q) \in Nat
    PROVE  SoundSend(x, q)
<1>1. PICK off \in Nat, len \in Nat : o.off = off /\ o.len = len /\ Rest(o) = len - off
  BY SocketAssumption DEF Buffers, Rest
<1>2. CASE x = NoSend
  BY <1>2 DEF SoundSend
<1>3. CASE x # NoSend
  <2>1. x.n \in 1 .. Rest(o)
    BY <1>3 DEF SoundSend
  <2>2. off # len
    BY <1>1, <2>1
  <2>3. x.n \in 1 .. Rest(q)
    BY <1>1, <2>1
  <2> QED
    BY <1>1, <1>3, <2>2, <2>3 DEF SoundSend
<1> QED
  BY <1>2, <1>3

-----------------------------------------------------------------------------
(* The steps.                                                               *)

\* Replies queued by a handler, and submitted in plain mode.
LEMMA ReplyQueued ==
    ASSUME SocketInv, ~ZeroCopy, state # "FREE", NEW n \in 0 .. MaxReply, MayMake(n), Fits(out, n),
           out' = Queued(out, n), made' = made + n,
           send' = IF mode = "plain" THEN Submitted(send, out') ELSE send,
           UNCHANGED <<mode, sock, hs, clientVars, read>>,
           state' \in {"ACTIVE", "CLOSING"}, hs = 0,
           Counted(inq', binds', sent),
           wantOut' \in BOOLEAN, draining' \in BOOLEAN, late' \in BOOLEAN,
           dropped' \in BOOLEAN
    PROVE  SocketInv'
<1> USE DEF clientVars, history
<1> DEFINE b == seen + Len(sock)
<1>1. Right /\ Taken \in Nat /\ b \in Nat /\ made \in 0 .. MaxBytes
      /\ (out.off = out.len => Taken = 0) /\ MaxBytes \in Nat /\ MaxReply \in Nat
  <2>1. /\ seen \in Nat /\ Len(sock) \in Nat /\ made \in 0 .. MaxBytes /\ MaxBytes \in Nat
        /\ MaxReply \in Nat /\ Taken \in 0 .. Rest(out) /\ Rest(out) = out.len - out.off
        /\ out.len \in Nat /\ out.off \in Nat /\ Rest(out) \in Nat
    BY Known
  <2>2. Right
    BY RightFound
  <2> QED
    BY <2>1, <2>2
<1>2. /\ Unsent(out', Taken, b, made') /\ (out'.off = out.off \/ out.off = out.len)
      /\ Rest(out') >= Rest(out)
  <2>1. Unsent(out, Taken, b, made)
    BY <1>1 DEF Right
  <2> HIDE DEF b
  <2> QED
    BY <1>1, <2>1, QueuedBehind
<1>3. /\ out \in Buffers /\ out' \in Buffers /\ out.off <= out.len /\ out'.off <= out'.len
      /\ Rest(out') \in Nat
  <2>1. out.off <= out.len /\ out \in Buffers /\ Cap \in Nat
    BY Known
  <2>2. out' \in Buffers /\ out'.off + Taken <= out'.len
    BY <1>2 DEF Unsent
  <2>3. out'.off \in 0 .. Cap /\ out'.len \in 0 .. Cap
    BY <2>2 DEF Buffers
  <2> QED
    BY <1>1, <2>1, <2>2, <2>3 DEF Rest
<1>4. send \in Sends /\ SoundSend(send, out')
  BY <1>1, <1>2, <1>3, QueuedSound DEF Right
<1>5. /\ send' \in Sends /\ SoundSend(send', out')
      /\ send'.done = send.done /\ send'.res = send.res
      /\ mode # "plain" => send' = send
  BY <1>3, <1>4, SubmittedSound
<1>6. Taken' = Taken
  BY <1>5 DEF Taken
<1>7. Steady'
  <2>1. made' \in 0 .. MaxBytes
    BY <1>1 DEF MayMake
  <2> QED
    BY <1>1, <2>1 DEF Right, Steady
<1>8. send' # NoSend => mode' = "plain"
  BY <1>1, <1>5 DEF Right
<1>9. Unsent(out', Taken', seen' + Len(sock'), made') /\ InOrder(sock', seen')
  BY <1>1, <1>2, <1>6 DEF Right
<1>10. Right'
  BY <1>5, <1>7, <1>8, <1>9 DEF Right
<1> QED
  BY <1>10, StaysRightNext

LEMMA RecvSafe ==
    ASSUME SocketInv, ~ZeroCopy,
           \/ \E k \in 1 .. MaxMsgs, n \in 0 .. MaxReply : Recv(k, n)
           \/ RecvEnd
           \/ \E n \in 0 .. MaxReply : BackendReply(n) \/ DrainReply(n) \/ DrainEnd(n)
           \/ PollFails \/ SslFails
    PROVE  SocketInv'
<1> USE DEF clientVars, history
<1>1. ASSUME NEW k \in 1 .. MaxMsgs, NEW n \in 0 .. MaxReply, Recv(k, n)
      PROVE  SocketInv'
  <2>1. inq' \in 0 .. inq /\ hs' \in 0 .. hs
    <3>1. inq \in Nat /\ hs \in Nat /\ MaxMsgs \in Nat
      BY Known
    <3> QED
      BY <1>1, <3>1 DEF Recv
  <2>2. CASE Close
    BY <1>1, <2>1, <2>2, CloseQuietly DEF Recv
  <2>3. CASE ~Close
    <3>1. /\ state = "ACTIVE" /\ mode = "plain" /\ Fits(out, n) /\ MayMake(n)
          /\ out' = Queued(out, n) /\ made' = made + n /\ send' = Submitted(send, out')
          /\ binds' \in binds .. binds + k /\ inq' = inq - k /\ k \in 1 .. inq
          /\ UNCHANGED <<state, read, wantOut, draining, history, mode, sock, hs, clientVars>>
      BY <1>1, <2>3 DEF Recv
    <3>2. /\ hs = 0 /\ draining \in BOOLEAN /\ wantOut \in BOOLEAN /\ late \in BOOLEAN
          /\ dropped \in BOOLEAN
      BY <3>1 DEF SocketInv, TypeOK
    <3>3. Counted(inq', binds', sent)
      <4>1. /\ inq \in Nat /\ binds \in Nat /\ sent \in Nat /\ k \in 0 .. inq
            /\ Counted(inq, binds, sent)
        BY <3>1, Known DEF SocketInv, TypeOK
      <4>2. binds' \in 0 .. binds + k
        BY <3>1, <4>1
      <4>3. Counted(inq - k, binds', sent)
        BY <4>1, <4>2, CountedRead
      <4> QED
        BY <3>1, <4>3
    <3> QED
      BY <3>1, <3>2, <3>3, ReplyQueued DEF history
  <2> QED
    BY <2>2, <2>3
<1>2. CASE RecvEnd
  BY <1>2, CloseStill DEF RecvEnd
<1>3. ASSUME NEW n \in 0 .. MaxReply, BackendReply(n) \/ DrainReply(n) \/ DrainEnd(n)
      PROVE  SocketInv'
  <2>1. /\ MayMake(n) /\ (binds > 0 \/ draining)
        /\ UNCHANGED <<mode, hs, inq, clientVars>> /\ sock' = sock
    BY <1>3 DEF BackendReply, DrainReply, DrainEnd
  <2>2. /\ binds \in Nat /\ inq \in Nat /\ hs \in Nat /\ sent \in Nat
        /\ draining \in BOOLEAN /\ wantOut \in BOOLEAN /\ late \in BOOLEAN
        /\ dropped \in BOOLEAN /\ Counted(inq, binds, sent)
    BY Known DEF SocketInv, TypeOK
  <2>3. state \in {"ACTIVE", "CLOSING"} /\ hs = 0
    <3>1. state \notin {"FREE", "TLS_HS"}
      <4>1. ~(binds = 0 /\ ~draining)
        BY <2>1, <2>2
      <4> QED
        BY <4>1 DEF SocketInv
    <3>2. state \in {"ACTIVE", "CLOSING"}
      BY <3>1 DEF SocketInv, TypeOK
    <3> QED
      BY <3>2 DEF SocketInv
  <2>4. CASE Close
    BY <2>1, <2>4, CloseStill
  <2>5. ASSUME QueuePlainSend(n), binds' \in 0 .. binds, draining' \in BOOLEAN,
               state' \in {state, "CLOSING"}
        PROVE  SocketInv'
    <3>1. /\ Fits(out, n) /\ out' = Queued(out, n) /\ made' = made + n
          /\ send' = IF mode = "plain" THEN Submitted(send, out') ELSE send
          /\ wantOut' \in BOOLEAN /\ late' \in BOOLEAN /\ UNCHANGED read
          /\ dropped' = dropped
      BY <2>2, <2>5 DEF QueuePlainSend
    <3>2. Counted(inq', binds', sent)
      <4>1. inq' = inq /\ inq \in 0 .. inq
        BY <2>1, <2>2
      <4> QED
        BY <2>2, <2>5, <4>1, CountedLess
    <3>3. dropped' \in BOOLEAN /\ state' \in {"ACTIVE", "CLOSING"} /\ state # "FREE"
      BY <2>2, <2>3, <2>5, <3>1
    <3> QED
      BY <2>1, <2>3, <2>5, <3>1, <3>2, <3>3, ReplyQueued
  <2>6. ASSUME UNCHANGED <<out, made, send, read, wantOut, late, state, binds, draining>>,
               dropped' = TRUE
        PROVE  SocketInv'
    BY <2>1, <2>6 DEF SocketInv, TypeOK, SendInFlight, Taken
  <2>7. CASE BackendReply(n)
    <3>1. CASE Close
      BY <2>4, <3>1
    <3>2. CASE ~Close
      <4>1. QueuePlainSend(n) /\ binds' \in {binds - 1, 0} /\ draining' = TRUE /\ state' = state
        BY <2>7, <3>2 DEF BackendReply
      <4>2. binds' \in 0 .. binds
        <5>1. draining = FALSE
          BY <2>7 DEF BackendReply
        <5>2. binds > 0
          BY <2>1, <5>1
        <5> QED
          BY <2>2, <4>1, <5>2
      <4> QED
        BY <2>5, <4>1, <4>2
    <3> QED
      BY <3>1, <3>2
  <2>8. CASE DrainReply(n)
    <3>1. UNCHANGED <<state, binds, draining>>
      BY <2>8 DEF DrainReply
    <3>2. CASE QueuePlainSend(n)
      <4>1. binds' \in 0 .. binds /\ draining' \in BOOLEAN
        BY <2>2, <3>1
      <4> QED
        BY <2>5, <3>1, <3>2, <4>1
    <3>3. CASE ~QueuePlainSend(n)
      BY <2>6, <2>8, <3>1, <3>3 DEF DrainReply
    <3> QED
      BY <3>2, <3>3
  <2>9. CASE DrainEnd(n)
    <3>1. CASE Close
      BY <2>4, <3>1
    <3>2. CASE ~Close
      <4>1. /\ QueuePlainSend(n) /\ draining' = FALSE /\ state' \in {state, "CLOSING"}
            /\ binds' = binds
        BY <2>9, <3>2 DEF DrainEnd
      <4>2. binds' \in 0 .. binds
        BY <2>2, <4>1
      <4> QED
        BY <2>5, <4>1, <4>2
    <3> QED
      BY <3>1, <3>2
  <2> QED
    BY <1>3, <2>7, <2>8, <2>9
<1>4. CASE PollFails
  BY <1>4, CloseStill DEF PollFails
<1>5. CASE SslFails
  BY <1>5, CloseStill DEF SslFails
<1> QED
  BY <1>1, <1>2, <1>3, <1>4, <1>5

LEMMA KernelSafe ==
    ASSUME SocketInv, ~ZeroCopy, NEW n \in 0 .. Cap, KernelSends(n)
    PROVE  SocketInv'
<1> USE DEF clientVars, history
<1>1. /\ send # NoSend /\ ~send.done /\ send' = [send EXCEPT !.res = n, !.done = TRUE]
      /\ UNCHANGED <<mode, state, out, read, wantOut, binds, draining, made, hs, inq,
                     clientVars, history>>
  BY DEF KernelSends
<1>2. /\ state # "FREE" /\ mode = "plain" /\ send.from = out.off
      /\ send.n \in 1 .. Rest(out) /\ ~send.zc
  BY <1>1 DEF SocketInv, SendInFlight
<1>3. /\ seen \in Nat /\ Len(sock) \in Nat /\ Cap \in Nat /\ n \in Nat
      /\ Rest(out) = out.len - out.off /\ out.len \in Nat /\ out.off \in Nat
      /\ Rest(out) \in Nat /\ Room = SockCap - Len(sock) /\ SockCap \in Nat
  BY Known
<1>4. Right /\ Taken = 0
  BY <1>1, <1>2, RightFound DEF Taken
<1>5. n \in 0 .. send.n
  BY <1>1, <1>2, <1>3 DEF KernelSends
<1>6. /\ send' \in Sends /\ send'.done /\ send'.res = n /\ send'.from = send.from
      /\ send'.n = send.n /\ send'.zc = send.zc
  BY <1>1, <1>4 DEF Right, Sends
<1>7. SoundSend(send', out') /\ Taken' = n
  BY <1>1, <1>2, <1>5, <1>6 DEF SoundSend, Taken, Rest
<1>8. PICK u : /\ sock' = sock \o u /\ InOrder(u, seen + Len(sock)) /\ Len(u) = n /\ n <= Room
  <2>1. CASE n = 0 /\ sock' = sock
    <3>1. sock \in Seq(Bytes) /\ Len(sock) <= SockCap
      BY DEF SocketInv, InOrder, TypeOK
    <3>2. /\ sock' = sock \o <<>> /\ InOrder(<<>>, seen + Len(sock)) /\ Len(<<>>) = 0
      BY <2>1, <3>1, ConcatEmptySeq, EmptySeq DEF InOrder
    <3> QED
      BY <1>3, <2>1, <3>1, <3>2
  <2>2. CASE /\ n <= Room
             /\ sock' = sock \o [i \in 1 .. n |-> IF send.zc THEN Lent(send.from + i - 1)
                                               ELSE Copied(out.cell[send.from + i - 1])]
    <3> DEFINE u == [i \in 1 .. n |-> IF send.zc THEN Lent(send.from + i - 1)
                                      ELSE Copied(out.cell[send.from + i - 1])]
               b == seen + Len(sock)
    <3>1. \A i \in 1 .. n : out.cell[out.off + i - 1] = b + i
      <4>1. \A i \in 1 .. (out.len - out.off) - 0 : out.cell[out.off + 0 + i - 1] = b + i
        BY <1>4 DEF Right, Unsent
      <4>2. n <= out.len - out.off
        BY <1>2, <1>3, <1>5
      <4> HIDE DEF b
      <4>3. ASSUME NEW i \in 1 .. n
            PROVE  /\ i \in 1 .. (out.len - out.off) - 0
                   /\ out.off + 0 + i - 1 = out.off + i - 1
        BY <1>3, <4>2
      <4> QED
        BY <4>1, <4>3
    <3>2. \A i \in 1 .. n : u[i] = Copied(b + i)
      BY <1>2, <3>1
    <3>3. DOMAIN u = 1 .. n /\ u = [i \in 1 .. n |-> u[i]] /\ b \in Nat
      BY <1>3
    <3>4. sock' = sock \o u
      BY <2>2
    <3> HIDE DEF u, b
    <3>5. InOrder(u, b) /\ Len(u) = n
      BY <1>3, <3>2, <3>3, OrderedCopy
    <3> QED
      BY <2>2, <3>4, <3>5 DEF b
  <2> QED
    BY <2>1, <2>2 DEF KernelSends
<1>9. InOrder(sock', seen) /\ Len(sock') = Len(sock) + n
  <2>1. InOrder(sock, seen) /\ InOrder(u, seen + Len(sock)) /\ seen \in Nat
    BY <1>3, <1>4, <1>8 DEF Right
  <2>2. InOrder(sock \o u, seen) /\ Len(sock \o u) = Len(sock) + Len(u)
    BY <2>1, OrderedBehind
  <2>3. sock' = sock \o u /\ Len(u) = n
    BY <1>8
  <2> QED
    BY <2>2, <2>3
<1>10. Steady'
  <2>1. Len(sock') <= SockCap
    BY <1>3, <1>8, <1>9
  <2> QED
    BY <1>1, <1>4, <2>1 DEF Right, Steady
<1>11. Unsent(out', Taken', seen' + Len(sock'), made')
  <2>1. /\ out \in Buffers /\ out.off + 0 <= out.len
        /\ made = (seen + Len(sock)) + (out.len - out.off) - 0
        /\ \A i \in 1 .. (out.len - out.off) - 0 :
              out.cell[out.off + 0 + i - 1] = (seen + Len(sock)) + i
    BY <1>4 DEF Right, Unsent
  <2>2. n <= out.len - out.off
    BY <1>2, <1>3, <1>5
  <2>3. ASSUME NEW i \in 1 .. (out.len - out.off) - n
        PROVE  out.cell[out.off + n + i - 1] = (seen + (Len(sock) + n)) + i
    <3>1. n + i \in 1 .. (out.len - out.off) - 0
      BY <1>3, <2>2
    <3>2. out.cell[out.off + 0 + (n + i) - 1] = (seen + Len(sock)) + (n + i)
      BY <2>1, <3>1
    <3>3. /\ out.off + 0 + (n + i) - 1 = out.off + n + i - 1
          /\ (seen + Len(sock)) + (n + i) = (seen + (Len(sock) + n)) + i
      BY <1>3
    <3> QED
      BY <3>2, <3>3
  <2>4. out.off + n <= out.len /\ made = (seen + (Len(sock) + n)) + (out.len - out.off) - n
    <3>1. out.off + n <= out.len
      BY <1>3, <2>2
    <3>2. made = (seen + Len(sock)) + (out.len - out.off) - 0
      BY <2>1
    <3>3. (seen + Len(sock)) + (out.len - out.off) - 0
              = (seen + (Len(sock) + n)) + (out.len - out.off) - n
      BY <1>3
    <3> QED
      BY <3>1, <3>2, <3>3
  <2> QED
    BY <1>1, <1>7, <1>9, <2>1, <2>3, <2>4 DEF Unsent
<1>12. Right'
  BY <1>1, <1>2, <1>4, <1>6, <1>7, <1>9, <1>10, <1>11 DEF Right
<1> QED
  BY <1>12, StaysRightNext

LEMMA SendDoneSafe ==
    ASSUME SocketInv, ~ZeroCopy, SendDone
    PROVE  SocketInv'
<1> USE DEF clientVars, history
<1>1. send.done /\ UNCHANGED <<mode, sock, hs, inq, clientVars>>
  BY DEF SendDone
<1>2. CASE Close
  BY <1>1, <1>2, CloseStill
<1>3. CASE ~Close
  <2>1. /\ out' = IF send.res < Rest(out) THEN [out EXCEPT !.off = @ + send.res]
                                          ELSE EmptyBuf(out.cell)
        /\ send' = Submitted(NoSend, out')
        /\ UNCHANGED <<state, read, wantOut, binds, draining, made, history>>
    BY <1>3 DEF SendDone
  <2>2. /\ send # NoSend /\ state # "FREE" /\ mode = "plain" /\ send.n \in 1 .. Rest(out)
        /\ send.res \in 0 .. send.n /\ Taken = send.res
    BY <1>1, NoSendTyped DEF SocketInv, SendInFlight, Taken
  <2>3. PICK r \in Nat : r = send.res /\ r <= Rest(out) /\ Rest(out) \in Nat
    <3>1. Rest(out) \in Nat
      BY Known
    <3>2. send.n \in Nat /\ send.res \in Nat /\ send.res <= Rest(out)
      BY <2>2, <3>1
    <3> QED
      BY <3>1, <3>2
  <2>4. Right
    BY <2>2, RightFound
  <2>5. PICK cells \in [0 .. Cap - 1 -> 0 .. MaxBytes], off \in 0 .. Cap, len \in 0 .. Cap :
          out = [cell |-> cells, off |-> off, len |-> len]
    BY <2>4 DEF Right, Unsent, Buffers
  <2>6. PICK b \in Nat : b = seen + Len(sock)
    BY Known
  <2>7. /\ Cap \in Nat /\ off \in Nat /\ len \in Nat /\ Rest(out) = len - off
        /\ off + r <= len /\ made = b + (len - off) - r
        /\ \A i \in 1 .. (len - off) - r : cells[off + r + i - 1] = b + i
    BY <2>2, <2>3, <2>4, <2>5, <2>6, SocketAssumption DEF Right, Unsent, Rest
  <2>8. Unsent(out', 0, b, made)
    <3>1. CASE r < Rest(out)
      <4>1. out' = [cell |-> cells, off |-> off + r, len |-> len]
        BY <2>1, <2>3, <2>5, <3>1
      <4>2. out' \in Buffers
        BY <2>7, <4>1 DEF Buffers
      <4>3. /\ (off + r) + 0 <= len /\ made = b + (len - (off + r)) - 0
            /\ \A i \in 1 .. (len - (off + r)) - 0 : cells[(off + r) + 0 + i - 1] = b + i
        BY <2>7
      <4>4. out'.cell = cells /\ out'.off = off + r /\ out'.len = len
        BY <4>1
      <4> QED
        BY <4>2, <4>3, <4>4 DEF Unsent
    <3>2. CASE ~(r < Rest(out))
      <4>1. out' = [cell |-> cells, off |-> 0, len |-> 0]
        BY <2>1, <2>3, <2>5, <3>2 DEF EmptyBuf
      <4>2. out' \in Buffers
        BY <2>7, <4>1 DEF Buffers
      <4>3. made = b
        BY <2>3, <2>7, <3>2
      <4> QED
        BY <4>1, <4>2, <4>3 DEF Unsent
    <3> QED
      BY <3>1, <3>2
  <2>9. out' \in Buffers /\ out'.off <= out'.len
    <3>1. out' \in Buffers /\ out'.off + 0 <= out'.len
      BY <2>8 DEF Unsent
    <3>2. out'.off \in 0 .. Cap
      BY <3>1 DEF Buffers
    <3> QED
      BY <2>7, <3>1, <3>2
  <2>10. /\ send' \in Sends /\ SoundSend(send', out') /\ send'.done = FALSE
    <3>1. SoundSend(NoSend, out')
      BY DEF SoundSend
    <3> QED
      BY <2>1, <2>9, <3>1, NoSendTyped, SubmittedSound
  <2>11. Taken' = 0
    BY <2>10 DEF Taken
  <2>12. Steady'
    BY <1>1, <2>1, <2>4 DEF Right, Steady
  <2>13. Right'
    BY <1>1, <2>1, <2>2, <2>4, <2>6, <2>8, <2>10, <2>11, <2>12 DEF Right
  <2> QED
    BY <2>13, StaysRightNext
<1> QED
  BY <1>2, <1>3

LEMMA ClientSafe ==
    ASSUME SocketInv, ClientSends \/ ClientReads \/ HangUp \/ UNCHANGED vars
    PROVE  SocketInv'
<1> USE DEF connVars, clientVars, history
<1>1. ASSUME UNCHANGED <<mode, connVars, sock, hs, seen, history>>, hup' \in BOOLEAN,
             inq' \in 0 .. MaxMsgs, sent' \in 0 .. MaxMsgs, Counted(inq', binds, sent')
      PROVE  SocketInv'
  <2>1. UNCHANGED <<mode, state, out, send, read, wantOut, binds, draining, made, sock, hs,
                    seen, late, dropped>>
    BY <1>1
  <2>2. TypeOK'
    BY <1>1, <2>1 DEF SocketInv, TypeOK
  <2>3. Taken' = Taken /\ (send' # NoSend => SendInFlight')
    BY <2>1 DEF SocketInv, SendInFlight, Taken, Rest
  <2>4. state' # "FREE" => Unsent(out', Taken', seen' + Len(sock'), made')
    BY <2>1, <2>3 DEF SocketInv
  <2> QED
    BY <1>1, <2>1, <2>2, <2>3, <2>4 DEF SocketInv
<1>2. CASE ClientSends
  <2>1. /\ inq \in Nat /\ binds \in Nat /\ sent \in 0 .. MaxMsgs /\ MaxMsgs \in Nat
        /\ inq + binds <= sent
    BY Known DEF SocketInv, TypeOK, Counted
  <2>2. inq' \in 0 .. MaxMsgs /\ sent' \in 0 .. MaxMsgs /\ Counted(inq', binds, sent')
    BY <1>2, <2>1 DEF ClientSends, Counted
  <2> QED
    BY <1>1, <1>2, <2>2 DEF ClientSends, SocketInv, TypeOK
<1>3. CASE ClientReads
  <2>1. /\ UNCHANGED <<mode, connVars, hs, inq, sent, hup, history>>
        /\ sock # <<>> /\ sock' = Tail(sock) /\ seen' = seen + 1
    BY <1>3 DEF ClientReads
  <2>2. /\ seen \in Nat /\ Len(sock) \in Nat /\ seen + Len(sock) <= MaxBytes
        /\ Len(sock) <= SockCap /\ SockCap \in Nat /\ MaxBytes \in Nat
    BY Known DEF SocketInv, TypeOK
  <2>3. /\ InOrder(sock', seen') /\ Len(sock') = Len(sock) - 1 /\ Len(sock) >= 1
    BY <2>1, <2>2, OrderedRest DEF SocketInv
  <2>4. /\ seen' + Len(sock') = seen + Len(sock) /\ seen' \in 0 .. MaxBytes
        /\ Len(sock') <= SockCap
    BY <2>1, <2>2, <2>3
  <2>5. UNCHANGED <<mode, state, out, send, read, wantOut, binds, draining, made, hs, inq,
                    sent, hup, late, dropped>>
    BY <2>1
  <2>6. TypeOK'
    BY <2>4, <2>5 DEF SocketInv, TypeOK
  <2>7. Taken' = Taken /\ (send' # NoSend => SendInFlight')
    BY <2>5 DEF SocketInv, SendInFlight, Taken, Rest
  <2>8. state' # "FREE" => Unsent(out', Taken', seen' + Len(sock'), made')
    BY <2>4, <2>5, <2>7 DEF SocketInv
  <2> QED
    BY <2>2, <2>3, <2>4, <2>5, <2>6, <2>7, <2>8 DEF SocketInv
<1>4. CASE HangUp
  BY <1>1, <1>4 DEF HangUp, SocketInv, TypeOK
<1>5. CASE UNCHANGED vars
  BY <1>1, <1>5 DEF vars, SocketInv, TypeOK
<1> QED
  BY <1>2, <1>3, <1>4, <1>5

LEMMA HandshakeSafe ==
    ASSUME SocketInv, Handshake
    PROVE  SocketInv'
<1> USE DEF clientVars, history
<1>1. /\ state = "TLS_HS"
      /\ UNCHANGED <<mode, state, out, send, binds, draining, made, sock, clientVars, history>>
      /\ inq' \in 0 .. inq /\ hs' \in 0 .. hs /\ wantOut' \in BOOLEAN
      /\ read' \subseteq {"in", "out"}
  <2>1. inq \in Nat /\ hs \in Nat
    BY Known
  <2> QED
    BY <2>1 DEF Handshake, Events
<1>2. Right
  BY <1>1, RightFound
<1>3. /\ inq \in Nat /\ binds \in Nat /\ sent \in Nat /\ binds \in 0 .. binds
      /\ Counted(inq, binds, sent)
  BY Known DEF SocketInv, TypeOK
<1>4. hs' \in 0 .. Flights
  BY <1>1, SocketAssumption DEF SocketInv, TypeOK
<1>5. Counted(inq', binds, sent)
  BY <1>1, <1>3, CountedLess
<1>6. Steady'
  BY <1>1, <1>2, <1>4, <1>5 DEF Right, Steady
<1>7. Taken' = Taken
  BY <1>1 DEF Taken
<1>8. Right'
  BY <1>1, <1>2, <1>6, <1>7 DEF Right
<1> QED
  BY <1>8, StaysRightNext

LEMMA DriveSafe ==
    ASSUME SocketInv, NEW n \in 0 .. MaxReply, Drive(n)
    PROVE  SocketInv'
<1> USE DEF clientVars, history
<1> DEFINE rev == Reported
           w1 == IF "out" \in rev THEN Written(out, Room)
                                  ELSE [out |-> out, bytes |-> <<>>]
           o2 == Queued(w1.out, n)
           w2 == Written(o2, Room - Len(w1.bytes))
           k == IF "in" \in rev THEN inq - hs ELSE 0
           idle == "out" \notin rev /\ Rest(o2) = 0
           staysOpen == \E st \in {IF state = "CLOSING" THEN state ELSE "ACTIVE"}
                                   \union (IF k > 0 THEN {"CLOSING"} ELSE {}) :
                           LET ended == st = "CLOSING" \/ (hup /\ "in" \in rev)
                           IN  IF ended /\ w2.out.len = 0
                                 THEN Close
                                 ELSE /\ state' = IF ended THEN "CLOSING" ELSE st
                                      /\ out' = w2.out
                                      /\ made' = made + n
                                      /\ binds' \in binds .. binds + k
                                      /\ wantOut' = (w2.out.len > 0 \/ (idle /\ wantOut))
                                      /\ read' = Events(n > 0 \/ wantOut')
                                      /\ late' = FALSE
                                      /\ UNCHANGED <<send, draining, dropped>>
<1>1. /\ mode = "tls" /\ rev # {} /\ MayMake(n)
      /\ state = "TLS_HS" => hs <= 1 /\ hs <= inq
      /\ inq' = inq - hs - k /\ hs' = 0
      /\ \/ ~Fits(w1.out, n) /\ sock' = sock \o w1.bytes /\ Close
         \/ Fits(w1.out, n) /\ sock' = sock \o w1.bytes \o w2.bytes /\ staysOpen
      /\ UNCHANGED <<mode, clientVars>>
  BY DEF Drive
<1>2. state # "FREE" /\ Right
  <2>1. read # {}
    BY <1>1 DEF Reported
  <2> QED
    BY <2>1, RightFound DEF SocketInv
<1>3. /\ send = NoSend /\ Taken = 0
  BY <1>1, <1>2, Known DEF Right
<1>4. PICK b \in Nat : b = seen + Len(sock)
  BY Known
<1>5. PICK room \in Nat : room = Room /\ Len(sock) + room = SockCap
  BY Known
<1>6. /\ inq' \in 0 .. inq /\ hs' \in 0 .. hs
  <2>1. inq \in Nat /\ hs \in Nat /\ hs <= inq
    <3>1. inq \in Nat /\ hs \in Nat
      BY Known
    <3>2. CASE state = "TLS_HS"
      BY <1>1, <3>1, <3>2
    <3>3. CASE state # "TLS_HS"
      <4>1. hs = 0
        BY <1>2, <3>3 DEF Right
      <4> QED
        BY <3>1, <4>1
    <3> QED
      BY <3>2, <3>3
  <2>2. k \in 0 .. inq - hs
    BY <2>1
  <2> HIDE DEF k
  <2> QED
    BY <1>1, <2>1, <2>2
<1>7. /\ seen \in Nat /\ Len(sock) \in Nat /\ InOrder(sock, seen) /\ MaxBytes \in Nat
      /\ MaxReply \in Nat /\ Cap \in Nat /\ made \in 0 .. MaxBytes /\ made + n <= MaxBytes
      /\ made + n \in 0 .. MaxBytes
  <2>1. /\ seen \in Nat /\ Len(sock) \in Nat /\ MaxBytes \in Nat /\ MaxReply \in Nat
        /\ Cap \in Nat /\ made \in 0 .. MaxBytes
    BY Known
  <2> QED
    BY <1>1, <1>2, <2>1 DEF Right, MayMake
<1>8. /\ InOrder(w1.bytes, b) /\ Len(w1.bytes) \in 0 .. room
      /\ Unsent(w1.out, 0, b + Len(w1.bytes), made)
  <2>1. Unsent(out, 0, b, made)
    BY <1>2, <1>3, <1>4 DEF Right
  <2>2. CASE "out" \in rev
    <3>1. w1 = Written(out, room)
      BY <1>5, <2>2
    <3> HIDE DEF w1
    <3> QED
      BY <2>1, <3>1, WrittenFront
  <2>3. CASE "out" \notin rev
    <3>1. w1.out = out /\ w1.bytes = <<>>
      BY <2>3
    <3>2. InOrder(<<>>, b) /\ Len(<<>>) = 0 /\ b + 0 = b
      BY EmptySeq DEF InOrder
    <3> HIDE DEF w1
    <3> QED
      BY <2>1, <3>1, <3>2
  <2> QED
    BY <2>2, <2>3
<1> HIDE DEF w1
<1>9. PICK l1 \in Nat : l1 = Len(w1.bytes) /\ l1 <= room
  BY <1>8
<1>10. InOrder(sock \o w1.bytes, seen) /\ Len(sock \o w1.bytes) = Len(sock) + l1
  BY <1>4, <1>7, <1>8, <1>9, OrderedBehind
<1>11. PICK off \in 0 .. Cap, len \in 0 .. Cap :
         w1.out.off = off /\ w1.out.len = len /\ off <= len /\ made = (b + l1) + (len - off)
  <2>1. w1.out \in Buffers /\ w1.out.off + 0 <= w1.out.len
        /\ made = (b + l1) + (w1.out.len - w1.out.off) - 0
    BY <1>8, <1>9 DEF Unsent
  <2>2. w1.out.off \in 0 .. Cap /\ w1.out.len \in 0 .. Cap
    BY <2>1 DEF Buffers
  <2>3. PICK o \in 0 .. Cap, l \in 0 .. Cap : o = w1.out.off /\ l = w1.out.len
    BY <2>2
  <2>4. Cap \in Nat /\ o + 0 <= l /\ made = (b + l1) + (l - o) - 0
    BY <1>7, <2>1, <2>3
  <2>5. o <= l /\ made = (b + l1) + (l - o)
    BY <1>9, <2>4
  <2> QED
    BY <2>3, <2>5
<1>11a. PICK a \in Nat, c \in Nat : a = Len(sock) /\ c = SockCap /\ a + room = c
  BY <1>5, Known
<1>11b. b + l1 <= MaxBytes
  <2>1. /\ b + l1 \in Nat /\ off \in Nat /\ len \in Nat /\ made \in Nat /\ MaxBytes \in Nat
        /\ made <= MaxBytes
    BY <1>7
  <2>2. off <= len /\ made = (b + l1) + (len - off)
    BY <1>11
  <2> QED
    BY <2>1, <2>2, SumWithin
<1>12. CASE ~Fits(w1.out, n) /\ sock' = sock \o w1.bytes /\ Close
  <2>a. Len(sock') = a + l1 /\ b = seen + a
    BY <1>4, <1>10, <1>12, <1>11a
  <2>1. Len(sock') <= SockCap /\ seen + Len(sock') <= MaxBytes
    <3>1. l1 + 0 <= room /\ 0 \in Nat
      BY <1>9
    <3>2. a + l1 <= c
      BY <1>11a, <3>1, WithinRoom
    <3>3. seen + (a + l1) = b + l1
      BY <1>7, <2>a
    <3> QED
      BY <1>11a, <1>11b, <2>a, <3>2, <3>3
  <2> QED
    BY <1>1, <1>6, <1>10, <1>12, <2>1, CloseSafe
<1>13. CASE Fits(w1.out, n) /\ sock' = sock \o w1.bytes \o w2.bytes /\ staysOpen
  <2>1. Unsent(o2, 0, b + l1, made + n)
    <3>1. b + l1 \in Nat /\ Unsent(w1.out, 0, b + l1, made)
      BY <1>8, <1>9
    <3> QED
      BY <1>1, <1>7, <1>13, <3>1, QueuedBehind
  <2> HIDE DEF o2
  <2>2. room - l1 \in Nat /\ w2 = Written(o2, room - l1)
    BY <1>5, <1>9
  <2> HIDE DEF w2
  <2>3. /\ InOrder(w2.bytes, b + l1) /\ Len(w2.bytes) \in 0 .. room - l1
        /\ Unsent(w2.out, 0, b + l1 + Len(w2.bytes), made + n)
    <3>1. b + l1 \in Nat
      BY <1>9
    <3> QED
      BY <2>1, <2>2, <3>1, WrittenFront
  <2>4. PICK l2 \in Nat : l2 = Len(w2.bytes) /\ l1 + l2 <= room
    BY <1>9, <2>2, <2>3
  <2>5. InOrder(sock', seen) /\ Len(sock') = Len(sock) + l1 + l2
    <3> DEFINE s1 == sock \o w1.bytes
    <3>1. InOrder(s1, seen) /\ Len(s1) = Len(sock) + l1 /\ sock' = s1 \o w2.bytes
      BY <1>10, <1>13
    <3>2. seen + Len(s1) = b + l1
      BY <1>4, <1>7, <3>1
    <3> HIDE DEF s1
    <3>3. seen \in Nat /\ InOrder(w2.bytes, seen + Len(s1))
      BY <1>7, <2>3, <3>2
    <3>4. InOrder(s1 \o w2.bytes, seen) /\ Len(s1 \o w2.bytes) = Len(s1) + Len(w2.bytes)
      <4> HIDE DEF w2
      <4>1. PICK u : u = w2.bytes
        OBVIOUS
      <4>2. InOrder(s1, seen) /\ InOrder(u, seen + Len(s1)) /\ seen \in Nat
        BY <3>1, <3>3, <4>1
      <4>3. InOrder(s1 \o u, seen) /\ Len(s1 \o u) = Len(s1) + Len(u)
        BY <4>2, OrderedBehind
      <4> QED
        BY <4>1, <4>3
    <3> QED
      BY <2>4, <3>1, <3>4
  <2>6. Len(sock') <= SockCap
    <3>1. a + l1 + l2 <= c
      BY <1>11a, <2>4, WithinRoom
    <3> QED
      BY <1>11a, <2>5, <3>1
  <2>7. Unsent(w2.out, 0, seen' + Len(sock'), made + n)
    <3>1. seen' + Len(sock') = b + l1 + Len(w2.bytes)
      <4>1. seen' = seen /\ Len(sock') = a + l1 + l2 /\ b = seen + a /\ Len(w2.bytes) = l2
        BY <1>1, <1>4, <2>4, <2>5, <1>11a DEF clientVars
      <4>2. seen + (a + l1 + l2) = seen + a + l1 + l2
        BY <1>7
      <4> QED
        BY <4>1, <4>2
    <3> QED
      BY <2>3, <3>1
  <2>8. CASE Close
    <3>1. seen + Len(sock') <= MaxBytes
      <4>1. /\ w2.out \in Buffers /\ w2.out.off + 0 <= w2.out.len
            /\ made + n = (seen + Len(sock')) + (w2.out.len - w2.out.off) - 0
        BY <1>1, <2>7 DEF Unsent
      <4>2. w2.out.off \in 0 .. Cap /\ w2.out.len \in 0 .. Cap
        BY <4>1 DEF Buffers
      <4>3. PICK o \in 0 .. Cap, l \in 0 .. Cap : o = w2.out.off /\ l = w2.out.len
        BY <4>2
      <4>4. PICK t \in Nat : t = seen + Len(sock')
        <5>1. Len(sock') = a + l1 + l2 /\ seen + (a + l1 + l2) \in Nat
          BY <1>7, <1>11a, <2>5
        <5> QED
          BY <5>1
      <4>5. o + 0 <= l /\ made + n = t + (l - o) - 0
        <5> HIDE DEF w2
        <5>1. w2.out.off = o /\ w2.out.len = l /\ seen + Len(sock') = t
          BY <4>3, <4>4
        <5> QED
          BY <4>1, <5>1
      <4>6. /\ o \in Nat /\ l \in Nat /\ o <= l /\ made + n = t + (l - o)
            /\ made + n \in Nat /\ made + n <= MaxBytes
        BY <1>7, <4>4, <4>5
      <4> QED
        BY <1>7, <4>4, <4>6, SumWithin
    <3> QED
      BY <1>1, <1>6, <2>5, <2>6, <2>8, <3>1, CloseSafe
  <2>9. CASE ~Close
    <3>1. PICK st \in {"ACTIVE", "CLOSING"} :
            /\ state' \in {"CLOSING", st}
            /\ out' = w2.out /\ made' = made + n /\ binds' \in binds .. binds + k
            /\ wantOut' = (w2.out.len > 0 \/ (idle /\ wantOut))
            /\ read' = Events(n > 0 \/ wantOut') /\ late' = FALSE /\ send' = send
            /\ UNCHANGED <<draining, dropped>>
      <4> HIDE DEF k, idle, rev
      <4> QED
        BY <1>13, <2>9
    <3>2. Taken' = 0
      BY <1>3, <3>1 DEF Taken
    <3>3. /\ draining \in BOOLEAN /\ dropped \in BOOLEAN /\ wantOut \in BOOLEAN
          /\ inq \in Nat /\ binds \in Nat /\ hs \in Nat /\ sent \in Nat /\ Flights \in Nat
          /\ Counted(inq, binds, sent)
      <4>1. inq \in Nat /\ binds \in Nat /\ hs \in Nat /\ MaxMsgs \in Nat /\ Flights \in Nat
        BY Known
      <4>2. /\ draining \in BOOLEAN /\ dropped \in BOOLEAN /\ wantOut \in BOOLEAN
            /\ sent \in 0 .. MaxMsgs /\ Counted(inq, binds, sent)
        BY DEF SocketInv, TypeOK
      <4> QED
        BY <4>1, <4>2
    <3>4. Steady'
      <4>1. wantOut' \in BOOLEAN /\ read' \subseteq {"in", "out"}
        BY <3>1 DEF Events
      <4>2. Counted(inq', binds', sent')
        <5>1. k \in 0 .. inq - hs /\ hs <= inq
          BY <1>1, <1>2, <3>3 DEF Right
        <5>2. sent' = sent /\ inq' = inq - hs - k
          BY <1>1 DEF clientVars
        <5> HIDE DEF k
        <5>3. hs + k \in 0 .. inq /\ binds' \in 0 .. binds + (hs + k)
          BY <3>1, <3>3, <5>1
        <5>4. Counted(inq - (hs + k), binds', sent)
          BY <3>3, <5>3, CountedRead
        <5>5. inq - (hs + k) = inq - hs - k
          BY <3>3, <5>1
        <5> QED
          BY <5>2, <5>4, <5>5
      <4>3. hs' \in 0 .. Flights
        BY <1>1, <3>3
      <4>4. draining' \in BOOLEAN /\ dropped' \in BOOLEAN
        BY <3>1, <3>3
      <4> HIDE DEF idle, rev, k, w2, o2, staysOpen
      <4> QED
        BY <1>1, <1>2, <1>7, <2>6, <3>1, <4>1, <4>2, <4>3, <4>4 DEF Right, Steady
    <3>5. SoundSend(send', out') /\ send' \in Sends /\ send' = NoSend
      BY <1>3, <3>1, NoSendTyped DEF SoundSend
    <3>6. state' \in {"ACTIVE", "CLOSING"} /\ hs' = 0
      BY <1>1, <3>1
    <3>7. Unsent(out', Taken', seen' + Len(sock'), made') /\ InOrder(sock', seen')
      BY <1>1, <2>5, <2>7, <3>1, <3>2
    <3>8. Right'
      BY <3>4, <3>5, <3>6, <3>7 DEF Right
    <3> QED
      BY <3>8, StaysRightNext
  <2> QED
    BY <2>8, <2>9
<1> QED
  BY <1>1, <1>12, <1>13

-----------------------------------------------------------------------------
(* The invariant holds.                                                     *)

LEMMA SocketStart == Init => SocketInv
<1> SUFFICES ASSUME Init PROVE SocketInv
  OBVIOUS
<1>1. out = [cell |-> [i \in 0 .. Cap - 1 |-> 0], off |-> 0, len |-> 0]
  BY DEF Init, EmptyBuf
<1>2. out \in Buffers /\ Unsent(out, 0, 0, 0)
  <2>1. out \in Buffers
    BY <1>1, SocketAssumption DEF Buffers
  <2> QED
    BY <1>1, <2>1 DEF Unsent
<1>3. InOrder(sock, 0) /\ Len(sock) = 0
  BY EmptySeq DEF Init, InOrder
<1>4. send = NoSend /\ send \in Sends /\ Taken = 0 /\ SoundSend(send, out)
  BY NoSendTyped DEF Init, Taken, SoundSend
<1>5. Steady
  BY <1>3, SocketAssumption DEF Init, Steady
<1>6. Right
  BY <1>2, <1>3, <1>4, <1>5 DEF Init, Right
<1> QED
  BY <1>6, StaysRight

LEMMA SocketStep ==
    ASSUME ~ZeroCopy
    PROVE  SocketInv /\ [Next]_vars => SocketInv'
<1> SUFFICES ASSUME SocketInv, [Next]_vars PROVE SocketInv'
  OBVIOUS
<1>1. CASE Next
  BY <1>1, RecvSafe, KernelSafe, SendDoneSafe, HandshakeSafe, DriveSafe, ClientSafe DEF Next
<1>2. CASE UNCHANGED vars
  BY <1>2, ClientSafe
<1> QED
  BY <1>1, <1>2

LEMMA SocketInvHolds == ~ZeroCopy => (Spec => []SocketInv)
<1> SUFFICES ASSUME ~ZeroCopy PROVE Spec => []SocketInv
  OBVIOUS
<1>1. Init => SocketInv
  BY SocketStart
<1>2. SocketInv /\ [Next]_vars => SocketInv'
  BY SocketStep
<1> QED
  BY <1>1, <1>2, PTL DEF Spec

\* Every byte made for the client is, once and in order, with the client, in the
\* kernel or in the send buffer, however sends are taken in parts and whatever is
\* queued behind them; unless the kernel borrows the buffer (SO_ZEROCOPY).
THEOREM BytesInOrder == ~ZeroCopy => (Spec => []QueuedOnceInOrder)
<1>1. SocketInv => QueuedOnceInOrder
  <2> SUFFICES ASSUME SocketInv PROVE QueuedOnceInOrder
    OBVIOUS
  <2>1. \A i \in 1 .. Len(sock) : Value(sock[i]) = seen + i
    BY DEF SocketInv, InOrder, Value, Copied
  <2>2. /\ seen \in Nat /\ Len(sock) \in Nat /\ Rest(out) = out.len - out.off
        /\ Rest(out) \in Nat /\ Taken \in Nat
    BY Known
  <2>3. CASE state # "FREE"
    BY <2>1, <2>2, <2>3 DEF SocketInv, Unsent, QueuedOnceInOrder
  <2> QED
    BY <2>1, <2>3 DEF QueuedOnceInOrder
<1> QED
  BY <1>1, SocketInvHolds, PTL

\* Offset, length and contents of the buffer, the send in flight and what the
\* socket holds stay within their bounds.
THEOREM SocketTypeCorrect == ~ZeroCopy => (Spec => []TypeOK)
<1>1. SocketInv => TypeOK
  BY DEF SocketInv
<1> QED
  BY <1>1, SocketInvHolds, PTL

===============================================================================
