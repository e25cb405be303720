------------------------- MODULE FairSchedulerProofs -------------------------
(****************************************************************************)
(* The safety of the backend sharing, for any number of clients, backends   *)
(* and groups, any queue length and any number of outages.                  *)
(****************************************************************************)
EXTENDS FairSchedulerRefinement, DataLemmas

-----------------------------------------------------------------------------
(* The ring as a sequence without repetitions.                              *)

\* Parking a client that is not in the ring adds it, once, at the tail.
LEMMA AppendToRing ==
    ASSUME NEW S, NEW s \in Seq(S), NEW c \in S,
           NoRepeat(s), ~Contains(s, c)
    PROVE  /\ Append(s, c) \in Seq(S)
           /\ NoRepeat(Append(s, c))
           /\ \A d : Contains(Append(s, c), d) <=> Contains(s, d) \/ d = c
<1>1. /\ Append(s, c) \in Seq(S)
      /\ Len(Append(s, c)) = Len(s) + 1
      /\ \A i \in 1 .. Len(s) : Append(s, c)[i] = s[i]
      /\ Append(s, c)[Len(s) + 1] = c
      /\ Len(s) \in Nat
  BY AppendProperties, LenProperties
<1>2. NoRepeat(Append(s, c))
  BY <1>1 DEF NoRepeat, Contains
<1>3. \A d : Contains(Append(s, c), d) <=> Contains(s, d) \/ d = c
  BY <1>1 DEF Contains
<1> QED
  BY <1>1, <1>2, <1>3

\* Popping the head removes that client and nobody else.
LEMMA PopFromRing ==
    ASSUME NEW S, NEW s \in Seq(S), s # <<>>, NoRepeat(s)
    PROVE  /\ Head(s) \in S
           /\ Contains(s, Head(s))
           /\ Tail(s) \in Seq(S)
           /\ NoRepeat(Tail(s))
           /\ \A d : Contains(Tail(s), d) <=> Contains(s, d) /\ d # Head(s)
<1>1. /\ Head(s) \in S
      /\ Head(s) = s[1]
      /\ Tail(s) \in Seq(S)
      /\ Len(Tail(s)) = Len(s) - 1
      /\ \A i \in 1 .. Len(Tail(s)) : Tail(s)[i] = s[i + 1]
      /\ Len(s) \in Nat \ {0}
  BY HeadTailProperties, EmptySeq
<1>2. NoRepeat(Tail(s))
  BY <1>1 DEF NoRepeat
<1>3. Contains(s, Head(s))
  BY <1>1 DEF Contains
<1>4. ASSUME NEW d
      PROVE  Contains(Tail(s), d) <=> Contains(s, d) /\ d # Head(s)
  <2>1. ASSUME Contains(Tail(s), d)
        PROVE  Contains(s, d) /\ d # Head(s)
    BY <1>1, <2>1 DEF Contains, NoRepeat
  <2>2. ASSUME Contains(s, d), d # Head(s)
        PROVE  Contains(Tail(s), d)
    <3>1. PICK i \in 1 .. Len(s) : s[i] = d
      BY <2>2 DEF Contains
    <3>2. i - 1 \in 1 .. Len(Tail(s)) /\ Tail(s)[i - 1] = d
      BY <1>1, <2>2, <3>1
    <3> QED
      BY <3>2 DEF Contains
  <2> QED
    BY <2>1, <2>2
<1> QED
  BY <1>1, <1>2, <1>3, <1>4

\* waiters_remove takes out the client it is asked for and nobody else.
LEMMA RemoveFromRing ==
    ASSUME NEW S, NEW s \in Seq(S), NEW c, NoRepeat(s)
    PROVE  /\ Without(s, c) \in Seq(S)
           /\ NoRepeat(Without(s, c))
           /\ \A d : Contains(Without(s, c), d) <=> Contains(s, d) /\ d # c
<1>1. CASE ~Contains(s, c)
  BY <1>1 DEF Without
<1>2. CASE Contains(s, c)
  <2> DEFINE k == CHOOSE i \in 1 .. Len(s) : s[i] = c
             r == RemoveAt(s, k)
  <2>1. k \in 1 .. Len(s) /\ s[k] = c /\ Len(s) \in Nat
    BY <1>2, LenProperties DEF Contains
  <2>2. /\ r \in Seq(S)
        /\ Len(r) = Len(s) - 1
        /\ \A i \in 1 .. Len(s) - 1 : r[i] = IF i < k THEN s[i] ELSE s[i + 1]
    <3> HIDE DEF k
    <3> QED
      BY <2>1, RemoveAtIs
  <2>3. Without(s, c) = r
    BY <1>2 DEF Without
  <2> HIDE DEF k, r
  <2>4. NoRepeat(r)
    BY <2>1, <2>2 DEF NoRepeat
  <2>5. ASSUME NEW d
        PROVE  Contains(r, d) <=> Contains(s, d) /\ d # c
    <3>1. ASSUME Contains(r, d)
          PROVE  Contains(s, d) /\ d # c
      BY <2>1, <2>2, <3>1 DEF Contains, NoRepeat
    <3>2. ASSUME Contains(s, d), d # c
          PROVE  Contains(r, d)
      <4>1. PICK i \in 1 .. Len(s) : s[i] = d
        BY <3>2 DEF Contains
      <4>2. CASE i < k
        BY <2>1, <2>2, <4>1, <4>2 DEF Contains
      <4>3. CASE i > k
        <5>1. i - 1 \in 1 .. Len(r) /\ r[i - 1] = d
          BY <2>1, <2>2, <4>1, <4>3
        <5> QED
          BY <5>1 DEF Contains
      <4> QED
        BY <2>1, <3>2, <4>1, <4>2, <4>3
    <3> QED
      BY <3>1, <3>2
  <2> QED
    BY <2>2, <2>3, <2>4, <2>5
<1> QED
  BY <1>1, <1>2

-----------------------------------------------------------------------------
(* Types.                                                                   *)

TypeInv == TypeOK /\ NoRepeat(ring)

\* Parking leaves everybody else where they are in the ring.
LEMMA ParkKeepsRing ==
    ASSUME TypeInv, NEW c \in Conns, Park(c)
    PROVE  /\ ring' \in Seq(Conns)
           /\ NoRepeat(ring')
           /\ \A d : Contains(ring', d) <=> Contains(ring, d) \/ d = c
           /\ beWait' \in [Conns -> {"IDLE", "SENDING", "READING", "WAITING_POOL"}]
<1>1. CASE Contains(ring, c)
  BY <1>1 DEF Park, TypeInv, TypeOK
<1>2. CASE ~Contains(ring, c)
  <2>1. ring' = Append(ring, c) /\ ring \in Seq(Conns) /\ NoRepeat(ring)
    BY <1>2 DEF Park, TypeInv, TypeOK
  <2>2. /\ Append(ring, c) \in Seq(Conns)
        /\ NoRepeat(Append(ring, c))
        /\ \A d : Contains(Append(ring, c), d) <=> Contains(ring, d) \/ d = c
    BY <1>2, <2>1, AppendToRing
  <2>3. beWait' \in [Conns -> {"IDLE", "SENDING", "READING", "WAITING_POOL"}]
    BY DEF Park, TypeInv, TypeOK
  <2> QED
    BY <2>1, <2>2, <2>3
<1> QED
  BY <1>1, <1>2

\* The pool operations keep the pool a pool.
LEMMA PoolTypes ==
    ASSUME TypeInv, NEW c \in Conns
    PROVE  /\ Rewarmed \in [Backends -> BOOLEAN]
           /\ \A b \in Backends : Take(c, b) =>
                  /\ alive' \in [Backends -> BOOLEAN]
                  /\ busy' \in [Backends -> BOOLEAN]
                  /\ be' \in [Conns -> Backends \union {None}]
                  /\ beWait' \in [Conns -> {"IDLE", "SENDING", "READING", "WAITING_POOL"}]
           /\ \A f \in BOOLEAN : Finish(c, f) =>
                  /\ alive' \in [Backends -> BOOLEAN]
                  /\ busy' \in [Backends -> BOOLEAN]
                  /\ be' \in [Conns -> Backends \union {None}]
           /\ SyncQuery(c) =>
                  /\ alive' \in [Backends -> BOOLEAN]
                  /\ busy' = busy
<1>1. Rewarmed \in [Backends -> BOOLEAN]
  BY DEF TypeInv, TypeOK, Rewarmed
<1>2. ASSUME NEW b \in Backends, Take(c, b)
      PROVE  /\ alive' \in [Backends -> BOOLEAN]
             /\ busy' \in [Backends -> BOOLEAN]
             /\ be' \in [Conns -> Backends \union {None}]
             /\ beWait' \in [Conns -> {"IDLE", "SENDING", "READING", "WAITING_POOL"}]
  BY <1>1, <1>2 DEF TypeInv, TypeOK, Take
<1>3. ASSUME NEW f \in BOOLEAN, Finish(c, f)
      PROVE  /\ alive' \in [Backends -> BOOLEAN]
             /\ busy' \in [Backends -> BOOLEAN]
             /\ be' \in [Conns -> Backends \union {None}]
  BY <1>3 DEF TypeInv, TypeOK, Finish
<1>4. ASSUME SyncQuery(c)
      PROVE  /\ alive' \in [Backends -> BOOLEAN]
             /\ busy' = busy
  BY <1>1, <1>4 DEF SyncQuery
<1> QED
  BY <1>1, <1>2, <1>3, <1>4

\* The request queues as arrays of FeQMax places.
QueuesOK(q) ==
    /\ q \in [Conns -> Seq(Requests)]
    /\ \A c \in Conns : Len(q[c]) <= FeQMax

\* A request is pushed where there is a place, popped, or all are dropped.
LEMMA QueueTypes ==
    ASSUME TypeInv, NEW c \in Conns
    PROVE  /\ QueuesOK([feq EXCEPT ![c] = <<>>])
           /\ feq[c] # <<>> => QueuesOK([feq EXCEPT ![c] = Tail(@)])
           /\ \A k \in Requests :
                  Len(feq[c]) < FeQMax => QueuesOK([feq EXCEPT ![c] = Append(@, k)])
<1>1. /\ feq \in [Conns -> Seq(Requests)]
      /\ \A d \in Conns : Len(feq[d]) <= FeQMax
      /\ feq[c] \in Seq(Requests) /\ Len(feq[c]) \in Nat
      /\ FeQMax \in Nat \ {0}
  BY ConstantAssumption, LenProperties DEF TypeInv, TypeOK
<1>2. QueuesOK([feq EXCEPT ![c] = <<>>])
  <2>1. <<>> \in Seq(Requests) /\ Len(<<>>) = 0
    BY EmptySeq
  <2> QED
    BY <1>1, <2>1 DEF QueuesOK
<1>3. ASSUME feq[c] # <<>>
      PROVE  QueuesOK([feq EXCEPT ![c] = Tail(@)])
  <2>1. Tail(feq[c]) \in Seq(Requests) /\ Len(Tail(feq[c])) = Len(feq[c]) - 1
    BY <1>1, <1>3, HeadTailProperties
  <2> QED
    BY <1>1, <2>1 DEF QueuesOK
<1>4. ASSUME NEW k \in Requests, Len(feq[c]) < FeQMax
      PROVE  QueuesOK([feq EXCEPT ![c] = Append(@, k)])
  <2>1. Append(feq[c], k) \in Seq(Requests) /\ Len(Append(feq[c], k)) = Len(feq[c]) + 1
    BY <1>1, AppendProperties
  <2> QED
    BY <1>1, <1>4, <2>1 DEF QueuesOK
<1> QED
  BY <1>2, <1>3, <1>4

LEMMA TypeStep == TypeInv /\ [Next]_vars => TypeInv'
<1> SUFFICES ASSUME TypeInv, [Next]_vars
             PROVE  TypeInv'
  OBVIOUS
<1> USE DEF TypeInv, TypeOK, connVars, poolVars, dbVars, ctlVars
<1>1. ASSUME NEW c \in Conns, NEW g \in Groups, Accept(c, g)
      PROVE  TypeInv'
  BY <1>1 DEF Accept, NoRepeat
<1>2. ASSUME NEW c \in Conns, NEW k \in Requests, FeEnqueue(c, k)
      PROVE  TypeInv'
  BY <1>2, QueueTypes DEF FeEnqueue, QueuesOK, NoRepeat
<1>3. ASSUME NEW c \in Conns, FeBindStart(c)
      PROVE  TypeInv'
  <2>1. PICK b \in Backends : Take(c, b)
    BY <1>3 DEF FeBindStart
  <2> QED
    BY <1>3, <2>1, PoolTypes DEF FeBindStart, NoRepeat
<1>4. ASSUME NEW c \in Conns, NEW k \in Requests, FeBindPark(c, k)
      PROVE  TypeInv'
  <2>1. alive' \in [Backends -> BOOLEAN] /\ UNCHANGED <<busy, be>>
    BY <1>4, PoolTypes DEF FeBindPark, NoneToTake
  <2>2. feq' \in [Conns -> Seq(Requests)] /\ \A d \in Conns : Len(feq'[d]) <= FeQMax
    BY <1>4, QueueTypes DEF FeBindPark, QueuesOK
  <2> QED
    BY <1>4, <2>1, <2>2, ParkKeepsRing DEF FeBindPark
<1>5. ASSUME NEW c \in Conns, FeQuery(c)
      PROVE  TypeInv'
  BY <1>5, PoolTypes DEF FeQuery, NoRepeat
<1>6. ASSUME NEW c \in Conns, CloseIdle(c)
      PROVE  TypeInv'
  <2>1. ring' \in Seq(Conns) /\ NoRepeat(ring')
    BY <1>6, RemoveFromRing DEF CloseIdle
  <2>2. feq' \in [Conns -> Seq(Requests)] /\ \A d \in Conns : Len(feq'[d]) <= FeQMax
    BY <1>6, QueueTypes DEF CloseIdle, QueuesOK
  <2> QED
    BY <1>6, <2>1, <2>2 DEF CloseIdle
<1>7. ASSUME NEW c \in Conns, CloseOwner(c)
      PROVE  TypeInv'
  BY <1>7, PoolTypes, LenProperties DEF CloseOwner, NoRepeat
<1>8. ASSUME NEW c \in Conns, BeSent(c)
      PROVE  TypeInv'
  BY <1>8 DEF BeSent, NoRepeat
<1>9. ASSUME NEW c \in Conns, NEW e \in BOOLEAN, BeComplete(c, e)
      PROVE  TypeInv'
  <2>1. feq' \in [Conns -> Seq(Requests)] /\ \A d \in Conns : Len(feq'[d]) <= FeQMax
    BY <1>9, QueueTypes DEF BeComplete, QueuesOK
  <2>2. Finish(c, FALSE) /\ Release(c) /\ pc = "loop"
    BY <1>9 DEF BeComplete
  <2> QED
    BY <2>1, <2>2, PoolTypes, LenProperties DEF Release, NoRepeat
<1>10. ASSUME NEW c \in Conns, BeFail(c)
       PROVE  TypeInv'
  <2>1. Finish(c, TRUE) /\ Release(c) /\ UNCHANGED feq /\ pc = "loop"
    BY <1>10 DEF BeFail
  <2> QED
    BY <2>1, PoolTypes, LenProperties DEF Release, NoRepeat
<1>11. CASE PassNext
  <2>1. ring # <<>> /\ left # 0
    BY <1>11 DEF PassNext, PassOver
  <2>2. Head(ring) \in Conns /\ ring' \in Seq(Conns) /\ NoRepeat(ring')
    BY <1>11, <2>1, PopFromRing DEF PassNext
  <2>3. left' \in Nat
    BY <1>11, <2>1 DEF PassNext
  <2> QED
    BY <1>11, <2>2, <2>3 DEF PassNext
<1>12. CASE PassResume
  BY <1>12 DEF PassResume, NoRepeat
<1>13. CASE CloseDone
  <2>1. feq' \in [Conns -> Seq(Requests)] /\ \A d \in Conns : Len(feq'[d]) <= FeQMax
    BY <1>13, QueueTypes DEF CloseDone, QueuesOK
  <2> QED
    BY <1>13, <2>1 DEF CloseDone, NoRepeat
<1>14. CASE DrainLocal
  <2>1. feq' \in [Conns -> Seq(Requests)] /\ \A d \in Conns : Len(feq'[d]) <= FeQMax
    BY <1>14, QueueTypes DEF DrainLocal, DrainHead, QueuesOK
  <2>2. alive' \in [Backends -> BOOLEAN] /\ busy' = busy
    BY <1>14, PoolTypes DEF DrainLocal, DrainHead
  <2> QED
    BY <1>14, <2>1, <2>2 DEF DrainLocal, NoRepeat
<1>15. CASE DrainEmpty
  BY <1>15 DEF DrainEmpty, DrainReturn, NoRepeat
<1>16. CASE DrainBindStart
  <2>1. cur \in Conns /\ self \in Conns
    BY <1>16 DEF DrainBindStart, DrainHead
  <2>2. PICK b \in Backends : Take(cur, b)
    BY <1>16 DEF DrainBindStart
  <2>3. feq' \in [Conns -> Seq(Requests)] /\ \A d \in Conns : Len(feq'[d]) <= FeQMax
    BY <1>16, <2>1, QueueTypes DEF DrainBindStart, DrainHead, QueuesOK
  <2> QED
    BY <1>16, <2>1, <2>2, <2>3, PoolTypes DEF DrainBindStart, DrainReturn, NoRepeat
<1>17. CASE DrainBindPark
  <2>1. cur \in Conns /\ self \in Conns /\ Park(cur)
    BY <1>17 DEF DrainBindPark, DrainHead
  <2>2. alive' \in [Backends -> BOOLEAN] /\ UNCHANGED <<busy, be>>
    BY <1>17, <2>1, PoolTypes DEF DrainBindPark, NoneToTake
  <2>3. TypeOK' /\ NoRepeat(ring')
    BY <1>17, <2>1, <2>2, ParkKeepsRing DEF DrainBindPark, DrainReturn
  <2> QED
    BY <2>3 DEF NoRepeat
<1>18. CASE Maintain
  <2>1. alive' \in [Backends -> BOOLEAN]
    BY <1>18 DEF Maintain, Rewarmed
  <2> QED
    BY <1>18, <2>1 DEF Maintain, NoRepeat
<1>19. CASE DbDown
  <2>1. outages' \in 0 .. MaxOutages /\ dbUp' = FALSE
    BY <1>19, ConstantAssumption DEF DbDown
  <2>2. UNCHANGED <<connVars, ring, poolVars, ctlVars>>
    BY <1>19 DEF DbDown
  <2> QED
    BY <2>1, <2>2 DEF NoRepeat
<1>20. CASE DbRecover
  BY <1>20 DEF DbRecover, NoRepeat
<1>21. CASE UNCHANGED vars
  BY <1>21 DEF vars, NoRepeat
<1> QED
  BY <1>1, <1>2, <1>3, <1>4, <1>5, <1>6, <1>7, <1>8, <1>9, <1>10, <1>11, <1>12,
     <1>13, <1>14, <1>15, <1>16, <1>17, <1>18, <1>19, <1>20, <1>21
     DEF Next, Client, Backend, Pass, Drain

LEMMA TypeInit == Init => TypeInv
<1>1. <<>> \in Seq(Requests) /\ <<>> \in Seq(Conns) /\ Len(<<>>) = 0
  BY EmptySeq
<1> QED
  BY <1>1, ConstantAssumption DEF Init, TypeInv, TypeOK, NoRepeat

\* Types: every client slot, backend slot and cursor of the loop keeps a value
\* the code gives a meaning to, whatever the number of clients and backends.
THEOREM TypeCorrect == Spec => []TypeOK
<1>1. TypeInv => TypeOK
  BY DEF TypeInv
<1> QED
  BY <1>1, TypeInit, TypeStep, PTL DEF Spec

-----------------------------------------------------------------------------
(* Safety of the hand-over of backends.                                     *)

\* checkout gives a backend that nobody holds to a client that holds none.
LEMMA TakeIsExclusive ==
    ASSUME TypeInv, ExclusiveBackend, NEW c \in Conns, NEW b \in Backends,
           be[c] = None, Take(c, b)
    PROVE  ExclusiveBackend'
<1>1. ~busy[b]
  BY DEF Take, Eligible, Idle
<1>2. /\ be' = [be EXCEPT ![c] = b]
      /\ busy' = [busy EXCEPT ![b] = TRUE]
  BY DEF Take
<1>3. \A d \in Conns : be[d] # b
  BY <1>1 DEF ExclusiveBackend
<1>4. ASSUME NEW a \in Backends
      PROVE  busy'[a] <=> \E d \in Conns : be'[d] = a
  <2>1. CASE a = b
    BY <1>2, <2>1 DEF TypeInv, TypeOK
  <2>2. CASE a # b
    <3>1. busy'[a] = busy[a]
      BY <1>2, <2>2 DEF TypeInv, TypeOK
    <3>2. \A d \in Conns : be'[d] = a <=> be[d] = a
      BY <1>2, <2>2, ConstantAssumption DEF TypeInv, TypeOK
    <3> QED
      BY <3>1, <3>2 DEF ExclusiveBackend
  <2> QED
    BY <2>1, <2>2
<1>5. ASSUME NEW d \in Conns, NEW e \in Conns, be'[d] = be'[e], be'[d] # None
      PROVE  d = e
  BY <1>2, <1>3, <1>5 DEF TypeInv, TypeOK, ExclusiveBackend
<1> QED
  BY <1>4, <1>5 DEF ExclusiveBackend

\* async_finish takes the backend back from its only holder.
LEMMA FinishIsExclusive ==
    ASSUME TypeInv, ExclusiveBackend, NEW c \in Conns, NEW f,
           be[c] # None, Finish(c, f)
    PROVE  ExclusiveBackend'
<1>1. /\ be' = [be EXCEPT ![c] = None]
      /\ busy' = [busy EXCEPT ![be[c]] = FALSE]
      /\ be[c] \in Backends
  BY DEF Finish, TypeInv, TypeOK
<1>2. ASSUME NEW a \in Backends
      PROVE  busy'[a] <=> \E d \in Conns : be'[d] = a
  <2>1. CASE a = be[c]
    <3>1. ~busy'[a]
      BY <1>1, <2>1 DEF TypeInv, TypeOK
    <3>2. \A d \in Conns : be'[d] # a
      BY <1>1, <2>1 DEF TypeInv, TypeOK, ExclusiveBackend
    <3> QED
      BY <3>1, <3>2
  <2>2. CASE a # be[c]
    <3>1. busy'[a] = busy[a]
      BY <1>1, <2>2 DEF TypeInv, TypeOK
    <3>2. \A d \in Conns : be'[d] = a <=> be[d] = a
      BY <1>1, <2>2, ConstantAssumption DEF TypeInv, TypeOK
    <3> QED
      BY <3>1, <3>2 DEF ExclusiveBackend
  <2> QED
    BY <2>1, <2>2
<1>3. ASSUME NEW d \in Conns, NEW e \in Conns, be'[d] = be'[e], be'[d] # None
      PROVE  d = e
  BY <1>1, <1>3 DEF TypeInv, TypeOK, ExclusiveBackend
<1> QED
  BY <1>2, <1>3 DEF ExclusiveBackend

LEMMA SchedulerInit == Init => SchedulerInv
<1> SUFFICES ASSUME Init
             PROVE  SchedulerInv
  OBVIOUS
<1> USE DEF Init
<1>1. ControlOK
  BY DEF ControlOK
<1>2. HoldingOK
  BY DEF HoldingOK, InFlight
<1>3. QueuedOK
  BY DEF QueuedOK
<1>4. ExclusiveBackend
  BY ConstantAssumption DEF ExclusiveBackend
<1>5. RingExact
  BY EmptySeq DEF RingExact, NoRepeat, Contains
<1> QED
  BY <1>1, <1>2, <1>3, <1>4, <1>5 DEF SchedulerInv

LEMMA SchedulerStep == TypeInv /\ SchedulerInv /\ [Next]_vars => SchedulerInv'
<1> SUFFICES ASSUME TypeInv, SchedulerInv, [Next]_vars
             PROVE  SchedulerInv'
  OBVIOUS
<1>a. TypeInv'
  BY TypeStep
<1> USE DEF TypeInv, TypeOK, SchedulerInv, connVars, poolVars, dbVars, ctlVars
<1>1. ASSUME NEW c \in Conns, NEW g \in Groups, Accept(c, g)
      PROVE  SchedulerInv'
  <2>1. ControlOK'
    BY <1>1 DEF Accept, ControlOK, InFlight
  <2>2. HoldingOK'
    BY <1>1 DEF Accept, HoldingOK, InFlight
  <2>3. QueuedOK'
    BY <1>1 DEF Accept, QueuedOK
  <2>4. ExclusiveBackend'
    BY <1>1 DEF Accept, ExclusiveBackend
  <2>5. RingExact'
    BY <1>1 DEF Accept, RingExact, Contains, NoRepeat
  <2> QED
    BY <2>1, <2>2, <2>3, <2>4, <2>5
<1>2. ASSUME NEW c \in Conns, NEW k \in Requests, FeEnqueue(c, k)
      PROVE  SchedulerInv'
  <2>1. ControlOK'
    BY <1>2 DEF FeEnqueue, ControlOK, InFlight
  <2>2. HoldingOK'
    BY <1>2 DEF FeEnqueue, HoldingOK, InFlight
  <2>3. QueuedOK'
    <3>. feq[c] \in Seq(Requests)
      OBVIOUS
    <3>1. Head(Append(feq[c], k)) = IF feq[c] = <<>> THEN k ELSE Head(feq[c])
      BY HeadTailAppend
    <3>2. Append(feq[c], k) # <<>>
      BY AppendProperties
    <3> QED
      BY <1>2, <3>1, <3>2 DEF FeEnqueue, QueuedOK
  <2>4. ExclusiveBackend'
    BY <1>2 DEF FeEnqueue, ExclusiveBackend
  <2>5. RingExact'
    BY <1>2 DEF FeEnqueue, RingExact, Contains, NoRepeat
  <2> QED
    BY <2>1, <2>2, <2>3, <2>4, <2>5
<1>3. ASSUME NEW c \in Conns, FeBindStart(c)
      PROVE  SchedulerInv'
  <2>b. PICK b \in Backends : Take(c, b)
    BY <1>3 DEF FeBindStart
  <2>c. be[c] = None
    BY <1>3 DEF FeBindStart, HoldingOK, InFlight
  <2>d. b # None
    BY ConstantAssumption
  <2>1. ControlOK'
    BY <1>3, <2>b, <2>d DEF FeBindStart, Take, ControlOK, InFlight
  <2>2. HoldingOK'
    BY <1>3, <2>b, <2>d DEF FeBindStart, Take, HoldingOK, InFlight
  <2>3. QueuedOK'
    BY <1>3, <2>b, <2>d DEF FeBindStart, Take, QueuedOK
  <2>4. ExclusiveBackend'
    BY <2>b, <2>c, TakeIsExclusive
  <2>5. RingExact'
    BY <1>3, <2>b, <2>d DEF FeBindStart, Take, RingExact, Contains, NoRepeat
  <2> QED
    BY <2>1, <2>2, <2>3, <2>4, <2>5
<1>4. ASSUME NEW c \in Conns, NEW k \in Requests, FeBindPark(c, k)
      PROVE  SchedulerInv'
  <2>b. UNCHANGED <<busy, be>>
    BY <1>4 DEF FeBindPark, NoneToTake
  <2>1. ControlOK'
    BY <1>4, <2>b DEF FeBindPark, Park, ControlOK, InFlight
  <2>2. HoldingOK'
    BY <1>4, <2>b DEF FeBindPark, Park, HoldingOK, InFlight
  <2>3. QueuedOK'
    <3>1. feq[c] = <<>>
      BY <1>4 DEF FeBindPark, QueuedOK
    <3>2. Head(Append(feq[c], k)) = k /\ Append(feq[c], k) # <<>>
      BY <3>1, HeadTailAppend, AppendProperties
    <3> QED
      BY <1>4, <3>2 DEF FeBindPark, Park, QueuedOK
  <2>4. ExclusiveBackend'
    BY <1>4, <2>b DEF FeBindPark, Park, ExclusiveBackend
  <2>5. RingExact'
    BY <1>a, <1>4, ParkKeepsRing DEF FeBindPark, Park, RingExact
  <2> QED
    BY <2>1, <2>2, <2>3, <2>4, <2>5
<1>5. ASSUME NEW c \in Conns, FeQuery(c)
      PROVE  SchedulerInv'
  <2>1. ControlOK'
    BY <1>5 DEF FeQuery, SyncQuery, ControlOK, InFlight
  <2>2. HoldingOK'
    BY <1>5 DEF FeQuery, SyncQuery, HoldingOK, InFlight
  <2>3. QueuedOK'
    BY <1>5 DEF FeQuery, SyncQuery, QueuedOK
  <2>4. ExclusiveBackend'
    BY <1>5 DEF FeQuery, SyncQuery, ExclusiveBackend
  <2>5. RingExact'
    BY <1>5 DEF FeQuery, SyncQuery, RingExact, Contains, NoRepeat
  <2> QED
    BY <2>1, <2>2, <2>3, <2>4, <2>5
<1>6. ASSUME NEW c \in Conns, CloseIdle(c)
      PROVE  SchedulerInv'
  <2>1. ControlOK'
    BY <1>6 DEF CloseIdle, ControlOK, InFlight
  <2>2. HoldingOK'
    BY <1>6 DEF CloseIdle, HoldingOK, InFlight
  <2>3. QueuedOK'
    BY <1>6 DEF CloseIdle, QueuedOK
  <2>4. ExclusiveBackend'
    BY <1>6 DEF CloseIdle, ExclusiveBackend
  <2>5. RingExact'
    <3>1. \A d : Contains(ring', d) <=> Contains(ring, d) /\ d # c
      BY <1>6, RemoveFromRing DEF CloseIdle
    <3> QED
      BY <1>a, <1>6, <3>1 DEF CloseIdle, RingExact
  <2> QED
    BY <2>1, <2>2, <2>3, <2>4, <2>5
<1>7. ASSUME NEW c \in Conns, CloseOwner(c)
      PROVE  SchedulerInv'
  <2>1. ControlOK'
    BY <1>7 DEF CloseOwner, Finish, ControlOK, HoldingOK, InFlight
  <2>2. HoldingOK'
    BY <1>7 DEF CloseOwner, Finish, HoldingOK, InFlight
  <2>3. QueuedOK'
    BY <1>7 DEF CloseOwner, Finish, QueuedOK
  <2>4. ExclusiveBackend'
    BY <1>7, FinishIsExclusive DEF CloseOwner
  <2>5. RingExact'
    BY <1>7 DEF CloseOwner, Finish, RingExact, Contains, NoRepeat
  <2> QED
    BY <2>1, <2>2, <2>3, <2>4, <2>5
<1>8. ASSUME NEW c \in Conns, BeSent(c)
      PROVE  SchedulerInv'
  <2>1. ControlOK'
    BY <1>8 DEF BeSent, ControlOK, InFlight
  <2>2. HoldingOK'
    BY <1>8 DEF BeSent, HoldingOK, InFlight
  <2>3. QueuedOK'
    BY <1>8 DEF BeSent, QueuedOK
  <2>4. ExclusiveBackend'
    BY <1>8 DEF BeSent, ExclusiveBackend
  <2>5. RingExact'
    BY <1>8 DEF BeSent, RingExact, Contains, NoRepeat
  <2> QED
    BY <2>1, <2>2, <2>3, <2>4, <2>5
<1>9. ASSUME NEW c \in Conns, NEW e \in BOOLEAN, BeComplete(c, e)
      PROVE  SchedulerInv'
  <2>b. Finish(c, FALSE)
    BY <1>9 DEF BeComplete
  <2>c. be[c] # None
    BY <1>9 DEF BeComplete, HoldingOK, InFlight
  <2>1. ControlOK'
    BY <1>9, <2>c DEF BeComplete, Finish, Release, ControlOK, InFlight
  <2>2. HoldingOK'
    BY <1>9, <2>c DEF BeComplete, Finish, Release, HoldingOK, InFlight
  <2>3. QueuedOK'
    BY <1>9, <2>c DEF BeComplete, Finish, Release, QueuedOK
  <2>4. ExclusiveBackend'
    BY <2>b, <2>c, FinishIsExclusive
  <2>5. RingExact'
    BY <1>9, <2>c DEF BeComplete, Finish, Release, RingExact, Contains, NoRepeat
  <2> QED
    BY <2>1, <2>2, <2>3, <2>4, <2>5
<1>10. ASSUME NEW c \in Conns, BeFail(c)
       PROVE  SchedulerInv'
  <2>b. Finish(c, TRUE)
    BY <1>10 DEF BeFail
  <2>c. be[c] # None
    BY <1>10 DEF BeFail, HoldingOK, InFlight
  <2>1. ControlOK'
    BY <1>10, <2>c DEF BeFail, Finish, Release, ControlOK, InFlight
  <2>2. HoldingOK'
    BY <1>10, <2>c DEF BeFail, Finish, Release, HoldingOK, InFlight
  <2>3. QueuedOK'
    BY <1>10, <2>c DEF BeFail, Finish, Release, QueuedOK
  <2>4. ExclusiveBackend'
    BY <2>b, <2>c, FinishIsExclusive
  <2>5. RingExact'
    BY <1>10, <2>c DEF BeFail, Finish, Release, RingExact, Contains, NoRepeat
  <2> QED
    BY <2>1, <2>2, <2>3, <2>4, <2>5
<1>11. CASE PassNext
  <2>b. /\ Head(ring) \in Conns
        /\ Contains(ring, Head(ring))
        /\ \A d : Contains(Tail(ring), d) <=> Contains(ring, d) /\ d # Head(ring)
    BY <1>11, PopFromRing DEF PassNext, PassOver
  <2>c. beWait[Head(ring)] = "WAITING_POOL" /\ Head(ring) # self
    BY <1>11, <2>b DEF PassNext, RingExact, ControlOK, InFlight
  <2>d. /\ pc = "pass" /\ pc' = "drain" /\ cur' = Head(ring)
        /\ ring' = Tail(ring)
        /\ beWait' = [beWait EXCEPT ![Head(ring)] = "IDLE"]
        /\ UNCHANGED <<be, feq, busy, self, then>>
    BY <1>11, <2>b, <2>c DEF PassNext, QueuedOK
  <2>1. ControlOK'
    BY <2>b, <2>c, <2>d DEF ControlOK, QueuedOK, InFlight
  <2>2. HoldingOK'
    BY <2>b, <2>c, <2>d DEF HoldingOK, InFlight
  <2>3. QueuedOK'
    BY <2>b, <2>c, <2>d DEF QueuedOK
  <2>4. ExclusiveBackend'
    BY <2>d DEF ExclusiveBackend
  <2>5. RingExact'
    BY <1>a, <2>b, <2>c, <2>d DEF RingExact
  <2> QED
    BY <2>1, <2>2, <2>3, <2>4, <2>5
<1>12. CASE PassResume
  <2>1. ControlOK'
    BY <1>12 DEF PassResume, ControlOK, InFlight
  <2>2. HoldingOK'
    BY <1>12 DEF PassResume, HoldingOK, InFlight
  <2>3. QueuedOK'
    BY <1>12 DEF PassResume, QueuedOK
  <2>4. ExclusiveBackend'
    BY <1>12 DEF PassResume, ExclusiveBackend
  <2>5. RingExact'
    BY <1>12 DEF PassResume, RingExact, Contains, NoRepeat
  <2> QED
    BY <2>1, <2>2, <2>3, <2>4, <2>5
<1>13. CASE CloseDone
  <2>1. ControlOK'
    BY <1>13 DEF CloseDone, ControlOK, InFlight
  <2>2. HoldingOK'
    BY <1>13 DEF CloseDone, HoldingOK, InFlight
  <2>3. QueuedOK'
    BY <1>13 DEF CloseDone, QueuedOK
  <2>4. ExclusiveBackend'
    BY <1>13 DEF CloseDone, ExclusiveBackend
  <2>5. RingExact'
    BY <1>13 DEF CloseDone, RingExact, Contains, NoRepeat, ControlOK, InFlight
  <2> QED
    BY <2>1, <2>2, <2>3, <2>4, <2>5
<1>14. CASE DrainLocal
  <2>b. cur = self /\ busy' = busy
    BY <1>14 DEF DrainLocal, DrainHead, ControlOK, SyncQuery
  <2>1. ControlOK'
    BY <1>14, <2>b DEF DrainLocal, DrainHead, ControlOK, InFlight
  <2>2. HoldingOK'
    BY <1>14, <2>b DEF DrainLocal, DrainHead, HoldingOK, InFlight
  <2>3. QueuedOK'
    BY <1>14, <2>b DEF DrainLocal, DrainHead, QueuedOK
  <2>4. ExclusiveBackend'
    BY <1>14, <2>b DEF DrainLocal, DrainHead, ExclusiveBackend
  <2>5. RingExact'
    BY <1>14, <2>b DEF DrainLocal, DrainHead, RingExact, Contains, NoRepeat
  <2> QED
    BY <2>1, <2>2, <2>3, <2>4, <2>5
<1>15. CASE DrainEmpty
  <2>b. cur = self /\ then = "resume"
    BY <1>15 DEF DrainEmpty, ControlOK, InFlight
  <2>1. ControlOK'
    BY <1>15, <2>b DEF DrainEmpty, DrainReturn, ControlOK, InFlight
  <2>2. HoldingOK'
    BY <1>15, <2>b DEF DrainEmpty, DrainReturn, HoldingOK, InFlight
  <2>3. QueuedOK'
    BY <1>15, <2>b DEF DrainEmpty, DrainReturn, QueuedOK
  <2>4. ExclusiveBackend'
    BY <1>15, <2>b DEF DrainEmpty, DrainReturn, ExclusiveBackend
  <2>5. RingExact'
    BY <1>15, <2>b DEF DrainEmpty, DrainReturn, RingExact, Contains, NoRepeat
  <2> QED
    BY <2>1, <2>2, <2>3, <2>4, <2>5
<1>16. CASE DrainBindStart
  <2>b. PICK b \in Backends : Take(cur, b)
    BY <1>16 DEF DrainBindStart
  <2>c. be[cur] = None /\ cur \in Conns
    BY <1>16 DEF DrainBindStart, DrainHead, ControlOK, HoldingOK, InFlight
  <2>d. b # None
    BY ConstantAssumption
  <2>1. ControlOK'
    BY <1>16, <2>b, <2>d DEF DrainBindStart, DrainHead, DrainReturn, Take, ControlOK, InFlight
  <2>2. HoldingOK'
    BY <1>16, <2>b, <2>d DEF DrainBindStart, DrainHead, DrainReturn, Take, HoldingOK, InFlight
  <2>3. QueuedOK'
    BY <1>16, <2>b, <2>d DEF DrainBindStart, DrainHead, DrainReturn, Take, QueuedOK
  <2>4. ExclusiveBackend'
    BY <2>b, <2>c, TakeIsExclusive
  <2>5. RingExact'
    BY <1>16, <2>b DEF DrainBindStart, DrainHead, Take, ControlOK, RingExact, Contains, NoRepeat
  <2> QED
    BY <2>1, <2>2, <2>3, <2>4, <2>5
<1>17. CASE DrainBindPark
  <2>b. UNCHANGED <<busy, be>>
    BY <1>17 DEF DrainBindPark, NoneToTake
  <2>1. ControlOK'
    BY <1>17, <2>b DEF DrainBindPark, DrainHead, DrainReturn, Park, ControlOK, InFlight
  <2>2. HoldingOK'
    BY <1>17, <2>b DEF DrainBindPark, DrainHead, DrainReturn, Park, ControlOK, HoldingOK, InFlight
  <2>3. QueuedOK'
    BY <1>17, <2>b DEF DrainBindPark, DrainHead, DrainReturn, Park, QueuedOK
  <2>4. ExclusiveBackend'
    BY <1>17, <2>b DEF DrainBindPark, DrainHead, DrainReturn, Park, ExclusiveBackend
  <2>5. RingExact'
    <3>1. cur \in Conns /\ Park(cur)
      BY <1>17 DEF DrainBindPark, DrainHead
    <3> QED
      BY <1>a, <1>17, <3>1, ParkKeepsRing DEF Park, RingExact
  <2> QED
    BY <2>1, <2>2, <2>3, <2>4, <2>5
<1>18. CASE Maintain
  <2>1. ControlOK'
    BY <1>18 DEF Maintain, ControlOK, InFlight
  <2>2. HoldingOK'
    BY <1>18 DEF Maintain, HoldingOK, InFlight
  <2>3. QueuedOK'
    BY <1>18 DEF Maintain, QueuedOK
  <2>4. ExclusiveBackend'
    BY <1>18 DEF Maintain, ExclusiveBackend
  <2>5. RingExact'
    BY <1>18 DEF Maintain, RingExact, Contains, NoRepeat
  <2> QED
    BY <2>1, <2>2, <2>3, <2>4, <2>5
<1>19. CASE DbDown
  <2>1. ControlOK'
    BY <1>19 DEF DbDown, ControlOK, InFlight
  <2>2. HoldingOK'
    BY <1>19 DEF DbDown, HoldingOK, InFlight
  <2>3. QueuedOK'
    BY <1>19 DEF DbDown, QueuedOK
  <2>4. ExclusiveBackend'
    BY <1>19 DEF DbDown, ExclusiveBackend
  <2>5. RingExact'
    BY <1>19 DEF DbDown, RingExact, Contains, NoRepeat
  <2> QED
    BY <2>1, <2>2, <2>3, <2>4, <2>5
<1>20. CASE DbRecover
  <2>1. ControlOK'
    BY <1>20 DEF DbRecover, ControlOK, InFlight
  <2>2. HoldingOK'
    BY <1>20 DEF DbRecover, HoldingOK, InFlight
  <2>3. QueuedOK'
    BY <1>20 DEF DbRecover, QueuedOK
  <2>4. ExclusiveBackend'
    BY <1>20 DEF DbRecover, ExclusiveBackend
  <2>5. RingExact'
    BY <1>20 DEF DbRecover, RingExact, Contains, NoRepeat
  <2> QED
    BY <2>1, <2>2, <2>3, <2>4, <2>5
<1>21. CASE UNCHANGED vars
  <2>1. ControlOK'
    BY <1>21 DEF vars, ControlOK, InFlight
  <2>2. HoldingOK'
    BY <1>21 DEF vars, HoldingOK, InFlight
  <2>3. QueuedOK'
    BY <1>21 DEF vars, QueuedOK
  <2>4. ExclusiveBackend'
    BY <1>21 DEF vars, ExclusiveBackend
  <2>5. RingExact'
    BY <1>21 DEF vars, RingExact, Contains, NoRepeat
  <2> QED
    BY <2>1, <2>2, <2>3, <2>4, <2>5
<1> QED
  BY <1>1, <1>2, <1>3, <1>4, <1>5, <1>6, <1>7, <1>8, <1>9, <1>10, <1>11, <1>12,
     <1>13, <1>14, <1>15, <1>16, <1>17, <1>18, <1>19, <1>20, <1>21
     DEF Next, Client, Backend, Pass, Drain

LEMMA SafeAlways == Spec => [](TypeInv /\ SchedulerInv)
<1>1. Init => TypeInv /\ SchedulerInv
  BY TypeInit, SchedulerInit
<1>2. TypeInv /\ SchedulerInv /\ [Next]_vars => (TypeInv /\ SchedulerInv)'
  BY TypeStep, SchedulerStep
<1> QED
  BY <1>1, <1>2, PTL DEF Spec

\* At every step of every handler each client is in one place only: holding a
\* backend, in the ring, idle, or in the hands of the handler.
THEOREM HandOverSafe == Spec => []SchedulerInv
<1> QED
  BY SafeAlways, PTL

\* No two clients ever hold the same pooled Postgres connection, and a checked
\* out connection always has a holder (no leak).
THEOREM BackendsExclusive == Spec => []ExclusiveBackend
<1>1. SchedulerInv => ExclusiveBackend
  BY DEF SchedulerInv
<1> QED
  BY <1>1, SafeAlways, PTL

\* A client is parked (BE_WAITING_POOL) if and only if it is in the ring, once.
THEOREM RingIsExact == Spec => []RingExact
<1>1. SchedulerInv => RingExact
  BY DEF SchedulerInv
<1> QED
  BY <1>1, SafeAlways, PTL

\* When the loop is between two events, a client's queue is empty unless the
\* client has a pipeline in flight or is parked on the Bind at the queue's head.
THEOREM NoRequestStranded == Spec => []NoStrandedRequest
<1>1. SchedulerInv => NoStrandedRequest
  BY DEF SchedulerInv, QueuedOK, NoStrandedRequest
<1> QED
  BY <1>1, SafeAlways, PTL

-----------------------------------------------------------------------------
(* Work conservation: one pass per release leaves no backend idle that a     *)
(* parked client could use.                                                  *)

\* The backends whose login suits a client.
May(c) == {b \in Backends : UseGroupAsUser => Login[b] = group[c]}

FreeOK ==
    \A c \in Conns :
        /\ state[c] = "FREE" =>
             beWait[c] = "IDLE" /\ group[c] = None /\ feq[c] = <<>>
        /\ state[c] # "FREE" => group[c] \in Groups

\* A pass ends with the attempts; a client in the hands of the handler is
\* connected.
PassOK ==
    /\ pc # "loop" => state[self] # "FREE"
    /\ pc = "drain" => state[cur] # "FREE"
    /\ left <= Len(ring)
    /\ pc = "loop" \/ (pc = "drain" /\ cur = self) => left = 0

\* Whoever a pass has tried and parked again still finds every suitable backend
\* taken: nothing is released before the next pass starts.
OutOfLuck(d) == Head(feq[d]) = "bind" => \A b \in May(d) : busy[b]

Tried ==
    outages = 0 =>
        /\ dbUp
        /\ \A i \in left + 1 .. Len(ring) : OutOfLuck(ring[i])

LineInv == FreeOK /\ PassOK /\ Tried

\* When the re-warmed pool has nothing for a client, all that suits it is taken.
LEMMA NoneFree ==
    ASSUME TypeInv, NEW c \in Conns, dbUp, Eligible(Rewarmed, group[c]) = {}
    PROVE  \A b \in May(c) : busy[b]
<1> SUFFICES ASSUME NEW b \in May(c), ~busy[b]
             PROVE  FALSE
  BY DEF TypeInv, TypeOK
<1>1. b \in Backends /\ b \in Idle(Rewarmed)
  BY DEF May, Idle, Rewarmed, TypeInv, TypeOK
<1>2. CASE UseGroupAsUser
  BY <1>1, <1>2 DEF May, Eligible
<1>3. CASE ~UseGroupAsUser
  BY <1>1, <1>3 DEF May, Eligible
<1> QED
  BY <1>2, <1>3

\* Who stands in the ring is connected, waits, and has a Bind at its queue's head.
LEMMA InTheRing ==
    ASSUME TypeInv, SchedulerInv, FreeOK, NEW i \in 1 .. Len(ring)
    PROVE  /\ ring[i] \in Conns
           /\ Contains(ring, ring[i])
           /\ beWait[ring[i]] = "WAITING_POOL"
           /\ state[ring[i]] # "FREE"
           /\ feq[ring[i]] # <<>>
<1>1. ring[i] \in Conns /\ Contains(ring, ring[i])
  BY ElementOfSeq DEF Contains, TypeInv, TypeOK
<1>2. beWait[ring[i]] = "WAITING_POOL"
  BY <1>1 DEF SchedulerInv, RingExact
<1> QED
  BY <1>1, <1>2 DEF SchedulerInv, QueuedOK, FreeOK

LEMMA LineInit == Init => LineInv
<1> SUFFICES ASSUME Init
             PROVE  LineInv
  OBVIOUS
<1>1. Len(ring) = 0
  BY EmptySeq DEF Init
<1> QED
  BY <1>1 DEF Init, LineInv, FreeOK, PassOK, Tried

\* A step that neither touches the ring nor releases a backend.
LEMMA TriedStays ==
    ASSUME TypeInv, SchedulerInv, LineInv,
           UNCHANGED <<ring, outages, dbUp>>,
           left' = left \/ (PassOver /\ left' = 0),
           \A d \in Conns : beWait[d] = "WAITING_POOL" =>
               group'[d] = group[d] /\ Head(feq'[d]) = Head(feq[d]),
           \A b \in Backends : busy[b] => busy'[b]
    PROVE  Tried'
<1> SUFFICES ASSUME outages = 0, NEW i \in left' + 1 .. Len(ring)
             PROVE  OutOfLuck(ring[i])'
  BY DEF Tried, LineInv, TypeInv, TypeOK
<1>1. Len(ring) \in Nat /\ left \in Nat /\ (ring = <<>> => Len(ring) = 0)
  BY LenProperties, EmptySeq DEF TypeInv, TypeOK
<1>2. i \in left + 1 .. Len(ring)
  BY <1>1 DEF PassOver
<1>3. OutOfLuck(ring[i])
  BY <1>2 DEF LineInv, Tried
<1>4. ring[i] \in Conns /\ beWait[ring[i]] = "WAITING_POOL"
  BY <1>1, <1>2, InTheRing DEF LineInv
<1>5. May(ring[i])' = May(ring[i]) /\ Head(feq'[ring[i]]) = Head(feq[ring[i]])
  BY <1>4 DEF May
<1> QED
  BY <1>3, <1>5 DEF OutOfLuck, May

LEMMA LineStep == TypeInv /\ SchedulerInv /\ LineInv /\ [Next]_vars => LineInv'
<1> SUFFICES ASSUME TypeInv, SchedulerInv, LineInv, [Next]_vars
             PROVE  LineInv'
  OBVIOUS
<1>a. TypeInv' /\ SchedulerInv'
  BY TypeStep, SchedulerStep
<1>b. FreeOK /\ PassOK /\ Tried
  BY DEF LineInv
<1>c. /\ Len(ring) \in Nat /\ left \in Nat
      /\ ring = <<>> => Len(ring) = 0
  BY LenProperties, EmptySeq DEF TypeInv, TypeOK
<1>d. outages = 0 => dbUp
  BY DEF LineInv, Tried
<1> USE DEF TypeInv, TypeOK, connVars, poolVars, dbVars, ctlVars
<1>1. ASSUME NEW c \in Conns, NEW g \in Groups, Accept(c, g)
      PROVE  LineInv'
  <2>i. beWait[c] # "WAITING_POOL"
    BY <1>b, <1>1 DEF Accept, FreeOK
  <2>1. FreeOK'
    BY <1>b, <1>1, <2>i DEF Accept, FreeOK, PassOK, SchedulerInv, ControlOK, HoldingOK, InFlight
  <2>2. PassOK'
    BY <1>b, <1>c, <1>1, <2>i DEF Accept, FreeOK, PassOK, PassOver, SchedulerInv, ControlOK, InFlight
  <2>3. Tried'
    BY <1>b, <1>1, <2>i, TriedStays DEF Accept
  <2> QED
    BY <2>1, <2>2, <2>3 DEF LineInv
<1>2. ASSUME NEW c \in Conns, NEW k \in Requests, FeEnqueue(c, k)
      PROVE  LineInv'
  <2>h. \A d \in Conns : beWait[d] = "WAITING_POOL" => Head(feq'[d]) = Head(feq[d])
    <3>1. feq[c] \in Seq(Requests) /\ feq' = [feq EXCEPT ![c] = Append(@, k)]
      BY <1>2 DEF FeEnqueue
    <3>2. feq[c] # <<>> => Head(Append(feq[c], k)) = Head(feq[c])
      BY <3>1, HeadTailAppend
    <3> QED
      BY <3>1, <3>2 DEF SchedulerInv, QueuedOK

  <2>1. FreeOK'
    BY <1>b, <1>2, <2>h DEF FeEnqueue, FreeOK, PassOK, SchedulerInv, ControlOK, HoldingOK, InFlight
  <2>2. PassOK'
    BY <1>b, <1>c, <1>2, <2>h DEF FeEnqueue, FreeOK, PassOK, PassOver, SchedulerInv, ControlOK, InFlight
  <2>3. Tried'
    BY <1>b, <1>2, <2>h, TriedStays DEF FeEnqueue
  <2> QED
    BY <2>1, <2>2, <2>3 DEF LineInv
<1>3. ASSUME NEW c \in Conns, FeBindStart(c)
      PROVE  LineInv'
  <2>t. PICK b \in Backends : Take(c, b)
    BY <1>3 DEF FeBindStart

  <2>1. FreeOK'
    BY <1>b, <1>3, <2>t DEF FeBindStart, Take, FreeOK, PassOK, SchedulerInv, ControlOK, HoldingOK, InFlight
  <2>2. PassOK'
    BY <1>b, <1>c, <1>3, <2>t DEF FeBindStart, Take, FreeOK, PassOK, PassOver, SchedulerInv, ControlOK, InFlight
  <2>3. Tried'
    BY <1>b, <1>3, <2>t, TriedStays DEF FeBindStart, Take
  <2> QED
    BY <2>1, <2>2, <2>3 DEF LineInv
<1>4. ASSUME NEW c \in Conns, NEW k \in Requests, FeBindPark(c, k)
      PROVE  LineInv'
  <2>r. /\ ring' = Append(ring, c) /\ Len(ring') = Len(ring) + 1
        /\ \A i \in 1 .. Len(ring) : ring'[i] = ring[i]
        /\ ring'[Len(ring) + 1] = c
    <3>1. ~Contains(ring, c)
      BY <1>4 DEF FeBindPark, SchedulerInv, RingExact, ControlOK
    <3> QED
      BY <1>4, <3>1, AppendProperties DEF FeBindPark, Park
  <2>b. UNCHANGED <<busy, be>>
    BY <1>4 DEF FeBindPark, NoneToTake

  <2>h. /\ feq' = [feq EXCEPT ![c] = Append(@, k)] /\ Head(feq'[c]) = k
        /\ left = 0 /\ left' = 0 /\ UNCHANGED <<group, outages, dbUp>>
    <3>1. feq[c] = <<>>
      BY <1>4 DEF FeBindPark, SchedulerInv, QueuedOK
    <3>2. Head(Append(feq[c], k)) = k
      BY <3>1, HeadTailAppend
    <3> QED
      BY <1>4, <3>2, <1>b DEF FeBindPark, PassOK
  <2>1. FreeOK'
    BY <1>b, <1>4, <2>b DEF FeBindPark, Park, FreeOK
  <2>2. PassOK'
    BY <1>b, <1>c, <1>4, <2>r DEF FeBindPark, PassOK
  <2>3. Tried'
    <3> SUFFICES ASSUME outages = 0, NEW i \in 1 .. Len(ring')
                 PROVE  OutOfLuck(ring[i])'
      BY <1>d, <2>h DEF Tried
    <3>d. dbUp
      BY <1>d
    <3>1. CASE i <= Len(ring)
      <4>1. ring'[i] = ring[i] /\ i \in 1 .. Len(ring) /\ OutOfLuck(ring[i])
        BY <1>b, <1>c, <2>r, <2>h, <3>1 DEF Tried
      <4>2. ring[i] \in Conns /\ ring[i] # c
        BY <1>b, <4>1, InTheRing, <1>4 DEF FeBindPark
      <4> QED
        BY <2>b, <2>h, <3>d, <4>1, <4>2 DEF OutOfLuck, May
    <3>2. CASE i = Len(ring) + 1
      <4>1. k = "bind" => \A b \in May(c) : busy[b]
        BY <3>d, <1>4, NoneFree DEF FeBindPark, NoneToTake
      <4> QED
        BY <2>b, <2>h, <2>r, <3>2, <3>d, <4>1 DEF OutOfLuck, May
    <3> QED
      BY <1>c, <2>r, <3>1, <3>2
  <2> QED
    BY <2>1, <2>2, <2>3 DEF LineInv
<1>5. ASSUME NEW c \in Conns, FeQuery(c)
      PROVE  LineInv'
  <2>1. FreeOK'
    BY <1>b, <1>5 DEF FeQuery, SyncQuery, FreeOK, PassOK, SchedulerInv, ControlOK, HoldingOK, InFlight
  <2>2. PassOK'
    BY <1>b, <1>c, <1>5 DEF FeQuery, SyncQuery, FreeOK, PassOK, PassOver, SchedulerInv, ControlOK, InFlight
  <2>3. Tried'
    BY <1>b, <1>5, TriedStays DEF FeQuery, SyncQuery
  <2> QED
    BY <2>1, <2>2, <2>3 DEF LineInv
<1>6. ASSUME NEW c \in Conns, CloseIdle(c)
      PROVE  LineInv'
  <2>w. \A d : Contains(ring', d) <=> Contains(ring, d) /\ d # c
    BY <1>6, RemoveFromRing DEF CloseIdle
  <2>l. left = 0 /\ left' = 0 /\ Len(ring') \in Nat
    BY <1>a, <1>b, <1>6, LenProperties DEF CloseIdle, PassOK
  <2>1. FreeOK'
    BY <1>b, <1>6 DEF CloseIdle, FreeOK
  <2>2. PassOK'
    BY <1>b, <1>6, <2>l DEF CloseIdle, PassOK
  <2>3. Tried'
    <3> SUFFICES ASSUME outages = 0, NEW i \in 1 .. Len(ring')
                 PROVE  OutOfLuck(ring[i])'
      BY <1>d, <2>l, <1>6 DEF Tried, CloseIdle
    <3>1. Contains(ring', ring'[i])
      BY DEF Contains
    <3>2. PICK j \in 1 .. Len(ring) : ring[j] = ring'[i]
      BY <2>w, <3>1 DEF Contains
    <3>3. ring'[i] \in Conns /\ ring'[i] # c
      BY <1>b, <2>w, <3>1, <3>2, InTheRing
    <3>4. dbUp /\ OutOfLuck(ring'[i])
      BY <1>b, <2>l, <3>2 DEF Tried
    <3> QED
      BY <1>6, <3>3, <3>4 DEF CloseIdle, OutOfLuck, May
  <2> QED
    BY <2>1, <2>2, <2>3 DEF LineInv
<1>7. ASSUME NEW c \in Conns, CloseOwner(c)
      PROVE  LineInv'
  <2>1. FreeOK'
    BY <1>b, <1>7 DEF CloseOwner, FreeOK
  <2>2. PassOK'
    BY <1>b, <1>c, <1>7 DEF CloseOwner, FreeOK, PassOK
  <2>3. Tried'
    BY <1>b, <1>c, <1>7 DEF CloseOwner, Tried
  <2> QED
    BY <2>1, <2>2, <2>3 DEF LineInv
<1>8. ASSUME NEW c \in Conns, BeSent(c)
      PROVE  LineInv'
  <2>1. FreeOK'
    BY <1>b, <1>8 DEF BeSent, FreeOK, PassOK, SchedulerInv, ControlOK, HoldingOK, InFlight
  <2>2. PassOK'
    BY <1>b, <1>c, <1>8 DEF BeSent, FreeOK, PassOK, PassOver, SchedulerInv, ControlOK, InFlight
  <2>3. Tried'
    BY <1>b, <1>8, TriedStays DEF BeSent
  <2> QED
    BY <2>1, <2>2, <2>3 DEF LineInv
<1>9. ASSUME NEW c \in Conns, NEW e \in BOOLEAN, BeComplete(c, e)
      PROVE  LineInv'
  <2>1. FreeOK'
    BY <1>b, <1>9 DEF BeComplete, Release, FreeOK
  <2>2. PassOK'
    BY <1>b, <1>c, <1>9 DEF BeComplete, Release, FreeOK, PassOK
  <2>3. Tried'
    BY <1>b, <1>c, <1>9 DEF BeComplete, Release, Tried
  <2> QED
    BY <2>1, <2>2, <2>3 DEF LineInv
<1>10. ASSUME NEW c \in Conns, BeFail(c)
      PROVE  LineInv'
  <2>1. FreeOK'
    BY <1>b, <1>10 DEF BeFail, Release, FreeOK
  <2>2. PassOK'
    BY <1>b, <1>c, <1>10 DEF BeFail, Release, FreeOK, PassOK
  <2>3. Tried'
    BY <1>b, <1>c, <1>10 DEF BeFail, Release, Tried
  <2> QED
    BY <2>1, <2>2, <2>3 DEF LineInv
<1>11. CASE PassNext
  <2>r. ring # <<>> /\ left # 0 /\ left' = left - 1 /\ ring' = Tail(ring)
    BY <1>11 DEF PassNext, PassOver
  <2>t. /\ Head(ring) = ring[1] /\ Len(ring') = Len(ring) - 1
        /\ \A i \in 1 .. Len(ring') : ring'[i] = ring[i + 1]
        /\ 1 \in 1 .. Len(ring)
    BY <1>c, <2>r, HeadTailProperties, EmptySeq
  <2>h. Head(ring) \in Conns /\ state[Head(ring)] # "FREE" /\ Head(ring) # self
    <3>1. beWait[Head(ring)] = "WAITING_POOL" /\ Head(ring) \in Conns
      BY <1>b, <2>t, InTheRing
    <3> QED
      BY <1>b, <2>t, <3>1, InTheRing, <1>11 DEF PassNext, SchedulerInv, ControlOK, InFlight
  <2>1. FreeOK'
    BY <1>b, <1>11, <2>h DEF PassNext, FreeOK
  <2>2. PassOK'
    BY <1>b, <1>c, <1>11, <2>r, <2>t, <2>h DEF PassNext, PassOK
  <2>3. Tried'
    <3> SUFFICES ASSUME outages = 0, NEW i \in left' + 1 .. Len(ring')
                 PROVE  OutOfLuck(ring[i])'
      BY <1>d, <1>11 DEF PassNext, Tried
    <3>1. i + 1 \in left + 1 .. Len(ring) /\ ring'[i] = ring[i + 1]
      BY <1>c, <2>r, <2>t
    <3>2. dbUp /\ OutOfLuck(ring[i + 1])
      BY <1>b, <3>1 DEF Tried
    <3> QED
      BY <1>11, <3>1, <3>2 DEF PassNext, OutOfLuck, May
  <2> QED
    BY <2>1, <2>2, <2>3 DEF LineInv
<1>12. CASE PassResume
  <2>1. FreeOK'
    BY <1>b, <1>12 DEF PassResume, FreeOK, PassOK, SchedulerInv, ControlOK, HoldingOK, InFlight
  <2>2. PassOK'
    BY <1>b, <1>c, <1>12 DEF PassResume, FreeOK, PassOK, PassOver, SchedulerInv, ControlOK, InFlight
  <2>3. Tried'
    BY <1>b, <1>12, TriedStays DEF PassResume
  <2> QED
    BY <2>1, <2>2, <2>3 DEF LineInv
<1>13. CASE CloseDone
  <2>s. beWait[self] # "WAITING_POOL" /\ self \in Conns
    BY <1>13 DEF CloseDone, SchedulerInv, ControlOK, InFlight

  <2>1. FreeOK'
    BY <1>b, <1>13, <2>s DEF CloseDone, FreeOK, PassOK, SchedulerInv, ControlOK, HoldingOK, InFlight
  <2>2. PassOK'
    BY <1>b, <1>c, <1>13, <2>s DEF CloseDone, FreeOK, PassOK, PassOver, SchedulerInv, ControlOK, InFlight
  <2>3. Tried'
    BY <1>b, <1>13, <2>s, TriedStays DEF CloseDone
  <2> QED
    BY <2>1, <2>2, <2>3 DEF LineInv
<1>14. CASE DrainLocal
  <2>s. cur = self /\ self \in Conns /\ beWait[self] = "IDLE" /\ busy' = busy
    BY <1>14 DEF DrainLocal, DrainHead, SchedulerInv, ControlOK, SyncQuery
  <2>f. state[self] # "FREE"
    BY <1>b, <1>14 DEF PassOK, DrainLocal, DrainHead

  <2>1. FreeOK'
    BY <1>b, <1>14, <2>s, <2>f DEF DrainLocal, DrainHead, FreeOK, PassOK, SchedulerInv, ControlOK, HoldingOK, InFlight
  <2>2. PassOK'
    BY <1>b, <1>c, <1>14, <2>s, <2>f DEF DrainLocal, DrainHead, FreeOK, PassOK, PassOver, SchedulerInv, ControlOK, InFlight
  <2>3. Tried'
    BY <1>b, <1>14, <2>s, <2>f, TriedStays DEF DrainLocal, DrainHead
  <2> QED
    BY <2>1, <2>2, <2>3 DEF LineInv
<1>15. CASE DrainEmpty
  <2>s. cur = self /\ self \in Conns
    BY <1>15 DEF DrainEmpty, SchedulerInv, ControlOK

  <2>1. FreeOK'
    BY <1>b, <1>15, <2>s DEF DrainEmpty, DrainReturn, FreeOK, PassOK, SchedulerInv, ControlOK, HoldingOK, InFlight
  <2>2. PassOK'
    BY <1>b, <1>c, <1>15, <2>s DEF DrainEmpty, DrainReturn, FreeOK, PassOK, PassOver, SchedulerInv, ControlOK, InFlight
  <2>3. Tried'
    BY <1>b, <1>15, <2>s, TriedStays DEF DrainEmpty, DrainReturn
  <2> QED
    BY <2>1, <2>2, <2>3 DEF LineInv
<1>16. CASE DrainBindStart
  <2>s. cur \in Conns /\ beWait[cur] = "IDLE" /\ state[cur] # "FREE"
    BY <1>b, <1>16 DEF DrainBindStart, DrainHead, SchedulerInv, ControlOK, PassOK
  <2>t. PICK b \in Backends : Take(cur, b)
    BY <1>16 DEF DrainBindStart

  <2>1. FreeOK'
    BY <1>b, <1>16, <2>s, <2>t DEF DrainBindStart, DrainHead, DrainReturn, Take, FreeOK, PassOK, SchedulerInv, ControlOK, HoldingOK, InFlight
  <2>2. PassOK'
    BY <1>b, <1>c, <1>16, <2>s, <2>t DEF DrainBindStart, DrainHead, DrainReturn, Take, FreeOK, PassOK, PassOver, SchedulerInv, ControlOK, InFlight
  <2>3. Tried'
    BY <1>b, <1>16, <2>s, <2>t, TriedStays DEF DrainBindStart, DrainHead, DrainReturn, Take
  <2> QED
    BY <2>1, <2>2, <2>3 DEF LineInv
<1>17. CASE DrainBindPark
  <2>s. cur \in Conns /\ beWait[cur] = "IDLE" /\ state[cur] # "FREE" /\ pc = "drain"
    BY <1>b, <1>17 DEF DrainBindPark, DrainHead, SchedulerInv, ControlOK, PassOK

  <2>r. /\ ring' = Append(ring, cur) /\ Len(ring') = Len(ring) + 1
        /\ \A i \in 1 .. Len(ring) : ring'[i] = ring[i]
        /\ ring'[Len(ring) + 1] = cur
    <3>1. ~Contains(ring, cur)
      BY <1>17 DEF DrainBindPark, DrainHead, SchedulerInv, RingExact, ControlOK
    <3> QED
      BY <1>17, <3>1, AppendProperties DEF DrainBindPark, DrainHead, Park
  <2>b. UNCHANGED <<busy, be>>
    BY <1>17 DEF DrainBindPark, DrainHead, NoneToTake

  <2>1. FreeOK'
    BY <1>b, <1>17, <2>s DEF DrainBindPark, Park, FreeOK
  <2>2. PassOK'
    BY <1>b, <1>c, <1>17, <2>r, <2>s DEF DrainBindPark, DrainReturn, PassOK
  <2>3. Tried'
    <3> SUFFICES ASSUME outages = 0, NEW i \in left + 1 .. Len(ring')
                 PROVE  OutOfLuck(ring[i])'
      BY <1>d, <1>17 DEF DrainBindPark, DrainReturn, Tried
    <3>d. dbUp /\ UNCHANGED <<group, feq>>
      BY <1>b, <1>17 DEF Tried, DrainBindPark
    <3>1. CASE i <= Len(ring)
      <4>1. ring'[i] = ring[i] /\ i \in left + 1 .. Len(ring)
        BY <1>c, <2>r, <3>1
      <4> QED
        BY <1>b, <2>b, <3>d, <4>1 DEF OutOfLuck, May, Tried
    <3>2. CASE i = Len(ring) + 1
      <4>1. Head(feq[cur]) = "bind" => \A b \in May(cur) : busy[b]
        BY <2>s, <3>d, <1>17, NoneFree DEF DrainBindPark, NoneToTake
      <4> QED
        BY <2>b, <2>r, <3>2, <3>d, <4>1 DEF OutOfLuck, May
    <3> QED
      BY <1>c, <2>r, <3>1, <3>2
  <2> QED
    BY <2>1, <2>2, <2>3 DEF LineInv
<1>18. CASE Maintain
  <2>1. FreeOK'
    BY <1>b, <1>18 DEF Maintain, FreeOK, PassOK, SchedulerInv, ControlOK, HoldingOK, InFlight
  <2>2. PassOK'
    BY <1>b, <1>c, <1>18 DEF Maintain, FreeOK, PassOK, PassOver, SchedulerInv, ControlOK, InFlight
  <2>3. Tried'
    BY <1>b, <1>18, TriedStays DEF Maintain
  <2> QED
    BY <2>1, <2>2, <2>3 DEF LineInv
<1>19. CASE DbDown
  <2>1. FreeOK'
    BY <1>b, <1>19 DEF DbDown, FreeOK
  <2>2. PassOK'
    BY <1>b, <1>19 DEF DbDown, PassOK
  <2>3. Tried'
    BY <1>19 DEF DbDown, Tried
  <2> QED
    BY <2>1, <2>2, <2>3 DEF LineInv
<1>20. CASE DbRecover
  <2>1. FreeOK'
    BY <1>b, <1>20 DEF DbRecover, FreeOK
  <2>2. PassOK'
    BY <1>b, <1>20 DEF DbRecover, PassOK
  <2>3. Tried'
    BY <1>b, <1>20 DEF DbRecover, Tried
  <2> QED
    BY <2>1, <2>2, <2>3 DEF LineInv
<1>21. CASE UNCHANGED vars
  <2>1. FreeOK'
    BY <1>b, <1>21 DEF vars, FreeOK, PassOK, SchedulerInv, ControlOK, HoldingOK, InFlight
  <2>2. PassOK'
    BY <1>b, <1>c, <1>21 DEF vars, FreeOK, PassOK, PassOver, SchedulerInv, ControlOK, InFlight
  <2>3. Tried'
    BY <1>b, <1>21, TriedStays DEF vars
  <2> QED
    BY <2>1, <2>2, <2>3 DEF LineInv
<1> QED
  BY <1>1, <1>2, <1>3, <1>4, <1>5, <1>6, <1>7, <1>8, <1>9, <1>10, <1>11, <1>12,
     <1>13, <1>14, <1>15, <1>16, <1>17, <1>18, <1>19, <1>20, <1>21
     DEF Next, Client, Backend, Pass, Drain

LEMMA LineAlways == Spec => [](TypeInv /\ SchedulerInv /\ LineInv)
<1>1. Init => LineInv
  BY LineInit
<1>2. TypeInv /\ SchedulerInv /\ LineInv /\ [Next]_vars => LineInv'
  BY LineStep
<1> QED
  BY <1>1, <1>2, SafeAlways, PTL DEF Spec

\* While Postgres has never gone away, no client is parked between two events on a
\* Bind that an idle pooled backend could serve (after_backend_release).
THEOREM WorkConserved == Spec => []WorkConserving
<1>1. TypeInv /\ SchedulerInv /\ LineInv => WorkConserving
  <2> SUFFICES ASSUME TypeInv, SchedulerInv, LineInv, outages = 0, pc = "loop",
                      NEW c \in Conns, beWait[c] = "WAITING_POOL",
                      Head(feq[c]) = "bind"
               PROVE  Eligible(alive, group[c]) = {}
    BY DEF WorkConserving
  <2>1. PICK i \in 1 .. Len(ring) : ring[i] = c
    BY DEF SchedulerInv, RingExact, Contains
  <2>2. OutOfLuck(c)
    BY <2>1 DEF LineInv, Tried, PassOK
  <2>3. \A b \in Backends : ~busy[b] => UseGroupAsUser /\ Login[b] # group[c]
    BY <2>2 DEF OutOfLuck, May
  <2> QED
    BY <2>3 DEF Eligible, Idle
<1> QED
  BY <1>1, LineAlways, PTL


-----------------------------------------------------------------------------
(* First come, first served: the ring, turned by the pass, implements the    *)
(* waiting line of FairLine.                                                 *)

\* A client is being tried: it has been popped and is not parked again yet.
Trying == pc = "drain" /\ cur # self

\* Both modules filter a sequence in the same way.
LEMMA SameFilter == ASSUME NEW s, NEW S PROVE Line!Only(s, S) = Only(s, S)
  BY DEF Line!Only, Only

\* The parts of the ring, and who stands in what they form.
LEMMA RankedParts ==
    ASSUME TypeInv, left <= Len(ring)
    PROVE  /\ SubSeq(ring, left + 1, Len(ring)) \in Seq(Conns)
           /\ SubSeq(ring, 1, left) \in Seq(Conns)
           /\ left = 0 => Ranked = IF Trying THEN ring \o <<cur>> ELSE ring
           /\ left = Len(ring) /\ ~Trying => Ranked = ring
           /\ Ranked \in Seq(Conns)
           /\ \A d : Contains(Ranked, d) <=> Contains(ring, d) \/ (Trying /\ d = cur)
           /\ \A d : Contains(ring, d)
                       <=> \/ Contains(SubSeq(ring, left + 1, Len(ring)), d)
                           \/ Contains(SubSeq(ring, 1, left), d)
<1> DEFINE a == SubSeq(ring, left + 1, Len(ring))
           b == SubSeq(ring, 1, left)
           m == IF Trying THEN <<cur>> ELSE <<>>
<1>0. Len(ring) \in Nat /\ left \in 0 .. Len(ring) /\ ring \in Seq(Conns)
  BY LenProperties DEF TypeInv, TypeOK
<1>1. a \in Seq(Conns) /\ b \in Seq(Conns) /\ ring = b \o a
  BY <1>0, CutAt
<1>2. /\ m \in Seq(Conns)
      /\ \A d : Contains(m, d) <=> Trying /\ d = cur
  <2>1. CASE Trying
    <3>1. cur \in Conns
      BY <2>1 DEF Trying, TypeInv, TypeOK
    <3>2. Append(<<>>, cur) = <<cur>> /\ <<>> \in Seq(Conns)
      BY <3>1, EmptySeq
    <3>3. \A d : ~Contains(<<>>, d)
      BY EmptySeq DEF Contains
    <3>4. /\ Append(<<>>, cur) \in Seq(Conns)
          /\ \A d : Contains(Append(<<>>, cur), d) <=> Contains(<<>>, d) \/ d = cur
      BY <3>1, <3>2, AppendHas
    <3>5. m = Append(<<>>, cur)
      BY <2>1, <3>2
    <3> QED
      BY <2>1, <3>3, <3>4, <3>5
  <2>2. CASE ~Trying
    BY <2>2, EmptySeq DEF Contains
  <2> QED
    BY <2>1, <2>2
<1>3. Ranked = (a \o m) \o b
  BY <1>1, <1>2, ConcatAssociative DEF Ranked, Trying
<1>4. left = 0 => b = <<>> /\ a = ring
  BY <1>0, SubSeqEmpty, SubSeqFull
<1>5. left = Len(ring) => a = <<>> /\ b = ring
  BY <1>0, SubSeqEmpty, SubSeqFull
<1> HIDE DEF a, b, m
<1>6. /\ a \o m \in Seq(Conns)
      /\ \A d : Contains(a \o m, d) <=> Contains(a, d) \/ Contains(m, d)
  BY <1>1, <1>2, JoinHas
<1>7. /\ (a \o m) \o b \in Seq(Conns)
      /\ \A d : Contains((a \o m) \o b, d) <=> Contains(a \o m, d) \/ Contains(b, d)
  BY <1>1, <1>6, JoinHas
<1>8. \A d : Contains(ring, d) <=> Contains(a, d) \/ Contains(b, d)
  BY <1>1, JoinHas
<1>9. left = 0 => Ranked = IF Trying THEN ring \o <<cur>> ELSE ring
  BY <1>0, <1>3, <1>4, <1>6, ConcatEmptySeq DEF m
<1>10. left = Len(ring) /\ ~Trying => Ranked = ring
  BY <1>0, <1>3, <1>5, ConcatEmptySeq DEF m
<1> QED
  BY <1>1, <1>2, <1>3, <1>6, <1>7, <1>8, <1>9, <1>10 DEF a, b

\* Who is in the line.
LEMMA LineHas ==
    ASSUME TypeInv, left <= Len(ring)
    PROVE  /\ WaitingLine \in Seq(Conns)
           /\ \A d : Contains(WaitingLine, d) <=> Contains(Ranked, d) /\ d \in Wanting
<1>1. Ranked \in Seq(Conns)
  BY RankedParts
<1> QED
  BY <1>1, OnlyHas DEF WaitingLine

\* Nobody joins or leaves the line unless the ring or a queue's head changes.
LEMMA LineStays ==
    ASSUME TypeInv, left <= Len(ring), Ranked' = Ranked,
           \A d \in Conns : Contains(Ranked, d) => (d \in Wanting' <=> d \in Wanting)
    PROVE  WaitingLine' = WaitingLine
<1>1. Ranked \in Seq(Conns)
  BY RankedParts
<1>2. \A d : Contains(Ranked, d) => d \in Conns
  BY <1>1, ElementOfSeq DEF Contains
<1>3. Only(Ranked, Wanting') = Only(Ranked, Wanting)
  BY <1>1, <1>2, OnlySame
<1> QED
  BY <1>3 DEF WaitingLine

\* A client that is not in the ring gets or loses a backend: the others keep
\* their places.
LEMMA LineWithout ==
    ASSUME TypeInv, left <= Len(ring), NEW c \in Conns,
           Ranked' = Ranked, ~Contains(Ranked, c),
           \A d \in Conns : d # c => (d \in Wanting' <=> d \in Wanting)
    PROVE  WaitingLine' = Only(WaitingLine, Conns \ {c})
<1>1. Ranked \in Seq(Conns)
  BY RankedParts
<1>2. \A d : Contains(Ranked, d) => d \in Conns /\ d # c
  BY <1>1, ElementOfSeq DEF Contains
<1>3. Only(WaitingLine, Conns \ {c}) = Only(Ranked, Wanting \intersect (Conns \ {c}))
  BY <1>1, OnlyTwice DEF WaitingLine
<1> DEFINE R == Wanting \intersect (Conns \ {c})
           Q == Wanting'
<1>4. \A d : Contains(Ranked, d) => (d \in Q <=> d \in R)
  BY <1>2
<1> HIDE DEF R, Q
<1>5. Only(Ranked, Q) = Only(Ranked, R)
  BY <1>1, <1>4, OnlySame
<1> QED
  BY <1>3, <1>5 DEF WaitingLine, R, Q

-----------------------------------------------------------------------------
(* What FairLine calls free and suitable.                                    *)

LEMMA FreeIs ==
    ASSUME TypeInv, SchedulerInv
    PROVE  /\ Line!Free = {b \in Backends : ~busy[b]}
           /\ \A c : Line!MayUse(c) = May(c)
  BY DEF Line!Free, Line!MayUse, May, SchedulerInv, ExclusiveBackend, TypeInv, TypeOK

\* What checkout hands out is free and suits the client.
LEMMA TakenIs ==
    ASSUME TypeInv, NEW c \in Conns, NEW b \in Backends, Take(c, b)
    PROVE  ~busy[b] /\ b \in May(c)
  BY DEF Take, Eligible, Idle, May

\* A client without a backend, connected and out of the ring, may join.
LEMMA MayJoin ==
    ASSUME TypeInv, SchedulerInv, LineInv, dbUp, NEW c \in Conns,
           state[c] # "FREE", beWait[c] = "IDLE", NoneToTake(c),
           ~Contains(Ranked, c), UNCHANGED <<group, be>>,
           WaitingLine' = Append(WaitingLine, c)
    PROVE  Line!Join(c)
<1>1. group[c] # None
  BY ConstantAssumption DEF LineInv, FreeOK
<1>2. be[c] = None
  BY DEF SchedulerInv, HoldingOK, InFlight
<1>3. ~Contains(WaitingLine, c)
  BY LineHas DEF LineInv, PassOK
<1>4. \A b \in May(c) : busy[b]
  BY NoneFree DEF NoneToTake
<1>5. Line!Free \intersect Line!MayUse(c) = {}
  BY <1>4, FreeIs
<1> QED
  BY <1>1, <1>2, <1>3, <1>5 DEF Line!Join, Line!Contains, Contains

\* A client out of the ring takes a backend: nobody in the line could have used it.
LEMMA MayTake ==
    ASSUME TypeInv, SchedulerInv, LineInv, outages = 0, NEW c \in Conns,
           NEW b \in Backends, state[c] # "FREE", beWait[c] = "IDLE", left = 0,
           ~Trying, ~Contains(ring, c), Take(c, b), UNCHANGED group,
           WaitingLine' = Only(WaitingLine, Conns \ {c})
    PROVE  Line!Grant(c, b)
<1>1. group[c] # None
  BY ConstantAssumption DEF LineInv, FreeOK
<1>2. be[c] = None
  BY DEF SchedulerInv, HoldingOK, InFlight
<1>3. ~busy[b] /\ b \in May(c)
  BY TakenIs
<1>4. ASSUME NEW d, Contains(WaitingLine, d)
      PROVE  b \notin May(d)
  <2>1. Contains(ring, d) /\ d \in Wanting
    BY <1>4, LineHas, RankedParts DEF LineInv, PassOK
  <2>2. PICK i \in 1 .. Len(ring) : ring[i] = d
    BY <2>1 DEF Contains
  <2>3. OutOfLuck(d)
    BY <2>2 DEF LineInv, Tried
  <2> QED
    BY <1>3, <2>1, <2>3 DEF OutOfLuck, Wanting
<1>5. ~Contains(WaitingLine, c)
  BY LineHas, RankedParts DEF LineInv, PassOK
<1>6. ASSUME NEW d \in Line!Ahead(c)
      PROVE  b \notin Line!MayUse(d)
  <2>1. Contains(WaitingLine, d)
    BY <1>5, <1>6 DEF Line!Ahead, Line!Contains, Line!ToSet, Contains
  <2> QED
    BY <1>4, <2>1, FreeIs
<1>7. be' = [be EXCEPT ![c] = b]
  BY DEF Take
<1>8. b \in Line!Free \intersect Line!MayUse(c)
  BY <1>3, FreeIs
<1> QED
  BY <1>1, <1>2, <1>6, <1>7, <1>8, SameFilter DEF Line!Grant

-----------------------------------------------------------------------------
(* Every step of the scheduler is a step of FairLine or none.                *)

LEMMA NextRanked ==
    ASSUME TypeInv, SchedulerInv, LineInv, PassNext
    PROVE  WaitingLine' = WaitingLine
<1>1. ring # <<>> /\ left # 0 /\ left' = left - 1 /\ ring' = Tail(ring) /\ pc = "pass"
  BY DEF PassNext, PassOver
<1>2. left \in 1 .. Len(ring) /\ Len(ring) \in Nat /\ ring \in Seq(Conns)
  BY <1>1, LenProperties DEF TypeInv, TypeOK, LineInv, PassOK
<1>3. Head(ring) = ring[1] /\ 1 \in 1 .. Len(ring) /\ Head(ring) \in Conns
  BY <1>1, <1>2, HeadTailProperties
<1>4. Head(ring) # self /\ feq[Head(ring)] # <<>>
  <2>1. beWait[Head(ring)] = "WAITING_POOL" /\ feq[Head(ring)] # <<>>
    BY <1>3, InTheRing DEF LineInv
  <2> QED
    BY <1>1, <2>1 DEF SchedulerInv, ControlOK, InFlight
<1>5. pc' = "drain" /\ cur' = Head(ring) /\ self' = self /\ feq' = feq
  BY <1>4 DEF PassNext
<1> DEFINE a == SubSeq(ring, left + 1, Len(ring))
           h == <<Head(ring)>>
           c == SubSeq(Tail(ring), 1, left - 1)
<1>6. /\ SubSeq(Tail(ring), (left - 1) + 1, Len(Tail(ring))) = a
      /\ h \o c = SubSeq(ring, 1, left)
  BY <1>2, TurnHead
<1>7. a \in Seq(Conns) /\ c \in Seq(Conns) /\ h \in Seq(Conns)
  <2>1. a \in Seq(Conns)
    BY <1>2, CutAt
  <2>2. Tail(ring) \in Seq(Conns) /\ Len(Tail(ring)) = Len(ring) - 1
    BY <1>1, <1>2, HeadTailProperties
  <2>3. left - 1 \in 0 .. Len(Tail(ring))
    BY <1>2, <2>2
  <2>4. c \in Seq(Conns)
    BY <2>2, <2>3, CutAt
  <2>5. Append(<<>>, Head(ring)) \in Seq(Conns)
    BY <1>3, EmptySeq, AppendProperties
  <2>6. Append(<<>>, Head(ring)) = h
    OBVIOUS
  <2> QED
    BY <2>1, <2>4, <2>5, <2>6
<1>8. Ranked = (a \o <<>>) \o (h \o c)
  BY <1>1, <1>6, <1>7, ConcatAssociative, EmptySeq DEF Ranked
<1>9. Ranked' = a \o h \o c
  BY <1>1, <1>4, <1>5, <1>6 DEF Ranked
<1>10. Ranked' = Ranked
  <2> HIDE DEF a, h, c
  <2> QED
    BY <1>7, <1>8, <1>9, ConcatEmptySeq, ConcatAssociative
<1> QED
  BY <1>5, <1>10 DEF WaitingLine, Wanting

LEMMA ParkRanked ==
    ASSUME TypeInv, SchedulerInv, LineInv, outages = 0, DrainBindPark
    PROVE  WaitingLine' = WaitingLine \/ Line!Join(cur)
<1>1. /\ cur \in Conns /\ self \in Conns /\ pc = "drain" /\ beWait[cur] = "IDLE"
      /\ state[cur] # "FREE" /\ left' = left /\ left <= Len(ring) /\ Len(ring) \in Nat
      /\ feq' = feq /\ group' = group /\ be' = be /\ pc' # "drain" /\ left \in 0 .. Len(ring)
  BY LenProperties DEF DrainBindPark, DrainHead, DrainReturn, NoneToTake, TypeInv, TypeOK,
        LineInv, PassOK, SchedulerInv, ControlOK
<1>2. ~Contains(ring, cur)
  BY <1>1 DEF SchedulerInv, RingExact
<1>3. ring' = Append(ring, cur) /\ ring \in Seq(Conns)
  BY <1>2 DEF DrainBindPark, Park, TypeInv, TypeOK
<1>4. Wanting' = Wanting
  BY <1>1 DEF Wanting
<1> DEFINE a == SubSeq(ring, left + 1, Len(ring))
           b == SubSeq(ring, 1, left)
<1>5. a \in Seq(Conns) /\ b \in Seq(Conns)
  BY <1>1, RankedParts
<1>6. Ranked' = Append(a, cur) \o <<>> \o b
  BY <1>1, <1>3, TurnLast DEF Ranked
<1>7. Append(a, cur) \in Seq(Conns) /\ Append(a, cur) = a \o <<cur>>
  BY <1>1, <1>5, AppendIsConcat, AppendProperties
<1>8. Ranked' = (a \o <<cur>>) \o b
  <2> HIDE DEF a, b
  <2> QED
    BY <1>6, <1>7, ConcatEmptySeq
<1>9. CASE cur # self
  <2>1. Ranked = a \o <<cur>> \o b
    BY <1>1, <1>9 DEF Ranked
  <2> QED
    BY <1>4, <1>8, <2>1 DEF WaitingLine
<1>10. CASE cur = self
  <2>1. left = 0 /\ ~Trying /\ Ranked = ring
    BY <1>1, <1>10, RankedParts DEF LineInv, PassOK, Trying
  <2>2. a = ring /\ b = <<>>
    BY <1>3, <2>1, SubSeqFull, SubSeqEmpty
  <2>3. Ranked' = Append(ring, cur)
    BY <1>3, <1>7, <1>8, <2>2, ConcatEmptySeq
  <2>4. WaitingLine' = IF cur \in Wanting THEN Append(WaitingLine, cur) ELSE WaitingLine
    BY <1>1, <1>3, <1>4, <2>1, <2>3, OnlyAppend DEF WaitingLine
  <2>5. CASE cur \in Wanting
    <3>1. dbUp
      BY DEF LineInv, Tried
    <3>2. NoneToTake(cur)
      BY <2>5 DEF Wanting, DrainBindPark
    <3> QED
      BY <1>1, <1>2, <2>1, <2>4, <2>5, <3>1, <3>2, MayJoin
  <2> QED
    BY <2>4, <2>5
<1> QED
  BY <1>9, <1>10

LEMMA TriedTakes ==
    ASSUME TypeInv, SchedulerInv, LineInv, outages = 0, Trying, DrainBindStart,
           NEW b \in Backends, Take(cur, b)
    PROVE  Line!Grant(cur, b)
<1>1. /\ cur \in Conns /\ self \in Conns /\ pc = "drain" /\ beWait[cur] = "IDLE"
      /\ state[cur] # "FREE" /\ left <= Len(ring) /\ Len(ring) \in Nat /\ cur # self
      /\ left' = left /\ ring' = ring /\ group' = group /\ pc' # "drain"
      /\ feq[cur] # <<>> /\ Head(feq[cur]) = "bind" /\ feq' = [feq EXCEPT ![cur] = Tail(@)]
  BY LenProperties DEF DrainBindStart, DrainHead, DrainReturn, TypeInv, TypeOK,
        LineInv, PassOK, SchedulerInv, ControlOK, Trying
<1>2. ~Contains(ring, cur)
  BY <1>1 DEF SchedulerInv, RingExact
<1> DEFINE p == SubSeq(ring, left + 1, Len(ring))
           q == SubSeq(ring, 1, left)
           R == Wanting \intersect (Conns \ {cur})
           Q == Wanting'
<1>3. /\ p \in Seq(Conns) /\ q \in Seq(Conns)
      /\ \A d : Contains(ring, d) <=> Contains(p, d) \/ Contains(q, d)
  BY <1>1, RankedParts
<1>4. Ranked = (p \o <<cur>>) \o q
  BY <1>1 DEF Ranked
<1>5. Ranked' = p \o q
  <2>1. Ranked' = p \o <<>> \o q
    BY <1>1 DEF Ranked
  <2> HIDE DEF p, q
  <2> QED
    BY <1>3, <2>1, ConcatEmptySeq
<1>6. WaitingLine' = Only(WaitingLine, Conns \ {cur})
  <2>1. Only(WaitingLine, Conns \ {cur}) = Only(Ranked, R)
    BY <1>1, RankedParts, OnlyTwice DEF WaitingLine
  <2>2. \A d \in Conns : d # cur => (d \in Q <=> d \in R)
    BY <1>1 DEF Wanting, TypeInv, TypeOK
  <2> HIDE DEF p, q, R, Q
  <2>3. p \o q \in Seq(Conns) /\ \A d : Contains(p \o q, d) => Contains(ring, d)
    BY <1>3, JoinHas
  <2>4. \A d : Contains(p \o q, d) => d \in Conns /\ d # cur
    BY <1>2, <2>3, ElementOfSeq DEF Contains
  <2>5. Only(p \o q, Q) = Only(p \o q, R)
    BY <2>2, <2>3, <2>4, OnlySame
  <2>6. cur \notin R
    BY DEF R
  <2>7. Only(Ranked, R) = Only(p \o q, R)
    BY <1>1, <1>3, <1>4, <2>6, OnlyDrop
  <2> QED
    BY <1>5, <2>1, <2>5, <2>7 DEF WaitingLine, Q
<1>7. ~busy[b] /\ b \in May(cur)
  BY <1>1, TakenIs
<1>8. ASSUME NEW d \in Line!Ahead(cur)
      PROVE  b \notin Line!MayUse(d)
  <2>1. cur \in Wanting
    BY <1>1 DEF Wanting
  <2>2. WaitingLine = Append(Only(p, Wanting), cur) \o Only(q, Wanting)
    <3> HIDE DEF p, q
    <3>1. p \in Seq(Conns) /\ q \in Seq(Conns) /\ cur \in Conns
      BY <1>1, <1>3
    <3>2. Only(Append(p, cur) \o q, Wanting) = Append(Only(p, Wanting), cur) \o Only(q, Wanting)
      BY <2>1, <3>1, OnlyKeep
    <3>3. p \o <<cur>> = Append(p, cur)
      BY <3>1, AppendIsConcat
    <3> QED
      BY <1>4, <3>2, <3>3 DEF WaitingLine
  <2>3. Contains(WaitingLine, cur)
    BY <1>1, <2>1, LineHas, RankedParts
  <2>4. PICK i \in 1 .. Len(WaitingLine), j \in 1 .. Len(WaitingLine) :
            i < j /\ WaitingLine[i] = d /\ WaitingLine[j] = cur
    BY <1>8, <2>3 DEF Line!Ahead, Line!Contains, Contains
  <2>5. /\ Only(p, Wanting) \in Seq(Conns) /\ Only(q, Wanting) \in Seq(Conns)
        /\ \A x : Contains(Only(p, Wanting), x) <=> Contains(p, x) /\ x \in Wanting
        /\ \A x : Contains(Only(q, Wanting), x) <=> Contains(q, x) /\ x \in Wanting
    <3> HIDE DEF p, q
    <3>1. p \in Seq(Conns) /\ q \in Seq(Conns)
      BY <1>3
    <3> QED
      BY <3>1, OnlyHas
  <2>6. ~Contains(Only(q, Wanting), cur)
    BY <1>2, <1>3, <2>5
  <2>7. Contains(p, d) /\ d \in Wanting
    <3> DEFINE op == Only(p, Wanting)
               oq == Only(q, Wanting)
    <3>1. op \in Seq(Conns) /\ oq \in Seq(Conns) /\ ~Contains(oq, cur)
      BY <2>5, <2>6
    <3>2. WaitingLine = Append(op, cur) \o oq
      BY <2>2
    <3> HIDE DEF op, oq
    <3>3. Contains(op, d)
      BY <1>1, <2>4, <3>1, <3>2, JoinAhead
    <3> QED
      BY <2>5, <3>3 DEF op
  <2>8. PICK k \in left + 1 .. Len(ring) : ring[k] = d
    <3>1. left \in 0 .. Len(ring) /\ ring \in Seq(Conns)
      BY <1>1 DEF TypeInv, TypeOK
    <3>2. /\ Len(p) = Len(ring) - left
          /\ \A n \in 1 .. Len(ring) - left : p[n] = ring[left + n]
      BY <3>1, CutAt
    <3>3. PICK n \in 1 .. Len(ring) - left : p[n] = d
      BY <2>7, <3>2 DEF Contains
    <3>4. left + n \in left + 1 .. Len(ring) /\ ring[left + n] = d
      BY <1>1, <3>1, <3>2, <3>3
    <3> QED
      BY <3>4
  <2>9. OutOfLuck(d)
    BY <2>8 DEF LineInv, Tried
  <2> QED
    BY <1>7, <2>7, <2>9, FreeIs DEF OutOfLuck, Wanting
<1>9. group[cur] # None /\ be[cur] = None /\ be' = [be EXCEPT ![cur] = b]
  BY <1>1, ConstantAssumption DEF LineInv, FreeOK, SchedulerInv, HoldingOK, InFlight, Take
<1>10. b \in Line!Free \intersect Line!MayUse(cur)
  BY <1>7, FreeIs
<1> QED
  BY <1>1, <1>6, <1>8, <1>9, <1>10, SameFilter DEF Line!Grant

-----------------------------------------------------------------------------
LEMMA AtRest ==
    ASSUME TypeInv, left = 0 \/ left = Len(ring), ~Trying
    PROVE  Ranked = ring
<1>1. Len(ring) \in Nat /\ ring \in Seq(Conns)
  BY LenProperties DEF TypeInv, TypeOK
<1> QED
  BY <1>1, TurnNone DEF Ranked, Trying

LEMMA RestsAgain ==
    ASSUME TypeInv', left' = 0 \/ left' = Len(ring'), pc' = "drain" => cur' = self'
    PROVE  Ranked' = ring'
<1>1. Len(ring') \in Nat /\ ring' \in Seq(Conns)
  BY LenProperties DEF TypeInv, TypeOK
<1> QED
  BY <1>1, TurnNone DEF Ranked

\* A client that leaves the ring leaves the line; the others keep their places.
LEMMA LeftTheRing ==
    ASSUME TypeInv, NEW c \in Conns, NoRepeat(ring), Ranked = ring,
           Ranked' = Without(ring, c), feq' = [feq EXCEPT ![c] = <<>>]
    PROVE  WaitingLine' = Only(WaitingLine, Conns \ {c})
<1> DEFINE R == Wanting \intersect (Conns \ {c})
           Q == Wanting'
<1>1. ring \in Seq(Conns)
  BY DEF TypeInv, TypeOK
<1>2. Only(WaitingLine, Conns \ {c}) = Only(ring, R)
  BY <1>1, OnlyTwice DEF WaitingLine
<1>3. (\A d \in Conns : d # c => (d \in Q <=> d \in R)) /\ c \notin R
  BY DEF Wanting, TypeInv, TypeOK
<1> HIDE DEF R, Q
<1>4. /\ Without(ring, c) \in Seq(Conns)
      /\ \A d : Contains(Without(ring, c), d) <=> Contains(ring, d) /\ d # c
  BY <1>1, RemoveFromRing
<1>5. \A d : Contains(Without(ring, c), d) => d \in Conns /\ d # c
  BY <1>1, <1>4, ElementOfSeq DEF Contains
<1>6. Only(Without(ring, c), Q) = Only(Without(ring, c), R)
  BY <1>3, <1>4, <1>5, OnlySame
<1>7. Only(Without(ring, c), R) = Only(ring, R)
  <2>1. CASE ~Contains(ring, c)
    BY <2>1 DEF Without
  <2>2. CASE Contains(ring, c)
    <3> DEFINE k == CHOOSE i \in 1 .. Len(ring) : ring[i] = c
               a == SubSeq(ring, 1, k - 1)
               b == SubSeq(ring, k + 1, Len(ring))
    <3>1. k \in 1 .. Len(ring) /\ ring[k] = c
      BY <2>2 DEF Contains
    <3>2. Without(ring, c) = a \o b
      BY <2>2 DEF Without, RemoveAt
    <3> HIDE DEF k
    <3>3. a \in Seq(Conns) /\ b \in Seq(Conns) /\ ring = (a \o <<c>>) \o b
      BY <1>1, <3>1, CutOut
    <3> HIDE DEF a, b
    <3> QED
      BY <1>3, <3>2, <3>3, OnlyDrop
  <2> QED
    BY <2>1, <2>2
<1> QED
  BY <1>2, <1>6, <1>7 DEF WaitingLine, Q

LEMMA ServesStep ==
    ASSUME TypeInv, SchedulerInv, LineInv, outages = 0, outages' = 0, [Next]_vars
    PROVE  Line!Next \/ UNCHANGED <<WaitingLine, be, group>>
<1> DEFINE Goal == Line!Next \/ UNCHANGED <<WaitingLine, be, group>>
<1>a. TypeInv' /\ SchedulerInv' /\ LineInv'
  BY TypeStep, SchedulerStep, LineStep
<1>b. /\ left <= Len(ring) /\ dbUp
      /\ pc = "loop" => left = 0 /\ ~Trying
      /\ pc = "drain" /\ cur = self => left = 0 /\ ~Trying
      /\ pc = "pass" => ~Trying
  BY DEF LineInv, PassOK, Tried, Trying, TypeInv, TypeOK
<1>c. Len(ring) \in Nat /\ (ring = <<>> => Len(ring) = 0)
  BY LenProperties, EmptySeq DEF TypeInv, TypeOK
<1>d. PassOver => left = 0
  BY <1>b, <1>c DEF PassOver, TypeInv, TypeOK
<1>e. \A d : Contains(Ranked, d) <=> Contains(ring, d) \/ (Trying /\ d = cur)
  BY <1>b, RankedParts
<1>f. \A d \in Conns : beWait[d] # "WAITING_POOL" => ~Contains(ring, d)
  BY DEF SchedulerInv, RingExact
<1>1. ASSUME NEW c \in Conns, NEW g \in Groups, Accept(c, g)
      PROVE  Goal
  <2>1. WaitingLine' = WaitingLine
    BY <1>1 DEF Accept, ctlVars, WaitingLine, Ranked, Wanting
  <2>2. Line!Connect(c, g)
    BY <1>1, <2>1 DEF Accept, Line!Connect, LineInv, FreeOK
  <2> QED
    BY <2>2 DEF Line!Next
<1>2. ASSUME NEW c \in Conns, NEW k \in Requests, FeEnqueue(c, k)
      PROVE  Goal
  <2>1. Ranked' = Ranked /\ pc = "loop" /\ UNCHANGED <<be, group>>
    BY <1>2 DEF FeEnqueue, ctlVars, Ranked
  <2>2. ASSUME NEW d \in Conns, Contains(Ranked, d)
        PROVE  d \in Wanting' <=> d \in Wanting
    <3>1. feq[d] # <<>> /\ feq[c] \in Seq(Requests)
      BY <1>b, <1>e, <2>1, <2>2 DEF SchedulerInv, RingExact, QueuedOK, TypeInv, TypeOK
    <3>2. CASE d = c
      <4>1. Head(Append(feq[c], k)) = Head(feq[c]) /\ Append(feq[c], k) # <<>>
        BY <3>1, <3>2, HeadTailAppend, AppendProperties
      <4>2. feq'[c] = Append(feq[c], k)
        BY <1>2 DEF FeEnqueue, TypeInv, TypeOK
      <4> QED
        BY <3>1, <3>2, <4>1, <4>2 DEF Wanting
    <3>3. CASE d # c
      BY <1>2, <3>3 DEF FeEnqueue, Wanting, TypeInv, TypeOK
    <3> QED
      BY <3>2, <3>3
  <2> QED
    BY <1>b, <2>1, <2>2, LineStays
<1>3. ASSUME NEW c \in Conns, FeBindStart(c)
      PROVE  Goal
  <2>1. PICK b \in Backends : Take(c, b)
    BY <1>3 DEF FeBindStart
  <2>2. /\ Ranked' = Ranked /\ Wanting' = Wanting /\ UNCHANGED group
        /\ pc = "loop" /\ state[c] # "FREE" /\ beWait[c] = "IDLE"
    BY <1>3 DEF FeBindStart, ctlVars, Ranked, Wanting
  <2>3. ~Contains(Ranked, c) /\ ~Contains(ring, c)
    BY <1>b, <1>e, <1>f, <2>2
  <2>4. WaitingLine' = Only(WaitingLine, Conns \ {c})
    BY <1>b, <2>2, <2>3, LineWithout
  <2>5. Line!Grant(c, b)
    BY <1>b, <2>1, <2>2, <2>3, <2>4, MayTake
  <2> QED
    BY <2>5 DEF Line!Next
<1>4. ASSUME NEW c \in Conns, NEW k \in Requests, FeBindPark(c, k)
      PROVE  Goal
  <2>1. /\ pc = "loop" /\ pc' = "loop" /\ left' = left /\ state[c] # "FREE"
        /\ beWait[c] = "IDLE" /\ UNCHANGED <<group, be>>
        /\ k = "bind" => NoneToTake(c)
    BY <1>4 DEF FeBindPark, NoneToTake, ctlVars
  <2>2. ~Contains(ring, c) /\ Ranked = ring /\ ring \in Seq(Conns)
    BY <1>b, <1>f, <2>1, AtRest DEF TypeInv, TypeOK
  <2>3. ring' = Append(ring, c)
    BY <1>4, <2>2 DEF FeBindPark, Park
  <2>4. Ranked' = Append(ring, c)
    BY <1>a, <1>b, <2>1, <2>3, RestsAgain
  <2>5. /\ feq' = [feq EXCEPT ![c] = Append(@, k)]
        /\ Append(feq[c], k) # <<>> /\ Head(Append(feq[c], k)) = k
    <3>1. feq[c] = <<>>
      BY <1>4 DEF FeBindPark, SchedulerInv, QueuedOK
    <3> QED
      BY <1>4, <3>1, HeadTailAppend, AppendProperties DEF FeBindPark
  <2>6. /\ c \in Wanting' <=> k = "bind"
        /\ \A d \in Conns : d # c => (d \in Wanting' <=> d \in Wanting)
    BY <2>5 DEF Wanting, TypeInv, TypeOK
  <2>7. Only(ring, Wanting') = WaitingLine
    <3> DEFINE Q == Wanting'
    <3>1. \A d : Contains(ring, d) => (d \in Q <=> d \in Wanting)
      BY <2>2, <2>6, ElementOfSeq DEF Contains
    <3> HIDE DEF Q
    <3>2. Only(ring, Q) = Only(ring, Wanting)
      BY <2>2, <3>1, OnlySame
    <3> QED
      BY <2>2, <3>2 DEF WaitingLine, Q
  <2>8. WaitingLine' = IF k = "bind" THEN Append(WaitingLine, c) ELSE WaitingLine
    <3> DEFINE Q == Wanting'
    <3>1. WaitingLine' = Only(Append(ring, c), Q)
      BY <2>4 DEF WaitingLine
    <3>2. (c \in Q <=> k = "bind") /\ Only(ring, Q) = WaitingLine
      BY <2>6, <2>7
    <3> HIDE DEF Q
    <3>3. Only(Append(ring, c), Q) = IF c \in Q THEN Append(Only(ring, Q), c) ELSE Only(ring, Q)
      BY <2>2, OnlyAppend
    <3> QED
      BY <3>1, <3>2, <3>3
  <2>9. CASE k = "bind"
    <3>1. Line!Join(c)
      BY <1>b, <2>1, <2>2, <2>8, <2>9, MayJoin
    <3> QED
      BY <3>1 DEF Line!Next
  <2> QED
    BY <2>1, <2>8, <2>9
<1>5. ASSUME NEW c \in Conns, FeQuery(c)
      PROVE  Goal
  BY <1>5 DEF FeQuery, connVars, ctlVars, WaitingLine, Ranked, Wanting
<1>6. ASSUME NEW c \in Conns, CloseIdle(c)
      PROVE  Goal
  <2>1. /\ pc = "loop" /\ pc' = "loop" /\ left' = left /\ ring' = Without(ring, c)
        /\ be[c] = None /\ be' = be /\ group' = [group EXCEPT ![c] = None]
        /\ feq' = [feq EXCEPT ![c] = <<>>]
    BY <1>6 DEF CloseIdle, ctlVars
  <2>2. Ranked = ring /\ Ranked' = Without(ring, c)
    BY <1>a, <1>b, <2>1, AtRest, RestsAgain
  <2>3. WaitingLine' = Only(WaitingLine, Conns \ {c})
    BY <2>1, <2>2, LeftTheRing DEF TypeInv
  <2>4. Line!Leave(c)
    BY <2>1, <2>3, SameFilter DEF Line!Leave
  <2> QED
    BY <2>4 DEF Line!Next
<1>7. ASSUME NEW c \in Conns, Finish(c, TRUE) \/ Finish(c, FALSE), pc = "loop", pc' = "pass",
             left' = Len(ring), ring' = ring, UNCHANGED group,
             \A d \in Conns : d # c => feq'[d] = feq[d],
             beWait[c] # "WAITING_POOL"
      PROVE  Goal
  <2>1. Ranked = ring /\ Ranked' = ring
    BY <1>a, <1>b, <1>7, AtRest, RestsAgain
  <2>2. WaitingLine' = WaitingLine
    <3>1. \A d \in Conns : Contains(Ranked, d) => (d \in Wanting' <=> d \in Wanting)
      BY <1>f, <1>7, <2>1 DEF Wanting
    <3> QED
      BY <1>b, <2>1, <3>1, LineStays
  <2>3. Line!Release(c)
    BY <1>7, <2>2 DEF Line!Release, Finish
  <2> QED
    BY <2>3 DEF Line!Next
<1>8. ASSUME NEW c \in Conns, CloseOwner(c)
      PROVE  Goal
  BY <1>7, <1>8 DEF CloseOwner, SchedulerInv, HoldingOK, InFlight
<1>9. ASSUME NEW c \in Conns, BeSent(c)
      PROVE  Goal
  BY <1>9 DEF BeSent, ctlVars, WaitingLine, Ranked, Wanting
<1>10. ASSUME NEW c \in Conns, NEW e \in BOOLEAN, BeComplete(c, e)
       PROVE  Goal
  <2>1. \A d \in Conns : d # c => feq'[d] = feq[d]
    BY <1>10 DEF BeComplete, TypeInv, TypeOK
  <2> QED
    BY <1>7, <1>10, <2>1 DEF BeComplete, Release
<1>11. ASSUME NEW c \in Conns, BeFail(c)
       PROVE  Goal
  BY <1>7, <1>11 DEF BeFail, Release
<1>12. CASE PassNext
  BY <1>12, NextRanked DEF PassNext
<1>13. CASE PassResume
  <2>1. /\ left = 0 /\ left' = 0 /\ ~Trying /\ ring' = ring /\ pc' = "drain" => cur' = self'
        /\ UNCHANGED <<be, group, feq>>
    BY <1>b, <1>d, <1>13 DEF PassResume, connVars
  <2> QED
    BY <1>a, <1>b, <1>d, <1>13, AtRest, RestsAgain DEF PassResume, connVars, WaitingLine, Wanting
<1>14. CASE CloseDone
  <2>1. /\ pc = "pass" /\ left = 0 /\ left' = 0 /\ ~Trying /\ ring' = ring /\ pc' = "loop"
        /\ feq' = [feq EXCEPT ![self] = <<>>] /\ group' = [group EXCEPT ![self] = None]
        /\ be' = be /\ be[self] = None /\ self \in Conns /\ beWait[self] # "WAITING_POOL"
    BY <1>b, <1>d, <1>14
       DEF CloseDone, SchedulerInv, ControlOK, InFlight, TypeInv, TypeOK
  <2>2. Ranked = ring /\ Ranked' = ring
    BY <1>a, <2>1, AtRest, RestsAgain
  <2>3. ~Contains(ring, self)
    BY <1>f, <2>1
  <2>4. \A d \in Conns : d # self => (d \in Wanting' <=> d \in Wanting)
    BY <2>1 DEF Wanting, TypeInv, TypeOK
  <2>5. WaitingLine' = Only(WaitingLine, Conns \ {self})
    BY <1>b, <2>1, <2>2, <2>3, <2>4, LineWithout
  <2>6. Line!Leave(self)
    BY <2>1, <2>5, SameFilter DEF Line!Leave
  <2> QED
    BY <2>1, <2>6 DEF Line!Next
<1>15. CASE DrainLocal
  <2>1. /\ cur = self /\ self \in Conns /\ pc = "drain" /\ beWait[self] = "IDLE"
        /\ feq' = [feq EXCEPT ![self] = Tail(@)] /\ UNCHANGED <<be, group>> /\ Ranked' = Ranked
    BY <1>15 DEF DrainLocal, DrainHead, SchedulerInv, ControlOK, ctlVars, Ranked, TypeInv, TypeOK
  <2>2. \A d \in Conns : Contains(Ranked, d) => (d \in Wanting' <=> d \in Wanting)
    BY <1>b, <1>e, <1>f, <2>1 DEF Wanting, TypeInv, TypeOK
  <2> QED
    BY <1>b, <2>1, <2>2, LineStays
<1>16. CASE DrainEmpty
  <2>1. /\ cur = self /\ pc = "drain" /\ pc' = "loop" /\ left' = left /\ ring' = ring
        /\ UNCHANGED <<be, group, feq>>
    BY <1>16 DEF DrainEmpty, DrainReturn, SchedulerInv, ControlOK, connVars
  <2>2. Ranked = ring /\ Ranked' = ring
    BY <1>a, <1>b, <2>1, AtRest, RestsAgain
  <2> QED
    BY <2>1, <2>2 DEF WaitingLine, Wanting
<1>17. CASE DrainBindStart
  <2>0. PICK b \in Backends : Take(cur, b)
    BY <1>17 DEF DrainBindStart
  <2>1. cur \in Conns /\ pc = "drain"
    BY <1>17 DEF DrainBindStart, DrainHead, TypeInv, TypeOK
  <2>2. CASE Trying
    <3>1. Line!Grant(cur, b)
      BY <1>17, <2>0, <2>2, TriedTakes
    <3> QED
      BY <2>1, <3>1 DEF Line!Next
  <2>3. CASE ~Trying
    <3>1. /\ cur = self /\ left = 0 /\ left' = 0 /\ pc' = "loop" /\ ring' = ring
          /\ state[cur] # "FREE" /\ beWait[cur] = "IDLE" /\ UNCHANGED group
          /\ feq' = [feq EXCEPT ![cur] = Tail(@)]
      BY <1>b, <1>17, <2>1, <2>3 DEF Trying, DrainBindStart, DrainReturn, LineInv, PassOK,
         SchedulerInv, ControlOK
    <3>2. Ranked = ring /\ Ranked' = ring /\ ~Contains(ring, cur)
      BY <1>a, <1>f, <2>1, <2>3, <3>1, AtRest, RestsAgain
    <3>3. \A d \in Conns : d # cur => (d \in Wanting' <=> d \in Wanting)
      BY <2>1, <3>1 DEF Wanting, TypeInv, TypeOK
    <3>4. WaitingLine' = Only(WaitingLine, Conns \ {cur})
      BY <1>b, <2>1, <3>2, <3>3, LineWithout
    <3>5. Line!Grant(cur, b)
      BY <2>0, <2>1, <2>3, <3>1, <3>2, <3>4, MayTake
    <3> QED
      BY <2>1, <3>5 DEF Line!Next
  <2> QED
    BY <2>2, <2>3
<1>18. CASE DrainBindPark
  <2>1. cur \in Conns /\ UNCHANGED <<be, group>>
    BY <1>18 DEF DrainBindPark, DrainHead, NoneToTake, TypeInv, TypeOK
  <2> QED
    BY <1>18, <2>1, ParkRanked DEF Line!Next
<1>19. CASE Maintain
  BY <1>19 DEF Maintain, connVars, ctlVars, WaitingLine, Ranked, Wanting
<1>20. CASE DbDown
  BY <1>20 DEF DbDown, connVars, ctlVars, WaitingLine, Ranked, Wanting
<1>21. CASE DbRecover
  BY <1>21 DEF DbRecover, connVars, ctlVars, WaitingLine, Ranked, Wanting
<1>22. CASE UNCHANGED vars
  BY <1>22 DEF vars, connVars, ctlVars, WaitingLine, Ranked, Wanting
<1>23. ASSUME NEW c \in Conns, Client(c)
       PROVE  Goal
  BY <1>1, <1>2, <1>3, <1>4, <1>5, <1>6, <1>8, <1>23 DEF Client
<1>24. ASSUME NEW c \in Conns, Backend(c)
       PROVE  Goal
  BY <1>9, <1>10, <1>11, <1>24 DEF Backend
<1>25. Goal
  BY <1>12, <1>13, <1>14, <1>15, <1>16, <1>17, <1>18, <1>19, <1>20, <1>21, <1>22,
     <1>23, <1>24 DEF Next, Pass, Drain
<1> QED
  BY <1>25 DEF Goal

\* As long as Postgres stays up, the ring, the passes over it and the queues
\* behind it serve the clients in the order in which their Binds were parked: no
\* newcomer and no releasing client takes a backend that somebody ahead could use.
THEOREM FirstServed == Spec /\ [](outages = 0) => FirstComeFirstServed
<1>1. Init => Line!Init
  <2> SUFFICES ASSUME Init
               PROVE  Line!Init
    OBVIOUS
  <2>1. TypeInv /\ left = 0 /\ ring = <<>> /\ ~Trying
    BY TypeInit DEF Init, Trying
  <2>2. Ranked = <<>>
    BY <2>1, AtRest
  <2> QED
    BY <2>2, OnlyEmpty DEF Line!Init, WaitingLine, Init
<1>2. TypeInv /\ SchedulerInv /\ LineInv /\ outages = 0 /\ (outages = 0)'
        /\ [Next]_vars => [Line!Next]_(Line!vars)
  BY ServesStep DEF Line!vars
<1> QED
  BY <1>1, <1>2, LineAlways, PTL DEF Spec, FirstComeFirstServed, Line!Spec

=============================================================================
