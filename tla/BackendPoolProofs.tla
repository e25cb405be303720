-------------------------- MODULE BackendPoolProofs --------------------------
(****************************************************************************)
(* Ownership, tenant isolation, recovery and cleanness of the pool, for any *)
(* number of slots, callers and groups and any warm-up.                     *)
(****************************************************************************)
EXTENDS BackendPool, DataLemmas

\* mark_dead leaves a checked out slot for dead, and a lazy login takes dead
\* slots: the two may not be used together (MCBackendPool_markdead).
SoundUse == MarkDeadUsed => ~(UseGroupAsUser /\ LazyConnect)

PoolInv ==
    /\ TypeOK
    /\ OneOwner
    /\ TenantIsolation
    /\ ~MarkDeadUsed => Recoverable

-----------------------------------------------------------------------------
(* The scan of the slots.                                                   *)

\* The distance of a slot from the cursor is a natural number.
LEMMA DistIsNat ==
    ASSUME rr \in Slots
    PROVE  \A s \in Slots : Dist(s) \in Nat
<1>1. N \in Nat \ {0}
  BY PoolAssumption
<1>2. \A x \in Int : x % N \in Nat
  BY <1>1
<1> QED
  BY <1>1, <1>2 DEF Dist, Slots

\* The scan finds a slot whenever there is one of the kind it looks for.
LEMMA NearestIsOne ==
    ASSUME NEW S \in SUBSET Slots, S # {}, rr \in Slots
    PROVE  Nearest(S) \in S
<1> DEFINE Reached == {Dist(s) : s \in S}
<1>1. \A s \in S : Dist(s) \in Nat
  BY DistIsNat
<1>2. Reached \subseteq Nat /\ Reached # {}
  BY <1>1
<1> HIDE DEF Reached
<1>3. PICK d \in Reached : \A e \in Reached : d <= e
  BY <1>2, LeastNatural
<1>4. \E s \in S : \A t \in S : Dist(s) <= Dist(t)
  BY <1>3 DEF Reached
<1> QED
  BY <1>4 DEF Nearest

\* The cursor stays within the pool, and a slot does not come before itself.
LEMMA CursorWraps ==
    ASSUME rr \in Slots
    PROVE  /\ \A s \in Slots : (s + 1) % N \in Slots
           /\ \A S \in SUBSET Slots, s \in Slots : s \notin Before(S, s)
<1>1. \A s \in Slots : (s + 1) % N \in Slots
  <2>1. N \in Nat \ {0}
    BY PoolAssumption
  <2> QED
    BY <2>1 DEF Slots
<1>2. \A s \in Slots : Dist(s) \in Nat
  BY DistIsNat
<1> QED
  BY <1>1, <1>2 DEF Before

-----------------------------------------------------------------------------
(* Giving a slot away and taking it back.                                   *)

\* A slot that is free is the caller's alone from now on.
LEMMA GiveIsExclusive ==
    ASSUME PoolInv, NEW f \in Callers, NEW g \in Groups, NEW s \in Slots,
           holder[f] = None, s \notin busy, Give(f, g, s)
    PROVE  /\ OneOwner'
           /\ busy' \subseteq Slots
           /\ rr' \in Slots
           /\ want' \in [Callers -> Groups \union {None}]
           /\ holder' \in [Callers -> Slots \union {None}]
           /\ sync' \in Callers \union {None}
           /\ holder'[f] = s /\ want'[f] = g
           /\ \A h \in Callers \ {f} : /\ holder'[h] = holder[h]
                                       /\ want'[h] = want[h]
                                       /\ holder[h] # s
<1>1. s # None
  BY PoolAssumption
<1>2. \A h \in Callers : holder[h] # s
  BY <1>1 DEF PoolInv, OneOwner
<1>3. /\ busy' = busy \union {s}
      /\ holder' = [holder EXCEPT ![f] = s]
      /\ want' = [want EXCEPT ![f] = g]
      /\ rr' = (s + 1) % N
      /\ sync' \in Callers \union {None}
  BY DEF Give
<1>4. /\ busy' \subseteq Slots
      /\ want' \in [Callers -> Groups \union {None}]
      /\ holder' \in [Callers -> Slots \union {None}]
  BY <1>3 DEF PoolInv, TypeOK
<1>5. holder'[f] = s /\ want'[f] = g
  BY <1>3 DEF PoolInv, TypeOK
<1>6. \A h \in Callers \ {f} : holder'[h] = holder[h] /\ want'[h] = want[h]
  BY <1>3 DEF PoolInv, TypeOK
<1>7. busy' = {holder'[h] : h \in Callers} \ {None}
  BY <1>1, <1>3, <1>5, <1>6 DEF PoolInv, OneOwner
<1>8. ASSUME NEW h \in Callers, NEW k \in Callers,
             holder'[h] = holder'[k], holder'[h] # None
      PROVE  h = k
  BY <1>2, <1>5, <1>6, <1>8 DEF PoolInv, OneOwner
<1>9. rr' \in Slots
  BY <1>3, CursorWraps DEF PoolInv, TypeOK
<1> QED
  BY <1>2, <1>3, <1>4, <1>5, <1>6, <1>7, <1>8, <1>9 DEF OneOwner

\* A slot checked in is nobody's.
LEMMA DropFreesSlot ==
    ASSUME PoolInv, NEW f \in Callers, holder[f] # None, Drop(f)
    PROVE  /\ OneOwner'
           /\ busy' = busy \ {holder[f]}
           /\ busy' \subseteq Slots
           /\ want' \in [Callers -> Groups \union {None}]
           /\ holder' \in [Callers -> Slots \union {None}]
           /\ holder'[f] = None
           /\ \A h \in Callers \ {f} : holder'[h] = holder[h] /\ want'[h] = want[h]
<1>1. /\ busy' = busy \ {holder[f]}
      /\ holder' = [holder EXCEPT ![f] = None]
      /\ want' = [want EXCEPT ![f] = None]
  BY DEF Drop
<1>2. /\ busy' \subseteq Slots
      /\ want' \in [Callers -> Groups \union {None}]
      /\ holder' \in [Callers -> Slots \union {None}]
  BY <1>1 DEF PoolInv, TypeOK
<1>3. holder'[f] = None
  BY <1>1 DEF PoolInv, TypeOK
<1>4. \A h \in Callers \ {f} : holder'[h] = holder[h] /\ want'[h] = want[h]
  BY <1>1 DEF PoolInv, TypeOK
<1>5. \A h \in Callers \ {f} : holder[h] = holder[f] => holder[h] = None
  BY DEF PoolInv, OneOwner
<1>6. busy' = {holder'[h] : h \in Callers} \ {None}
  BY <1>1, <1>3, <1>4, <1>5 DEF PoolInv, OneOwner
<1>7. ASSUME NEW h \in Callers, NEW k \in Callers,
             holder'[h] = holder'[k], holder'[h] # None
      PROVE  h = k
  BY <1>3, <1>4, <1>7 DEF PoolInv, OneOwner
<1> QED
  BY <1>1, <1>2, <1>3, <1>4, <1>6, <1>7 DEF OneOwner

-----------------------------------------------------------------------------
(* One step. The pool's sockets are sets of slots throughout.               *)

SocketTypes ==
    /\ alive \subseteq Slots
    /\ nonblock \subseteq Slots
    /\ gone \subseteq Slots
    /\ unread \subseteq Slots
    /\ behind \subseteq Slots

\* A slot tried is one the group may have, and it is alive when handed over.
LEMMA TrySlotSafe ==
    ASSUME PoolInv, NEW f \in Callers, NEW g \in Groups,
           NEW R \in SUBSET Rewarmable, NEW s \in Idle(alive \union R),
           NEW D \in SUBSET Idle(alive \union R), s \notin D,
           holder[f] = None, UseGroupAsUser => login[s] = g,
           TrySlot(f, g, s, R, D)
    PROVE  PoolInv'
<1>1. /\ R \subseteq Slots /\ R \intersect busy = {}
      /\ \A r \in R : login[r] # None
      /\ D \subseteq Slots /\ D \intersect busy = {}
      /\ s \in Slots /\ s \notin busy /\ s \in alive \union R
  BY DEF PoolInv, TypeOK, Rewarmable, Idle
<1>2. /\ Give(f, g, s)
      /\ UNCHANGED login
      /\ alive' = (alive \union R) \ D
  BY DEF TrySlot
<1>3. SocketTypes'
  BY <1>1 DEF TrySlot, Opened, PoolInv, TypeOK, SocketTypes
<1>4. /\ OneOwner'
      /\ busy' \subseteq Slots
      /\ rr' \in Slots
      /\ want' \in [Callers -> Groups \union {None}]
      /\ holder' \in [Callers -> Slots \union {None}]
      /\ sync' \in Callers \union {None}
      /\ holder'[f] = s /\ want'[f] = g
      /\ \A h \in Callers \ {f} : holder'[h] = holder[h] /\ want'[h] = want[h]
  BY <1>1, <1>2, GiveIsExclusive
<1>5. TypeOK'
  BY <1>2, <1>3, <1>4 DEF PoolInv, TypeOK, SocketTypes
<1>6. TenantIsolation'
  BY <1>2, <1>4 DEF PoolInv, TenantIsolation
<1>7. ~MarkDeadUsed => Recoverable'
  BY <1>1, <1>2 DEF PoolInv, Recoverable, Give
<1> QED
  BY <1>4, <1>5, <1>6, <1>7 DEF PoolInv

\* A lazy login goes to a dead slot, and with SoundUse no caller holds one.
LEMMA LazySafe ==
    ASSUME SoundUse, PoolInv, NEW f \in Callers, NEW g \in Groups,
           NEW R \in SUBSET Rewarmable, holder[f] = None, CheckoutLazy(f, g, R)
    PROVE  PoolInv'
<1> DEFINE own == {s \in Idle(alive \union R) : login[s] = g}
           dead == Slots \ ((alive \union R) \ own)
           s == Nearest(dead)
<1>1. /\ UseGroupAsUser /\ LazyConnect
      /\ dead # {}
      /\ Opened(R \union own \union {s})
      /\ alive' = ((alive \union R) \ own) \union {s}
      /\ login' = [login EXCEPT ![s] = g]
      /\ Give(f, g, s)
  BY DEF CheckoutLazy
<1>2. ~MarkDeadUsed /\ Recoverable
  BY <1>1 DEF SoundUse, PoolInv
<1>3. R \subseteq Slots /\ R \intersect busy = {} /\ \A r \in R : login[r] # None
  BY DEF Rewarmable
<1>4. own \subseteq Slots /\ own \intersect busy = {}
  BY <1>3 DEF Idle, PoolInv, TypeOK
<1>5. dead \intersect busy = {}
  BY <1>2, <1>4 DEF Recoverable
<1> HIDE DEF own
<1>6. s \in dead
  BY <1>1, NearestIsOne DEF PoolInv, TypeOK
<1>7. s \in Slots /\ s \notin busy
  BY <1>5, <1>6
<1> HIDE DEF s, dead
<1>8. SocketTypes'
  BY <1>1, <1>3, <1>7 DEF Opened, PoolInv, TypeOK, SocketTypes
<1>9. /\ OneOwner'
      /\ busy' \subseteq Slots
      /\ rr' \in Slots
      /\ want' \in [Callers -> Groups \union {None}]
      /\ holder' \in [Callers -> Slots \union {None}]
      /\ sync' \in Callers \union {None}
      /\ holder'[f] = s /\ want'[f] = g
      /\ \A h \in Callers \ {f} : /\ holder'[h] = holder[h]
                                  /\ want'[h] = want[h]
                                  /\ holder[h] # s
  BY <1>1, <1>7, GiveIsExclusive
<1>10. /\ login' \in [Slots -> Users \union {None}]
       /\ login'[s] = g /\ g # None
       /\ \A t \in Slots \ {s} : login'[t] = login[t]
  BY <1>1, <1>7, PoolAssumption DEF PoolInv, TypeOK, Users
<1>11. TypeOK'
  BY <1>8, <1>9, <1>10 DEF TypeOK, SocketTypes
<1>12. TenantIsolation'
  BY <1>9, <1>10 DEF PoolInv, TypeOK, TenantIsolation
<1>13. Recoverable'
  <2>1. busy' = busy \union {s}
    BY <1>1 DEF Give
  <2>2. busy' \subseteq alive'
    BY <1>1, <1>2, <1>4, <2>1 DEF Recoverable
  <2>3. \A t \in alive' : login'[t] # None
    BY <1>1, <1>2, <1>3, <1>10 DEF Recoverable, PoolInv, TypeOK
  <2> QED
    BY <2>2, <2>3 DEF Recoverable
<1> QED
  BY <1>9, <1>11, <1>12, <1>13 DEF PoolInv

\* A refusal closes idle slots only, and at most renames a slot nobody holds.
LEMMA RefusedSafe ==
    ASSUME SoundUse, PoolInv, NEW f \in Callers, NEW g \in Groups,
           NEW R \in SUBSET Rewarmable, holder[f] = None, CheckoutRefused(f, g, R)
    PROVE  PoolInv'
<1> DEFINE idle == Idle(alive \union R)
           own == {s \in idle : login[s] = g}
           dead == Slots \ ((alive \union R) \ own)
           lost == IF UseGroupAsUser \/ idle \ own = {}
                   THEN {} ELSE {Nearest(idle \ own)}
           s == Nearest(dead)
<1>1. /\ alive' = (alive \union R) \ (own \union lost)
      /\ Opened(R \union own \union lost)
      /\ \/ UNCHANGED login
         \/ UseGroupAsUser /\ LazyConnect /\ dead # {} /\ login' = [login EXCEPT ![s] = g]
      /\ want' = [want EXCEPT ![f] = g]
      /\ UNCHANGED <<busy, rr, holder, sync>>
  BY DEF CheckoutRefused
<1>2. R \subseteq Slots /\ R \intersect busy = {} /\ \A r \in R : login[r] # None
  BY DEF Rewarmable
<1>3. idle \subseteq Slots /\ idle \intersect busy = {}
  BY <1>2 DEF Idle, PoolInv, TypeOK
<1> HIDE DEF idle
<1>4. own \subseteq Slots /\ own \intersect busy = {}
  BY <1>3
<1>5. lost \subseteq Slots /\ lost \intersect busy = {}
  BY <1>3, NearestIsOne DEF PoolInv, TypeOK
<1> HIDE DEF own, lost
<1>6. UseGroupAsUser /\ LazyConnect /\ dead # {} => s \in Slots /\ s \notin busy
  <2> SUFFICES ASSUME UseGroupAsUser, LazyConnect, dead # {}
               PROVE  s \in Slots /\ s \notin busy
    OBVIOUS
  <2>1. s \in dead
    BY NearestIsOne DEF PoolInv, TypeOK
  <2>2. busy \subseteq alive
    BY DEF SoundUse, PoolInv, Recoverable
  <2> QED
    BY <1>4, <2>1, <2>2
<1> HIDE DEF s, dead
<1>7. SocketTypes'
  BY <1>1, <1>2, <1>4, <1>5 DEF Opened, PoolInv, TypeOK, SocketTypes
<1>8. /\ login' \in [Slots -> Users \union {None}]
      /\ \A t \in Slots : login'[t] = login[t] \/ (t \notin busy /\ login'[t] # None)
  BY <1>1, <1>6, PoolAssumption DEF PoolInv, TypeOK, Users
<1>9. /\ want' \in [Callers -> Groups \union {None}]
      /\ \A h \in Callers : holder[h] # None => want'[h] = want[h]
  BY <1>1 DEF PoolInv, TypeOK
<1>10. TypeOK'
  BY <1>1, <1>7, <1>8, <1>9 DEF PoolInv, TypeOK, SocketTypes
<1>11. OneOwner'
  BY <1>1 DEF PoolInv, OneOwner
<1>12. TenantIsolation'
  <2>1. \A h \in Callers : holder[h] # None => holder[h] \in Slots \intersect busy
    BY DEF PoolInv, TypeOK, OneOwner
  <2> QED
    BY <1>1, <1>8, <1>9, <2>1 DEF PoolInv, TenantIsolation
<1>13. ~MarkDeadUsed => Recoverable'
  BY <1>1, <1>2, <1>4, <1>5, <1>8 DEF PoolInv, TypeOK, Recoverable
<1> QED
  BY <1>10, <1>11, <1>12, <1>13 DEF PoolInv

\* However a checkout ends, the pool is sound.
LEMMA CheckoutSafe ==
    ASSUME SoundUse, PoolInv, NEW f \in Callers, NEW g \in Groups, Checkout(f, g)
    PROVE  PoolInv'
<1>1. PICK R \in SUBSET Rewarmable :
         \/ CheckoutOwn(f, g, R) \/ CheckoutAny(f, g, R)
         \/ CheckoutLazy(f, g, R) \/ CheckoutRefused(f, g, R)
  BY DEF Checkout
<1>2. holder[f] = None
  BY DEF Checkout
<1>3. CASE CheckoutOwn(f, g, R)
  <2> DEFINE own == {s \in Idle(alive \union R) : login[s] = g}
  <2>1. PICK s \in own : TrySlot(f, g, s, R, Before(own, s))
    BY <1>3 DEF CheckoutOwn
  <2>2. own \subseteq Slots
    BY DEF Idle, Rewarmable, PoolInv, TypeOK
  <2>3. /\ Before(own, s) \in SUBSET Idle(alive \union R)
        /\ s \notin Before(own, s)
    BY <2>2, CursorWraps DEF Before, PoolInv, TypeOK
  <2> QED
    BY <1>2, <2>1, <2>3, TrySlotSafe
<1>4. CASE CheckoutAny(f, g, R)
  <2> DEFINE idle == Idle(alive \union R)
             own == {s \in idle : login[s] = g}
             s == Nearest(idle \ own)
  <2>1. /\ ~UseGroupAsUser
        /\ idle \ own # {}
        /\ TrySlot(f, g, s, R, own)
    BY <1>4 DEF CheckoutAny
  <2>2. idle \subseteq Slots
    BY DEF Idle, Rewarmable, PoolInv, TypeOK
  <2>3. s \in idle \ own
    BY <2>1, <2>2, NearestIsOne DEF PoolInv, TypeOK
  <2> HIDE DEF s
  <2> QED
    BY <1>2, <2>1, <2>3, TrySlotSafe
<1>5. CASE CheckoutLazy(f, g, R)
  BY <1>2, <1>5, LazySafe
<1>6. CASE CheckoutRefused(f, g, R)
  BY <1>2, <1>6, RefusedSafe
<1> QED
  BY <1>1, <1>3, <1>4, <1>5, <1>6

\* However an exchange ends, the slot is checked in and no other is touched.
LEMMA DropSafe ==
    ASSUME PoolInv, NEW f \in Callers, holder[f] # None, Drop(f),
           UNCHANGED <<login, rr>>, SocketTypes', sync' \in Callers \union {None},
           alive \ {holder[f]} \subseteq alive',
           alive' \subseteq alive \union {holder[f]}
    PROVE  PoolInv'
<1>1. /\ OneOwner'
      /\ busy' = busy \ {holder[f]}
      /\ busy' \subseteq Slots
      /\ want' \in [Callers -> Groups \union {None}]
      /\ holder' \in [Callers -> Slots \union {None}]
      /\ holder'[f] = None
      /\ \A h \in Callers \ {f} : holder'[h] = holder[h] /\ want'[h] = want[h]
  BY DropFreesSlot
<1>2. TypeOK'
  BY <1>1 DEF PoolInv, TypeOK, SocketTypes
<1>3. TenantIsolation'
  BY <1>1 DEF PoolInv, TenantIsolation
<1>4. ~MarkDeadUsed => Recoverable'
  <2>1. holder[f] \in busy
    BY DEF PoolInv, OneOwner
  <2> QED
    BY <1>1, <2>1 DEF PoolInv, Recoverable
<1> QED
  BY <1>1, <1>2, <1>3, <1>4 DEF PoolInv

-----------------------------------------------------------------------------
(* The invariant.                                                           *)

LEMMA PoolInit == Init => PoolInv
<1> SUFFICES ASSUME Init PROVE PoolInv
  OBVIOUS
<1>1. 0 \in Slots
  BY PoolAssumption DEF Slots
<1>2. TypeOK
  BY <1>1 DEF Init, TypeOK
<1>3. OneOwner /\ TenantIsolation
  BY DEF Init, OneOwner, TenantIsolation
<1>4. Recoverable
  BY DEF Init, Recoverable
<1> QED
  BY <1>2, <1>3, <1>4 DEF PoolInv

LEMMA PoolStep == SoundUse /\ PoolInv /\ [Next]_vars => PoolInv'
<1> SUFFICES ASSUME SoundUse, PoolInv, [Next]_vars
             PROVE  PoolInv'
  OBVIOUS
<1>s. None \notin Slots
  BY PoolAssumption
<1>1. CASE \E f \in Callers : Use(f)
  <2>f. PICK f \in Callers : Use(f)
    BY <1>1
  <2>1. CASE \E g \in Groups : Checkout(f, g)
    BY <2>1, CheckoutSafe
  <2>2. CASE CheckinUnsent(f)
    <3>1. holder[f] # None /\ SocketTypes' /\ sync' = None
      BY <1>s, <2>2 DEF CheckinUnsent, sockets, SocketTypes, PoolInv, TypeOK
    <3> QED
      BY <2>2, <3>1, DropSafe DEF CheckinUnsent, sockets
  <2>3. CASE SendPipeline(f)
    <3>1. TypeOK'
      BY <2>3 DEF SendPipeline, calls, PoolInv, TypeOK
    <3>2. OneOwner' /\ TenantIsolation' /\ (~MarkDeadUsed => Recoverable')
      BY <2>3 DEF SendPipeline, calls, PoolInv, OneOwner, TenantIsolation, Recoverable
    <3> QED
      BY <3>1, <3>2 DEF PoolInv
  <2>4. CASE FinishOk(f)
    <3>1. holder[f] # None /\ SocketTypes' /\ sync' \in Callers \union {None}
      BY <1>s, <2>4 DEF FinishOk, SocketTypes, PoolInv, TypeOK
    <3> QED
      BY <2>4, <3>1, DropSafe DEF FinishOk
  <2>5. CASE FinishFailed(f)
    <3>1. holder[f] \in Slots /\ SocketTypes' /\ sync' \in Callers \union {None}
      BY <2>5 DEF FinishFailed, Opened, SocketTypes, PoolInv, TypeOK
    <3> QED
      BY <2>5, <3>1, DropSafe DEF FinishFailed
  <2>6. CASE GiveUp(f)
    <3>1. TypeOK'
      BY <2>6 DEF GiveUp, sockets, PoolInv, TypeOK
    <3>2. OneOwner' /\ (~MarkDeadUsed => Recoverable')
      BY <2>6 DEF GiveUp, sockets, PoolInv, OneOwner, Recoverable
    <3>3. TenantIsolation'
      BY <2>6 DEF GiveUp, PoolInv, TypeOK, TenantIsolation
    <3> QED
      BY <3>1, <3>2, <3>3 DEF PoolInv
  <2>7. CASE SyncDone(f)
    <3>1. holder[f] # None /\ SocketTypes' /\ sync' = None
      BY <1>s, <2>7 DEF SyncDone, sockets, SocketTypes, PoolInv, TypeOK
    <3> QED
      BY <2>7, <3>1, DropSafe DEF SyncDone, sockets
  <2>8. CASE SyncFail(f)
    <3>1. holder[f] # None /\ SocketTypes' /\ sync' = None
      BY <1>s, <2>8 DEF SyncFail, SocketTypes, PoolInv, TypeOK
    <3> QED
      BY <2>8, <3>1, DropSafe DEF SyncFail
  <2>9. CASE SyncGivesUp(f)
    <3>1. holder[f] # None /\ SocketTypes' /\ sync' = None
      BY <1>s, <2>9 DEF SyncGivesUp, SocketTypes, PoolInv, TypeOK
    <3> QED
      BY <2>9, <3>1, DropSafe DEF SyncGivesUp
  <2>10. CASE MarkDead(f)
    <3>1. TypeOK'
      BY <2>10 DEF MarkDead, Opened, calls, PoolInv, TypeOK
    <3>2. OneOwner' /\ TenantIsolation' /\ MarkDeadUsed
      BY <2>10 DEF MarkDead, calls, PoolInv, OneOwner, TenantIsolation
    <3> QED
      BY <3>1, <3>2 DEF PoolInv
  <2> QED
    BY <2>f, <2>1, <2>2, <2>3, <2>4, <2>5, <2>6, <2>7, <2>8, <2>9, <2>10 DEF Use
<1>2. CASE Maintain
  <2>1. PICK R \in SUBSET Rewarmable : alive' = alive \union R /\ Opened(R)
    BY <1>2 DEF Maintain
  <2>2. UNCHANGED <<busy, login, rr, want, holder, sync>>
    BY <1>2 DEF Maintain, calls
  <2>3. R \subseteq Slots /\ \A r \in R : login[r] # None
    BY DEF Rewarmable
  <2>4. TypeOK'
    BY <2>1, <2>2, <2>3 DEF Opened, PoolInv, TypeOK
  <2>5. OneOwner' /\ TenantIsolation' /\ (~MarkDeadUsed => Recoverable')
    BY <2>1, <2>2, <2>3 DEF PoolInv, OneOwner, TenantIsolation, Recoverable
  <2> QED
    BY <2>4, <2>5 DEF PoolInv
<1>3. CASE \E s \in Slots : ServerDrops(s)
  <2>1. UNCHANGED <<alive, nonblock, unread, behind, busy, login, rr, want, holder, sync>>
    BY <1>3 DEF ServerDrops, calls
  <2>2. TypeOK'
    BY <1>3, <2>1 DEF ServerDrops, PoolInv, TypeOK
  <2>3. OneOwner' /\ TenantIsolation' /\ (~MarkDeadUsed => Recoverable')
    BY <2>1 DEF PoolInv, OneOwner, TenantIsolation, Recoverable
  <2> QED
    BY <2>2, <2>3 DEF PoolInv
<1>4. CASE UNCHANGED vars
  <2>1. UNCHANGED <<alive, nonblock, gone, unread, behind, busy, login, rr, want, holder, sync>>
    BY <1>4 DEF vars, sockets, calls
  <2> QED
    BY <2>1 DEF PoolInv, TypeOK, OneOwner, TenantIsolation, Recoverable
<1> QED
  BY <1>1, <1>2, <1>3, <1>4 DEF Next

LEMMA PoolAlways == SoundUse => (Spec => []PoolInv)
<1> SUFFICES ASSUME SoundUse PROVE Spec => []PoolInv
  OBVIOUS
<1>1. PoolInv /\ [Next]_vars => PoolInv'
  BY PoolStep
<1> QED
  BY PoolInit, <1>1, PTL DEF Spec

\* Every checked out slot has exactly one holder, through checkouts, lazy
\* logins, failures and reconnects (busy, be_slot), as long as lazy logins and
\* mark_dead are not both in use.
THEOREM SlotsExclusive == SoundUse => (Spec => []OneOwner)
<1>1. PoolInv => OneOwner
  BY DEF PoolInv
<1> QED
  BY <1>1, PoolAlways, PTL

\* With use_group_as_user a caller only ever holds a session logged in as its
\* own tenant group, although a lazy login may give any dead slot another login.
THEOREM TenantsIsolated == SoundUse => (Spec => []TenantIsolation)
<1>1. PoolInv => TenantIsolation
  BY DEF PoolInv
<1> QED
  BY <1>1, PoolAlways, PTL

\* Unless holders mark slots dead, no slot in use is dead and every live slot
\* has a login that maintain can bring back.
THEOREM SessionsRecoverable == ~MarkDeadUsed => (Spec => []Recoverable)
<1> SUFFICES ASSUME ~MarkDeadUsed PROVE Spec => []Recoverable
  OBVIOUS
<1>1. PoolInv => Recoverable
  BY DEF PoolInv
<1>2. SoundUse
  BY DEF SoundUse
<1> QED
  BY <1>1, <1>2, PoolAlways, PTL

-----------------------------------------------------------------------------
(* Clean sessions. A blocking exchange ends with the session idle at once,   *)
(* so the session must have been clean, or been given up, all through it.   *)

Dirty == unread \ behind

CleanInv ==
    /\ DirtyOnlyIfGivenUp
    /\ sync # None => holder[sync] \in Slots \ Dirty

\* A slot handed over was idle, or has just been opened.
LEMMA TrySlotClean ==
    ASSUME PoolInv, CleanInv, NEW f \in Callers, NEW g \in Groups,
           NEW R \in SUBSET Rewarmable, NEW s \in Idle(alive \union R),
           NEW D, TrySlot(f, g, s, R, D)
    PROVE  CleanInv'
<1>1. /\ Dirty' \subseteq Dirty \ (R \union D)
      /\ alive' = (alive \union R) \ D
      /\ busy' = busy \union {s}
      /\ sync' \in {None, f}
  BY DEF TrySlot, Opened, Give, Dirty
<1>2. s \in Slots /\ holder'[f] = s
  BY DEF TrySlot, Give, PoolInv, TypeOK, Idle, Rewarmable
<1>3. \A x \in (alive \union R) \ busy : x \notin Dirty \ R
  BY DEF CleanInv, DirtyOnlyIfGivenUp, Idle, Dirty
<1>4. DirtyOnlyIfGivenUp'
  BY <1>1, <1>3 DEF DirtyOnlyIfGivenUp, Idle, Dirty
<1>5. s \notin Dirty'
  BY <1>1, <1>3 DEF Idle
<1> QED
  BY <1>1, <1>2, <1>4, <1>5 DEF CleanInv

\* A checkout that fails, or has to log in, closes what it does not hand over.
LEMMA CheckoutClean ==
    ASSUME PoolInv, CleanInv, NEW f \in Callers, NEW g \in Groups, Checkout(f, g)
    PROVE  CleanInv'
<1>1. PICK R \in SUBSET Rewarmable :
         \/ CheckoutOwn(f, g, R) \/ CheckoutAny(f, g, R)
         \/ CheckoutLazy(f, g, R) \/ CheckoutRefused(f, g, R)
  BY DEF Checkout
<1> DEFINE idle == Idle(alive \union R)
           own == {s \in idle : login[s] = g}
<1>2. idle \subseteq Slots
  BY DEF Idle, Rewarmable, PoolInv, TypeOK
<1>3. \A x \in idle : x \notin Dirty \ R
  BY DEF CleanInv, DirtyOnlyIfGivenUp, Idle, Dirty
<1>4. CASE CheckoutOwn(f, g, R)
  <2>1. PICK s \in own : TrySlot(f, g, s, R, Before(own, s))
    BY <1>4 DEF CheckoutOwn
  <2> QED
    BY <2>1, TrySlotClean
<1>5. CASE CheckoutAny(f, g, R)
  <2> DEFINE s == Nearest(idle \ own)
  <2>1. idle \ own # {} /\ TrySlot(f, g, s, R, own)
    BY <1>5 DEF CheckoutAny
  <2>2. s \in idle
    BY <1>2, <2>1, NearestIsOne DEF PoolInv, TypeOK
  <2> HIDE DEF s, own
  <2> QED
    BY <2>1, <2>2, TrySlotClean
<1>6. CASE CheckoutLazy(f, g, R)
  <2> DEFINE dead == Slots \ ((alive \union R) \ own)
             s == Nearest(dead)
  <2>1. /\ dead # {}
        /\ Opened(R \union own \union {s})
        /\ alive' = ((alive \union R) \ own) \union {s}
        /\ Give(f, g, s)
    BY <1>6 DEF CheckoutLazy
  <2>2. s \in Slots
    BY <2>1, NearestIsOne DEF PoolInv, TypeOK
  <2> HIDE DEF s
  <2>3. /\ Dirty' = Dirty \ (R \union own \union {s})
        /\ busy' = busy \union {s}
        /\ holder'[f] = s
        /\ sync' \in {None, f}
    BY <2>1 DEF Opened, Give, PoolInv, TypeOK, Dirty
  <2>4. DirtyOnlyIfGivenUp'
    BY <1>3, <2>1, <2>3 DEF DirtyOnlyIfGivenUp, Idle, Dirty
  <2> QED
    BY <2>2, <2>3, <2>4 DEF CleanInv
<1>7. CASE CheckoutRefused(f, g, R)
  <2>1. PICK lost \in SUBSET idle :
           /\ alive' = (alive \union R) \ (own \union lost)
           /\ Opened(R \union own \union lost)
    <3> DEFINE lost == IF UseGroupAsUser \/ idle \ own = {}
                       THEN {} ELSE {Nearest(idle \ own)}
    <3>1. /\ alive' = (alive \union R) \ (own \union lost)
          /\ Opened(R \union own \union lost)
      BY <1>7 DEF CheckoutRefused
    <3>2. idle \ own # {} => Nearest(idle \ own) \in idle
      BY <1>2, NearestIsOne DEF PoolInv, TypeOK
    <3> QED
      BY <3>1, <3>2
  <2>2. busy' = busy /\ holder' = holder /\ sync' = sync /\ sync = None
    BY <1>7 DEF CheckoutRefused, Checkout
  <2>3. Dirty' \subseteq Dirty \ R
    BY <2>1 DEF Opened, Dirty
  <2>4. DirtyOnlyIfGivenUp'
    BY <1>3, <2>1, <2>2, <2>3 DEF DirtyOnlyIfGivenUp, Idle, Dirty
  <2> QED
    BY <2>2, <2>4 DEF CleanInv
<1> QED
  BY <1>1, <1>4, <1>5, <1>6, <1>7

LEMMA CleanStep ==
    PoolInv /\ CleanInv /\ [Next]_vars => CleanInv'
<1> SUFFICES ASSUME PoolInv, CleanInv, [Next]_vars
             PROVE  CleanInv'
  OBVIOUS
<1>s. None \notin Slots /\ None \notin Callers
  BY PoolAssumption
<1>i. \A x \in alive \ busy : x \notin Dirty
  BY DEF CleanInv, DirtyOnlyIfGivenUp, Idle, Dirty
<1>1. CASE \E f \in Callers : Use(f)
  <2>f. PICK f \in Callers : Use(f)
    BY <1>1
  <2>1. CASE \E g \in Groups : Checkout(f, g)
    BY <2>1, CheckoutClean
  <2>2. CASE CheckinUnsent(f)
    BY <1>i, <2>2 DEF CheckinUnsent, Drop, sockets, CleanInv, DirtyOnlyIfGivenUp, Idle, Dirty
  <2>3. CASE SendPipeline(f)
    <3>1. holder[f] \in busy
      BY <2>3 DEF SendPipeline, PoolInv, OneOwner
    <3> QED
      BY <1>i, <2>3, <3>1 DEF SendPipeline, calls, CleanInv, DirtyOnlyIfGivenUp, Idle, Dirty
  <2>4. CASE FinishOk(f)
    BY <1>i, <2>4 DEF FinishOk, Drop, CleanInv, DirtyOnlyIfGivenUp, Idle, Dirty
  <2>5. CASE FinishFailed(f)
    BY <1>i, <2>5 DEF FinishFailed, Opened, Drop, CleanInv, DirtyOnlyIfGivenUp, Idle, Dirty
  <2>6. CASE GiveUp(f)
    BY <2>6 DEF GiveUp, sockets, CleanInv, DirtyOnlyIfGivenUp, Idle, Dirty
  <2>7. CASE SyncDone(f)
    <3>1. holder[f] \notin Dirty
      BY <1>s, <2>7 DEF SyncDone, CleanInv
    <3> QED
      BY <1>i, <2>7, <3>1 DEF SyncDone, Drop, sockets, CleanInv, DirtyOnlyIfGivenUp, Idle, Dirty
  <2>8. CASE SyncFail(f)
    BY <1>i, <2>8 DEF SyncFail, Drop, CleanInv, DirtyOnlyIfGivenUp, Idle, Dirty
  <2>9. CASE SyncGivesUp(f)
    BY <1>i, <2>9 DEF SyncGivesUp, Drop, CleanInv, DirtyOnlyIfGivenUp, Idle, Dirty
  <2>10. CASE MarkDead(f)
    BY <1>i, <2>10 DEF MarkDead, Opened, calls, CleanInv, DirtyOnlyIfGivenUp, Idle, Dirty
  <2> QED
    BY <2>f, <2>1, <2>2, <2>3, <2>4, <2>5, <2>6, <2>7, <2>8, <2>9, <2>10 DEF Use
<1>2. CASE Maintain
  <2>1. PICK R \in SUBSET Rewarmable : alive' = alive \union R /\ Opened(R)
    BY <1>2 DEF Maintain
  <2> QED
    BY <1>2, <1>i, <2>1 DEF Maintain, Opened, calls, CleanInv, DirtyOnlyIfGivenUp, Idle, Dirty
<1>3. CASE \E s \in Slots : ServerDrops(s)
  BY <1>3 DEF ServerDrops, calls, CleanInv, DirtyOnlyIfGivenUp, Idle, Dirty
<1>4. CASE UNCHANGED vars
  BY <1>4 DEF vars, sockets, calls, CleanInv, DirtyOnlyIfGivenUp, Idle, Dirty
<1> QED
  BY <1>1, <1>2, <1>3, <1>4 DEF Next

\* An idle session has a reply on it, or on its way, only where a blocking
\* exchange gave up half-way (flush_pipeline_ex), however other exchanges end
\* (async_finish, the error paths of exec_bind) and slots are logged in again.
THEOREM SessionsDirtyOnlyIfGivenUp == SoundUse => (Spec => []DirtyOnlyIfGivenUp)
<1> SUFFICES ASSUME SoundUse PROVE Spec => []DirtyOnlyIfGivenUp
  OBVIOUS
<1>1. Init => CleanInv
  BY DEF Init, CleanInv, DirtyOnlyIfGivenUp
<1>2. PoolInv /\ CleanInv /\ [Next]_vars => CleanInv'
  BY CleanStep
<1>3. CleanInv => DirtyOnlyIfGivenUp
  BY DEF CleanInv
<1> QED
  BY <1>1, <1>2, <1>3, PoolAlways, PTL DEF Spec

\* Without blocking exchanges nothing gives up.
NeverBehind == behind = {} /\ sync = None

LEMMA NeverBehindStep ==
    ASSUME ~SyncUse, PoolInv, NeverBehind, [Next]_vars
    PROVE  NeverBehind'
<1> USE DEF NeverBehind
<1>s. None \notin Callers
  BY PoolAssumption
<1>1. CASE \E f \in Callers : Use(f)
  <2>f. PICK f \in Callers : Use(f)
    BY <1>1
  <2>1. CASE \E g \in Groups : Checkout(f, g)
    BY <2>1 DEF Checkout, CheckoutOwn, CheckoutAny, CheckoutLazy, CheckoutRefused,
                TrySlot, Give, Opened
  <2>2. CASE CheckinUnsent(f) \/ SendPipeline(f) \/ GiveUp(f)
    BY <2>2 DEF CheckinUnsent, SendPipeline, GiveUp, sockets, calls
  <2>3. CASE FinishOk(f) \/ FinishFailed(f)
    BY <2>3 DEF FinishOk, FinishFailed, Opened
  <2>4. CASE SyncDone(f) \/ SyncFail(f) \/ SyncGivesUp(f)
    BY <1>s, <2>4 DEF SyncDone, SyncFail, SyncGivesUp
  <2>5. CASE MarkDead(f)
    BY <2>5 DEF MarkDead, Opened, calls
  <2> QED
    BY <2>f, <2>1, <2>2, <2>3, <2>4, <2>5 DEF Use
<1>2. CASE Maintain
  BY <1>2 DEF Maintain, Opened, calls
<1>3. CASE \E s \in Slots : ServerDrops(s)
  BY <1>3 DEF ServerDrops, calls
<1>4. CASE UNCHANGED vars
  BY <1>4 DEF vars, sockets, calls
<1> QED
  BY <1>1, <1>2, <1>3, <1>4 DEF Next

\* With the asynchronous path only, as the loop uses the pool by default, no
\* idle session ever has a reply on it or on its way (ADR 002).
THEOREM AsyncSessionsClean == SoundUse /\ ~SyncUse => (Spec => []IdleSessionsClean)
<1> SUFFICES ASSUME SoundUse, ~SyncUse PROVE Spec => []IdleSessionsClean
  OBVIOUS
<1>1. Init => NeverBehind
  BY DEF Init, NeverBehind
<1>2. PoolInv /\ NeverBehind /\ [Next]_vars => NeverBehind'
  BY NeverBehindStep
<1>3. DirtyOnlyIfGivenUp /\ NeverBehind => IdleSessionsClean
  BY DEF DirtyOnlyIfGivenUp, NeverBehind, IdleSessionsClean
<1> QED
  BY <1>1, <1>2, <1>3, PoolAlways, SessionsDirtyOnlyIfGivenUp, PTL DEF Spec

\* Slots, logins, callers and the cursor keep their types through every call of
\* the pool, failed ones too (checkout's rr_cursor among them).
THEOREM PoolTypeCorrect == SoundUse => (Spec => []TypeOK)
<1>1. PoolInv => TypeOK
  BY DEF PoolInv
<1> QED
  BY <1>1, PoolAlways, PTL

===============================================================================
