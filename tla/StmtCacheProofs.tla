---------------------------- MODULE StmtCacheProofs ----------------------------
(****************************************************************************)
(* The table of prepared statements is a bounded map, whatever the names    *)
(* hash to and for every capacity, and a Bind gets the identity in the      *)
(* column that its statement names.                                         *)
(****************************************************************************)
EXTENDS StmtCache, DataLemmas

Shapes == [Slots -> Entries \union {None}]
Used(S) == {i \in Slots : S[i] # None}

\* A search finds each entry where it lies.
Findable(S) == \A i \in Used(S) : Probe(S[i].name, Stop(S, S[i].name)) = i

Sound(T) ==
    /\ T.slots \in Shapes
    /\ Findable(T.slots)
    /\ T.count = Cardinality(Used(T.slots))

Hashed == hash \in [Names -> Slots]

-----------------------------------------------------------------------------
(* Probing.                                                                 *)

LEMMA SlotNumbers ==
    /\ Cap \in Nat \ {0} /\ Slots = 0 .. Cap - 1 /\ Slots \subseteq Nat
    /\ IsFiniteSet(Slots) /\ Cardinality(Slots) = Cap
<1>1. Cap \in Nat \ {0}
  BY CacheAssumption
<1>2. 0 \in Int /\ Cap - 1 \in Int /\ ~(0 > Cap - 1) /\ (Cap - 1) - 0 + 1 = Cap
  BY <1>1
<1>3. IsFiniteSet(0 .. Cap - 1) /\ Cardinality(0 .. Cap - 1) = (Cap - 1) - 0 + 1
  BY <1>2, FS_Interval
<1> QED
  BY <1>1, <1>2, <1>3 DEF Slots

\* A probe wraps around the end of the table once at most.
LEMMA ProbeIs ==
    ASSUME Hashed, NEW n \in Names, NEW p \in Slots
    PROVE  /\ Probe(n, p) \in Slots
           /\ Probe(n, p) = IF hash[n] + p < Cap THEN hash[n] + p ELSE hash[n] + p - Cap
<1> DEFINE a == hash[n] + p
<1>1. hash[n] \in Slots
  BY DEF Hashed
<1>2. a \in 0 .. 2 * Cap - 1 /\ Cap \in Nat \ {0}
  BY <1>1, SlotNumbers
<1>3. Probe(n, p) = a % Cap
  BY DEF Probe
<1>h. hash[n] \in 0 .. Cap - 1 /\ p \in 0 .. Cap - 1
  BY <1>1, SlotNumbers
<1> HIDE DEF a
<1>4. CASE a < Cap
  <2>1. a \in 0 .. Cap - 1
    BY <1>2, <1>4
  <2>2. a % Cap = a
    BY <1>2, <2>1, ModLow
  <2> QED
    BY <1>3, <1>4, <2>1, <2>2, SlotNumbers DEF a
<1>5. CASE ~(a < Cap)
  <2>1. a \in Cap .. 2 * Cap - 1
    BY <1>2, <1>5
  <2>2. a % Cap = a - Cap
    BY <1>2, <2>1, ModHigh
  <2>3. a - Cap \in Slots
    BY <1>h, <1>2, <2>1, SlotNumbers DEF a
  <2>4. Probe(n, p) = a - Cap /\ Probe(n, p) \in Slots
    BY <1>3, <2>2, <2>3
  <2>5. hash[n] + p = a
    BY DEF a
  <2> QED
    BY <1>5, <1>h, <2>1, <2>4, <2>5, SlotNumbers
<1> QED
  BY <1>4, <1>5

\* The probes for a name reach every slot, each once.
LEMMA ProbeOnto ==
    ASSUME Hashed, NEW n \in Names, NEW i \in Slots
    PROVE  \E p \in Slots : Probe(n, p) = i
<1> DEFINE p == IF i >= hash[n] THEN i - hash[n] ELSE i - hash[n] + Cap
<1>1. hash[n] \in 0 .. Cap - 1 /\ i \in 0 .. Cap - 1 /\ Cap \in Nat \ {0}
  BY SlotNumbers DEF Hashed
<1>2. p \in 0 .. Cap - 1
  BY <1>1
<1>3. p \in Slots
  BY <1>2, SlotNumbers
<1>4. i = IF hash[n] + p < Cap THEN hash[n] + p ELSE hash[n] + p - Cap
  BY <1>1
<1> HIDE DEF p
<1>5. Probe(n, p) = i
  BY <1>3, <1>4, ProbeIs
<1> QED
  BY <1>3, <1>5

LEMMA ProbeOnce ==
    ASSUME Hashed, NEW n \in Names, NEW p \in Slots, NEW q \in Slots,
           Probe(n, p) = Probe(n, q)
    PROVE  p = q
<1>1. PICK h \in 0 .. Cap - 1 : h = hash[n]
  BY SlotNumbers DEF Hashed
<1>2. /\ Probe(n, p) = IF h + p < Cap THEN h + p ELSE h + p - Cap
      /\ Probe(n, q) = IF h + q < Cap THEN h + q ELSE h + q - Cap
  BY <1>1, ProbeIs
<1>3. (IF h + p < Cap THEN h + p ELSE h + p - Cap)
        = (IF h + q < Cap THEN h + q ELSE h + q - Cap)
  BY <1>2
<1>4. p \in 0 .. Cap - 1 /\ q \in 0 .. Cap - 1 /\ Cap \in Nat
  BY SlotNumbers
<1> QED
  BY <1>3, <1>4

\* A search stops at the first probe that ends it.
LEMMA StopIs ==
    ASSUME Hashed, NEW S, NEW n \in Names, Ends(S, n) # {}
    PROVE  /\ Stop(S, n) \in Ends(S, n)
           /\ \A q \in Ends(S, n) : Stop(S, n) <= q
           /\ Stop(S, n) \in Slots /\ Probe(n, Stop(S, n)) \in Slots
<1>1. Ends(S, n) \subseteq Slots
  BY DEF Ends
<1>2. \E p \in Ends(S, n) : \A q \in Ends(S, n) : p <= q
  BY <1>1, SlotNumbers, LeastNatural
<1>3. /\ Stop(S, n) \in Ends(S, n)
      /\ \A q \in Ends(S, n) : Stop(S, n) <= q
  BY <1>2 DEF Stop
<1> QED
  BY <1>1, <1>3, ProbeIs

LEMMA StopAt ==
    ASSUME Hashed, NEW S, NEW n \in Names, NEW p \in Ends(S, n),
           \A q \in Ends(S, n) : p <= q
    PROVE  Stop(S, n) = p
<1>1. Stop(S, n) \in Ends(S, n) /\ Stop(S, n) <= p
  BY StopIs
<1>2. p <= Stop(S, n)
  BY <1>1
<1>3. p \in Nat /\ Stop(S, n) \in Nat
  BY <1>1, SlotNumbers DEF Ends
<1> QED
  BY <1>1, <1>2, <1>3

\* A slot with the name, or an empty one, ends the search.
LEMMA EndsSomewhere ==
    ASSUME Hashed, NEW S, NEW n \in Names, NEW i \in Slots, S[i] = None \/ S[i].name = n
    PROVE  \E p \in Ends(S, n) : Probe(n, p) = i
<1>1. PICK p \in Slots : Probe(n, p) = i
  BY ProbeOnto
<1> QED
  BY <1>1 DEF Ends

-----------------------------------------------------------------------------
(* Looking up.                                                              *)

LEMMA EntryTypes ==
    ASSUME NEW S \in Shapes, NEW i \in Used(S)
    PROVE  /\ i \in Slots /\ S[i] \in Entries
           /\ S[i].name \in Names /\ S[i].stmt \in Statements /\ S[i].stmt # None
<1>1. i \in Slots /\ S[i] # None /\ S[i] \in Entries \union {None}
  BY DEF Used, Shapes
<1> QED
  BY <1>1, CacheAssumption DEF Entries

\* A lookup finds what is stored under the name, and nothing else.
LEMMA GetIs ==
    ASSUME Hashed, NEW S \in Shapes, Findable(S)
    PROVE  /\ \A i \in Used(S) : Get(S, S[i].name) = S[i].stmt
           /\ \A n \in Names :
                 (\A i \in Used(S) : S[i].name # n) => Get(S, n) = None
<1>1. ASSUME NEW i \in Used(S) PROVE Get(S, S[i].name) = S[i].stmt
  <2>1. i \in Slots /\ S[i] # None /\ S[i].name \in Names
    BY EntryTypes DEF Used
  <2>2. Ends(S, S[i].name) # {}
    BY <2>1, EndsSomewhere
  <2>3. Probe(S[i].name, Stop(S, S[i].name)) = i
    BY DEF Findable
  <2> QED
    BY <2>1, <2>2, <2>3 DEF Get
<1>2. ASSUME NEW n \in Names, \A i \in Used(S) : S[i].name # n
      PROVE  Get(S, n) = None
  <2>1. CASE Ends(S, n) = {}
    BY <2>1 DEF Get
  <2>2. CASE Ends(S, n) # {}
    <3>1. Stop(S, n) \in Ends(S, n) /\ Probe(n, Stop(S, n)) \in Slots
      BY <2>2, StopIs
    <3>2. S[Probe(n, Stop(S, n))] = None
      BY <1>2, <3>1 DEF Ends, Used
    <3> QED
      BY <3>2 DEF Get
  <2> QED
    BY <2>1, <2>2
<1> QED
  BY <1>1, <1>2

\* No name is stored twice.
LEMMA StoredOnce ==
    ASSUME NEW S, Findable(S), NEW i \in Used(S), NEW j \in Used(S),
           S[i].name = S[j].name
    PROVE  i = j
BY DEF Findable

\* The entry a lookup finds.
LEMMA GetsEntry ==
    ASSUME Hashed, NEW S \in Shapes, Findable(S), NEW n \in Names, Get(S, n) # None
    PROVE  /\ Probe(n, Stop(S, n)) \in Used(S)
           /\ S[Probe(n, Stop(S, n))].name = n
           /\ Get(S, n) = S[Probe(n, Stop(S, n))].stmt
           /\ Get(S, n) \in Statements
           /\ Ends(S, n) # {}
<1>1. PICK i \in Used(S) : S[i].name = n
  BY GetIs
<1>2. Probe(n, Stop(S, n)) = i /\ Get(S, n) = S[i].stmt
  BY <1>1, GetIs DEF Findable
<1>3. Ends(S, n) # {}
  BY <1>1, EntryTypes, EndsSomewhere
<1> QED
  BY <1>1, <1>2, <1>3, EntryTypes

\* The count is that of the entries: at Cap no slot is empty.
LEMMA CountIs ==
    ASSUME NEW T, Sound(T)
    PROVE  /\ T.count \in 0 .. Cap
           /\ T.count < Cap => \E j \in Slots : T.slots[j] = None
<1> DEFINE S == T.slots
<1>1. T.count = Cardinality(Used(S))
  BY DEF Sound
<1> HIDE DEF S
<1>2. Used(S) \in SUBSET Slots
  BY DEF Used
<1>3. /\ IsFiniteSet(Used(S)) /\ Cardinality(Used(S)) <= Cardinality(Slots)
      /\ Cardinality(Used(S)) \in Nat
  BY <1>2, SlotNumbers, FS_Subset, FS_CardinalityType
<1>4. Used(S) = Slots => T.count = Cap
  BY <1>1, SlotNumbers
<1>5. Cap \in Nat /\ T.count \in Nat /\ T.count <= Cap
  BY <1>1, <1>3, SlotNumbers
<1>6. T.count < Cap => Used(S) # Slots
  BY <1>4, <1>5
<1>7. T.count < Cap => \E j \in Slots : S[j] = None
  BY <1>6 DEF Used
<1> QED
  BY <1>5, <1>7 DEF S

\* A put is refused when the table is full of other names.
LEMMA FitsIs ==
    ASSUME Hashed, NEW T, Sound(T), NEW n \in Names
    PROVE  Fits(T, n) <=> Get(T.slots, n) # None \/ T.count < Cap
<1> DEFINE S == T.slots
           i == Probe(n, Stop(S, n))
<1>1. S \in Shapes /\ Findable(S)
  BY DEF Sound
<1>2. T.count < Cap => \E j \in Slots : S[j] = None
  BY CountIs
<1> HIDE DEF S
<1>3. ASSUME Fits(T, n), ~(T.count < Cap) PROVE Get(S, n) # None
  <2>1. Ends(S, n) # {} /\ S[i] # None
    BY <1>3 DEF Fits, S
  <2>2. Stop(S, n) \in Ends(S, n) /\ i \in Slots
    BY <2>1, StopIs
  <2>3. i \in Used(S) /\ S[i].name = n
    BY <2>1, <2>2 DEF Ends, Used
  <2> HIDE DEF i
  <2>4. Get(S, n) = S[i].stmt
    BY <1>1, <2>3, GetIs
  <2> QED
    BY <1>1, <2>3, <2>4, EntryTypes
<1>4. ASSUME Get(S, n) # None PROVE Fits(T, n)
  BY <1>1, <1>4, GetsEntry DEF Fits, S, Used
<1>5. ASSUME T.count < Cap PROVE Fits(T, n)
  <2>1. PICK j \in Slots : S[j] = None
    BY <1>2, <1>5
  <2>2. Ends(S, n) # {}
    BY <2>1, EndsSomewhere
  <2> QED
    BY <1>5, <2>2 DEF Fits, S
<1>6. Fits(T, n) <=> Get(S, n) # None \/ T.count < Cap
  BY <1>3, <1>4, <1>5
<1> QED
  BY <1>6 DEF S

-----------------------------------------------------------------------------
(* Putting.                                                                 *)

\* A put changes what is under its name and nothing else, or nothing at all.
LEMMA PutSafe ==
    ASSUME Hashed, NEW T, Sound(T), NEW n \in Names, NEW s \in Statements
    PROVE  /\ Sound(Put(T, n, s))
           /\ Put(T, n, s).count <= T.count + 1
           /\ \A m \in Names :
                 Get(Put(T, n, s).slots, m) = IF Fits(T, n) /\ m = n THEN s
                                                                ELSE Get(T.slots, m)
<1> DEFINE S == T.slots
           p == Stop(S, n)
           i == Probe(n, p)
           e == [name |-> n, stmt |-> s]
           R == [S EXCEPT ![i] = e]
<1>1. S \in Shapes /\ Findable(S) /\ T.count = Cardinality(Used(S))
  BY DEF Sound
<1>c. T.count \in Nat /\ Cap \in Nat
  BY CountIs, SlotNumbers
<1>2. CASE ~Fits(T, n)
  <2>1. Put(T, n, s) = T
    BY <1>2 DEF Put
  <2> QED
    BY <1>2, <1>c, <2>1
<1>3. CASE Fits(T, n)
  <2>p. /\ Put(T, n, s).slots = R
        /\ Put(T, n, s).count = IF S[i] = None THEN T.count + 1 ELSE T.count
    BY <1>3 DEF Put, Table
  <2> HIDE DEF S
  <2>1. /\ p \in Ends(S, n) /\ \A q \in Ends(S, n) : p <= q
        /\ p \in Slots /\ i \in Slots
        /\ S[i] = None \/ S[i].name = n
    <3>1. Ends(S, n) # {}
      BY <1>3 DEF Fits, S
    <3> QED
      BY <3>1, StopIs DEF Ends
  <2>i. i = Probe(n, p)
    OBVIOUS
  <2> HIDE DEF p, i
  <2>2. /\ e \in Entries /\ e # None /\ e.name = n /\ e.stmt = s
        /\ R \in Shapes /\ R[i] = e
        /\ \A j \in Slots : j # i => R[j] = S[j]
    <3>1. e \in Entries /\ e.name = n /\ e.stmt = s
      BY DEF Entries
    <3>2. e # None
      BY <3>1, CacheAssumption
    <3> HIDE DEF e
    <3> QED
      BY <1>1, <2>1, <3>1, <3>2 DEF Shapes
  <2> HIDE DEF e, R
  <2>3. \A j \in Used(S) : j # i => S[j].name # n
    BY <1>1, <2>i DEF Findable, p
  <2>4. Stop(R, n) = p
    <3>1. p \in Ends(R, n)
      BY <2>1, <2>2, <2>i DEF Ends
    <3>2. ASSUME NEW q \in Ends(R, n) PROVE p <= q
      <4>1. q \in Slots /\ Probe(n, q) \in Slots
        BY ProbeIs DEF Ends
      <4>2. CASE Probe(n, q) = i
        <5>1. q = p
          BY <2>1, <2>i, <4>1, <4>2, ProbeOnce
        <5> QED
          BY <2>1, <5>1
      <4>3. CASE Probe(n, q) # i
        <5>1. q \in Ends(S, n)
          BY <2>2, <4>1, <4>3 DEF Ends
        <5> QED
          BY <2>1, <5>1
      <4> QED
        BY <4>2, <4>3
    <3> QED
      BY <3>1, <3>2, StopAt
  <2>5. ASSUME NEW j \in Used(S), j # i
        PROVE  Probe(S[j].name, Stop(R, S[j].name)) = j
    <3> DEFINE m == S[j].name
               q == Stop(S, m)
    <3>1. m \in Names /\ j \in Slots /\ S[j] # None /\ m # n
      BY <1>1, <2>3, <2>5, EntryTypes DEF Used
    <3>2. Ends(S, m) # {} /\ Probe(m, q) = j
      BY <1>1, <3>1, EndsSomewhere DEF Findable
    <3>3. q \in Ends(S, m) /\ q \in Slots /\ \A r \in Ends(S, m) : q <= r
      BY <3>1, <3>2, StopIs
    <3> HIDE DEF m, q
    <3>4. q \in Ends(R, m)
      BY <2>2, <2>5, <3>1, <3>2, <3>3 DEF Ends
    <3>5. ASSUME NEW r \in Ends(R, m) PROVE q <= r
      <4>1. r \in Slots /\ Probe(m, r) \in Slots
        BY <3>1, ProbeIs DEF Ends
      <4>2. Probe(m, r) # i
        BY <2>2, <3>1, <3>5 DEF Ends
      <4>3. r \in Ends(S, m)
        BY <2>2, <4>1, <4>2, <3>5 DEF Ends
      <4> QED
        BY <3>3, <4>3
    <3>6. Stop(R, m) = q
      BY <3>1, <3>4, <3>5, StopAt
    <3> QED
      BY <3>2, <3>6 DEF m
  <2>6. Used(R) = Used(S) \union {i}
    BY <2>1, <2>2 DEF Used
  <2>7. Findable(R)
    <3>1. ASSUME NEW j \in Used(R) PROVE Probe(R[j].name, Stop(R, R[j].name)) = j
      <4>1. CASE j = i
        BY <2>2, <2>4, <2>i, <4>1
      <4>2. CASE j # i
        <5>1. j \in Used(S) /\ R[j] = S[j]
          BY <2>2, <2>6, <4>2 DEF Used
        <5> QED
          BY <2>5, <4>2, <5>1
      <4> QED
        BY <4>1, <4>2
    <3> QED
      BY <3>1 DEF Findable
  <2>8. Put(T, n, s).count = Cardinality(Used(R))
    <3>1. IsFiniteSet(Used(S))
      <4>1. Used(S) \in SUBSET Slots
        BY DEF Used
      <4> QED
        BY <4>1, SlotNumbers, FS_Subset
    <3>2. Cardinality(Used(R)) = IF i \in Used(S) THEN Cardinality(Used(S))
                                                  ELSE Cardinality(Used(S)) + 1
      BY <2>6, <3>1, FS_AddElement
    <3>3. i \in Used(S) <=> S[i] # None
      BY <2>1 DEF Used
    <3> QED
      BY <1>1, <2>p, <3>2, <3>3
  <2>9. ASSUME NEW m \in Names
        PROVE  Get(R, m) = IF m = n THEN s ELSE Get(S, m)
    <3>1. CASE m = n
      <4>1. i \in Used(R) /\ R[i].name = n /\ R[i].stmt = s
        BY <2>2, <2>6
      <4> QED
        BY <2>2, <2>7, <3>1, <4>1, GetIs
    <3>2. CASE m # n
      <4>1. CASE \E j \in Used(S) : S[j].name = m
        <5>1. PICK j \in Used(S) : S[j].name = m
          BY <4>1
        <5>2. j # i
          BY <2>1, <3>2, <5>1 DEF Used
        <5>3. j \in Used(R) /\ R[j] = S[j]
          BY <2>2, <2>6, <5>2 DEF Used
        <5>4. Get(S, m) = S[j].stmt
          BY <1>1, <5>1, GetIs
        <5>5. Get(R, m) = R[j].stmt
          BY <2>2, <2>7, <5>1, <5>3, GetIs
        <5> QED
          BY <3>2, <5>3, <5>4, <5>5
      <4>2. CASE \A j \in Used(S) : S[j].name # m
        <5>1. \A j \in Used(R) : R[j].name # m
          BY <2>2, <2>6, <3>2, <4>2 DEF Used
        <5>2. Get(R, m) = None /\ Get(S, m) = None
          BY <1>1, <2>2, <2>7, <4>2, <5>1, GetIs
        <5> QED
          BY <3>2, <5>2
      <4> QED
        BY <4>1, <4>2
    <3> QED
      BY <3>1, <3>2
  <2>10. Sound(Put(T, n, s))
    BY <2>p, <2>2, <2>7, <2>8 DEF Sound
  <2>11. Put(T, n, s).count <= T.count + 1
    BY <1>c, <2>p
  <2> QED
    BY <1>3, <2>p, <2>9, <2>10, <2>11 DEF S
<1> QED
  BY <1>2, <1>3

-----------------------------------------------------------------------------
(* Removing: the others are put into an empty table. The recursion of       *)
(* Rehashed is solved first.                                                *)

EmptyTable == Table([j \in Slots |-> None], 0)

Refilling(F, S, n) ==
    /\ F = [i \in 0 .. n |-> F[i]]
    /\ F[0] = EmptyTable
    /\ \A i \in 1 .. n : F[i] = Reinsert(F[i - 1], S[i - 1])

LEMMA RefillingIs ==
    ASSUME NEW n \in Nat, NEW S, NEW F
    PROVE  Refilling(F, S, n) <=>
              F = [i \in 0 .. n |-> IF i = 0 THEN EmptyTable
                                    ELSE Reinsert(F[i - 1], S[i - 1])]
<1>1. ASSUME Refilling(F, S, n)
      PROVE  F = [i \in 0 .. n |-> IF i = 0 THEN EmptyTable
                                   ELSE Reinsert(F[i - 1], S[i - 1])]
  <2>1. ASSUME NEW i \in 0 .. n
        PROVE  F[i] = IF i = 0 THEN EmptyTable ELSE Reinsert(F[i - 1], S[i - 1])
    <3>1. F[0] = EmptyTable /\ \A j \in 1 .. n : F[j] = Reinsert(F[j - 1], S[j - 1])
      BY <1>1 DEF Refilling
    <3>2. i # 0 => i \in 1 .. n
      OBVIOUS
    <3> QED
      BY <3>1, <3>2
  <2> QED
    BY <1>1, <2>1 DEF Refilling
<1>2. ASSUME F = [i \in 0 .. n |-> IF i = 0 THEN EmptyTable
                                   ELSE Reinsert(F[i - 1], S[i - 1])]
      PROVE  Refilling(F, S, n)
  <2>1. \A i \in 0 .. n : F[i] = IF i = 0 THEN EmptyTable
                                   ELSE Reinsert(F[i - 1], S[i - 1])
    BY <1>2
  <2>2. F[0] = EmptyTable /\ F = [i \in 0 .. n |-> F[i]]
    BY <1>2, <2>1
  <2>3. ASSUME NEW i \in 1 .. n PROVE F[i] = Reinsert(F[i - 1], S[i - 1])
    <3>1. i \in 0 .. n /\ i # 0
      OBVIOUS
    <3> QED
      BY <2>1, <3>1
  <2> QED
    BY <2>2, <2>3 DEF Refilling
<1> QED
  BY <1>1, <1>2

LEMMA RefillingExists == ASSUME NEW S PROVE \A n \in Nat : \E F : Refilling(F, S, n)
<1> DEFINE P == {n \in Nat : \E F : Refilling(F, S, n)}
<1>1. 0 \in P
  <2> DEFINE F == [i \in 0 .. 0 |-> EmptyTable]
  <2>1. Refilling(F, S, 0)
    BY DEF Refilling
  <2> QED
    BY <2>1
<1>2. ASSUME NEW n \in Nat, n \in P PROVE n + 1 \in P
  <2>1. PICK F : Refilling(F, S, n)
    BY <1>2
  <2> DEFINE G == [i \in 0 .. n + 1 |->
                      IF i # n + 1 THEN F[i] ELSE Reinsert(F[i - 1], S[i - 1])]
  <2>2. Refilling(G, S, n + 1)
    <3>1. \A i \in 0 .. n : G[i] = F[i]
      OBVIOUS
    <3>2. G[0] = EmptyTable /\ G = [i \in 0 .. n + 1 |-> G[i]]
      BY <2>1, <3>1 DEF Refilling
    <3>3. ASSUME NEW i \in 1 .. n + 1 PROVE G[i] = Reinsert(G[i - 1], S[i - 1])
      <4>1. CASE i = n + 1
        <5>1. i - 1 \in 0 .. n
          BY <4>1
        <5> QED
          BY <3>1, <4>1, <5>1
      <4>2. CASE i # n + 1
        <5>1. i \in 1 .. n /\ i \in 0 .. n /\ i - 1 \in 0 .. n
          BY <4>2
        <5> HIDE DEF G
        <5> QED
          BY <2>1, <3>1, <5>1 DEF Refilling
      <4> QED
        BY <4>1, <4>2
    <3> HIDE DEF G
    <3> QED
      BY <3>2, <3>3 DEF Refilling
  <2> HIDE DEF G
  <2> QED
    BY <2>2
<1> HIDE DEF P
<1>3. Nat \subseteq P
  BY <1>1, <1>2, NaturalsFrom0
<1> QED
  BY <1>3 DEF P

LEMMA RehashedIs == ASSUME NEW S PROVE \E F : Refilling(F, S, Cap) /\ Rehashed(S) = F[Cap]
<1> DEFINE F == CHOOSE f : f = [i \in 0 .. Cap |-> IF i = 0 THEN EmptyTable
                                   ELSE Reinsert(f[i - 1], S[i - 1])]
<1>1. Cap \in Nat
  BY SlotNumbers
<1>2. \E f : f = [i \in 0 .. Cap |-> IF i = 0 THEN EmptyTable
                                   ELSE Reinsert(f[i - 1], S[i - 1])]
  <2>1. PICK f : Refilling(f, S, Cap)
    BY <1>1, RefillingExists
  <2>2. f = [i \in 0 .. Cap |-> IF i = 0 THEN EmptyTable
                                   ELSE Reinsert(f[i - 1], S[i - 1])]
    BY <1>1, <2>1, RefillingIs
  <2> QED
    BY <2>2
<1>3. F = [i \in 0 .. Cap |-> IF i = 0 THEN EmptyTable
                                   ELSE Reinsert(F[i - 1], S[i - 1])]
  BY <1>2
<1>4. Rehashed(S) = F[Cap]
  BY DEF Rehashed, EmptyTable
<1> HIDE DEF F
<1>5. Refilling(F, S, Cap)
  BY <1>1, <1>3, RefillingIs
<1> QED
  BY <1>4, <1>5

LEMMA EmptySound ==
    ASSUME Hashed
    PROVE  /\ Sound(EmptyTable) /\ EmptyTable.count = 0
           /\ \A m \in Names : Get(EmptyTable.slots, m) = None
<1> DEFINE S == EmptyTable.slots
<1>1. S \in Shapes /\ Used(S) = {} /\ EmptyTable.count = 0
  BY DEF EmptyTable, Table, Shapes, Used
<1>2. Findable(S) /\ EmptyTable.count = Cardinality(Used(S))
  BY <1>1, FS_EmptySet DEF Findable
<1> HIDE DEF S
<1>3. \A m \in Names : Get(S, m) = None
  BY <1>1, <1>2, GetIs
<1> QED
  BY <1>1, <1>2, <1>3 DEF Sound, S

\* The new table is sound and has the same statements, if no name is twice in
\* the old one: it need not be one in which every search succeeds.
LEMMA RehashSafe ==
    ASSUME Hashed, NEW S \in Shapes,
           \A i, j \in Used(S) : S[i].name = S[j].name => i = j
    PROVE  /\ Sound(Rehashed(S))
           /\ \A i \in Used(S) : Get(Rehashed(S).slots, S[i].name) = S[i].stmt
           /\ \A m \in Names :
                 (\A i \in Used(S) : S[i].name # m) => Get(Rehashed(S).slots, m) = None
<1>1. PICK F : Refilling(F, S, Cap) /\ Rehashed(S) = F[Cap]
  BY RehashedIs
<1> DEFINE Good(k) ==
        /\ Sound(F[k]) /\ F[k].count <= k
        /\ \A i \in Used(S) : i < k => Get(F[k].slots, S[i].name) = S[i].stmt
        /\ \A m \in Names :
              (\A i \in Used(S) : i < k => S[i].name # m) => Get(F[k].slots, m) = None
    P == {k \in Nat : k <= Cap => Good(k)}
<1>c. Cap \in Nat \ {0} /\ Slots = 0 .. Cap - 1
  BY SlotNumbers
<1>2. 0 \in P
  <2>1. F[0] = EmptyTable
    BY <1>1 DEF Refilling
  <2>2. \A i \in Used(S) : ~(i < 0)
    BY <1>c DEF Used
  <2>3. Good(0)
    BY <2>1, <2>2, EmptySound
  <2> QED
    BY <2>3
<1>3. ASSUME NEW k \in Nat, k \in P PROVE k + 1 \in P
  <2> SUFFICES ASSUME k + 1 <= Cap PROVE Good(k + 1)
    OBVIOUS
  <2>1. k \in Slots /\ k + 1 \in 1 .. Cap /\ (k + 1) - 1 = k /\ k < Cap /\ k <= Cap
    BY <1>c
  <2>2. Good(k)
    BY <1>3, <2>1
  <2>3. F[k + 1] = Reinsert(F[k], S[k])
    <3>1. \A i \in 1 .. Cap : F[i] = Reinsert(F[i - 1], S[i - 1])
      BY <1>1 DEF Refilling
    <3> QED
      BY <2>1, <3>1
  <2>4. \A i \in Used(S) : i \in Nat /\ (i < k + 1 <=> i < k \/ i = k)
    BY <1>c DEF Used
  <2>c. F[k].count \in Nat
    BY <2>2, <1>c, CountIs
  <2>5. CASE S[k] = None
    <3>1. F[k + 1] = F[k]
      BY <2>3, <2>5 DEF Reinsert
    <3>2. \A i \in Used(S) : i < k + 1 <=> i < k
      BY <2>4, <2>5 DEF Used
    <3>3. F[k + 1].count <= k + 1
      BY <2>2, <2>c, <3>1
    <3> QED
      BY <2>2, <3>1, <3>2, <3>3
  <2>6. CASE S[k] # None
    <3> DEFINE n == S[k].name
               s == S[k].stmt
    <3>1. k \in Used(S) /\ n \in Names /\ s \in Statements
      BY <2>1, <2>6, EntryTypes DEF Used
    <3>2. F[k + 1] = Put(F[k], n, s)
      BY <2>3, <2>6 DEF Reinsert
    <3> HIDE DEF n, s
    <3>3. Fits(F[k], n)
      <4>1. F[k].count < Cap
        BY <1>c, <2>1, <2>2, <2>c
      <4> QED
        BY <2>2, <3>1, <4>1, FitsIs
    <3>4. /\ Sound(F[k + 1]) /\ F[k + 1].count <= F[k].count + 1
          /\ \A m \in Names : Get(F[k + 1].slots, m) = IF m = n THEN s ELSE Get(F[k].slots, m)
      BY <2>2, <3>1, <3>2, <3>3, PutSafe
    <3>5. F[k + 1].count <= k + 1
      <4>1. F[k + 1].count \in Nat
        BY <3>4, CountIs, <1>c
      <4> QED
        BY <2>2, <2>c, <3>4, <4>1
    <3>6. ASSUME NEW i \in Used(S), i < k + 1
          PROVE  Get(F[k + 1].slots, S[i].name) = S[i].stmt
      <4>1. S[i].name \in Names
        BY EntryTypes
      <4>2. CASE i = k
        BY <3>4, <4>1, <4>2 DEF n, s
      <4>3. CASE i # k
        <5>1. S[i].name # n
          BY <3>1, <4>3 DEF n
        <5>2. i < k
          BY <2>4, <3>6, <4>3
        <5> QED
          BY <2>2, <3>4, <4>1, <5>1, <5>2
      <4> QED
        BY <4>2, <4>3
    <3>7. ASSUME NEW m \in Names, \A i \in Used(S) : i < k + 1 => S[i].name # m
          PROVE  Get(F[k + 1].slots, m) = None
      <4>1. m # n
        BY <2>4, <3>1, <3>7 DEF n
      <4>2. \A i \in Used(S) : i < k => S[i].name # m
        BY <2>4, <3>7
      <4> QED
        BY <2>2, <3>4, <4>1, <4>2
    <3> QED
      BY <3>4, <3>5, <3>6, <3>7
  <2> QED
    BY <2>5, <2>6
<1> HIDE DEF P
<1>4. Cap \in P
  BY <1>2, <1>3, <1>c, NaturalsFrom0
<1>5. Good(Cap)
  BY <1>4, <1>c DEF P
<1>6. \A i \in Used(S) : i < Cap
  BY <1>c DEF Used
<1> QED
  BY <1>1, <1>5, <1>6
-----------------------------------------------------------------------------
(* What holds between two calls.                                            *)

CacheInv ==
    /\ TypeOK
    /\ Sound(Current)

\* Names hash as before, so that a table is searched as before.
LEMMA SameSearch ==
    ASSUME hash' = hash
    PROVE  /\ Sound(Current)' <=> Sound(Table(slots', count'))
           /\ \A m : Get(slots, m)' = Get(slots', m)
<1>1. \A m, p : Probe(m, p)' = Probe(m, p)
  BY DEF Probe
<1>2. \A m : Ends(slots, m)' = Ends(slots', m)
  BY DEF Ends, Probe
<1>3. \A m : Stop(slots, m)' = Stop(slots', m)
  BY <1>2 DEF Stop
<1>4. \A m : Probe(m, Stop(slots, m))' = Probe(m, Stop(slots', m))
  BY <1>3 DEF Probe
<1>5. \A m : Get(slots, m)' = Get(slots', m)
  BY <1>2, <1>4 DEF Get
<1>6. Used(slots)' = Used(slots')
  BY DEF Used
<1>7. Findable(slots)' <=> Findable(slots')
  BY <1>4, <1>6 DEF Findable
<1>8. Sound(Current)' <=> Sound(Table(slots', count'))
  BY <1>6, <1>7 DEF Sound, Current, Table, Shapes
<1> QED
  BY <1>5, <1>8

LEMMA CurrentIs == Current.slots = slots /\ Current.count = count
BY DEF Current, Table

LEMMA GetType ==
    ASSUME CacheInv, NEW m \in Names
    PROVE  Get(slots, m) \in Statements \union {None}
<1>1. Hashed /\ slots \in Shapes /\ Findable(slots)
  BY CurrentIs DEF CacheInv, TypeOK, Hashed, Sound
<1> QED
  BY <1>1, GetsEntry

LEMMA ParseIs ==
    ASSUME CacheInv, NEW n \in Names, NEW col \in Columns, Parse(n, col)
    PROVE  LET s == [col |-> col, slot |-> Resolved(col)] IN
           /\ s \in Statements
           /\ Sound(Table(slots', count')) /\ hash' = hash
           /\ \A m \in Names : Get(slots, m)' = IF Fits(Current, n) /\ m = n THEN s
                                                ELSE Get(slots, m)
<1> DEFINE s == [col |-> col, slot |-> Resolved(col)]
           T == Put(Current, n, s)
<1>1. s \in Statements
  <2>1. Resolved(col) \in Columns \union {IdSlot}
    BY DEF Resolved
  <2> QED
    BY <2>1 DEF Statements
<1>2. Hashed /\ Sound(Current) /\ hash' = hash /\ slots' = T.slots /\ count' = T.count
  BY DEF CacheInv, TypeOK, Hashed, Parse
<1> HIDE DEF s
<1>3. /\ Sound(T)
      /\ \A m \in Names : Get(T.slots, m) = IF Fits(Current, n) /\ m = n THEN s
                                                ELSE Get(slots, m)
  BY <1>1, <1>2, CurrentIs, PutSafe
<1> HIDE DEF T
<1>4. Sound(Table(slots', count'))
  BY <1>2, <1>3 DEF Sound, Table
<1>5. \A m \in Names : Get(slots, m)' = IF Fits(Current, n) /\ m = n THEN s
                                                ELSE Get(slots, m)
  BY <1>2, <1>3, SameSearch
<1> QED
  BY <1>1, <1>2, <1>4, <1>5 DEF s

LEMMA RemoveIs ==
    ASSUME CacheInv, NEW n \in Names, RemoveStmt(n)
    PROVE  /\ Sound(Table(slots', count')) /\ hash' = hash
           /\ \A m \in Names : Get(slots, m)' = IF m = n THEN None ELSE Get(slots, m)
<1> DEFINE i == Probe(n, Stop(slots, n))
           R == [slots EXCEPT ![i] = None]
           T == Rehashed(R)
<1>1. /\ Hashed /\ Sound(Current) /\ hash' = hash
      /\ slots \in Shapes /\ Findable(slots)
  BY CurrentIs DEF CacheInv, TypeOK, Hashed, Sound, RemoveStmt
<1>2. CASE Get(slots, n) = None
  <2>1. slots' = slots /\ count' = count
    BY <1>2 DEF RemoveStmt
  <2>2. Sound(Table(slots', count'))
    BY <1>1, <2>1 DEF Current
  <2>3. \A m \in Names : Get(slots, m)' = Get(slots, m)
    BY <1>1, <2>1, SameSearch
  <2> QED
    BY <1>1, <1>2, <2>2, <2>3
<1>3. CASE Get(slots, n) # None
  <2>1. slots' = T.slots /\ count' = T.count
    BY <1>3 DEF RemoveStmt
  <2>2. i \in Used(slots) /\ slots[i].name = n /\ i \in Slots
    BY <1>1, <1>3, GetsEntry DEF Used
  <2>i. i = Probe(n, Stop(slots, n))
    OBVIOUS
  <2> HIDE DEF i, T
  <2>3. R \in Shapes /\ Used(R) = Used(slots) \ {i}
        /\ \A j \in Used(R) : j \in Used(slots) /\ R[j] = slots[j]
    BY <1>1, <2>2 DEF Shapes, Used
  <2> HIDE DEF R
  <2>4. \A j, k \in Used(R) : R[j].name = R[k].name => j = k
    BY <1>1, <2>3, StoredOnce
  <2>5. /\ Sound(T)
        /\ \A j \in Used(R) : Get(T.slots, R[j].name) = R[j].stmt
        /\ \A m \in Names :
              (\A j \in Used(R) : R[j].name # m) => Get(T.slots, m) = None
    BY <1>1, <2>3, <2>4, RehashSafe DEF T
  <2>6. ASSUME NEW m \in Names
        PROVE  Get(T.slots, m) = IF m = n THEN None ELSE Get(slots, m)
    <3>1. CASE m = n
      <4>1. \A j \in Used(R) : R[j].name # m
        BY <1>1, <2>2, <2>3, <3>1, StoredOnce
      <4> QED
        BY <2>5, <3>1, <4>1
    <3>2. CASE m # n /\ \E j \in Used(slots) : slots[j].name = m
      <4>1. PICK j \in Used(slots) : slots[j].name = m
        BY <3>2
      <4>2. j \in Used(R) /\ R[j] = slots[j]
        BY <2>2, <2>3, <3>2, <4>1
      <4>3. Get(T.slots, m) = slots[j].stmt
        BY <2>5, <4>1, <4>2
      <4> QED
        BY <1>1, <3>2, <4>1, <4>3, GetIs
    <3>3. CASE m # n /\ \A j \in Used(slots) : slots[j].name # m
      <4>1. \A j \in Used(R) : R[j].name # m
        BY <2>3, <3>3
      <4>2. Get(T.slots, m) = None /\ Get(slots, m) = None
        BY <1>1, <2>5, <3>3, <4>1, GetIs
      <4> QED
        BY <3>3, <4>2
    <3> QED
      BY <3>1, <3>2, <3>3
  <2>7. Sound(Table(slots', count'))
    BY <2>1, <2>5 DEF Sound, Table
  <2>8. \A m \in Names : Get(slots, m)' = IF m = n THEN None ELSE Get(slots, m)
    BY <1>1, <2>1, <2>6, SameSearch
  <2> QED
    BY <1>1, <2>7, <2>8
<1> QED
  BY <1>2, <1>3

LEMMA StayIs ==
    ASSUME CacheInv, UNCHANGED <<hash, slots, count>>
    PROVE  /\ Sound(Table(slots', count'))
           /\ \A m \in Names : Get(slots, m)' = Get(slots, m)
BY SameSearch DEF CacheInv, Current

\* What makes up the invariant after a step.
LEMMA Reaches ==
    ASSUME CacheInv, hash' = hash, Sound(Table(slots', count')),
           answer' \in [call : {"init", "put", "oversized", "remove"},
                        name : Names \union {None}, ok : BOOLEAN],
           injected' \in [stmt : Statements, at : Nat] \union {None}
    PROVE  CacheInv'
<1> DEFINE T == Table(slots', count')
<1>1. T.slots = slots' /\ T.count = count'
  BY DEF Table
<1>2. T.count \in 0 .. Cap
  BY CountIs
<1>3. slots' \in Shapes
  BY <1>1 DEF Sound
<1>4. TypeOK'
  BY <1>1, <1>2, <1>3 DEF TypeOK, Shapes, CacheInv
<1>5. Sound(Current)'
  BY SameSearch
<1> QED
  BY <1>4, <1>5 DEF CacheInv

LEMMA CacheInit == Init => CacheInv
<1> SUFFICES ASSUME Init PROVE CacheInv
  OBVIOUS
<1>1. Hashed /\ Current = EmptyTable /\ slots = EmptyTable.slots
  BY DEF Init, Hashed, Current, EmptyTable, Table
<1>2. Sound(Current) /\ \A m \in Names : Get(slots, m) = None
  BY <1>1, EmptySound
<1>3. TypeOK
  BY SlotNumbers DEF Init, TypeOK
<1> QED
  BY <1>2, <1>3 DEF CacheInv, Init

LEMMA CacheNext == CacheInv /\ [Next]_vars => CacheInv'
<1> SUFFICES ASSUME CacheInv, [Next]_vars PROVE CacheInv'
  OBVIOUS
<1>i. /\ answer \in [call : {"init", "put", "oversized", "remove"},
                      name : Names \union {None}, ok : BOOLEAN]
      /\ injected \in [stmt : Statements, at : Nat] \union {None}
  BY DEF CacheInv, TypeOK
<1>1. ASSUME NEW n \in Names, NEW col \in Columns, Parse(n, col) PROVE CacheInv'
  <2>1. answer' = [call |-> "put", name |-> n, ok |-> Fits(Current, n)]
        /\ injected' = injected
    BY <1>1 DEF Parse
  <2>2. Fits(Current, n) \in BOOLEAN
    BY DEF Fits
  <2>3. answer' \in [call : {"init", "put", "oversized", "remove"},
                     name : Names \union {None}, ok : BOOLEAN]
    BY <2>1, <2>2
  <2>4. Sound(Table(slots', count')) /\ hash' = hash
    BY <1>1, <1>i, ParseIs
  <2> QED
    BY <1>i, <2>1, <2>3, <2>4, Reaches
<1>2. CASE ParseRefused
  <2>1. /\ answer' \in [call : {"init", "put", "oversized", "remove"},
                        name : Names \union {None}, ok : BOOLEAN]
        /\ injected' = injected /\ UNCHANGED <<hash, slots, count>>
    BY <1>2 DEF ParseRefused
  <2>2. Sound(Table(slots', count'))
    BY <1>i, <2>1, StayIs
  <2> QED
    BY <1>i, <2>1, <2>2, Reaches
<1>3. ASSUME NEW n \in Names, RemoveStmt(n) PROVE CacheInv'
  <2>1. /\ answer' = [call |-> "remove", name |-> n, ok |-> Get(slots, n) # None]
        /\ injected' = injected
    BY <1>3 DEF RemoveStmt
  <2>2. answer' \in [call : {"init", "put", "oversized", "remove"},
                     name : Names \union {None}, ok : BOOLEAN]
    BY <2>1
  <2>3. Sound(Table(slots', count')) /\ hash' = hash
    BY <1>3, <1>i, RemoveIs
  <2> QED
    BY <1>i, <2>1, <2>2, <2>3, Reaches
<1>4. ASSUME NEW n \in Names, NEW params \in 0 .. MaxParams, Bind(n, params)
      PROVE  CacheInv'
  <2> DEFINE s == Get(slots, n)
  <2>1. /\ s # None /\ injected' = [stmt |-> s, at |-> InjectSlot(s)]
        /\ answer' = answer /\ UNCHANGED <<hash, slots, count>>
    BY <1>4 DEF Bind
  <2>2. s \in Statements
    BY <1>i, <2>1, GetType
  <2> HIDE DEF s
  <2>3. InjectSlot(s) \in Nat
    <3>1. IdSlot \in Int /\ Columns \subseteq Int
      BY CacheAssumption
    <3>2. s.slot \in Columns \union {IdSlot}
      BY <2>2 DEF Statements
    <3>3. s.slot \in Int
      BY <3>1, <3>2
    <3> QED
      BY <3>1, <3>3 DEF InjectSlot
  <2>4. injected' \in [stmt : Statements, at : Nat]
    BY <2>1, <2>2, <2>3
  <2>5. Sound(Table(slots', count'))
    BY <1>i, <2>1, StayIs
  <2> QED
    BY <1>i, <2>1, <2>4, <2>5, Reaches
<1>5. CASE UNCHANGED vars
  <2>1. UNCHANGED <<hash, slots, count>> /\ answer' = answer /\ injected' = injected
    BY <1>5 DEF vars
  <2>2. Sound(Table(slots', count'))
    BY <1>i, <2>1, StayIs
  <2> QED
    BY <1>i, <2>1, <2>2, Reaches
<1> QED
  BY <1>1, <1>2, <1>3, <1>4, <1>5 DEF Next

LEMMA CacheSafe == Spec => []CacheInv
BY CacheInit, CacheNext, PTL DEF Spec

-----------------------------------------------------------------------------
(* The theorems.                                                            *)

\* The types of the model: the hash of every name, the entries of the table,
\* the latest answer and the latest Bind forwarded.
THEOREM CacheTypeCorrect == Spec => []TypeOK
<1>1. CacheInv => TypeOK
  BY DEF CacheInv
<1> QED
  BY <1>1, CacheSafe, PTL

\* pqproxy_stmt_cache_get finds every entry where pqproxy_stmt_cache_put left
\* it, and count is the number of them, after any history of Parses and
\* removals, for any capacity and any hash function.
THEOREM EntriesFound == Spec => []EveryEntryFound
<1>1. CacheInv => EveryEntryFound
  BY CurrentIs DEF CacheInv, Sound, Findable, EveryEntryFound, InUse, Used
<1> QED
  BY <1>1, CacheSafe, PTL

\* The Cardinality of the instance is that of FiniteSets.
LEMMA MapCardinality == \A S : Map!Cardinality(S) = Cardinality(S)
BY DEF Map!Cardinality, Cardinality

\* As many names have a statement as there are entries.
LEMMA CachedIs == CacheInv => Map!Cached = {m \in Names : Get(slots, m) # None}
                              /\ Cardinality(Map!Cached) = count
<1> SUFFICES ASSUME CacheInv
             PROVE  /\ Map!Cached = {m \in Names : Get(slots, m) # None}
                    /\ Cardinality(Map!Cached) = count
  OBVIOUS
<1> DEFINE M == {m \in Names : Get(slots, m) # None}
           f == [i \in Used(slots) |-> slots[i].name]
<1>1. Map!Cached = M
  BY DEF Map!Cached
<1>2. /\ Hashed /\ slots \in Shapes /\ Findable(slots)
      /\ count = Cardinality(Used(slots))
  BY CurrentIs DEF CacheInv, TypeOK, Hashed, Sound
<1>3. IsFiniteSet(Used(slots))
  <2>1. Used(slots) \in SUBSET Slots
    BY DEF Used
  <2> QED
    BY <2>1, SlotNumbers, FS_Subset
<1>4. \A i \in Used(slots) : slots[i].name \in M
  BY <1>2, GetIs, EntryTypes
<1>5. \A m \in M : \E i \in Used(slots) : slots[i].name = m
  BY <1>2, GetIs
<1>6. \A i, j \in Used(slots) : slots[i].name = slots[j].name => i = j
  BY <1>2, StoredOnce
<1> HIDE DEF M
<1>7. f \in Bijection(Used(slots), M)
  <2>1. f \in [Used(slots) -> M]
    BY <1>4
  <2>2. \A i \in Used(slots) : f[i] = slots[i].name
    OBVIOUS
  <2> HIDE DEF f
  <2> QED
    BY <1>5, <1>6, <2>1, <2>2 DEF Bijection, Injection, Surjection, IsInjective
<1>8. Cardinality(Used(slots)) = Cardinality(M)
  BY <1>3, <1>7, FS_Bijection DEF ExistsBijection
<1> QED
  BY <1>1, <1>2, <1>8 DEF M

\* The lookups of a state.
View == [n \in Names |-> Get(slots, n)]

LEMMA StepMaps == CacheInv /\ [Next]_vars => [Map!Next]_<<View, answer>>
<1> SUFFICES ASSUME CacheInv, [Next]_vars PROVE [Map!Next]_<<View, answer>>
  OBVIOUS
<1>c. /\ Map!Cached = {m \in Names : Get(slots, m) # None}
      /\ Cardinality(Map!Cached) = count
  BY CachedIs
<1>1. ASSUME NEW n \in Names, NEW col \in Columns, Parse(n, col) PROVE Map!Next
  <2> DEFINE s == [col |-> col, slot |-> Resolved(col)]
  <2>1. Fits(Current, n) <=> n \in Map!Cached \/ Cardinality(Map!Cached) < Cap
    <3>1. Hashed /\ Sound(Current)
      BY DEF CacheInv, TypeOK, Hashed
    <3> QED
      BY <1>c, <3>1, CurrentIs, FitsIs
  <2>2. /\ s \in Statements
        /\ \A m \in Names : Get(slots, m)' = IF Fits(Current, n) /\ m = n THEN s
                                                ELSE Get(slots, m)
    BY <1>1, ParseIs
  <2>3. answer' = [call |-> "put", name |-> n, ok |-> Fits(Current, n)]
    BY <1>1 DEF Parse
  <2> HIDE DEF s
  <2>4. View' = IF Fits(Current, n) THEN [View EXCEPT ![n] = s] ELSE View
    BY <2>2 DEF View
  <2>5. Fits(Current, n) = (n \in Map!Cached \/ Cardinality(Map!Cached) < Cap)
    BY <2>1 DEF Fits
  <2>6. ASSUME Fits(Current, n) PROVE Map!Put(n, s)
    <3>1. View' = [View EXCEPT ![n] = s]
      BY <2>4, <2>6
    <3> QED
      BY <2>3, <2>5, <2>6, <3>1, MapCardinality DEF Map!Put, View
  <2>7. ASSUME ~Fits(Current, n) PROVE Map!Put(n, s)
    <3>1. View' = View
      BY <2>4, <2>7
    <3> QED
      BY <2>3, <2>5, <2>7, <3>1, MapCardinality DEF Map!Put, View
  <2> QED
    BY <2>2, <2>6, <2>7 DEF Map!Next
<1>2. CASE ParseRefused
  <2>1. View' = View
    BY <1>2, StayIs DEF ParseRefused, View
  <2>2. Map!Refuse
    BY <1>2, <2>1 DEF ParseRefused, Map!Refuse, View
  <2> QED
    BY <2>2 DEF Map!Next
<1>3. ASSUME NEW n \in Names, RemoveStmt(n) PROVE Map!Next
  <2>1. View' = [View EXCEPT ![n] = None]
    BY <1>3, RemoveIs DEF View
  <2>2. answer' = [call |-> "remove", name |-> n, ok |-> n \in Map!Cached]
    <3>1. answer' = [call |-> "remove", name |-> n, ok |-> Get(slots, n) # None]
      BY <1>3 DEF RemoveStmt
    <3>2. (Get(slots, n) # None) = (n \in Map!Cached)
      BY <1>c
    <3> QED
      BY <3>1, <3>2
  <2>3. Map!RemoveStmt(n)
    BY <2>1, <2>2 DEF Map!RemoveStmt, View
  <2> QED
    BY <2>3 DEF Map!Next
<1>4. ASSUME NEW n \in Names, NEW params \in 0 .. MaxParams, Bind(n, params)
      PROVE  UNCHANGED <<View, answer>>
  BY <1>4, StayIs DEF Bind, View
<1>5. CASE UNCHANGED vars
  BY <1>5, StayIs DEF vars, View
<1> QED
  BY <1>1, <1>2, <1>3, <1>4, <1>5 DEF Next

\* A client's cache of prepared statements is a bounded map: whatever the names
\* hash to, lookups, updates, refusals and removals answer as StmtMap does.
THEOREM CacheIsMap == Spec => ImplementsMap
<1>1. Init => Map!Init
  <2> SUFFICES ASSUME Init PROVE Map!Init
    OBVIOUS
  <2>1. Hashed /\ slots = EmptyTable.slots
    BY DEF Init, Hashed, EmptyTable, Table
  <2>2. \A m \in Names : Get(slots, m) = None
    BY <2>1, EmptySound
  <2> QED
    BY <2>2 DEF Map!Init, Init
<1>2. CacheInv /\ [Next]_vars => [Map!Next]_<<[n \in Names |-> Get(slots, n)], answer>>
  BY StepMaps DEF View
<1> QED
  BY <1>1, <1>2, CacheSafe, PTL DEF Spec, ImplementsMap, Map!Spec

================================================================================
