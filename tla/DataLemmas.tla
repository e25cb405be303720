------------------------------ MODULE DataLemmas ------------------------------
(****************************************************************************)
(* Facts about numbers and sequences that the proofs of several modules     *)
(* need: a filtered sequence (the order in which waiters are served), what  *)
(* a sequence of sequences gives laid end to end (messages cut into units), *)
(* a sequence cut, turned or with an element taken out, and with these the  *)
(* theorems about the rings of RingArray.                                   *)
(*                                                                          *)
(* They are about every sequence, and induction is by least counterexample: *)
(* a set of naturals that has 0 and with n also n + 1 has them all, and so  *)
(* for sequences that grow by one element. The set is that of the values    *)
(* for which the fact holds.                                                *)
(****************************************************************************)
EXTENDS Filters, SequencesExt, SequenceTheorems, WellFoundedInduction,
        FiniteSetTheorems, TLAPS

\* Every non-empty set of naturals has a least element.
LEMMA LeastNatural ==
    ASSUME NEW S \in SUBSET Nat, S # {}
    PROVE  \E d \in S : \A e \in S : d <= e
<1> DEFINE Less == {p \in Nat \X Nat : p[1] < p[2]}
<1>1. IsWellFoundedOn(Less, Nat)
  BY NatLessThanWellFounded DEF OpToRel
<1> HIDE DEF Less
<1>2. PICK d \in S : \A e \in S : <<e, d>> \notin Less
  BY <1>1, WFMin
<1>3. \A m, n \in Nat : <<m, n>> \in Less <=> m < n
  BY DEF Less
<1>4. \A e \in S : d \in Nat /\ e \in Nat /\ ~(e < d)
  BY <1>2, <1>3
<1> QED
  BY <1>4

\* And every one that is bounded has a greatest.
LEMMA GreatestNatural ==
    ASSUME NEW S \in SUBSET Nat, S # {}, NEW k \in Nat, \A e \in S : e <= k
    PROVE  \E d \in S : \A e \in S : e <= d
<1> DEFINE R == {n \in Nat : k - n \in S}
<1>1. R \in SUBSET Nat /\ R # {}
  <2>1. PICK e \in S : TRUE
    OBVIOUS
  <2>2. k - e \in Nat /\ k - (k - e) = e
    OBVIOUS
  <2> QED
    BY <2>1, <2>2
<1>2. PICK n \in R : \A i \in R : n <= i
  BY <1>1, LeastNatural
<1>3. ASSUME NEW e \in S PROVE e <= k - n
  <2>1. k - e \in Nat /\ k - (k - e) = e /\ n \in Nat
    OBVIOUS
  <2>2. n <= k - e
    BY <1>2, <2>1
  <2> QED
    BY <2>1, <2>2
<1>4. k - n \in S
  BY <1>2
<1> QED
  BY <1>3, <1>4

\* Induction, for a set of naturals.
LEMMA NaturalsFrom0 ==
    ASSUME NEW P, 0 \in P, \A n \in Nat : n \in P => n + 1 \in P
    PROVE  Nat \subseteq P
<1> SUFFICES ASSUME NEW S, S = Nat \ P, S # {}
             PROVE  FALSE
  OBVIOUS
<1>1. PICK d \in S : \A e \in S : d <= e
  BY LeastNatural
<1>2. d \in Nat /\ d # 0
  OBVIOUS
<1>3. d - 1 \in Nat /\ d - 1 \notin S
  BY <1>1, <1>2
<1>4. d - 1 \in P /\ (d - 1) + 1 = d
  BY <1>2, <1>3
<1> QED
  BY <1>3, <1>4

-----------------------------------------------------------------------------
(* Filtering a sequence. The recursion of Only is solved first: for every     *)
(* number of steps there is one function that takes them.                     *)

Filtering(F, s, S, n) ==
    /\ F = [i \in 0 .. n |-> F[i]]
    /\ F[0] = <<>>
    /\ \A i \in 1 .. n :
          F[i] = IF s[i] \in S THEN Append(F[i - 1], s[i]) ELSE F[i - 1]

\* A solution of the recursion is a function equal to its own defining body.
LEMMA FilteringIs ==
    ASSUME NEW n \in Nat, NEW s, NEW S, NEW F
    PROVE  Filtering(F, s, S, n) <=>
              F = [i \in 0 .. n |->
                      IF i = 0 THEN <<>>
                      ELSE IF s[i] \in S THEN Append(F[i - 1], s[i]) ELSE F[i - 1]]
<1>1. ASSUME Filtering(F, s, S, n)
      PROVE  F = [i \in 0 .. n |->
                      IF i = 0 THEN <<>>
                      ELSE IF s[i] \in S THEN Append(F[i - 1], s[i]) ELSE F[i - 1]]
  <2>1. \A i \in 0 .. n : F[i] = IF i = 0 THEN <<>>
                      ELSE IF s[i] \in S THEN Append(F[i - 1], s[i]) ELSE F[i - 1]
    BY <1>1 DEF Filtering
  <2> QED
    BY <1>1, <2>1 DEF Filtering
<1>2. ASSUME F = [i \in 0 .. n |->
                      IF i = 0 THEN <<>>
                      ELSE IF s[i] \in S THEN Append(F[i - 1], s[i]) ELSE F[i - 1]]
      PROVE  Filtering(F, s, S, n)
  <2>1. \A i \in 0 .. n : F[i] = IF i = 0 THEN <<>>
                      ELSE IF s[i] \in S THEN Append(F[i - 1], s[i]) ELSE F[i - 1]
    BY <1>2
  <2>2. F[0] = <<>> /\ F = [i \in 0 .. n |-> F[i]]
    BY <1>2, <2>1
  <2>3. ASSUME NEW i \in 1 .. n
        PROVE  F[i] = IF s[i] \in S THEN Append(F[i - 1], s[i]) ELSE F[i - 1]
    <3>1. i \in 0 .. n /\ i # 0
      OBVIOUS
    <3> QED
      BY <2>1, <3>1
  <2> QED
    BY <2>2, <2>3 DEF Filtering
<1> QED
  BY <1>1, <1>2

\* It has a solution.
LEMMA FilteringExists ==
    ASSUME NEW s, NEW S PROVE \A n \in Nat : \E F : Filtering(F, s, S, n)
<1> DEFINE P == {n \in Nat : \E F : Filtering(F, s, S, n)}
<1>1. 0 \in P
  <2> DEFINE F == [i \in 0 .. 0 |-> <<>>]
  <2>1. Filtering(F, s, S, 0)
    BY DEF Filtering
  <2> QED
    BY <2>1
<1>2. ASSUME NEW n \in Nat, n \in P PROVE n + 1 \in P
  <2>1. PICK F : Filtering(F, s, S, n)
    BY <1>2
  <2> DEFINE G == [i \in 0 .. n + 1 |->
                      IF i # n + 1 THEN F[i]
                      ELSE IF s[i] \in S THEN Append(F[i - 1], s[i]) ELSE F[i - 1]]
  <2>2. Filtering(G, s, S, n + 1)
    <3>1. \A i \in 0 .. n : G[i] = F[i]
      OBVIOUS
    <3>2. G[0] = <<>> /\ G = [i \in 0 .. n + 1 |-> G[i]]
      BY <2>1, <3>1 DEF Filtering
    <3>3. ASSUME NEW i \in 1 .. n + 1
          PROVE  G[i] = IF s[i] \in S THEN Append(G[i - 1], s[i]) ELSE G[i - 1]
      <4>1. CASE i = n + 1
        <5>1. i - 1 \in 0 .. n 
          BY <4>1
        <5> QED 
          BY <3>1, <4>1, <5>1
      <4>2. CASE i # n + 1
        <5>1. i \in 1 .. n /\ i \in 0 .. n /\ i - 1 \in 0 .. n 
          BY <4>2
        <5> HIDE DEF G
        <5> QED 
          BY <2>1, <3>1, <5>1 DEF Filtering
      <4> QED 
        BY <4>1, <4>2
    <3> HIDE DEF G
    <3> QED 
      BY <3>2, <3>3 DEF Filtering
  <2> HIDE DEF G
  <2> QED
    BY <2>2
<1> HIDE DEF P
<1>3. Nat \subseteq P 
  BY <1>1, <1>2, NaturalsFrom0
<1> QED 
  BY <1>3 DEF P

\* So the function in the definition of Only solves it.
LEMMA OnlyIs ==
    ASSUME NEW T, NEW s \in Seq(T), NEW S
    PROVE  \E F : Filtering(F, s, S, Len(s)) /\ Only(s, S) = F[Len(s)]
<1> DEFINE F == CHOOSE f : f = [i \in 0 .. Len(s) |->
                      IF i = 0 THEN <<>>
                      ELSE IF s[i] \in S THEN Append(f[i - 1], s[i]) ELSE f[i - 1]]
<1>1. Len(s) \in Nat
  BY LenProperties
<1>2. \E f : f = [i \in 0 .. Len(s) |->
                      IF i = 0 THEN <<>>
                      ELSE IF s[i] \in S THEN Append(f[i - 1], s[i]) ELSE f[i - 1]]
  <2>1. PICK f : Filtering(f, s, S, Len(s))
    BY <1>1, FilteringExists
  <2>2. f = [i \in 0 .. Len(s) |->
                      IF i = 0 THEN <<>>
                      ELSE IF s[i] \in S THEN Append(f[i - 1], s[i]) ELSE f[i - 1]]
    BY <1>1, <2>1, FilteringIs
  <2> QED
    BY <2>2
<1>3. F = [i \in 0 .. Len(s) |->
                      IF i = 0 THEN <<>>
                      ELSE IF s[i] \in S THEN Append(F[i - 1], s[i]) ELSE F[i - 1]]
  BY <1>2
<1>4. Only(s, S) = F[Len(s)]
  BY DEF Only
<1> HIDE DEF F
<1>5. Filtering(F, s, S, Len(s))
  BY <1>1, <1>3, FilteringIs
<1> QED 
  BY <1>4, <1>5

\* A prefix is filtered in the same way.
LEMMA FilteringAgrees ==
    ASSUME NEW s, NEW t, NEW S, NEW m \in Nat, NEW n \in Nat, n <= m,
           NEW F, Filtering(F, s, S, m), NEW G, Filtering(G, t, S, n),
           \A i \in 1 .. n : s[i] = t[i]
    PROVE  F[n] = G[n]
<1> DEFINE P == {k \in Nat : k <= n => F[k] = G[k]}
<1>1. 0 \in P
  BY DEF Filtering
<1>2. ASSUME NEW k \in Nat, k \in P PROVE k + 1 \in P
  <2> SUFFICES ASSUME k + 1 <= n PROVE F[k + 1] = G[k + 1]
    OBVIOUS
  <2>1. k + 1 \in 1 .. n /\ k + 1 \in 1 .. m /\ (k + 1) - 1 = k
    OBVIOUS
  <2>2. F[k] = G[k]
    BY <1>2
  <2>3. F[k + 1] = IF s[k + 1] \in S THEN Append(F[k], s[k + 1]) ELSE F[k]
    BY <2>1 DEF Filtering
  <2>4. G[k + 1] = IF t[k + 1] \in S THEN Append(G[k], t[k + 1]) ELSE G[k]
    BY <2>1 DEF Filtering
  <2> QED
    BY <2>1, <2>2, <2>3, <2>4
<1> HIDE DEF P
<1>3. n \in P
  BY <1>1, <1>2, NaturalsFrom0
<1> QED
  BY <1>3 DEF P

\* Nothing is left of nothing.
LEMMA OnlyEmpty == ASSUME NEW S PROVE Only(<<>>, S) = <<>>
<1>1. <<>> \in Seq({}) /\ Len(<<>>) = 0
  BY EmptySeq
<1>2. PICK F : Filtering(F, <<>>, S, 0) /\ Only(<<>>, S) = F[0]
  BY <1>1, OnlyIs
<1> QED
  BY <1>2 DEF Filtering

\* Filtering goes along when a sequence grows.
LEMMA OnlyAppend ==
    ASSUME NEW T, NEW s \in Seq(T), NEW x \in T, NEW S
    PROVE  Only(Append(s, x), S) = IF x \in S THEN Append(Only(s, S), x) ELSE Only(s, S)
<1> DEFINE t == Append(s, x)
<1>1. /\ Len(s) \in Nat /\ t \in Seq(T) /\ Len(t) = Len(s) + 1 /\ t[Len(s) + 1] = x
      /\ \A i \in 1 .. Len(s) : t[i] = s[i]
  BY LenProperties, AppendProperties
<1> HIDE DEF t
<1>2. PICK n \in Nat : n = Len(s)
  BY <1>1
<1>3. PICK F : Filtering(F, s, S, n) /\ Only(s, S) = F[n]
  BY <1>2, OnlyIs
<1>4. PICK G : Filtering(G, t, S, n + 1) /\ Only(t, S) = G[n + 1]
  BY <1>1, <1>2, OnlyIs
<1>5. G[n] = F[n]
  <2>1. n + 1 \in Nat /\ n <= n + 1
    OBVIOUS
  <2> QED
    BY <1>1, <1>2, <1>3, <1>4, <2>1, FilteringAgrees
<1>6. G[n + 1] = IF t[n + 1] \in S THEN Append(G[n], t[n + 1]) ELSE G[n]
  <2>1. n + 1 \in 1 .. n + 1 /\ (n + 1) - 1 = n
    OBVIOUS
  <2> QED
    BY <1>4, <2>1 DEF Filtering
<1>7. t[n + 1] = x
  BY <1>1, <1>2
<1> QED
  BY <1>3, <1>4, <1>5, <1>6, <1>7 DEF t

-----------------------------------------------------------------------------
\* Induction over sequences, for a set of sequences.
LEMMA SequencesFromEmpty ==
    ASSUME NEW T, NEW P, <<>> \in P,
           \A s \in Seq(T), x \in T : s \in P => Append(s, x) \in P
    PROVE  Seq(T) \subseteq P
<1> DEFINE N == {n \in Nat : \A s \in Seq(T) : Len(s) = n => s \in P}
<1>1. 0 \in N
  BY EmptySeq
<1>2. ASSUME NEW n \in Nat, n \in N PROVE n + 1 \in N
  <2> SUFFICES ASSUME NEW s \in Seq(T), Len(s) = n + 1 PROVE s \in P
    OBVIOUS
  <2>1. s # <<>>
    BY EmptySeq
  <2>2. PICK u \in Seq(T), x \in T : s = Append(u, x)
    BY <2>1, SequenceEmptyOrAppend
  <2>3. Len(u) \in Nat /\ Len(s) = Len(u) + 1
    BY <2>2, AppendProperties, LenProperties
  <2>4. Len(u) = n
    BY <2>3
  <2> QED
    BY <1>2, <2>2, <2>4
<1> HIDE DEF N
<1>3. Nat \subseteq N
  BY <1>1, <1>2, NaturalsFrom0
<1> QED
  BY <1>3, LenProperties DEF N

\* What a sequence has after it has grown.
LEMMA AppendHas ==
    ASSUME NEW T, NEW s \in Seq(T), NEW y \in T
    PROVE  /\ Append(s, y) \in Seq(T)
           /\ \A x : Contains(Append(s, y), x) <=> Contains(s, x) \/ x = y
<1>1. /\ Append(s, y) \in Seq(T)
      /\ Len(Append(s, y)) = Len(s) + 1
      /\ \A i \in 1 .. Len(s) : Append(s, y)[i] = s[i]
      /\ Append(s, y)[Len(s) + 1] = y
      /\ Len(s) \in Nat
  BY AppendProperties, LenProperties
<1> QED
  BY <1>1 DEF Contains

\* A sequence grows at the end of its second part.
LEMMA AppendJoined ==
    ASSUME NEW T, NEW s \in Seq(T), NEW t \in Seq(T), NEW y \in T
    PROVE  s \o Append(t, y) = Append(s \o t, y)
<1>1. <<y>> \in Seq(T) /\ s \o t \in Seq(T)
  BY ConcatProperties
<1>2. Append(t, y) = t \o <<y>> /\ Append(s \o t, y) = (s \o t) \o <<y>>
  BY <1>1, AppendIsConcat
<1> QED
  BY <1>1, <1>2, ConcatAssociative

\* What is kept was there, and is in the set.
LEMMA OnlyHas ==
    ASSUME NEW T, NEW S
    PROVE  \A s \in Seq(T) :
              /\ Only(s, S) \in Seq(T)
              /\ \A x : Contains(Only(s, S), x) <=> Contains(s, x) /\ x \in S
<1> DEFINE P == {s \in Seq(T) : /\ Only(s, S) \in Seq(T)
              /\ \A x : Contains(Only(s, S), x) <=> Contains(s, x) /\ x \in S}
<1>1. <<>> \in P
  <2>1. Len(<<>>) = 0 /\ <<>> \in Seq(T) /\ Only(<<>>, S) = <<>>
    BY EmptySeq, OnlyEmpty
  <2>2. \A x : ~Contains(<<>>, x)
    BY <2>1 DEF Contains
  <2> QED
    BY <2>1, <2>2
<1>2. ASSUME NEW s \in Seq(T), NEW y \in T, s \in P
      PROVE  Append(s, y) \in P
  <2>1. Append(s, y) \in Seq(T) /\ \A x : Contains(Append(s, y), x) <=> Contains(s, x) \/ x = y
    BY AppendHas
  <2>2. CASE y \in S
    <3>1. Only(Append(s, y), S) = Append(Only(s, S), y)
      BY <2>2, OnlyAppend
    <3>2. /\ Append(Only(s, S), y) \in Seq(T)
          /\ \A x : Contains(Append(Only(s, S), y), x) <=> Contains(Only(s, S), x) \/ x = y
      BY <1>2, AppendHas
    <3> QED
      BY <1>2, <2>1, <2>2, <3>1, <3>2
  <2>3. CASE y \notin S
    BY <1>2, <2>1, <2>3, OnlyAppend
  <2> QED
    BY <2>2, <2>3
<1> HIDE DEF P
<1>3. Seq(T) \subseteq P
  BY <1>1, <1>2, SequencesFromEmpty
<1> QED
  BY <1>3 DEF P

\* Filtering two parts of a sequence.
LEMMA OnlyJoined ==
    ASSUME NEW T, NEW S, NEW s \in Seq(T)
    PROVE  \A t \in Seq(T) : Only(s \o t, S) = Only(s, S) \o Only(t, S)
<1> DEFINE P == {t \in Seq(T) : Only(s \o t, S) = Only(s, S) \o Only(t, S)}
<1>1. <<>> \in P
  BY EmptySeq, OnlyEmpty, OnlyHas, ConcatEmptySeq
<1>2. ASSUME NEW t \in Seq(T), NEW y \in T, t \in P
      PROVE  Append(t, y) \in P
  <2>1. s \o Append(t, y) = Append(s \o t, y) /\ s \o t \in Seq(T) /\ Append(t, y) \in Seq(T)
    BY AppendJoined, ConcatProperties, AppendProperties
  <2>2. CASE y \in S
    <3>1. Only(Append(t, y), S) = Append(Only(t, S), y)
      BY <2>2, OnlyAppend
    <3>2. Only(s, S) \o Append(Only(t, S), y) = Append(Only(s, S) \o Only(t, S), y)
      BY OnlyHas, AppendJoined
    <3>3. Only(Append(s \o t, y), S) = Append(Only(s \o t, S), y)
      BY <2>1, <2>2, OnlyAppend
    <3> QED
      BY <1>2, <2>1, <3>1, <3>2, <3>3
  <2>3. CASE y \notin S
    <3>1. Only(Append(t, y), S) = Only(t, S) /\ Only(Append(s \o t, y), S) = Only(s \o t, S)
      BY <2>1, <2>3, OnlyAppend
    <3> QED
      BY <1>2, <2>1, <3>1
  <2> QED
    BY <2>2, <2>3
<1> HIDE DEF P
<1>3. Seq(T) \subseteq P
  BY <1>1, <1>2, SequencesFromEmpty
<1> QED
  BY <1>3 DEF P

\* Filtering twice is filtering with what is in both sets.
LEMMA OnlyTwice ==
    ASSUME NEW T, NEW S, NEW R
    PROVE  \A s \in Seq(T) : Only(Only(s, S), R) = Only(s, S \intersect R)
<1> DEFINE P == {s \in Seq(T) : Only(Only(s, S), R) = Only(s, S \intersect R)}
<1>1. <<>> \in P
  BY EmptySeq, OnlyEmpty
<1>2. ASSUME NEW s \in Seq(T), NEW y \in T, s \in P
      PROVE  Append(s, y) \in P
  <2>1. Append(s, y) \in Seq(T) /\ Only(s, S) \in Seq(T)
    BY AppendProperties, OnlyHas
  <2>2. Only(Append(s, y), S) = IF y \in S THEN Append(Only(s, S), y) ELSE Only(s, S)
    BY OnlyAppend
  <2>3. Only(Append(Only(s, S), y), R) =
           IF y \in R THEN Append(Only(Only(s, S), R), y) ELSE Only(Only(s, S), R)
    BY <2>1, OnlyAppend
  <2>4. Only(Append(s, y), S \intersect R) =
           IF y \in S \intersect R THEN Append(Only(s, S \intersect R), y)
                                   ELSE Only(s, S \intersect R)
    BY OnlyAppend
  <2>5. Only(Only(s, S), R) = Only(s, S \intersect R)
    BY <1>2
  <2>6. Only(Only(Append(s, y), S), R) = Only(Append(s, y), S \intersect R)
    <3> HIDE DEF P
    <3>1. CASE y \in S
      <4>1. Only(Append(s, y), S) = Append(Only(s, S), y)
        BY <2>2, <3>1
      <4>2. CASE y \in R
        BY <2>3, <2>4, <2>5, <3>1, <4>1, <4>2
      <4>3. CASE y \notin R
        BY <2>3, <2>4, <2>5, <3>1, <4>1, <4>3
      <4> QED
        BY <4>2, <4>3
    <3>2. CASE y \notin S
      BY <2>2, <2>4, <2>5, <3>2
    <3> QED
      BY <3>1, <3>2
  <2> QED
    BY <2>1, <2>6
<1> HIDE DEF P
<1>3. Seq(T) \subseteq P
  BY <1>1, <1>2, SequencesFromEmpty
<1> QED
  BY <1>3 DEF P

\* Sets that agree on the elements filter alike.
LEMMA OnlySame ==
    ASSUME NEW T, NEW S, NEW R
    PROVE  \A s \in Seq(T) : (\A x : Contains(s, x) => (x \in S <=> x \in R))
                               => Only(s, S) = Only(s, R)
<1> DEFINE P == {s \in Seq(T) : (\A x : Contains(s, x) => (x \in S <=> x \in R))
                               => Only(s, S) = Only(s, R)}
<1>1. <<>> \in P
  BY EmptySeq, OnlyEmpty
<1>2. ASSUME NEW s \in Seq(T), NEW y \in T, s \in P
      PROVE  Append(s, y) \in P
  <2>1. Append(s, y) \in Seq(T) /\ \A x : Contains(Append(s, y), x) <=> Contains(s, x) \/ x = y
    BY AppendHas
  <2>2. ASSUME \A x : Contains(Append(s, y), x) => (x \in S <=> x \in R)
        PROVE  Only(Append(s, y), S) = Only(Append(s, y), R)
    <3>1. Only(s, S) = Only(s, R) /\ (y \in S <=> y \in R)
      BY <1>2, <2>1, <2>2
    <3>2. Only(Append(s, y), S) = IF y \in S THEN Append(Only(s, S), y) ELSE Only(s, S)
      BY OnlyAppend
    <3>3. Only(Append(s, y), R) = IF y \in R THEN Append(Only(s, R), y) ELSE Only(s, R)
      BY OnlyAppend
    <3> QED
      BY <3>1, <3>2, <3>3
  <2> QED
    BY <2>1, <2>2
<1> HIDE DEF P
<1>3. Seq(T) \subseteq P
  BY <1>1, <1>2, SequencesFromEmpty
<1> QED
  BY <1>3 DEF P

-----------------------------------------------------------------------------
\* Taking out the k-th element (waiters_remove): those in front keep their place,
\* those behind move up by one.
LEMMA RemoveAtIs ==
    ASSUME NEW S, NEW s \in Seq(S), NEW k \in 1 .. Len(s)
    PROVE  /\ RemoveAt(s, k) \in Seq(S)
           /\ Len(RemoveAt(s, k)) = Len(s) - 1
           /\ \A i \in 1 .. Len(s) - 1 :
                 RemoveAt(s, k)[i] = IF i < k THEN s[i] ELSE s[i + 1]
<1> DEFINE front == SubSeq(s, 1, k - 1)
           back == SubSeq(s, k + 1, Len(s))
           r == front \o back
<1>1. /\ Len(s) \in Nat
      /\ \A i \in 1 .. Len(s) : s[i] \in S
  BY LenProperties, ElementOfSeq
<1>2. /\ front \in Seq(S) /\ Len(front) = k - 1
      /\ \A i \in 1 .. k - 1 : front[i] = s[i]
  <2>1. \A i \in 1 .. k - 1 : s[i] \in S
    BY <1>1
  <2> QED
    BY <1>1, <2>1, SubSeqProperties
<1>3. /\ back \in Seq(S) /\ Len(back) = Len(s) - k
      /\ \A i \in 1 .. Len(s) - k : back[i] = s[k + i]
  <2>1. \A i \in k + 1 .. Len(s) : s[i] \in S
    BY <1>1
  <2> QED
    BY <1>1, <2>1, SubSeqProperties
<1> HIDE DEF front, back
<1>4. /\ r \in Seq(S)
      /\ Len(r) = Len(front) + Len(back)
      /\ \A i \in 1 .. Len(front) + Len(back) :
            r[i] = IF i <= Len(front) THEN front[i] ELSE back[i - Len(front)]
  BY <1>2, <1>3, ConcatProperties
<1> HIDE DEF r
<1>5. Len(r) = Len(s) - 1
  BY <1>1, <1>2, <1>3, <1>4
<1>6. ASSUME NEW i \in 1 .. Len(s) - 1
      PROVE  r[i] = IF i < k THEN s[i] ELSE s[i + 1]
  <2>1. i \in 1 .. Len(front) + Len(back)
    BY <1>1, <1>2, <1>3
  <2>2. CASE i < k
    <3>1. i \in 1 .. k - 1 /\ i <= Len(front)
      BY <1>1, <1>2, <2>2
    <3>2. r[i] = front[i]
      BY <1>4, <2>1, <3>1
    <3> QED
      BY <1>2, <2>2, <3>1, <3>2
  <2>3. CASE ~(i < k)
    <3>1. i - (k - 1) \in 1 .. Len(s) - k /\ k + (i - (k - 1)) = i + 1
      BY <1>1, <2>3
    <3>2. back[i - (k - 1)] = s[i + 1]
      BY <1>3, <3>1
    <3>3. ~(i <= Len(front)) /\ i - Len(front) = i - (k - 1)
      BY <1>1, <1>2, <2>3
    <3>4. r[i] = back[i - (k - 1)]
      BY <1>4, <2>1, <3>3
    <3> QED
      BY <2>3, <3>2, <3>4
  <2> QED
    BY <2>2, <2>3
<1>7. RemoveAt(s, k) = r
  BY DEF RemoveAt, r, front, back
<1> QED
  BY <1>4, <1>5, <1>6, <1>7

-----------------------------------------------------------------------------
(* Sequences cut in two, joined and turned.                                   *)

\* What two sequences have when they are joined.
LEMMA JoinHas ==
    ASSUME NEW T, NEW s \in Seq(T), NEW t \in Seq(T)
    PROVE  /\ s \o t \in Seq(T)
           /\ \A x : Contains(s \o t, x) <=> Contains(s, x) \/ Contains(t, x)
<1>1. /\ s \o t \in Seq(T) /\ Len(s) \in Nat /\ Len(t) \in Nat
      /\ Len(s \o t) = Len(s) + Len(t)
      /\ \A i \in 1 .. Len(s) + Len(t) :
            (s \o t)[i] = IF i <= Len(s) THEN s[i] ELSE t[i - Len(s)]
  BY ConcatProperties, LenProperties
<1>2. ASSUME NEW x, Contains(s \o t, x)
      PROVE  Contains(s, x) \/ Contains(t, x)
  <2>1. PICK i \in 1 .. Len(s) + Len(t) : (s \o t)[i] = x
    BY <1>1, <1>2 DEF Contains
  <2>2. CASE i <= Len(s)
    BY <1>1, <2>1, <2>2 DEF Contains
  <2>3. CASE ~(i <= Len(s))
    <3>1. i - Len(s) \in 1 .. Len(t)
      BY <1>1, <2>3
    <3> QED
      BY <1>1, <2>1, <2>3, <3>1 DEF Contains
  <2> QED
    BY <2>2, <2>3
<1>3. ASSUME NEW x, Contains(s, x)
      PROVE  Contains(s \o t, x)
  <2>1. PICK i \in 1 .. Len(s) : s[i] = x
    BY <1>3 DEF Contains
  <2>2. i \in 1 .. Len(s) + Len(t) /\ (s \o t)[i] = x
    BY <1>1, <2>1
  <2> QED
    BY <1>1, <2>2 DEF Contains
<1>4. ASSUME NEW x, Contains(t, x)
      PROVE  Contains(s \o t, x)
  <2>1. PICK i \in 1 .. Len(t) : t[i] = x
    BY <1>4 DEF Contains
  <2>2. /\ Len(s) + i \in 1 .. Len(s) + Len(t) /\ ~(Len(s) + i <= Len(s))
        /\ (Len(s) + i) - Len(s) = i
    BY <1>1
  <2>3. (s \o t)[Len(s) + i] = x
    BY <1>1, <2>1, <2>2
  <2> QED
    BY <1>1, <2>2, <2>3 DEF Contains
<1> QED
  BY <1>1, <1>2, <1>3, <1>4

\* A sequence is its first n elements followed by the others.
LEMMA CutAt ==
    ASSUME NEW T, NEW s \in Seq(T), NEW n \in 0 .. Len(s)
    PROVE  /\ SubSeq(s, 1, n) \in Seq(T) /\ Len(SubSeq(s, 1, n)) = n
           /\ \A i \in 1 .. n : SubSeq(s, 1, n)[i] = s[i]
           /\ SubSeq(s, n + 1, Len(s)) \in Seq(T)
           /\ Len(SubSeq(s, n + 1, Len(s))) = Len(s) - n
           /\ \A i \in 1 .. Len(s) - n : SubSeq(s, n + 1, Len(s))[i] = s[n + i]
           /\ s = SubSeq(s, 1, n) \o SubSeq(s, n + 1, Len(s))
<1>1. Len(s) \in Nat /\ \A i \in 1 .. Len(s) : s[i] \in T
  BY LenProperties, ElementOfSeq
<1> DEFINE a == SubSeq(s, 1, n)
           b == SubSeq(s, n + 1, Len(s))
<1>2. a \in Seq(T) /\ Len(a) = n /\ \A i \in 1 .. n : a[i] = s[i]
  <2>1. \A i \in 1 .. n : s[i] \in T
    BY <1>1
  <2> QED
    BY <1>1, <2>1, SubSeqProperties
<1>3. /\ b \in Seq(T) /\ Len(b) = Len(s) - n
      /\ \A i \in 1 .. Len(s) - n : b[i] = s[n + i]
  <2>1. \A i \in n + 1 .. Len(s) : s[i] \in T
    BY <1>1
  <2> QED
    BY <1>1, <2>1, SubSeqProperties
<1> HIDE DEF a, b
<1>4. /\ a \o b \in Seq(T) /\ Len(a \o b) = n + (Len(s) - n)
      /\ \A i \in 1 .. n + (Len(s) - n) :
            (a \o b)[i] = IF i <= n THEN a[i] ELSE b[i - n]
  BY <1>2, <1>3, ConcatProperties
<1>5. Len(a \o b) = Len(s)
  BY <1>1, <1>4
<1>6. ASSUME NEW i \in 1 .. Len(s) PROVE (a \o b)[i] = s[i]
  <2>1. i \in 1 .. n + (Len(s) - n)
    BY <1>1
  <2>2. CASE i <= n
    BY <1>2, <1>4, <2>1, <2>2
  <2>3. CASE ~(i <= n)
    <3>1. i - n \in 1 .. Len(s) - n /\ n + (i - n) = i
      BY <1>1, <2>3
    <3> QED
      BY <1>3, <1>4, <2>1, <2>3, <3>1
  <2> QED
    BY <2>2, <2>3
<1>7. a \o b = s
  BY <1>4, <1>5, <1>6, SeqEqual
<1> QED
  BY <1>2, <1>3, <1>7 DEF a, b

\* Cutting two joined sequences where they were joined gives them back.
LEMMA CutBack ==
    ASSUME NEW T, NEW p \in Seq(T), NEW q \in Seq(T)
    PROVE  /\ SubSeq(p \o q, 1, Len(p)) = p
           /\ SubSeq(p \o q, Len(p) + 1, Len(p \o q)) = q
<1> DEFINE s == p \o q
           a == SubSeq(s, 1, Len(p))
           b == SubSeq(s, Len(p) + 1, Len(s))
<1>1. /\ s \in Seq(T) /\ Len(s) = Len(p) + Len(q) /\ Len(p) \in Nat /\ Len(q) \in Nat
      /\ \A i \in 1 .. Len(p) + Len(q) :
            s[i] = IF i <= Len(p) THEN p[i] ELSE q[i - Len(p)]
  BY ConcatProperties, LenProperties
<1> HIDE DEF s
<1>2. /\ a \in Seq(T) /\ Len(a) = Len(p) /\ \A i \in 1 .. Len(p) : a[i] = s[i]
      /\ b \in Seq(T) /\ Len(b) = Len(s) - Len(p)
      /\ \A i \in 1 .. Len(s) - Len(p) : b[i] = s[Len(p) + i]
  <2>1. Len(p) \in 0 .. Len(s)
    BY <1>1
  <2> QED
    BY <1>1, <2>1, CutAt
<1> HIDE DEF a, b
<1>3. \A i \in 1 .. Len(a) : a[i] = p[i]
  BY <1>1, <1>2
<1>4. a = p
  BY <1>2, <1>3, SeqEqual
<1>5. Len(b) = Len(q)
  BY <1>1, <1>2
<1>6. ASSUME NEW i \in 1 .. Len(b) PROVE b[i] = q[i]
  <2>1. /\ Len(p) + i \in 1 .. Len(p) + Len(q) /\ ~(Len(p) + i <= Len(p))
        /\ (Len(p) + i) - Len(p) = i /\ i \in 1 .. Len(s) - Len(p)
    BY <1>1, <1>2
  <2> QED
    BY <1>1, <1>2, <2>1
<1>7. b = q
  BY <1>2, <1>5, <1>6, SeqEqual
<1> QED
  BY <1>4, <1>7 DEF a, b, s

\* Two sequences joined, element by element.
LEMMA JoinedIn ==
    ASSUME NEW T, NEW s \in Seq(T), NEW t \in Seq(T), NEW v, v = s \o t
    PROVE  /\ v \in Seq(T) /\ Len(s) \in Nat /\ Len(t) \in Nat
           /\ Len(v) = Len(s) + Len(t)
           /\ \A i \in 1 .. Len(s) + Len(t) :
                 v[i] = IF i <= Len(s) THEN s[i] ELSE t[i - Len(s)]
BY ConcatProperties, LenProperties

\* It does not matter which two of three are joined first.
LEMMA JoinedThrice ==
    ASSUME NEW T, NEW s \in Seq(T), NEW t \in Seq(T), NEW u \in Seq(T)
    PROVE  /\ (s \o t) \o u = s \o (t \o u)
           /\ s \o t \in Seq(T) /\ t \o u \in Seq(T)
<1>1. (s \o t) \o u = s \o (t \o u)
  BY ConcatAssociative
<1>2. s \o t \in Seq(T)
  BY ConcatProperties
<1>3. t \o u \in Seq(T)
  BY ConcatProperties
<1> QED
  BY <1>1, <1>2, <1>3

\* The same for two sequences joined by a name, of which only these facts are
\* known to a proof that uses it.
Behind(s, t) == s \o t

\* Laying sequences end to end, with Behind.
LEMMA BehindIn ==
    ASSUME NEW T
    PROVE  /\ \A s, t \in Seq(T) :
                 Behind(s, t) \in Seq(T) /\ Len(Behind(s, t)) = Len(s) + Len(t)
           /\ \A s, t, u \in Seq(T) : Behind(Behind(s, t), u) = Behind(s, Behind(t, u))
           /\ \A s \in Seq(T) : Behind(s, <<>>) = s /\ Behind(<<>>, s) = s
           /\ \A s, t \in Seq(T) : Behind(s, t) = <<>> => s = <<>> /\ t = <<>>
           /\ \A s \in Seq(T) : Len(s) \in Nat /\ (s = <<>> <=> Len(s) = 0)
           /\ \A x \in T : <<x>> \in Seq(T) /\ Len(<<x>>) = 1 /\ <<x>>[1] = x
           /\ <<>> \in Seq(T) /\ Len(<<>>) = 0
<1>1. ASSUME NEW s \in Seq(T), NEW t \in Seq(T)
      PROVE  Behind(s, t) \in Seq(T) /\ Len(Behind(s, t)) = Len(s) + Len(t)
  BY ConcatProperties DEF Behind
<1>2. ASSUME NEW s \in Seq(T), NEW t \in Seq(T), NEW u \in Seq(T)
      PROVE  Behind(Behind(s, t), u) = Behind(s, Behind(t, u))
  BY JoinedThrice DEF Behind
<1>3. ASSUME NEW s \in Seq(T) PROVE Behind(s, <<>>) = s /\ Behind(<<>>, s) = s
  BY ConcatEmptySeq DEF Behind
<1>4. ASSUME NEW s \in Seq(T) PROVE Len(s) \in Nat /\ (s = <<>> <=> Len(s) = 0)
  BY LenProperties, EmptySeq
<1>5. ASSUME NEW s \in Seq(T), NEW t \in Seq(T), Behind(s, t) = <<>>
      PROVE  s = <<>> /\ t = <<>>
  <2>1. Len(s) + Len(t) = 0 /\ Len(s) \in Nat /\ Len(t) \in Nat
    BY <1>1, <1>4, <1>5, EmptySeq
  <2>2. Len(s) = 0 /\ Len(t) = 0
    BY <2>1
  <2> QED
    BY <1>4, <2>2
<1>6. ASSUME NEW x \in T PROVE <<x>> \in Seq(T) /\ Len(<<x>>) = 1 /\ <<x>>[1] = x
  OBVIOUS
<1> QED
  BY <1>1, <1>2, <1>3, <1>4, <1>5, <1>6, EmptySeq

\* Where the elements of the first of two sequences are found.
LEMMA BehindAt ==
    ASSUME NEW T, NEW s \in Seq(T), NEW t \in Seq(T)
    PROVE  /\ \A i \in 1 .. Len(s) : Behind(s, t)[i] = s[i]
           /\ \A i \in 1 .. Len(t) : Behind(s, t)[Len(s) + i] = t[i]
<1> DEFINE v == Behind(s, t)
<1>1. v = s \o t
  BY DEF Behind
<1> HIDE DEF v
<1>2. /\ Len(s) \in Nat /\ Len(t) \in Nat
      /\ \A i \in 1 .. Len(s) + Len(t) : v[i] = IF i <= Len(s) THEN s[i] ELSE t[i - Len(s)]
  BY <1>1, JoinedIn
<1>3. \A i \in 1 .. Len(s) : v[i] = s[i]
  BY <1>2
<1>4. ASSUME NEW i \in 1 .. Len(t) PROVE v[Len(s) + i] = t[i]
  <2>1. /\ Len(s) + i \in 1 .. Len(s) + Len(t) /\ ~(Len(s) + i <= Len(s))
        /\ (Len(s) + i) - Len(s) = i
    BY <1>2
  <2> QED
    BY <1>2, <2>1
<1> QED
  BY <1>3, <1>4 DEF v

\* Two sequences laid end to end are cut apart again.
LEMMA BehindCut ==
    ASSUME NEW T, NEW s \in Seq(T), NEW t \in Seq(T)
    PROVE  SubSeq(Behind(s, t), Len(s) + 1, Len(Behind(s, t))) = t
BY CutBack DEF Behind

\* Of two beginnings of a sequence the longer one begins with the shorter one.
LEMMA LongerBeginning ==
    ASSUME NEW T, NEW p \in Seq(T), NEW q \in Seq(T), NEW x \in Seq(T), NEW y \in Seq(T),
           Behind(p, q) = Behind(x, y), Len(p) <= Len(x)
    PROVE  \E z \in Seq(T) : x = Behind(p, z) /\ q = Behind(z, y)
<1> DEFINE z == SubSeq(x, Len(p) + 1, Len(x))
           u == SubSeq(x, 1, Len(p))
<1>1. Len(p) \in Nat /\ Len(x) \in Nat /\ Len(p) \in 0 .. Len(x)
  BY LenProperties
<1>2. \A i \in 1 .. Len(x) : Behind(x, y)[i] = x[i]
  BY BehindAt
<1>3. \A i \in 1 .. Len(p) : Behind(x, y)[i] = p[i]
  <2>1. \A i \in 1 .. Len(p) : Behind(p, q)[i] = p[i]
    BY BehindAt
  <2> QED
    BY <2>1
<1>4. /\ u \in Seq(T) /\ Len(u) = Len(p) /\ \A i \in 1 .. Len(p) : u[i] = x[i]
      /\ z \in Seq(T)
  BY <1>1, CutAt
<1>5. x = Behind(u, z)
  <2>1. x = u \o z
    BY <1>1, CutAt
  <2> HIDE DEF u, z
  <2> QED
    BY <2>1 DEF Behind
<1> HIDE DEF u, z
<1>6. ASSUME NEW i \in 1 .. Len(u) PROVE u[i] = p[i]
  <2>1. i \in 1 .. Len(x) /\ i \in 1 .. Len(p)
    BY <1>1, <1>4
  <2> QED
    BY <1>2, <1>3, <1>4, <2>1
<1>7. u = p
  BY <1>4, <1>6, SeqEqual
<1>8. /\ Behind(Behind(p, z), y) = Behind(p, Behind(z, y))
      /\ Behind(z, y) \in Seq(T)
  BY <1>4, BehindIn
<1> DEFINE w == Behind(z, y)
<1>9. Behind(p, q) = Behind(p, w) /\ w \in Seq(T)
  BY <1>5, <1>7, <1>8
<1> HIDE DEF w
<1>10. q = w
  <2>1. SubSeq(Behind(p, q), Len(p) + 1, Len(Behind(p, q))) = q
    BY BehindCut
  <2>2. SubSeq(Behind(p, w), Len(p) + 1, Len(Behind(p, w))) = w
    BY <1>9, BehindCut
  <2> QED
    BY <1>9, <2>1, <2>2, Zenon
<1> QED
  BY <1>4, <1>5, <1>7, <1>10 DEF w

\* Taking the head off a sequence turned by n.
LEMMA TurnHead ==
    ASSUME NEW T, NEW s \in Seq(T), NEW n \in 1 .. Len(s)
    PROVE  /\ SubSeq(Tail(s), (n - 1) + 1, Len(Tail(s))) = SubSeq(s, n + 1, Len(s))
           /\ <<Head(s)>> \o SubSeq(Tail(s), 1, n - 1) = SubSeq(s, 1, n)
<1> DEFINE t == Tail(s)
<1>1. Len(s) \in Nat /\ s # <<>>
  BY LenProperties, EmptySeq
<1>2. /\ Head(s) \in T /\ Head(s) = s[1] /\ t \in Seq(T) /\ Len(t) = Len(s) - 1
      /\ \A i \in 1 .. Len(t) : t[i] = s[i + 1]
  BY <1>1, HeadTailProperties
<1> HIDE DEF t
<1>3. n \in 0 .. Len(s) /\ n - 1 \in 0 .. Len(t) /\ Len(t) - (n - 1) = Len(s) - n
  BY <1>1, <1>2
<1> DEFINE a == SubSeq(s, 1, n)
           b == SubSeq(s, n + 1, Len(s))
           c == SubSeq(t, 1, n - 1)
           d == SubSeq(t, (n - 1) + 1, Len(t))
<1>4. /\ a \in Seq(T) /\ Len(a) = n /\ \A i \in 1 .. n : a[i] = s[i]
      /\ b \in Seq(T) /\ Len(b) = Len(s) - n /\ \A i \in 1 .. Len(s) - n : b[i] = s[n + i]
  BY <1>3, CutAt
<1>5. /\ c \in Seq(T) /\ Len(c) = n - 1 /\ \A i \in 1 .. n - 1 : c[i] = t[i]
      /\ d \in Seq(T) /\ Len(d) = Len(s) - n
      /\ \A i \in 1 .. Len(s) - n : d[i] = t[(n - 1) + i]
  BY <1>2, <1>3, CutAt
<1> HIDE DEF a, b, c, d
<1>6. b = d
  <2>1. ASSUME NEW i \in 1 .. Len(s) - n PROVE b[i] = d[i]
    <3>1. (n - 1) + i \in 1 .. Len(t) /\ ((n - 1) + i) + 1 = n + i
      BY <1>1, <1>2
    <3>2. d[i] = t[(n - 1) + i]
      BY <1>5
    <3>3. t[(n - 1) + i] = s[n + i]
      <4>1. t[(n - 1) + i] = s[((n - 1) + i) + 1]
        BY <1>2, <3>1
      <4> QED
        BY <3>1, <4>1
    <3>4. b[i] = s[n + i]
      BY <1>4
    <3> QED
      BY <3>2, <3>3, <3>4
  <2> QED
    BY <1>4, <1>5, <2>1, SeqEqual
<1>7. <<Head(s)>> \o c = a
  <2> DEFINE h == <<Head(s)>>
             e == h \o c
  <2>1. h \in Seq(T) /\ Len(h) = 1 /\ h[1] = Head(s)
    BY <1>2
  <2> HIDE DEF h
  <2>2. /\ e \in Seq(T) /\ Len(e) = 1 + (n - 1)
        /\ \A i \in 1 .. 1 + (n - 1) : e[i] = IF i <= 1 THEN h[i] ELSE c[i - 1]
    <3> DEFINE hl == Len(h)
               cl == Len(c)
    <3>1. /\ e \in Seq(T) /\ Len(e) = hl + cl
          /\ \A i \in 1 .. hl + cl : e[i] = IF i <= hl THEN h[i] ELSE c[i - hl]
      BY <1>5, <2>1, ConcatProperties
    <3>2. hl = 1 /\ cl = n - 1
      BY <1>5, <2>1
    <3> HIDE DEF hl, cl, e
    <3> QED
      BY <3>1, <3>2
  <2> HIDE DEF e
  <2>3. Len(e) = n
    BY <2>2
  <2>4. ASSUME NEW i \in 1 .. n PROVE e[i] = a[i]
    <3>1. CASE i = 1
      <4>1. e[i] = h[1]
        BY <2>2, <3>1
      <4>2. a[i] = s[1]
        BY <1>4, <3>1
      <4> QED
        BY <1>2, <2>1, <4>1, <4>2
    <3>2. CASE i # 1
      <4>1. i - 1 \in 1 .. n - 1 /\ i - 1 \in 1 .. Len(t) /\ (i - 1) + 1 = i /\ ~(i <= 1)
        BY <1>1, <1>2, <3>2
      <4>2. e[i] = c[i - 1] /\ c[i - 1] = t[i - 1] /\ t[i - 1] = s[i]
        BY <1>2, <1>5, <2>2, <4>1
      <4> QED
        BY <1>4, <4>2
    <3> QED
      BY <3>1, <3>2
  <2>5. e = a
    BY <1>4, <2>2, <2>3, <2>4, SeqEqual
  <2> QED
    BY <2>5 DEF e, h
<1> QED
  BY <1>6, <1>7 DEF a, b, c, d, t

\* Adding a last element to a sequence turned by n.
LEMMA TurnLast ==
    ASSUME NEW T, NEW s \in Seq(T), NEW x \in T, NEW n \in 0 .. Len(s)
    PROVE  /\ SubSeq(Append(s, x), n + 1, Len(Append(s, x)))
                = Append(SubSeq(s, n + 1, Len(s)), x)
           /\ SubSeq(Append(s, x), 1, n) = SubSeq(s, 1, n)
<1> DEFINE t == Append(s, x)
<1>1. /\ Len(s) \in Nat /\ t \in Seq(T) /\ Len(t) = Len(s) + 1
      /\ \A i \in 1 .. Len(s) : t[i] = s[i]
      /\ t[Len(s) + 1] = x
  BY LenProperties, AppendProperties
<1> HIDE DEF t
<1>2. n \in 0 .. Len(t) /\ Len(t) - n = (Len(s) - n) + 1
  BY <1>1
<1> DEFINE a == SubSeq(s, 1, n)
           b == SubSeq(s, n + 1, Len(s))
           c == SubSeq(t, 1, n)
           d == SubSeq(t, n + 1, Len(t))
<1>3. /\ a \in Seq(T) /\ Len(a) = n /\ \A i \in 1 .. n : a[i] = s[i]
      /\ b \in Seq(T) /\ Len(b) = Len(s) - n /\ \A i \in 1 .. Len(s) - n : b[i] = s[n + i]
  BY CutAt
<1>4. /\ c \in Seq(T) /\ Len(c) = n /\ \A i \in 1 .. n : c[i] = t[i]
      /\ d \in Seq(T) /\ Len(d) = (Len(s) - n) + 1
      /\ \A i \in 1 .. (Len(s) - n) + 1 : d[i] = t[n + i]
  BY <1>1, <1>2, CutAt
<1> HIDE DEF a, b, c, d
<1>5. c = a
  <2>1. ASSUME NEW i \in 1 .. n PROVE c[i] = a[i]
    <3>1. i \in 1 .. Len(s)
      BY <1>1
    <3> QED
      BY <1>1, <1>3, <1>4, <3>1
  <2> QED
    BY <1>3, <1>4, <2>1, SeqEqual
<1>6. d = Append(b, x)
  <2> DEFINE e == Append(b, x)
  <2>1. /\ e \in Seq(T) /\ Len(e) = (Len(s) - n) + 1
        /\ \A i \in 1 .. Len(s) - n : e[i] = b[i]
        /\ e[(Len(s) - n) + 1] = x
    BY <1>3, AppendProperties
  <2> HIDE DEF e
  <2>2. ASSUME NEW i \in 1 .. (Len(s) - n) + 1 PROVE d[i] = e[i]
    <3>1. CASE i = (Len(s) - n) + 1
      <4>1. n + i = Len(s) + 1
        BY <1>1, <3>1
      <4> QED
        BY <1>1, <1>4, <2>1, <3>1, <4>1
    <3>2. CASE i # (Len(s) - n) + 1
      <4>1. i \in 1 .. Len(s) - n /\ n + i \in 1 .. Len(s)
        BY <1>1, <3>2
      <4> QED
        BY <1>1, <1>3, <1>4, <2>1, <4>1
    <3> QED
      BY <3>1, <3>2
  <2>3. d = e
    BY <1>4, <2>1, <2>2, SeqEqual
  <2> QED
    BY <2>3 DEF e
<1> QED
  BY <1>5, <1>6 DEF a, b, c, d, t

\* A sequence is what stands before its k-th element, that element, and the rest.
LEMMA CutOut ==
    ASSUME NEW T, NEW s \in Seq(T), NEW k \in 1 .. Len(s)
    PROVE  /\ SubSeq(s, 1, k - 1) \in Seq(T)
           /\ SubSeq(s, k + 1, Len(s)) \in Seq(T)
           /\ s[k] \in T
           /\ s = (SubSeq(s, 1, k - 1) \o <<s[k]>>) \o SubSeq(s, k + 1, Len(s))
<1>1. Len(s) \in Nat /\ k \in 0 .. Len(s) /\ k - 1 \in 0 .. Len(s)
  BY LenProperties
<1>2. SubSeq(s, 1, k) = SubSeq(s, 1, k - 1) \o <<s[k]>>
  BY <1>1, SubSeqRecursiveSecond
<1> QED
  BY <1>1, <1>2, CutAt, ElementOfSeq

\* An element that is filtered out might as well not be there.
LEMMA OnlyDrop ==
    ASSUME NEW T, NEW a \in Seq(T), NEW b \in Seq(T), NEW x \in T, NEW S, x \notin S
    PROVE  Only((a \o <<x>>) \o b, S) = Only(a \o b, S)
<1>1. <<>> \in Seq(T) /\ Append(<<>>, x) = <<x>>
  BY EmptySeq
<1>2. a \o <<x>> = Append(a, x) /\ Append(a, x) \in Seq(T)
  BY AppendIsConcat, AppendHas
<1>3. Only(a \o <<x>>, S) = Only(a, S)
  BY <1>2, OnlyAppend
<1>4. Only(a \o b, S) = Only(a, S) \o Only(b, S)
  BY OnlyJoined
<1> DEFINE h == a \o <<x>>
<1>5. h \in Seq(T)
  BY <1>2
<1> HIDE DEF h
<1>6. Only(h \o b, S) = Only(h, S) \o Only(b, S)
  BY <1>5, OnlyJoined
<1> QED
  BY <1>3, <1>4, <1>6 DEF h

\* One that is kept stands behind what is kept of those in front of it.
LEMMA OnlyKeep ==
    ASSUME NEW T, NEW a \in Seq(T), NEW b \in Seq(T), NEW x \in T, NEW S, x \in S
    PROVE  Only(Append(a, x) \o b, S) = Append(Only(a, S), x) \o Only(b, S)
<1>1. Only(Append(a, x), S) = Append(Only(a, S), x)
  BY OnlyAppend
<1> DEFINE h == Append(a, x)
<1>2. h \in Seq(T)
  BY AppendHas
<1> HIDE DEF h
<1>3. Only(h \o b, S) = Only(h, S) \o Only(b, S)
  BY <1>2, OnlyJoined
<1> QED
  BY <1>1, <1>3 DEF h

\* Whoever stands before x stands in the part before x.
LEMMA JoinAhead ==
    ASSUME NEW T, NEW a \in Seq(T), NEW b \in Seq(T), NEW x \in T, ~Contains(b, x),
           NEW d, NEW i, NEW j,
           i \in 1 .. Len(Append(a, x) \o b), j \in 1 .. Len(Append(a, x) \o b), i < j,
           (Append(a, x) \o b)[i] = d, (Append(a, x) \o b)[j] = x
    PROVE  Contains(a, d)
<1> DEFINE h == Append(a, x)
           s == h \o b
<1>1. /\ Len(a) \in Nat /\ Len(b) \in Nat
      /\ h \in Seq(T) /\ Len(h) = Len(a) + 1
      /\ \A n \in 1 .. Len(a) : h[n] = a[n]
  BY LenProperties, AppendProperties
<1>2. i \in 1 .. Len(s) /\ j \in 1 .. Len(s) /\ s[i] = d /\ s[j] = x
  OBVIOUS
<1> HIDE DEF h
<1>3. /\ Len(s) = Len(h) + Len(b)
      /\ \A n \in 1 .. Len(h) + Len(b) : s[n] = IF n <= Len(h) THEN h[n] ELSE b[n - Len(h)]
  BY <1>1, ConcatProperties
<1> HIDE DEF s
<1>4. j <= Len(h)
  <2> SUFFICES ASSUME ~(j <= Len(h))
               PROVE  FALSE
    OBVIOUS
  <2>1. s[j] = b[j - Len(h)] /\ j - Len(h) \in 1 .. Len(b)
    BY <1>1, <1>3, <1>2
  <2> QED
    BY <1>2, <2>1 DEF Contains
<1>5. i \in 1 .. Len(a) /\ s[i] = a[i]
  BY <1>1, <1>3, <1>2, <1>4
<1> QED
  BY <1>2, <1>5 DEF Contains

\* A sequence that is turned by nothing, or all the way round.
LEMMA TurnNone ==
    ASSUME NEW T, NEW s \in Seq(T), NEW n \in {0, Len(s)}
    PROVE  (SubSeq(s, n + 1, Len(s)) \o <<>>) \o SubSeq(s, 1, n) = s
<1>1. Len(s) \in Nat
  BY LenProperties
<1>2. CASE n = 0
  <2>1. SubSeq(s, n + 1, Len(s)) = s /\ SubSeq(s, 1, n) = <<>>
    BY <1>1, <1>2, SubSeqFull, SubSeqEmpty
  <2> QED
    BY <2>1, ConcatEmptySeq
<1>3. CASE n = Len(s)
  <2>1. SubSeq(s, n + 1, Len(s)) = <<>> /\ SubSeq(s, 1, n) = s
    BY <1>1, <1>3, SubSeqFull, SubSeqEmpty
  <2> QED
    BY <2>1, EmptySeq, ConcatEmptySeq
<1> QED
  BY <1>2, <1>3

-----------------------------------------------------------------------------
(* Sequences one behind the other. The recursion of Joined is solved in the  *)
(* same way as that of Only.                                                 *)

Joining(F, ss, n) ==
    /\ F = [i \in 0 .. n |-> F[i]]
    /\ F[0] = <<>>
    /\ \A i \in 1 .. n : F[i] = Behind(F[i - 1], ss[i])

\* A solution of the recursion is a function equal to its own defining body.
LEMMA JoiningIs ==
    ASSUME NEW n \in Nat, NEW ss, NEW F
    PROVE  Joining(F, ss, n) <=>
              F = [i \in 0 .. n |-> IF i = 0 THEN <<>> ELSE Behind(F[i - 1], ss[i])]
<1> DEFINE Body(i) == IF i = 0 THEN <<>> ELSE Behind(F[i - 1], ss[i])
<1>1. ASSUME Joining(F, ss, n)
      PROVE  F = [i \in 0 .. n |-> Body(i)]
  <2>1. ASSUME NEW i \in 0 .. n PROVE F[i] = Body(i)
    <3>1. CASE i = 0
      BY <1>1, <3>1 DEF Joining
    <3>2. CASE i # 0
      <4>1. i \in 1 .. n
        BY <3>2
      <4>2. F[i] = Behind(F[i - 1], ss[i])
        BY <1>1, <4>1 DEF Joining
      <4> QED
        BY <3>2, <4>2, Zenon
    <3> QED
      BY <3>1, <3>2
  <2> QED
    BY <1>1, <2>1 DEF Joining
<1>2. ASSUME F = [i \in 0 .. n |-> Body(i)]
      PROVE  Joining(F, ss, n)
  <2>1. \A i \in 0 .. n : F[i] = Body(i)
    BY <1>2
  <2>2. F[0] = <<>> /\ F = [i \in 0 .. n |-> F[i]]
    BY <1>2, <2>1
  <2>3. ASSUME NEW i \in 1 .. n PROVE F[i] = Behind(F[i - 1], ss[i])
    <3>1. i \in 0 .. n /\ i # 0
      OBVIOUS
    <3> QED
      BY <2>1, <3>1
  <2> QED
    BY <2>2, <2>3 DEF Joining
<1> QED
  BY <1>1, <1>2

\* It has a solution.
LEMMA JoiningExists ==
    ASSUME NEW ss PROVE \A n \in Nat : \E F : Joining(F, ss, n)
<1> DEFINE P == {n \in Nat : \E F : Joining(F, ss, n)}
<1>1. 0 \in P
  <2> DEFINE F == [i \in 0 .. 0 |-> <<>>]
  <2>1. Joining(F, ss, 0)
    BY DEF Joining
  <2> QED
    BY <2>1
<1>2. ASSUME NEW n \in Nat, n \in P PROVE n + 1 \in P
  <2>1. PICK F : Joining(F, ss, n)
    BY <1>2
  <2> DEFINE G == [i \in 0 .. n + 1 |-> IF i # n + 1 THEN F[i] ELSE Behind(F[i - 1], ss[i])]
  <2>2. Joining(G, ss, n + 1)
    <3>1. \A i \in 0 .. n : G[i] = F[i]
      OBVIOUS
    <3>2. G[0] = <<>> /\ G = [i \in 0 .. n + 1 |-> G[i]]
      BY <2>1, <3>1 DEF Joining
    <3>3. ASSUME NEW i \in 1 .. n + 1 PROVE G[i] = Behind(G[i - 1], ss[i])
      <4>1. CASE i = n + 1
        <5>1. i - 1 \in 0 .. n
          BY <4>1
        <5>2. i \in 0 .. n + 1 /\ G[i - 1] = F[i - 1]
          BY <3>1, <4>1, <5>1
        <5>3. G[i] = Behind(F[i - 1], ss[i])
          BY <4>1, <5>2, Zenon
        <5> HIDE DEF G
        <5> QED
          BY <5>2, <5>3, Zenon
      <4>2. CASE i # n + 1
        <5>1. i \in 1 .. n /\ i \in 0 .. n /\ i - 1 \in 0 .. n
          BY <4>2
        <5> HIDE DEF G
        <5> QED
          BY <2>1, <3>1, <5>1 DEF Joining
      <4> QED
        BY <4>1, <4>2
    <3> HIDE DEF G
    <3> QED
      BY <3>2, <3>3 DEF Joining
  <2> HIDE DEF G
  <2> QED
    BY <2>2
<1> HIDE DEF P
<1>3. Nat \subseteq P
  BY <1>1, <1>2, NaturalsFrom0
<1> QED
  BY <1>3 DEF P

\* So the function in the definition of Joined solves it.
LEMMA JoinedIs ==
    ASSUME NEW T, NEW ss \in Seq(T)
    PROVE  \E F : Joining(F, ss, Len(ss)) /\ Joined(ss) = F[Len(ss)]
<1> DEFINE F == CHOOSE f : f = [i \in 0 .. Len(ss) |->
                      IF i = 0 THEN <<>> ELSE Behind(f[i - 1], ss[i])]
<1>1. Len(ss) \in Nat
  BY LenProperties
<1>2. \E f : f = [i \in 0 .. Len(ss) |-> IF i = 0 THEN <<>> ELSE Behind(f[i - 1], ss[i])]
  <2>1. PICK f : Joining(f, ss, Len(ss))
    BY <1>1, JoiningExists
  <2>2. f = [i \in 0 .. Len(ss) |-> IF i = 0 THEN <<>> ELSE Behind(f[i - 1], ss[i])]
    BY <1>1, <2>1, JoiningIs
  <2> QED
    BY <2>2
<1>3. F = [i \in 0 .. Len(ss) |-> IF i = 0 THEN <<>> ELSE Behind(F[i - 1], ss[i])]
  BY <1>2
<1>4. Joined(ss) = F[Len(ss)]
  BY DEF Joined, Behind
<1> HIDE DEF F
<1>5. Joining(F, ss, Len(ss))
  BY <1>1, <1>3, JoiningIs
<1> QED
  BY <1>4, <1>5

\* A prefix is joined in the same way.
LEMMA JoiningAgrees ==
    ASSUME NEW ss, NEW tt, NEW m \in Nat, NEW n \in Nat, n <= m,
           NEW F, Joining(F, ss, m), NEW G, Joining(G, tt, n),
           \A i \in 1 .. n : ss[i] = tt[i]
    PROVE  F[n] = G[n]
<1> DEFINE P == {k \in Nat : k <= n => F[k] = G[k]}
<1>1. 0 \in P
  BY DEF Joining
<1>2. ASSUME NEW k \in Nat, k \in P PROVE k + 1 \in P
  <2> SUFFICES ASSUME k + 1 <= n PROVE F[k + 1] = G[k + 1]
    OBVIOUS
  <2>1. k + 1 \in 1 .. n /\ k + 1 \in 1 .. m /\ (k + 1) - 1 = k
    OBVIOUS
  <2>2. F[k] = G[k]
    BY <1>2
  <2>3. F[k + 1] = Behind(F[k], ss[k + 1])
    BY <2>1 DEF Joining
  <2>4. G[k + 1] = Behind(G[k], tt[k + 1])
    BY <2>1 DEF Joining
  <2> QED
    BY <2>1, <2>2, <2>3, <2>4
<1> HIDE DEF P
<1>3. n \in P
  BY <1>1, <1>2, NaturalsFrom0
<1> QED
  BY <1>3 DEF P

\* Nothing is joined to nothing.
LEMMA JoinedEmpty == Joined(<<>>) = <<>>
<1>1. <<>> \in Seq({}) /\ Len(<<>>) = 0
  BY EmptySeq
<1>2. PICK F : Joining(F, <<>>, 0) /\ Joined(<<>>) = F[0]
  BY <1>1, JoinedIs
<1> QED
  BY <1>2 DEF Joining

\* One more sequence.
LEMMA JoinedAppend ==
    ASSUME NEW T, NEW ss \in Seq(T), NEW s \in T
    PROVE  Joined(Append(ss, s)) = Joined(ss) \o s
<1> DEFINE tt == Append(ss, s)
<1>1. /\ Len(ss) \in Nat /\ tt \in Seq(T) /\ Len(tt) = Len(ss) + 1
      /\ tt[Len(ss) + 1] = s /\ \A i \in 1 .. Len(ss) : tt[i] = ss[i]
  BY LenProperties, AppendProperties
<1> HIDE DEF tt
<1>2. PICK n \in Nat : n = Len(ss)
  BY <1>1
<1>3. PICK F : Joining(F, ss, n) /\ Joined(ss) = F[n]
  BY <1>2, JoinedIs
<1>4. PICK G : Joining(G, tt, n + 1) /\ Joined(tt) = G[n + 1]
  BY <1>1, <1>2, JoinedIs
<1>5. G[n] = F[n]
  <2>1. n + 1 \in Nat /\ n <= n + 1
    OBVIOUS
  <2> QED
    BY <1>1, <1>2, <1>3, <1>4, <2>1, JoiningAgrees
<1>6. G[n + 1] = Behind(G[n], tt[n + 1])
  <2>1. n + 1 \in 1 .. n + 1 /\ (n + 1) - 1 = n
    OBVIOUS
  <2> QED
    BY <1>4, <2>1 DEF Joining
<1>7. tt[n + 1] = s
  BY <1>1, <1>2
<1> QED
  BY <1>3, <1>4, <1>5, <1>6, <1>7 DEF tt, Behind

\* What a function makes of every element of s, joined.
Gathered(f, s) == Joined([i \in 1 .. Len(s) |-> f[s[i]]])

\* Gathering goes along when a sequence grows.
LEMMA GatheredGrows ==
    ASSUME NEW S, NEW T, NEW f \in [S -> Seq(T)]
    PROVE  /\ Gathered(f, <<>>) = <<>>
           /\ \A s \in Seq(S), x \in S : Gathered(f, Append(s, x)) = Gathered(f, s) \o f[x]
<1>1. Gathered(f, <<>>) = <<>>
  <2>1. [i \in 1 .. Len(<<>>) |-> f[<<>>[i]]] = <<>>
    BY EmptySeq
  <2> QED
    BY <2>1, JoinedEmpty DEF Gathered
<1>2. ASSUME NEW s \in Seq(S), NEW x \in S
      PROVE  Gathered(f, Append(s, x)) = Gathered(f, s) \o f[x]
  <2> DEFINE t  == Append(s, x)
             ff == [i \in 1 .. Len(s) |-> f[s[i]]]
             gg == [i \in 1 .. Len(t) |-> f[t[i]]]
  <2>1. /\ Len(s) \in Nat /\ t \in Seq(S) /\ Len(t) = Len(s) + 1
        /\ t[Len(s) + 1] = x /\ \A i \in 1 .. Len(s) : t[i] = s[i] /\ s[i] \in S
    BY LenProperties, AppendProperties, ElementOfSeq
  <2> HIDE DEF t
  <2>2. \A i \in 1 .. Len(t) : t[i] \in S
    BY <2>1, ElementOfSeq
  <2>3. ff \in Seq(Seq(T)) /\ Len(ff) = Len(s) /\ \A i \in 1 .. Len(s) : ff[i] = f[s[i]]
    <3>1. \A i \in 1 .. Len(s) : f[s[i]] \in Seq(T)
      BY <2>1
    <3> QED
      BY <2>1, <3>1, IsASeq
  <2>4. gg \in Seq(Seq(T)) /\ Len(gg) = Len(t) /\ \A i \in 1 .. Len(t) : gg[i] = f[t[i]]
    <3>1. \A i \in 1 .. Len(t) : f[t[i]] \in Seq(T)
      BY <2>2
    <3> QED
      BY <2>1, <3>1, IsASeq
  <2> HIDE DEF ff, gg
  <2>5. f[x] \in Seq(T)
    OBVIOUS
  <2>6. gg = Append(ff, f[x])
    <3>1. /\ Append(ff, f[x]) \in Seq(Seq(T)) /\ Len(Append(ff, f[x])) = Len(ff) + 1
          /\ Append(ff, f[x])[Len(ff) + 1] = f[x]
          /\ \A i \in 1 .. Len(ff) : Append(ff, f[x])[i] = ff[i]
      BY <2>3, <2>5, AppendProperties
    <3>2. \A i \in 1 .. Len(gg) : gg[i] = Append(ff, f[x])[i]
      <4> SUFFICES ASSUME NEW i \in 1 .. Len(gg) PROVE gg[i] = Append(ff, f[x])[i]
        OBVIOUS
      <4>1. CASE i = Len(s) + 1
        BY <4>1, <2>1, <2>3, <2>4, <3>1
      <4>2. CASE i # Len(s) + 1
        <5>1. i \in 1 .. Len(s) /\ i \in 1 .. Len(t)
          BY <4>2, <2>1, <2>4
        <5> QED
          BY <5>1, <2>1, <2>3, <2>4, <3>1
      <4> QED
        BY <4>1, <4>2
    <3>3. Len(gg) = Len(Append(ff, f[x]))
      BY <2>1, <2>3, <2>4, <3>1
    <3> QED
      BY <2>4, <3>1, <3>2, <3>3, SeqEqual
  <2>7. Joined(Append(ff, f[x])) = Joined(ff) \o f[x]
    BY <2>3, <2>5, JoinedAppend
  <2> QED
    BY <2>6, <2>7 DEF Gathered, ff, gg, t
<1> QED
  BY <1>1, <1>2

\* What is gathered from all, and from one.
LEMMA GatheredIs ==
    ASSUME NEW S, NEW T, NEW f \in [S -> Seq(T)]
    PROVE  /\ \A s \in Seq(S) : Gathered(f, s) \in Seq(T)
           /\ \A x \in S : Gathered(f, <<x>>) = f[x]
<1>1. \A s \in Seq(S) : Gathered(f, s) \in Seq(T)
  <2> DEFINE P == {s \in Seq(S) : Gathered(f, s) \in Seq(T)}
  <2>1. <<>> \in P
    BY GatheredGrows, EmptySeq
  <2>2. ASSUME NEW s \in Seq(S), NEW x \in S, s \in P PROVE Append(s, x) \in P
    <3>1. f[x] \in Seq(T)
      OBVIOUS
    <3>2. Gathered(f, s) \o f[x] \in Seq(T)
      BY <2>2, <3>1, ConcatProperties
    <3>3. Gathered(f, Append(s, x)) = Gathered(f, s) \o f[x]
      BY GatheredGrows
    <3> HIDE DEF Gathered
    <3> QED
      BY <3>2, <3>3, AppendProperties
  <2> HIDE DEF P
  <2>3. Seq(S) \subseteq P
    BY <2>1, <2>2, SequencesFromEmpty
  <2> QED
    BY <2>3 DEF P
<1>2. ASSUME NEW x \in S PROVE Gathered(f, <<x>>) = f[x]
  <2>1. <<>> \in Seq(S) /\ Append(<<>>, x) = <<x>>
    BY EmptySeq
  <2>2. f[x] \in Seq(T) /\ <<>> \o f[x] = f[x]
    BY ConcatEmptySeq
  <2>3. Gathered(f, Append(<<>>, x)) = Gathered(f, <<>>) \o f[x]
    BY <2>1, GatheredGrows
  <2> QED
    BY <2>1, <2>2, <2>3, GatheredGrows
<1> QED
  BY <1>1, <1>2

\* What is gathered from two parts of a sequence.
LEMMA GatheredJoined ==
    ASSUME NEW S, NEW T, NEW f \in [S -> Seq(T)], NEW s \in Seq(S), NEW t \in Seq(S)
    PROVE  Gathered(f, s \o t) = Gathered(f, s) \o Gathered(f, t)
<1> DEFINE P == {u \in Seq(S) : Gathered(f, s \o u) = Gathered(f, s) \o Gathered(f, u)}
<1>1. <<>> \in P
  <2>1. Gathered(f, s) \in Seq(T) /\ Gathered(f, <<>>) = <<>>
    BY GatheredIs, GatheredGrows
  <2>2. s \o <<>> = s /\ Gathered(f, s) \o <<>> = Gathered(f, s) /\ <<>> \in Seq(S)
    BY <2>1, ConcatEmptySeq, EmptySeq
  <2> QED
    BY <2>1, <2>2, Zenon
<1>2. ASSUME NEW u \in Seq(S), NEW x \in S, u \in P PROVE Append(u, x) \in P
  <2>1. s \o Append(u, x) = Append(s \o u, x) /\ s \o u \in Seq(S) /\ Append(u, x) \in Seq(S)
    BY AppendJoined, ConcatProperties, AppendProperties
  <2>2. Gathered(f, Append(s \o u, x)) = Gathered(f, s \o u) \o f[x]
    BY <2>1, GatheredGrows
  <2>3. Gathered(f, Append(u, x)) = Gathered(f, u) \o f[x]
    BY GatheredGrows
  <2>4. f[x] \in Seq(T)
    OBVIOUS
  <2>5. (Gathered(f, s) \o Gathered(f, u)) \o f[x] = Gathered(f, s) \o (Gathered(f, u) \o f[x])
    BY GatheredIs, <2>4, ConcatAssociative
  <2> QED
    BY <1>2, <2>1, <2>2, <2>3, <2>5
<1> HIDE DEF P
<1>3. t \in P
  BY <1>1, <1>2, SequencesFromEmpty
<1> QED
  BY <1>3 DEF P

\* Where nothing is made of any element, nothing is gathered.
LEMMA GatheredNothing ==
    ASSUME NEW S, NEW T, NEW f \in [S -> Seq(T)], NEW s \in Seq(S),
           \A i \in 1 .. Len(s) : f[s[i]] = <<>>
    PROVE  Gathered(f, s) = <<>>
<1> DEFINE P == {t \in Seq(S) :
                    (\A i \in 1 .. Len(t) : f[t[i]] = <<>>) => Gathered(f, t) = <<>>}
<1>1. <<>> \in P
  BY GatheredGrows, EmptySeq
<1>2. ASSUME NEW t \in Seq(S), NEW x \in S, t \in P PROVE Append(t, x) \in P
  <2> DEFINE u == Append(t, x)
  <2>1. /\ Len(t) \in Nat /\ u \in Seq(S) /\ Len(u) = Len(t) + 1
        /\ u[Len(t) + 1] = x /\ \A i \in 1 .. Len(t) : u[i] = t[i]
    BY LenProperties, AppendProperties
  <2>2. Gathered(f, u) = Gathered(f, t) \o f[x]
    BY GatheredGrows
  <2> HIDE DEF u
  <2>3. ASSUME \A i \in 1 .. Len(u) : f[u[i]] = <<>> PROVE Gathered(f, u) = <<>>
    <3>1. Len(t) + 1 \in 1 .. Len(u) /\ \A i \in 1 .. Len(t) : i \in 1 .. Len(u)
      BY <2>1
    <3>2. f[x] = <<>> /\ \A i \in 1 .. Len(t) : f[t[i]] = <<>>
      BY <2>1, <2>3, <3>1
    <3>3. Gathered(f, t) = <<>>
      BY <1>2, <3>2
    <3> QED
      BY <2>2, <3>2, <3>3, ConcatEmptySeq, EmptySeq
  <2> QED
    BY <2>1, <2>3 DEF u
<1> HIDE DEF P
<1>3. s \in P
  BY <1>1, <1>2, SequencesFromEmpty
<1> QED
  BY <1>3 DEF P

-----------------------------------------------------------------------------
(* The rings of iouring_loop.c do what the sequences of FairScheduler and    *)
(* ReplyStream do, for every size of the array: wherever head and tail are,  *)
(* nothing is lost, doubled or reordered when they wrap around.              *)

Array(Size) == INSTANCE RingArray

-----------------------------------------------------------------------------
(* Indices modulo the size.                                                 *)

\* Below the size an index is its own remainder.
LEMMA ModLow ==
    ASSUME NEW N \in Nat \ {0}, NEW a \in 0 .. N - 1
    PROVE  a % N = a
OBVIOUS

\* Up to twice the size it is turned once.
LEMMA ModHigh ==
    ASSUME NEW N \in Nat \ {0}, NEW a \in N .. 2 * N - 1
    PROVE  a % N = a - N
<1>1. a - N \in 0 .. N - 1
  OBVIOUS
<1>2. (a - N) % N = a - N
  BY <1>1, ModLow
<1>3. a % N = (a - N) % N
  OBVIOUS
<1> QED
  BY <1>2, <1>3

\* The cell i places behind the head, wrapped around once at most.
LEMMA CellIs ==
    ASSUME NEW N \in Nat \ {0}, NEW r, r.head \in Array(N)!Cells, NEW i \in 0 .. N
    PROVE  /\ Array(N)!Cell(r, i) \in Array(N)!Cells
           /\ Array(N)!Cell(r, i) = IF r.head + i < N THEN r.head + i
                                                ELSE r.head + i - N
<1>1. CASE r.head + i < N
  <2>1. r.head + i \in 0 .. N - 1
    BY <1>1 DEF Array!Cells
  <2> QED
    BY <2>1, <1>1, ModLow DEF Array!Cell, Array!Cells
<1>2. CASE ~(r.head + i < N)
  <2>1. r.head + i \in N .. 2 * N - 1
    BY <1>2 DEF Array!Cells
  <2>2. \A a \in N .. 2 * N - 1 : a % N = a - N
    BY ModHigh
  <2>3. (r.head + i) % N = (r.head + i) - N
    <3> DEFINE a == r.head + i
    <3>1. a \in N .. 2 * N - 1
      BY <2>1
    <3> HIDE DEF a
    <3>2. a % N = a - N
      BY <3>1, <2>2
    <3> QED
      BY <3>2 DEF a
  <2> QED
    BY <2>3, <1>2 DEF Array!Cell, Array!Cells
<1> QED
  BY <1>1, <1>2

\* Different places are different cells.
LEMMA CellsDiffer ==
    ASSUME NEW N \in Nat \ {0}, NEW r, r.head \in Array(N)!Cells,
           NEW i \in 0 .. N - 1, NEW j \in 0 .. N - 1,
           Array(N)!Cell(r, i) = Array(N)!Cell(r, j)
    PROVE  i = j
<1>1. PICK h \in 0 .. N - 1 : h = r.head
  BY DEF Array!Cells
<1>2. /\ Array(N)!Cell(r, i) = IF h + i < N THEN h + i ELSE h + i - N
      /\ Array(N)!Cell(r, j) = IF h + j < N THEN h + j ELSE h + j - N
  <2>1. i \in 0 .. N /\ j \in 0 .. N
    OBVIOUS
  <2> QED
    BY <2>1, <1>1, CellIs
<1>3. (IF h + i < N THEN h + i ELSE h + i - N)
        = (IF h + j < N THEN h + j ELSE h + j - N)
  BY <1>2
<1> QED
  BY <1>3

\* What a ring holds, as a sequence.
LEMMA ContentsIs ==
    ASSUME NEW N \in Nat \ {0}, NEW S, NEW r \in Array(N)!Rings(S)
    PROVE  /\ Array(N)!Contents(r) \in Seq(S)
           /\ Len(Array(N)!Contents(r)) = r.count
           /\ \A i \in 1 .. r.count : Array(N)!Contents(r)[i] = r.cell[Array(N)!Cell(r, i - 1)]
<1>1. /\ r.count \in Nat /\ r.count <= N
      /\ r.head \in Array(N)!Cells
      /\ r.cell \in [Array(N)!Cells -> S]
  BY DEF Array!Rings
<1>2. \A i \in 1 .. r.count : Array(N)!Cell(r, i - 1) \in Array(N)!Cells
  <2>1. \A i \in 1 .. r.count : i - 1 \in 0 .. N
    BY <1>1
  <2> QED
    BY <2>1, <1>1, CellIs
<1>3. Array(N)!Contents(r) \in [1 .. r.count -> S]
  BY <1>1, <1>2 DEF Array!Contents
<1>4. /\ Array(N)!Contents(r) \in Seq(S)
      /\ Len(Array(N)!Contents(r)) = r.count
  <2>1. Array(N)!Contents(r) \in Seq(S)
    BY <1>1, <1>3, SeqDef
  <2>2. /\ DOMAIN Array(N)!Contents(r) = 1 .. Len(Array(N)!Contents(r))
        /\ Len(Array(N)!Contents(r)) \in Nat
    BY <2>1, LenProperties
  <2>3. DOMAIN Array(N)!Contents(r) = 1 .. r.count
    BY <1>3
  <2>4. \A n, m \in Nat : 1 .. n = 1 .. m => n = m
    <3> SUFFICES ASSUME NEW n \in Nat, NEW m \in Nat, 1 .. n = 1 .. m
                 PROVE  n = m
      OBVIOUS
    <3>1. \A k \in Int : k \in 1 .. n <=> k \in 1 .. m
      OBVIOUS
    <3> QED
      BY <3>1
  <2> QED
    BY <2>1, <2>2, <2>3, <2>4, <1>1
<1> QED
  BY <1>1, <1>4 DEF Array!Contents

\* Behind the next head every place is one nearer.
LEMMA NextHead ==
    ASSUME NEW N \in Nat \ {0}, NEW r, NEW q, r.head \in Array(N)!Cells,
           q.head = (r.head + 1) % N, NEW i \in 0 .. N - 1
    PROVE  /\ q.head \in Array(N)!Cells
           /\ Array(N)!Cell(q, i) = Array(N)!Cell(r, i + 1)
<1>1. PICK h \in 0 .. N - 1 : h = r.head
  BY DEF Array!Cells
<1>2. PICK g \in 0 .. N - 1 : /\ g = IF h = N - 1 THEN 0 ELSE h + 1
                              /\ g = q.head
  <2>1. CASE h = N - 1
    <3>1. h + 1 \in N .. 2 * N - 1
      BY <2>1
    <3>2. (h + 1) % N = 0
      BY <3>1, <2>1, ModHigh
    <3> QED
      BY <3>2, <2>1, <1>1
  <2>2. CASE h # N - 1
    <3>1. h + 1 \in 0 .. N - 1
      BY <2>2
    <3>2. (h + 1) % N = h + 1
      BY <3>1, ModLow
    <3> QED
      BY <3>1, <3>2, <2>2, <1>1
  <2> QED
    BY <2>1, <2>2
<1>3. q.head \in Array(N)!Cells /\ i \in 0 .. N /\ i + 1 \in 0 .. N
  BY <1>2 DEF Array!Cells
<1>4. /\ Array(N)!Cell(r, i + 1) = IF h + (i + 1) < N THEN h + (i + 1) ELSE h + (i + 1) - N
      /\ Array(N)!Cell(q, i) = IF g + i < N THEN g + i ELSE g + i - N
  BY <1>1, <1>2, <1>3, CellIs
<1>5. (IF h + (i + 1) < N THEN h + (i + 1) ELSE h + (i + 1) - N)
        = (IF g + i < N THEN g + i ELSE g + i - N)
  BY <1>2
<1> QED
  BY <1>3, <1>4, <1>5

\* The cell in front of the head is the one whose next head it is.
LEMMA PreviousHead ==
    ASSUME NEW N \in Nat \ {0}, NEW h \in 0 .. N - 1
    PROVE  /\ (h + N - 1) % N \in Array(N)!Cells
           /\ (((h + N - 1) % N) + 1) % N = h
<1>1. CASE h = 0
  <2>1. h + N - 1 \in 0 .. N - 1
    BY <1>1
  <2>2. (h + N - 1) % N = N - 1
    BY <2>1, <1>1, ModLow
  <2>3. N \in N .. 2 * N - 1
    OBVIOUS
  <2>4. N % N = 0
    BY <2>3, ModHigh
  <2>5. (N - 1) + 1 = N
    OBVIOUS
  <2> QED
    BY <2>2, <2>4, <2>5, <1>1 DEF Array!Cells
<1>2. CASE h # 0
  <2>1. h + N - 1 \in N .. 2 * N - 1
    BY <1>2
  <2>2. (h + N - 1) % N = h - 1
    BY <2>1, ModHigh
  <2>3. h % N = h
    BY ModLow
  <2>4. (h - 1) + 1 = h
    OBVIOUS
  <2> QED
    BY <2>2, <2>3, <2>4, <1>2 DEF Array!Cells
<1> QED
  BY <1>1, <1>2

-----------------------------------------------------------------------------
(* The operations.                                                          *)

\* feq_push and waiters_push: the element comes last, and the tail stays where
\* the count says.
THEOREM PushAppends ==
    ASSUME NEW N \in Nat \ {0}, NEW S, NEW r \in Array(N)!Rings(S), NEW x \in S,
           Array(N)!Exact(r), ~Array(N)!Full(r)
    PROVE  /\ Array(N)!Push(r, x) \in Array(N)!Rings(S)
           /\ Array(N)!Exact(Array(N)!Push(r, x))
           /\ Array(N)!Contents(Array(N)!Push(r, x)) = Append(Array(N)!Contents(r), x)
<1> DEFINE q == Array(N)!Push(r, x)
<1>1. /\ r.count \in Nat /\ r.count < N
      /\ r.head \in Array(N)!Cells /\ r.tail \in Array(N)!Cells
      /\ r.cell \in [Array(N)!Cells -> S]
  BY DEF Array!Rings, Array!Full
<1>2. /\ q.cell = [r.cell EXCEPT ![r.tail] = x]
      /\ q.head = r.head
      /\ q.tail = (r.tail + 1) % N
      /\ q.count = r.count + 1
      /\ q = [cell |-> q.cell, head |-> q.head, tail |-> q.tail, count |-> q.count]
  BY DEF Array!Push
<1>3. r.tail = IF r.head + r.count < N THEN r.head + r.count
                                         ELSE r.head + r.count - N
  BY <1>1, CellIs DEF Array!Exact
<1>4. q.tail = IF r.tail = N - 1 THEN 0 ELSE r.tail + 1
  <2>1. CASE r.tail = N - 1
    <3>1. r.tail + 1 \in N .. 2 * N - 1
      BY <2>1
    <3> QED
      BY <3>1, <2>1, <1>2, ModHigh
  <2>2. CASE r.tail # N - 1
    <3>1. r.tail + 1 \in 0 .. N - 1
      BY <2>2, <1>1 DEF Array!Cells
    <3> QED
      BY <3>1, <2>2, <1>2, ModLow
  <2> QED
    BY <2>1, <2>2
<1>5. q \in Array(N)!Rings(S)
  <2>1. q.cell \in [Array(N)!Cells -> S] /\ q.head \in Array(N)!Cells
    BY <1>1, <1>2
  <2>2. q.tail \in Array(N)!Cells /\ q.count \in 0 .. N
    BY <1>1, <1>2, <1>4 DEF Array!Cells
  <2> QED
    BY <2>1, <2>2, <1>2 DEF Array!Rings
<1>6. Array(N)!Exact(q)
  <2>1. Array(N)!Cell(q, q.count) = IF q.head + q.count < N THEN q.head + q.count
                                                     ELSE q.head + q.count - N
    BY <1>1, <1>2, CellIs
  <2>2. r.head \in Int /\ 0 <= r.head /\ r.head < N
    BY <1>1 DEF Array!Cells
  <2>3. CASE r.head + r.count + 1 < N
    BY <2>1, <2>2, <2>3, <1>1, <1>2, <1>3, <1>4 DEF Array!Exact
  <2>4. CASE ~(r.head + r.count + 1 < N)
    BY <2>1, <2>2, <2>4, <1>1, <1>2, <1>3, <1>4 DEF Array!Exact
  <2> QED
    BY <2>3, <2>4
<1>7. \A i \in 1 .. q.count :
          Array(N)!Contents(q)[i] = Append(Array(N)!Contents(r), x)[i]
  <2> SUFFICES ASSUME NEW i \in 1 .. q.count
               PROVE  Array(N)!Contents(q)[i] = Append(Array(N)!Contents(r), x)[i]
    OBVIOUS
  <2>1. /\ Array(N)!Contents(q)[i] = q.cell[Array(N)!Cell(q, i - 1)]
        /\ Array(N)!Cell(q, i - 1) = Array(N)!Cell(r, i - 1)
    <3> HIDE DEF q
    <3>1. q.head = r.head
      BY <1>2
    <3>2. Array(N)!Contents(q)[i] = q.cell[Array(N)!Cell(q, i - 1)]
      BY <1>2, <1>5, ContentsIs
    <3> QED
      BY <3>1, <3>2 DEF Array!Cell
  <2>2. /\ Array(N)!Contents(r) \in Seq(S)
        /\ Len(Array(N)!Contents(r)) = r.count
        /\ \A j \in 1 .. r.count : Array(N)!Contents(r)[j] = r.cell[Array(N)!Cell(r, j - 1)]
    BY ContentsIs
  <2>3. CASE i = q.count
    <3>1. Array(N)!Cell(r, i - 1) = r.tail
      BY <2>3, <1>1, <1>2 DEF Array!Exact
    <3>2. q.cell[r.tail] = x
      BY <1>1, <1>2
    <3> QED
      BY <3>1, <3>2, <2>1, <2>2, <2>3, <1>1, <1>2, AppendProperties
  <2>4. CASE i # q.count
    <3>1. i \in 1 .. r.count /\ i - 1 \in 0 .. N - 1 /\ i - 1 \in 0 .. N
      BY <2>4, <1>1, <1>2
    <3>2. Array(N)!Cell(r, i - 1) # r.tail
      BY <3>1, <1>1, CellsDiffer DEF Array!Exact
    <3>3. Array(N)!Cell(r, i - 1) \in Array(N)!Cells
      BY <3>1, <1>1, CellIs
    <3>4. q.cell[Array(N)!Cell(r, i - 1)] = r.cell[Array(N)!Cell(r, i - 1)]
      BY <3>2, <3>3, <1>1, <1>2
    <3> QED
      BY <3>1, <3>4, <2>1, <2>2, <1>1, AppendProperties
  <2> QED
    BY <2>3, <2>4
<1>8. /\ Array(N)!Contents(q) \in Seq(S) /\ Len(Array(N)!Contents(q)) = q.count
      /\ Append(Array(N)!Contents(r), x) \in Seq(S)
      /\ Len(Append(Array(N)!Contents(r), x)) = q.count
  BY <1>2, <1>5, ContentsIs, AppendProperties
<1>9. Array(N)!Contents(q) = Append(Array(N)!Contents(r), x)
  BY <1>7, <1>8, SeqEqual
<1> QED
  BY <1>5, <1>6, <1>9

\* feq_pop, and the head of a pass: the first element leaves.
THEOREM PopTakesFirst ==
    ASSUME NEW N \in Nat \ {0}, NEW S, NEW r \in Array(N)!Rings(S),
           Array(N)!Exact(r), r.count > 0
    PROVE  /\ Array(N)!Pop(r) \in Array(N)!Rings(S)
           /\ Array(N)!Exact(Array(N)!Pop(r))
           /\ Array(N)!First(r) = Head(Array(N)!Contents(r))
           /\ Array(N)!Contents(Array(N)!Pop(r)) = Tail(Array(N)!Contents(r))
<1> DEFINE q == Array(N)!Pop(r)
<1>1. /\ r.count \in 1 .. N
      /\ r.head \in Array(N)!Cells /\ r.tail \in Array(N)!Cells
      /\ r.cell \in [Array(N)!Cells -> S]
  BY DEF Array!Rings
<1>2. /\ q.cell = r.cell
      /\ q.head = (r.head + 1) % N
      /\ q.tail = r.tail
      /\ q.count = r.count - 1
      /\ q = [cell |-> q.cell, head |-> q.head, tail |-> q.tail, count |-> q.count]
  BY DEF Array!Pop
<1> HIDE DEF q
<1>3. \A i \in 0 .. N - 1 : q.head \in Array(N)!Cells /\ Array(N)!Cell(q, i) = Array(N)!Cell(r, i + 1)
  BY <1>1, <1>2, NextHead
<1>4. q \in Array(N)!Rings(S)
  <2>1. 0 \in 0 .. N - 1 /\ q.count \in 0 .. N
    BY <1>1, <1>2
  <2> QED
    BY <2>1, <1>1, <1>2, <1>3 DEF Array!Rings
<1>5. Array(N)!Exact(q)
  <2>1. q.count \in 0 .. N - 1 /\ q.count + 1 = r.count
    BY <1>1, <1>2
  <2> QED
    BY <2>1, <1>2, <1>3 DEF Array!Exact
<1>6. /\ Array(N)!Contents(r) \in Seq(S) /\ Len(Array(N)!Contents(r)) = r.count
      /\ \A i \in 1 .. r.count : Array(N)!Contents(r)[i] = r.cell[Array(N)!Cell(r, i - 1)]
      /\ Array(N)!Contents(q) \in Seq(S) /\ Len(Array(N)!Contents(q)) = q.count
      /\ \A i \in 1 .. q.count : Array(N)!Contents(q)[i] = q.cell[Array(N)!Cell(q, i - 1)]
  BY <1>4, ContentsIs
<1>7. Array(N)!Contents(r) # <<>>
  BY <1>1, <1>6, EmptySeq
<1>8. Array(N)!First(r) = Head(Array(N)!Contents(r))
  <2>1. Array(N)!Cell(r, 0) = r.head
    <3>1. r.head \in 0 .. N - 1 /\ r.head + 0 = r.head
      BY <1>1 DEF Array!Cells
    <3> QED
      BY <3>1, ModLow DEF Array!Cell
  <2>2. Head(Array(N)!Contents(r)) = Array(N)!Contents(r)[1]
    BY <1>6
  <2>3. 1 \in 1 .. r.count /\ 1 - 1 = 0
    BY <1>1
  <2> QED
    BY <2>1, <2>2, <2>3, <1>6 DEF Array!First
<1>9. /\ Tail(Array(N)!Contents(r)) \in Seq(S)
      /\ Len(Tail(Array(N)!Contents(r))) = q.count
      /\ \A i \in 1 .. q.count : Tail(Array(N)!Contents(r))[i] = Array(N)!Contents(r)[i + 1]
  BY <1>1, <1>2, <1>6, <1>7, HeadTailProperties
<1>10. \A i \in 1 .. q.count : Array(N)!Contents(q)[i] = Tail(Array(N)!Contents(r))[i]
  <2> SUFFICES ASSUME NEW i \in 1 .. q.count
               PROVE  q.cell[Array(N)!Cell(q, i - 1)] = r.cell[Array(N)!Cell(r, (i + 1) - 1)]
    <3>1. \A i \in 1 .. q.count : i + 1 \in 1 .. r.count
      BY <1>1, <1>2
    <3> QED
      BY <3>1, <1>6, <1>9
  <2>1. i - 1 \in 0 .. N - 1 /\ (i - 1) + 1 = (i + 1) - 1
    BY <1>1, <1>2
  <2> QED
    BY <2>1, <1>2, <1>3
<1>11. Array(N)!Contents(q) = Tail(Array(N)!Contents(r))
  BY <1>6, <1>9, <1>10, SeqEqual
<1> QED
  BY <1>4, <1>5, <1>8, <1>11 DEF q

\* A Bind for which no backend is free goes back to the head: it is the first
\* again, before whatever the client has queued behind it.
THEOREM PushFrontPrepends ==
    ASSUME NEW N \in Nat \ {0}, NEW S, NEW r \in Array(N)!Rings(S), NEW x \in S,
           Array(N)!Exact(r), ~Array(N)!Full(r)
    PROVE  /\ Array(N)!PushFront(r, x) \in Array(N)!Rings(S)
           /\ Array(N)!Exact(Array(N)!PushFront(r, x))
           /\ Array(N)!Contents(Array(N)!PushFront(r, x)) = <<x>> \o Array(N)!Contents(r)
<1> DEFINE q == Array(N)!PushFront(r, x)
           h == (r.head + N - 1) % N
<1>1. /\ r.count \in 0 .. N - 1
      /\ r.head \in 0 .. N - 1 /\ r.tail \in Array(N)!Cells
      /\ r.cell \in [Array(N)!Cells -> S]
  BY DEF Array!Rings, Array!Full, Array!Cells
<1>2. /\ q.cell = [r.cell EXCEPT ![h] = x]
      /\ q.head = h
      /\ q.tail = r.tail
      /\ q.count = r.count + 1
      /\ q = [cell |-> q.cell, head |-> q.head, tail |-> q.tail, count |-> q.count]
  BY DEF Array!PushFront
<1>3. h \in Array(N)!Cells /\ (h + 1) % N = r.head
  <2>1. \A g \in 0 .. N - 1 : /\ (g + N - 1) % N \in Array(N)!Cells
                                 /\ (((g + N - 1) % N) + 1) % N = g
    BY PreviousHead
  <2> QED
    BY <2>1, <1>1
<1> HIDE DEF q, h
<1>4. \A i \in 0 .. N - 1 : Array(N)!Cell(r, i) = Array(N)!Cell(q, i + 1)
  BY <1>2, <1>3, NextHead
<1>5. q \in Array(N)!Rings(S)
  <2>1. q.cell \in [Array(N)!Cells -> S] /\ q.head \in Array(N)!Cells
    BY <1>1, <1>2, <1>3
  <2>2. q.tail \in Array(N)!Cells /\ q.count \in 0 .. N
    BY <1>1, <1>2
  <2> QED
    BY <2>1, <2>2, <1>2 DEF Array!Rings
<1>6. Array(N)!Exact(q)
  BY <1>1, <1>2, <1>4 DEF Array!Exact
<1>7. /\ Array(N)!Contents(r) \in Seq(S) /\ Len(Array(N)!Contents(r)) = r.count
      /\ \A i \in 1 .. r.count : Array(N)!Contents(r)[i] = r.cell[Array(N)!Cell(r, i - 1)]
      /\ Array(N)!Contents(q) \in Seq(S) /\ Len(Array(N)!Contents(q)) = q.count
      /\ \A i \in 1 .. q.count : Array(N)!Contents(q)[i] = q.cell[Array(N)!Cell(q, i - 1)]
  BY <1>5, ContentsIs
<1>8. <<x>> \in Seq(S) /\ Len(<<x>>) = 1 /\ <<x>>[1] = x
  OBVIOUS
<1>9. /\ <<x>> \o Array(N)!Contents(r) \in Seq(S)
      /\ Len(<<x>> \o Array(N)!Contents(r)) = q.count
      /\ \A i \in 1 .. q.count :
            (<<x>> \o Array(N)!Contents(r))[i] = IF i = 1 THEN x ELSE Array(N)!Contents(r)[i - 1]
  <2>1. /\ <<x>> \o Array(N)!Contents(r) \in Seq(S)
        /\ Len(<<x>> \o Array(N)!Contents(r)) = 1 + r.count
        /\ \A i \in 1 .. 1 + r.count : (<<x>> \o Array(N)!Contents(r))[i] =
               IF i <= 1 THEN <<x>>[i] ELSE Array(N)!Contents(r)[i - 1]
    BY <1>7, <1>8, ConcatProperties
  <2>2. q.count = 1 + r.count
    BY <1>1, <1>2
  <2>3. \A i \in 1 .. q.count : i <= 1 <=> i = 1
    OBVIOUS
  <2> QED
    BY <2>1, <2>2, <2>3, <1>8
<1>10. Array(N)!Cell(q, 0) = h
  <2>1. h \in 0 .. N - 1 /\ h + 0 = h
    BY <1>3 DEF Array!Cells
  <2> QED
    BY <2>1, <1>2, ModLow DEF Array!Cell
<1>11. ASSUME NEW i \in 1 .. q.count
       PROVE  Array(N)!Contents(q)[i] = (<<x>> \o Array(N)!Contents(r))[i]
  <2>1. CASE i = 1
    <3>1. q.cell[h] = x
      BY <1>1, <1>2, <1>3
    <3>2. i - 1 = 0
      BY <2>1
    <3> QED
      BY <3>1, <3>2, <2>1, <1>7, <1>9, <1>10
  <2>2. CASE i # 1
    <3>1. /\ i - 1 \in 1 .. r.count /\ i - 2 \in 0 .. N - 1
          /\ (i - 2) + 1 = i - 1 /\ (i - 1) - 1 = i - 2
          /\ i - 1 \in 0 .. N - 1 /\ i - 1 # 0
          /\ 0 \in 0 .. N - 1 /\ i - 2 \in 0 .. N
      BY <2>2, <1>1, <1>2
    <3>2. Array(N)!Cell(q, i - 1) = Array(N)!Cell(r, i - 2)
      BY <3>1, <1>4
    <3>3. Array(N)!Cell(q, i - 1) # h
      BY <3>1, <1>2, <1>3, <1>10, CellsDiffer
    <3>4. Array(N)!Cell(r, i - 2) \in Array(N)!Cells
      BY <3>1, <1>1, CellIs DEF Array!Cells
    <3>5. q.cell[Array(N)!Cell(q, i - 1)] = r.cell[Array(N)!Cell(r, i - 2)]
      BY <3>2, <3>3, <3>4, <1>1, <1>2
    <3> QED
      BY <3>1, <3>5, <2>2, <1>7, <1>9
  <2> QED
    BY <2>1, <2>2
<1>12. Array(N)!Contents(q) = <<x>> \o Array(N)!Contents(r)
  <2> DEFINE p == <<x>> \o Array(N)!Contents(r)
  <2>1. /\ p \in Seq(S) /\ Array(N)!Contents(q) \in Seq(S) /\ Len(Array(N)!Contents(q)) = Len(p)
        /\ \A i \in 1 .. Len(Array(N)!Contents(q)) : Array(N)!Contents(q)[i] = p[i]
    BY <1>7, <1>9, <1>11
  <2> HIDE DEF p
  <2>2. Array(N)!Contents(q) = p
    BY <2>1, SeqEqual
  <2> QED
    BY <2>2 DEF p
<1> QED
  BY <1>5, <1>6, <1>12 DEF q

\* waiters_remove: the entry of the client leaves, the others keep their order;
\* they now begin at the first cell of the array.
THEOREM TakeOutRemoves ==
    ASSUME NEW N \in Nat \ {0}, NEW S, NEW r \in Array(N)!Rings(S), NEW k \in 1 .. r.count,
           \A i, j \in 1 .. r.count : Array(N)!Contents(r)[i] = Array(N)!Contents(r)[j] => i = j
    PROVE  LET q == Array(N)!TakeOut(r, Array(N)!Contents(r)[k])
           IN  /\ q \in Array(N)!Rings(S)
               /\ Array(N)!Exact(q)
               /\ Array(N)!Contents(q) = RemoveAt(Array(N)!Contents(r), k)
<1> DEFINE x == Array(N)!Contents(r)[k]
           q == Array(N)!TakeOut(r, x)
<1>1. /\ r.count \in 1 .. N
      /\ r.head \in Array(N)!Cells /\ r.tail \in Array(N)!Cells
      /\ r.cell \in [Array(N)!Cells -> S]
  BY DEF Array!Rings
<1>2. /\ Array(N)!Contents(r) \in Seq(S) /\ Len(Array(N)!Contents(r)) = r.count
      /\ \A i \in 1 .. r.count : Array(N)!Contents(r)[i] = r.cell[Array(N)!Cell(r, i - 1)]
  BY ContentsIs
<1>3. k - 1 \in 0 .. r.count - 1 /\ r.cell[Array(N)!Cell(r, k - 1)] = x
  BY <1>1, <1>2
<1>4. \A i \in 0 .. r.count - 1 : r.cell[Array(N)!Cell(r, i)] = x => i = k - 1
  <2> SUFFICES ASSUME NEW i \in 0 .. r.count - 1, r.cell[Array(N)!Cell(r, i)] = x
               PROVE  i = k - 1
    OBVIOUS
  <2>1. i + 1 \in 1 .. r.count /\ (i + 1) - 1 = i
    BY <1>1
  <2>2. Array(N)!Contents(r)[i + 1] = Array(N)!Contents(r)[k]
    BY <2>1, <1>2
  <2>3. i + 1 = k
    BY <2>1, <2>2
  <2> QED
    BY <2>3
<1> HIDE DEF x
<1>5. /\ Array(N)!Holds(r, x)
      /\ (CHOOSE i \in 0 .. r.count - 1 : r.cell[Array(N)!Cell(r, i)] = x) = k - 1
  BY <1>3, <1>4 DEF Array!Holds
<1>6. /\ q.cell = [i \in Array(N)!Cells |->
                      IF i >= r.count - 1 THEN r.cell[i]
                      ELSE r.cell[Array(N)!Cell(r, IF i < k - 1 THEN i ELSE i + 1)]]
      /\ q.head = 0
      /\ q.tail = (r.count - 1) % N
      /\ q.count = r.count - 1
      /\ q = [cell |-> q.cell, head |-> q.head, tail |-> q.tail, count |-> q.count]
  BY <1>5 DEF Array!TakeOut
<1> HIDE DEF q
<1>7. r.count - 1 \in 0 .. N - 1 /\ q.tail = r.count - 1
  <2>1. r.count - 1 \in 0 .. N - 1
    BY <1>1
  <2> QED
    BY <2>1, <1>6, ModLow
<1>8. \A i \in 0 .. N - 1 : Array(N)!Cell(q, i) = i
  <2>1. \A i \in 0 .. N - 1 : i % N = i /\ 0 + i = i
    BY ModLow
  <2> QED
    BY <2>1, <1>6 DEF Array!Cell
<1>9. q \in Array(N)!Rings(S)
  <2>1. \A i \in Array(N)!Cells : q.cell[i] \in S
    <3> SUFFICES ASSUME NEW i \in 0 .. N - 1
                 PROVE  q.cell[i] \in S
      BY DEF Array!Cells
    <3>1. CASE i >= r.count - 1
      BY <3>1, <1>1, <1>6 DEF Array!Cells
    <3>2. CASE ~(i >= r.count - 1)
      <4> DEFINE n == IF i < k - 1 THEN i ELSE i + 1
      <4>1. n \in 0 .. N
        OBVIOUS
      <4>2. Array(N)!Cell(r, n) \in Array(N)!Cells
        <5> HIDE DEF n
        <5> QED
          BY <4>1, <1>1, CellIs
      <4>3. q.cell[i] = r.cell[Array(N)!Cell(r, n)]
        BY <3>2, <1>6 DEF Array!Cells
      <4> QED
        BY <4>2, <4>3, <1>1
    <3> QED
      BY <3>1, <3>2
  <2>2. q.cell \in [Array(N)!Cells -> S]
    BY <2>1, <1>6
  <2>3. q.head \in Array(N)!Cells /\ q.tail \in Array(N)!Cells /\ q.count \in 0 .. N
    BY <1>1, <1>6, <1>7 DEF Array!Cells
  <2> QED
    BY <2>2, <2>3, <1>6 DEF Array!Rings
<1>10. Array(N)!Exact(q)
  BY <1>6, <1>7, <1>8 DEF Array!Exact
<1>11. /\ Array(N)!Contents(q) \in Seq(S) /\ Len(Array(N)!Contents(q)) = q.count
       /\ \A i \in 1 .. q.count : Array(N)!Contents(q)[i] = q.cell[Array(N)!Cell(q, i - 1)]
  BY <1>9, ContentsIs
<1>12. /\ RemoveAt(Array(N)!Contents(r), k) \in Seq(S)
       /\ Len(RemoveAt(Array(N)!Contents(r), k)) = q.count
       /\ \A i \in 1 .. q.count : RemoveAt(Array(N)!Contents(r), k)[i] =
              IF i < k THEN Array(N)!Contents(r)[i] ELSE Array(N)!Contents(r)[i + 1]
  BY <1>2, <1>6, RemoveAtIs
<1>13. ASSUME NEW i \in 1 .. q.count
       PROVE  Array(N)!Contents(q)[i] = RemoveAt(Array(N)!Contents(r), k)[i]
  <2>1. /\ i - 1 \in 0 .. N - 1 /\ ~(i - 1 >= r.count - 1)
        /\ i \in 1 .. r.count /\ i + 1 \in 1 .. r.count
        /\ (i - 1) + 1 = i /\ (i + 1) - 1 = i
        /\ i - 1 < k - 1 <=> i < k
    BY <1>1, <1>6
  <2>2. Array(N)!Contents(q)[i] = q.cell[i - 1]
    BY <2>1, <1>8, <1>11
  <2>3. q.cell[i - 1] = r.cell[Array(N)!Cell(r, IF i < k THEN i - 1 ELSE i)]
    BY <2>1, <1>6 DEF Array!Cells
  <2>4. CASE i < k
    BY <2>1, <2>2, <2>3, <2>4, <1>2, <1>12
  <2>5. CASE ~(i < k)
    BY <2>1, <2>2, <2>3, <2>5, <1>2, <1>12
  <2> QED
    BY <2>4, <2>5
<1>14. Array(N)!Contents(q) = RemoveAt(Array(N)!Contents(r), k)
  BY <1>11, <1>12, <1>13, SeqEqual
<1> QED
  BY <1>9, <1>10, <1>14 DEF q, x

-----------------------------------------------------------------------------
(* A ring as a set: which entries it holds, when each is there once.        *)

\* A ring holds what its contents contain, and is distinct when they are.
LEMMA HoldsIs ==
    ASSUME NEW N \in Nat \ {0}, NEW S, NEW r \in Array(N)!Rings(S)
    PROVE  /\ \A x : Array(N)!Holds(r, x) <=> Contains(Array(N)!Contents(r), x)
           /\ Array(N)!Distinct(r) <=> \A i, j \in 1 .. r.count :
                                  Array(N)!Contents(r)[i] = Array(N)!Contents(r)[j] => i = j
<1>0. r.count \in Nat
  BY DEF Array!Rings
<1>1. /\ r.count \in Nat
      /\ Len(Array(N)!Contents(r)) = r.count /\ Array(N)!Contents(r) \in Seq(S)
      /\ \A i \in 1 .. r.count : Array(N)!Contents(r)[i] = r.cell[Array(N)!Cell(r, i - 1)]
  BY <1>0, ContentsIs
<1>2. \A i \in 1 .. r.count : i - 1 \in 0 .. r.count - 1
  BY <1>1
<1>3. \A i \in 0 .. r.count - 1 : i + 1 \in 1 .. r.count /\ (i + 1) - 1 = i
  BY <1>1
<1>4. ASSUME NEW x
      PROVE  Array(N)!Holds(r, x) <=> Contains(Array(N)!Contents(r), x)
  <2>1. ASSUME NEW i \in 0 .. r.count - 1, r.cell[Array(N)!Cell(r, i)] = x
        PROVE  Contains(Array(N)!Contents(r), x)
    <3>1. Array(N)!Contents(r)[i + 1] = x /\ i + 1 \in 1 .. Len(Array(N)!Contents(r))
      BY <1>1, <1>3, <2>1
    <3> QED
      BY <3>1 DEF Contains
  <2>2. ASSUME NEW i \in 1 .. Len(Array(N)!Contents(r)), Array(N)!Contents(r)[i] = x
        PROVE  Array(N)!Holds(r, x)
    BY <1>1, <1>2, <2>2 DEF Array!Holds
  <2> QED
    BY <2>1, <2>2 DEF Array!Holds, Contains
<1>5. ASSUME Array(N)!Distinct(r), NEW i \in 1 .. r.count, NEW j \in 1 .. r.count,
             Array(N)!Contents(r)[i] = Array(N)!Contents(r)[j]
      PROVE  i = j
  <2>1. i - 1 = j - 1
    BY <1>1, <1>2, <1>5 DEF Array!Distinct
  <2> QED
    BY <1>1, <2>1
<1>6. ASSUME \A i, j \in 1 .. r.count : Array(N)!Contents(r)[i] = Array(N)!Contents(r)[j] => i = j,
             NEW i \in 0 .. r.count - 1, NEW j \in 0 .. r.count - 1,
             r.cell[Array(N)!Cell(r, i)] = r.cell[Array(N)!Cell(r, j)]
      PROVE  i = j
  <2>1. Array(N)!Contents(r)[i + 1] = Array(N)!Contents(r)[j + 1]
    BY <1>1, <1>3, <1>6
  <2>2. i + 1 = j + 1
    BY <1>3, <1>6, <2>1
  <2> QED
    BY <1>1, <2>2
<1> QED
  BY <1>4, <1>5, <1>6 DEF Array!Distinct

\* waiters_push of a client that does not wait yet: it waits now, once.
THEOREM PushHolds ==
    ASSUME NEW N \in Nat \ {0}, NEW S, NEW r \in Array(N)!Rings(S), NEW x \in S,
           Array(N)!Exact(r), Array(N)!Distinct(r), ~Array(N)!Full(r), ~Array(N)!Holds(r, x)
    PROVE  LET q == Array(N)!Push(r, x)
           IN  /\ q \in Array(N)!Rings(S) /\ Array(N)!Exact(q) /\ Array(N)!Distinct(q)
               /\ \A y : Array(N)!Holds(q, y) <=> Array(N)!Holds(r, y) \/ y = x
<1> DEFINE q == Array(N)!Push(r, x)
           s == Array(N)!Contents(r)
<1>1. q \in Array(N)!Rings(S) /\ Array(N)!Exact(q) /\ Array(N)!Contents(q) = Append(s, x)
  BY PushAppends
<1>2. s \in Seq(S) /\ Len(s) = r.count /\ r.count \in Nat
  <2>1. s \in Seq(S) /\ Len(s) = r.count
    BY ContentsIs
  <2>2. r.count \in Nat
    BY DEF Array!Rings
  <2> QED
    BY <2>1, <2>2
<1>3. \A y : Array(N)!Holds(q, y) <=> Array(N)!Holds(r, y) \/ y = x
  <2>1. \A y : Array(N)!Holds(r, y) <=> Contains(s, y)
    BY HoldsIs
  <2>2. \A y : Array(N)!Holds(q, y) <=> Contains(Array(N)!Contents(q), y)
    BY <1>1, HoldsIs
  <2>3. \A y : Contains(Append(s, x), y) <=> Contains(s, y) \/ y = x
    BY <1>2, AppendHas
  <2> QED
    BY <1>1, <2>1, <2>2, <2>3
<1>4. \A i, j \in 1 .. r.count : s[i] = s[j] => i = j
  BY HoldsIs
<1>5. \A i \in 1 .. r.count : s[i] # x
  BY <1>2, HoldsIs DEF Contains
<1>6. /\ q.count = r.count + 1
      /\ \A i \in 1 .. q.count : Array(N)!Contents(q)[i] = IF i <= r.count THEN s[i] ELSE x
  <2>1. Len(Array(N)!Contents(q)) = q.count
    BY <1>1, ContentsIs
  <2>2. /\ Len(Append(s, x)) = Len(s) + 1
        /\ \A i \in 1 .. Len(s) : Append(s, x)[i] = s[i]
        /\ Append(s, x)[Len(s) + 1] = x
    BY <1>2
  <2> QED
    BY <1>1, <1>2, <2>1, <2>2
<1> HIDE DEF q, s
<1>7. \A i, j \in 1 .. q.count : Array(N)!Contents(q)[i] = Array(N)!Contents(q)[j] => i = j
  BY <1>2, <1>4, <1>5, <1>6
<1> QED
  BY <1>1, <1>3, <1>7, HoldsIs DEF q

\* The head of a pass: the first client no longer waits, the others do.
THEOREM PopHolds ==
    ASSUME NEW N \in Nat \ {0}, NEW S, NEW r \in Array(N)!Rings(S),
           Array(N)!Exact(r), Array(N)!Distinct(r), r.count > 0
    PROVE  LET q == Array(N)!Pop(r)
           IN  /\ q \in Array(N)!Rings(S) /\ Array(N)!Exact(q) /\ Array(N)!Distinct(q)
               /\ Array(N)!First(r) \in S /\ Array(N)!Holds(r, Array(N)!First(r))
               /\ \A y : Array(N)!Holds(q, y) <=> Array(N)!Holds(r, y) /\ y # Array(N)!First(r)
<1> DEFINE q == Array(N)!Pop(r)
           s == Array(N)!Contents(r)
<1>1. q \in Array(N)!Rings(S) /\ Array(N)!Exact(q) /\ Array(N)!First(r) = Head(s) /\ Array(N)!Contents(q) = Tail(s)
  BY PopTakesFirst
<1>2. s \in Seq(S) /\ Len(s) = r.count /\ r.count \in Nat \ {0}
  <2>1. s \in Seq(S) /\ Len(s) = r.count
    BY ContentsIs
  <2>2. r.count \in Nat \ {0}
    BY DEF Array!Rings
  <2> QED
    BY <2>1, <2>2
<1>3. /\ Array(N)!First(r) = s[1] /\ s[1] \in S
      /\ Len(Array(N)!Contents(q)) = r.count - 1
      /\ \A i \in 1 .. r.count - 1 : Array(N)!Contents(q)[i] = s[i + 1]
  BY <1>1, <1>2
<1>4. \A i, j \in 1 .. r.count : s[i] = s[j] => i = j
  BY HoldsIs
<1>5. q.count = r.count - 1
  BY <1>1, <1>3, ContentsIs
<1> HIDE DEF q, s
<1>6. \A i, j \in 1 .. q.count : Array(N)!Contents(q)[i] = Array(N)!Contents(q)[j] => i = j
  <2>1. \A i \in 1 .. r.count - 1 : i + 1 \in 1 .. r.count
    BY <1>2
  <2> SUFFICES ASSUME NEW i \in 1 .. q.count, NEW j \in 1 .. q.count,
                      Array(N)!Contents(q)[i] = Array(N)!Contents(q)[j]
               PROVE  i = j
    OBVIOUS
  <2>2. s[i + 1] = s[j + 1]
    BY <1>3, <1>5
  <2>3. i + 1 = j + 1
    BY <1>4, <1>5, <2>1, <2>2
  <2> QED
    BY <1>2, <1>5, <2>3
<1>7. \A y : Contains(Array(N)!Contents(q), y) <=> Contains(s, y) /\ y # Array(N)!First(r)
  <2>1. ASSUME NEW i \in 1 .. r.count - 1
        PROVE  i + 1 \in 1 .. Len(s) /\ s[i + 1] # Array(N)!First(r)
    BY <1>2, <1>3, <1>4
  <2>2. ASSUME NEW i \in 1 .. Len(s), s[i] # Array(N)!First(r)
        PROVE  i - 1 \in 1 .. r.count - 1 /\ Array(N)!Contents(q)[i - 1] = s[i]
    <3>1. i - 1 \in 1 .. r.count - 1 /\ (i - 1) + 1 = i
      BY <1>2, <1>3, <2>2
    <3> QED
      BY <1>3, <3>1
  <2>3. ASSUME NEW y, Contains(Array(N)!Contents(q), y)
        PROVE  Contains(s, y) /\ y # Array(N)!First(r)
    BY <1>3, <2>1, <2>3 DEF Contains
  <2>4. ASSUME NEW y, Contains(s, y), y # Array(N)!First(r)
        PROVE  Contains(Array(N)!Contents(q), y)
    BY <1>3, <2>2, <2>4 DEF Contains
  <2> QED
    BY <2>3, <2>4
<1>8. Contains(s, Array(N)!First(r))
  BY <1>2, <1>3 DEF Contains
<1> QED
  BY <1>1, <1>3, <1>6, <1>7, <1>8, HoldsIs DEF q, s

\* waiters_remove: the client no longer waits, the others do.
THEOREM TakeOutHolds ==
    ASSUME NEW N \in Nat \ {0}, NEW S, NEW r \in Array(N)!Rings(S), NEW x,
           Array(N)!Exact(r), Array(N)!Distinct(r)
    PROVE  LET q == Array(N)!TakeOut(r, x)
           IN  /\ q \in Array(N)!Rings(S) /\ Array(N)!Exact(q) /\ Array(N)!Distinct(q)
               /\ \A y : Array(N)!Holds(q, y) <=> Array(N)!Holds(r, y) /\ y # x
<1> DEFINE q == Array(N)!TakeOut(r, x)
           s == Array(N)!Contents(r)
<1>1. CASE ~Array(N)!Holds(r, x)
  BY <1>1 DEF Array!TakeOut
<1>2. CASE Array(N)!Holds(r, x)
  <2>0. r.count \in Nat
    BY DEF Array!Rings
  <2>1. s \in Seq(S) /\ Len(s) = r.count /\ r.count \in Nat
    BY <2>0, ContentsIs
  <2>2. PICK k \in 1 .. r.count : s[k] = x
    BY <1>2, <2>1, HoldsIs DEF Contains
  <2>3. \A i, j \in 1 .. r.count : s[i] = s[j] => i = j
    BY HoldsIs
  <2>4. q \in Array(N)!Rings(S) /\ Array(N)!Exact(q) /\ Array(N)!Contents(q) = RemoveAt(s, k)
    BY <2>2, <2>3, TakeOutRemoves
  <2>5. /\ Len(Array(N)!Contents(q)) = r.count - 1
        /\ \A i \in 1 .. r.count - 1 :
              Array(N)!Contents(q)[i] = IF i < k THEN s[i] ELSE s[i + 1]
    <3>1. k \in 1 .. Len(s)
      BY <2>1, <2>2
    <3>2. /\ Len(RemoveAt(s, k)) = Len(s) - 1
          /\ \A i \in 1 .. Len(s) - 1 :
                RemoveAt(s, k)[i] = IF i < k THEN s[i] ELSE s[i + 1]
      BY <2>1, <3>1, RemoveAtIs
    <3> QED
      BY <2>1, <2>4, <3>2
  <2>6. q.count = r.count - 1
    BY <2>4, <2>5, ContentsIs
  <2> HIDE DEF q, s
  <2> DEFINE f(i) == IF i < k THEN i ELSE i + 1
  <2>7. \A i \in 1 .. r.count - 1 : f(i) \in 1 .. r.count /\ f(i) # k /\ Array(N)!Contents(q)[i] = s[f(i)]
    <3> SUFFICES ASSUME NEW i \in 1 .. r.count - 1
                 PROVE  f(i) \in 1 .. r.count /\ f(i) # k /\ Array(N)!Contents(q)[i] = s[f(i)]
      OBVIOUS
    <3>1. CASE i < k
      BY <2>1, <2>2, <2>5, <3>1
    <3>2. CASE ~(i < k)
      BY <2>1, <2>2, <2>5, <3>2
    <3> QED
      BY <3>1, <3>2
  <2>8. \A i, j \in 1 .. r.count - 1 : f(i) = f(j) => i = j
    BY <2>1
  <2>9. \A j \in 1 .. r.count : j # k => \E i \in 1 .. r.count - 1 : f(i) = j
    <3> SUFFICES ASSUME NEW j \in 1 .. r.count, j # k
                 PROVE  \E i \in 1 .. r.count - 1 : f(i) = j
      OBVIOUS
    <3>1. CASE j < k
      BY <2>1, <3>1
    <3>2. CASE j > k
      <4>1. j - 1 \in 1 .. r.count - 1 /\ f(j - 1) = j
        BY <2>1, <3>2
      <4> QED
        BY <4>1
    <3> QED
      BY <2>1, <3>1, <3>2
  <2> HIDE DEF f
  <2>10. \A i, j \in 1 .. q.count : Array(N)!Contents(q)[i] = Array(N)!Contents(q)[j] => i = j
    BY <2>3, <2>6, <2>7, <2>8
  <2>11. \A y : Contains(Array(N)!Contents(q), y) <=> Contains(s, y) /\ y # x
    <3>1. ASSUME NEW y, Contains(Array(N)!Contents(q), y)
          PROVE  Contains(s, y) /\ y # x
      <4>1. PICK i \in 1 .. r.count - 1 : Array(N)!Contents(q)[i] = y
        BY <2>5, <3>1 DEF Contains
      <4>2. f(i) \in 1 .. Len(s) /\ s[f(i)] = y /\ f(i) # k
        BY <2>1, <2>7, <4>1
      <4>3. y # x
        BY <2>1, <2>2, <2>3, <4>2
      <4> QED
        BY <4>2, <4>3 DEF Contains
    <3>2. ASSUME NEW y, Contains(s, y), y # x
          PROVE  Contains(Array(N)!Contents(q), y)
      <4>1. PICK j \in 1 .. r.count : s[j] = y
        BY <2>1, <3>2 DEF Contains
      <4>2. PICK i \in 1 .. r.count - 1 : f(i) = j
        BY <2>2, <2>9, <3>2, <4>1
      <4> QED
        BY <2>5, <2>7, <4>1, <4>2 DEF Contains
    <3> QED
      BY <3>1, <3>2
  <2> QED
    BY <2>4, <2>10, <2>11, HoldsIs DEF q, s
<1> QED
  BY <1>1, <1>2

\* The count of waiters is the number of clients that wait, so a ring with room
\* for every connection never refuses one.
THEOREM CountHolds ==
    ASSUME NEW N \in Nat \ {0}, NEW S, NEW r \in Array(N)!Rings(S), Array(N)!Distinct(r)
    PROVE  LET held == {x \in S : Array(N)!Holds(r, x)}
           IN  /\ IsFiniteSet(held) /\ Cardinality(held) = r.count
               /\ IsFiniteSet(S) /\ Cardinality(S) = N /\ Array(N)!Full(r) => held = S
<1> DEFINE held == {x \in S : Array(N)!Holds(r, x)}
           f == [i \in 1 .. r.count |-> Array(N)!Contents(r)[i]]
<1>1. Array(N)!Contents(r) \in Seq(S) /\ Len(Array(N)!Contents(r)) = r.count /\ r.count \in 0 .. N
  BY ContentsIs DEF Array!Rings
<1>2. \A i \in 1 .. r.count : Array(N)!Contents(r)[i] \in held
  BY <1>1, HoldsIs DEF Contains
<1>3. \A x \in held : \E i \in 1 .. r.count : Array(N)!Contents(r)[i] = x
  BY <1>1, HoldsIs DEF Contains
<1>4. \A i, j \in 1 .. r.count : Array(N)!Contents(r)[i] = Array(N)!Contents(r)[j] => i = j
  BY HoldsIs
<1> HIDE DEF held
<1>5. f \in Bijection(1 .. r.count, held)
  BY <1>2, <1>3, <1>4 DEF Bijection, Injection, IsInjective, Surjection
<1>6. IsFiniteSet(held) /\ Cardinality(held) = r.count
  <2>1. ExistsBijection(1 .. r.count, held)
    BY <1>5 DEF ExistsBijection
  <2> QED
    BY <1>1, <2>1, FS_CountingElements, FS_NatBijection
<1>7. ASSUME IsFiniteSet(S), Cardinality(S) = N, Array(N)!Full(r)
      PROVE  held = S
  <2>1. r.count = N
    BY <1>1, <1>7 DEF Array!Full
  <2>2. held \in SUBSET S
    BY DEF held
  <2> QED
    BY <1>6, <1>7, <2>1, <2>2, FS_Subset
<1> QED
  BY <1>6, <1>7 DEF held

===============================================================================
