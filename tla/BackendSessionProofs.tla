------------------------- MODULE BackendSessionProofs -------------------------
(****************************************************************************)
(* A pooled session keeps its promise to the event loop for every size of   *)
(* buffers, sockets, rows and dialogues: wherever a receive cuts the byte   *)
(* stream, what is handed on is the whole visible answer to the request     *)
(* just made, and an idle session is in step with its server.               *)
(*                                                                          *)
(* The argument is one about messages. What has not been read yet,          *)
(* recv_acc, down and server.out laid end to end, are the units of the last *)
(* messages of what the server said, and be_resp are the visible ones of    *)
(* the others. Which messages those can be is known for every stage of the  *)
(* login and of the exchange.                                               *)
(****************************************************************************)
EXTENDS BackendSession, DataLemmas

Auths == {<<>>} \cup {AuthMessage(n, [nonce |-> <<n, "s">>]) : n \in Nat}

Secrets == {"a", "b"}

Nonces == {[nonce |-> <<n, "s">>] : n \in Nat}

Proofs == {Proof(p, a) : p \in Secrets, a \in Auths}

Signatures == {ServerSignature(p, a) : p \in Secrets, a \in Auths}

Data == Nat \cup Secrets \cup Nonces \cup Proofs \cup Signatures

Kinds ==
    {"startup", "password", "scram", "gss", "scram-plus", "p", "first", "final", "ok",
     "S", "Z", "E", "P", "B", "X", "1", "2", "D", "C"}

Messages == [kind : Kinds, size : Nat \ {0}, data : Data]

Unit == [m : Messages, at : Nat \ {0}]

Requests == [kind : Kinds, data : Data]

-----------------------------------------------------------------------------
(* Messages and their units *)

\* Message sequences are laid end to end in any grouping.
LEMMA MessagesThrice ==
    \A s, t, u \in Seq(Messages) : (s \o t) \o u = s \o (t \o u)
BY JoinedThrice

\* Laying message sequences end to end.
LEMMA MessagesJoin ==
    /\ \A s, t \in Seq(Messages) : s \o t \in Seq(Messages)
    /\ \A s \in Seq(Messages) : s \o <<>> = s /\ <<>> \o s = s
    /\ \A m \in Messages : <<m>> \in Seq(Messages)
    /\ <<>> \in Seq(Messages)
<1>1. \A s, t \in Seq(Messages) : s \o t \in Seq(Messages)
  BY ConcatProperties
<1>3. \A s \in Seq(Messages) : s \o <<>> = s /\ <<>> \o s = s
  BY ConcatEmptySeq
<1>4. \A m \in Messages : <<m>> \in Seq(Messages)
  OBVIOUS
<1> QED
  BY <1>1, <1>3, <1>4, EmptySeq

\* Units are laid end to end in any grouping.
LEMMA UnitsThrice ==
    \A s, t, u \in Seq(Unit) : (s \o t) \o u = s \o (t \o u)
BY JoinedThrice

\* Laying units end to end.
LEMMA UnitsJoin ==
    /\ \A s, t \in Seq(Unit) : s \o t \in Seq(Unit) /\ Len(s \o t) = Len(s) + Len(t)
    /\ \A s \in Seq(Unit) : s \o <<>> = s /\ <<>> \o s = s
    /\ <<>> \in Seq(Unit)
<1>1. \A s, t \in Seq(Unit) : s \o t \in Seq(Unit) /\ Len(s \o t) = Len(s) + Len(t)
  BY ConcatProperties
<1>3. \A s \in Seq(Unit) : s \o <<>> = s /\ <<>> \o s = s
  BY ConcatEmptySeq
<1> QED
  BY <1>1, <1>3, EmptySeq

\* A message is cut into as many units as its size says, numbered from 1.
LEMMA UnitsAre ==
    ASSUME NEW m \in Messages
    PROVE  /\ m.size \in Nat \ {0}
           /\ Units(m) \in Seq(Unit) /\ Len(Units(m)) = m.size
           /\ \A i \in 1 .. m.size : Units(m)[i] = [m |-> m, at |-> i]
<1>1. m.size \in Nat \ {0}
  BY DEF Messages
<1>2. \A i \in 1 .. m.size : [m |-> m, at |-> i] \in Unit
  BY <1>1 DEF Unit
<1> QED
  BY <1>1, <1>2, IsASeq DEF Units

\* The units of messages laid end to end.
LEMMA FlatIs ==
    /\ Flat(<<>>) = <<>>
    /\ \A t \in Seq(Messages) : Flat(t) \in Seq(Unit)
    /\ \A t, u \in Seq(Messages) : Flat(t \o u) = Flat(t) \o Flat(u)
    /\ \A m \in Messages : Flat(<<m>>) = Units(m)
<1> DEFINE f == [m \in Messages |-> Units(m)]
<1>1. f \in [Messages -> Seq(Unit)]
  BY UnitsAre
<1>2. \A t \in Seq(Messages) : Flat(t) = Gathered(f, t)
  <2> SUFFICES ASSUME NEW t \in Seq(Messages) PROVE Flat(t) = Gathered(f, t)
    OBVIOUS
  <2>1. \A i \in 1 .. Len(t) : f[t[i]] = Units(t[i])
    BY ElementOfSeq
  <2>2. [i \in 1 .. Len(t) |-> f[t[i]]] = [i \in 1 .. Len(t) |-> Units(t[i])]
    BY <2>1
  <2> QED
    BY <2>2 DEF Flat, Gathered
<1>3. \A m \in Messages : f[m] = Units(m)
  OBVIOUS
<1> HIDE DEF f
<1>4. \A m \in Messages : <<m>> \in Seq(Messages)
  OBVIOUS
<1>5. Flat(<<>>) = <<>>
  BY <1>1, <1>2, GatheredGrows, EmptySeq
<1>6. \A t \in Seq(Messages) : Flat(t) \in Seq(Unit)
  BY <1>1, <1>2, GatheredIs
<1>7. \A t, u \in Seq(Messages) : Flat(t \o u) = Flat(t) \o Flat(u)
  <2> SUFFICES ASSUME NEW t \in Seq(Messages), NEW u \in Seq(Messages)
               PROVE  Flat(t \o u) = Flat(t) \o Flat(u)
    OBVIOUS
  <2>1. t \o u \in Seq(Messages)
    BY ConcatProperties
  <2> QED
    <3>1. Gathered(f, t \o u) = Gathered(f, t) \o Gathered(f, u)
      BY <1>1, GatheredJoined
    <3>2. Flat(t \o u) = Gathered(f, t \o u)
      BY <1>2, <2>1, Zenon
    <3>3. Flat(t) = Gathered(f, t) /\ Flat(u) = Gathered(f, u)
      BY <1>2
    <3> QED
      BY <3>1, <3>2, <3>3, Zenon
<1>8. ASSUME NEW m \in Messages PROVE Flat(<<m>>) = Units(m)
  <2>1. Gathered(f, <<m>>) = f[m]
    BY <1>1, GatheredIs
  <2> QED
    BY <1>2, <1>3, <1>4, <2>1, Zenon
<1> QED
  BY <1>5, <1>6, <1>7, <1>8

\* The units of two parts, and of one message more.
LEMMA FlatJoined ==
    ASSUME NEW t \in Seq(Messages), NEW u \in Seq(Messages), NEW v, v = t \o u
    PROVE  /\ v \in Seq(Messages) /\ Flat(v) = Flat(t) \o Flat(u)
           /\ Flat(t) \in Seq(Unit) /\ Flat(u) \in Seq(Unit) /\ Flat(v) \in Seq(Unit)
           /\ Len(Flat(t)) \in Nat /\ Len(Flat(u)) \in Nat
           /\ Len(Flat(v)) = Len(Flat(t)) + Len(Flat(u))
<1>1. v \in Seq(Messages)
  BY JoinedIn
<1>2. Flat(v) = Flat(t) \o Flat(u)
  BY FlatIs, Zenon
<1>3. Flat(t) \in Seq(Unit) /\ Flat(u) \in Seq(Unit)
  BY FlatIs, Zenon
<1> DEFINE x == Flat(t)
           y == Flat(u)
           z == Flat(v)
<1>4. x \in Seq(Unit) /\ y \in Seq(Unit) /\ z = x \o y
  BY <1>2, <1>3
<1> HIDE DEF x, y, z
<1>5. /\ z \in Seq(Unit) /\ Len(x) \in Nat /\ Len(y) \in Nat
      /\ Len(z) = Len(x) + Len(y)
  BY <1>4, JoinedIn
<1> QED
  BY <1>1, <1>2, <1>3, <1>5 DEF x, y, z

\* One more message puts its units behind the others.
LEMMA FlatMore ==
    ASSUME NEW t \in Seq(Messages), NEW m \in Messages, NEW v, v = t \o <<m>>
    PROVE  /\ v \in Seq(Messages) /\ v = Append(t, m)
           /\ Flat(v) = Flat(t) \o Units(m)
           /\ Flat(t) \in Seq(Unit) /\ Units(m) \in Seq(Unit)
           /\ Len(Flat(t)) \in Nat /\ Len(Flat(v)) = Len(Flat(t)) + m.size
           /\ \A i \in 1 .. Len(Flat(t)) : Flat(v)[i] = Flat(t)[i]
           /\ \A i \in Len(Flat(t)) + 1 .. Len(Flat(t)) + m.size :
                 Flat(v)[i] = [m |-> m, at |-> i - Len(Flat(t))]
<1>1. <<m>> \in Seq(Messages) /\ Append(t, m) = t \o <<m>> /\ Flat(<<m>>) = Units(m)
  BY AppendIsConcat, FlatIs
<1>2. v \in Seq(Messages) /\ Flat(v) = Flat(t) \o Units(m) /\ Flat(t) \in Seq(Unit)
  <2> DEFINE o == <<m>>
  <2>1. o \in Seq(Messages) /\ v = t \o o /\ Flat(o) = Units(m)
    BY <1>1
  <2> HIDE DEF o
  <2>2. v \in Seq(Messages) /\ Flat(v) = Flat(t) \o Flat(o) /\ Flat(t) \in Seq(Unit)
    BY <2>1, FlatJoined
  <2> QED
    BY <2>1, <2>2, Zenon
<1> DEFINE x == Flat(t)
           y == Units(m)
           z == Flat(v)
<1>3. /\ y \in Seq(Unit) /\ Len(y) = m.size /\ m.size \in Nat
      /\ \A i \in 1 .. m.size : y[i] = [m |-> m, at |-> i]
  BY UnitsAre
<1>4. x \in Seq(Unit) /\ z = x \o y
  BY <1>2
<1> HIDE DEF x, y, z
<1>5. /\ Len(x) \in Nat /\ Len(z) = Len(x) + Len(y)
      /\ \A i \in 1 .. Len(x) + Len(y) : z[i] = IF i <= Len(x) THEN x[i] ELSE y[i - Len(x)]
  <2>1. x \in Seq(Unit) /\ y \in Seq(Unit) /\ z = x \o y
    BY <1>3, <1>4
  <2> QED
    BY <2>1, JoinedIn
<1>6. \A i \in 1 .. Len(x) : z[i] = x[i]
  BY <1>3, <1>5
<1>7. ASSUME NEW i \in Len(x) + 1 .. Len(x) + m.size
      PROVE  z[i] = [m |-> m, at |-> i - Len(x)]
  <2>1. i \in 1 .. Len(x) + Len(y) /\ ~(i <= Len(x)) /\ i - Len(x) \in 1 .. m.size
    BY <1>3, <1>5
  <2> QED
    BY <1>3, <1>5, <2>1
<1>8. v = Append(t, m)
  BY <1>1, Zenon
<1> QED
  <2>1. /\ z = x \o y /\ Len(z) = Len(x) + m.size
        /\ \A i \in Len(x) + 1 .. Len(x) + m.size : z[i] = [m |-> m, at |-> i - Len(x)]
    BY <1>3, <1>4, <1>5, <1>7
  <2> QED
    BY <1>2, <1>3, <1>5, <1>6, <1>8, <2>1, Zenon DEF x, y, z

\* The same, under a name.
Grows(t, m, v) ==
    /\ v \in Seq(Messages) /\ v = Append(t, m)
    /\ Len(Flat(t)) \in Nat /\ Len(Flat(v)) = Len(Flat(t)) + m.size
    /\ \A i \in 1 .. Len(Flat(t)) : Flat(v)[i] = Flat(t)[i]
    /\ \A i \in Len(Flat(t)) + 1 .. Len(Flat(t)) + m.size :
          Flat(v)[i] = [m |-> m, at |-> i - Len(Flat(t))]

LEMMA FlatGrows ==
    \A t \in Seq(Messages), m \in Messages :
       \A v : v = t \o <<m>> => Grows(t, m, v)
<1> SUFFICES ASSUME NEW t \in Seq(Messages), NEW m \in Messages, NEW v, v = t \o <<m>>
             PROVE  Grows(t, m, v)
  OBVIOUS
<1>1. /\ v \in Seq(Messages) /\ v = Append(t, m)
      /\ Len(Flat(t)) \in Nat /\ Len(Flat(v)) = Len(Flat(t)) + m.size
      /\ \A i \in 1 .. Len(Flat(t)) : Flat(v)[i] = Flat(t)[i]
      /\ \A i \in Len(Flat(t)) + 1 .. Len(Flat(t)) + m.size :
            Flat(v)[i] = [m |-> m, at |-> i - Len(Flat(t))]
  BY FlatMore
<1> QED
  BY <1>1, Zenon DEF Grows

\* What the client is to see of messages one after the other.
LEMMA VisibleIs ==
    /\ Visible(<<>>) = <<>>
    /\ \A t \in Seq(Messages) : Visible(t) \in Seq(Messages)
    /\ \A t, u \in Seq(Messages) : Visible(t \o u) = Visible(t) \o Visible(u)
    /\ \A m \in Messages : Visible(<<m>>) = IF Filtered(m) THEN <<>> ELSE <<m>>
<1> DEFINE f == [m \in Messages |-> IF Filtered(m) THEN <<>> ELSE <<m>>]
<1>1. f \in [Messages -> Seq(Messages)]
  <2>1. \A m \in Messages : <<>> \in Seq(Messages) /\ <<m>> \in Seq(Messages)
    OBVIOUS
  <2> QED
    BY <2>1
<1>2. \A t \in Seq(Messages) : Visible(t) = Gathered(f, t)
  <2> SUFFICES ASSUME NEW t \in Seq(Messages) PROVE Visible(t) = Gathered(f, t)
    OBVIOUS
  <2>1. \A i \in 1 .. Len(t) : f[t[i]] = IF Filtered(t[i]) THEN <<>> ELSE <<t[i]>>
    BY ElementOfSeq
  <2>2. [i \in 1 .. Len(t) |-> f[t[i]]]
            = [i \in 1 .. Len(t) |-> IF Filtered(t[i]) THEN <<>> ELSE <<t[i]>>]
    BY <2>1
  <2> QED
    BY <2>2 DEF Visible, Gathered
<1>3. \A m \in Messages : f[m] = IF Filtered(m) THEN <<>> ELSE <<m>>
  OBVIOUS
<1> HIDE DEF f
<1>4. \A m \in Messages : <<m>> \in Seq(Messages)
  OBVIOUS
<1>5. Visible(<<>>) = <<>>
  BY <1>1, <1>2, GatheredGrows, EmptySeq
<1>6. \A t \in Seq(Messages) : Visible(t) \in Seq(Messages)
  BY <1>1, <1>2, GatheredIs
<1>7. \A t, u \in Seq(Messages) : Visible(t \o u) = Visible(t) \o Visible(u)
  <2> SUFFICES ASSUME NEW t \in Seq(Messages), NEW u \in Seq(Messages)
               PROVE  Visible(t \o u) = Visible(t) \o Visible(u)
    OBVIOUS
  <2>1. t \o u \in Seq(Messages)
    BY ConcatProperties
  <2> QED
    <3>1. Gathered(f, t \o u) = Gathered(f, t) \o Gathered(f, u)
      BY <1>1, GatheredJoined
    <3>2. Visible(t \o u) = Gathered(f, t \o u)
      BY <1>2, <2>1, Zenon
    <3>3. Visible(t) = Gathered(f, t) /\ Visible(u) = Gathered(f, u)
      BY <1>2
    <3> QED
      BY <3>1, <3>2, <3>3, Zenon
<1>8. ASSUME NEW m \in Messages PROVE Visible(<<m>>) = IF Filtered(m) THEN <<>> ELSE <<m>>
  <2>1. Gathered(f, <<m>>) = f[m]
    BY <1>1, GatheredIs
  <2> QED
    BY <1>2, <1>3, <1>4, <2>1, Zenon
<1> QED
  BY <1>5, <1>6, <1>7, <1>8

\* The filter takes nothing but whole messages away.
LEMMA VisibleShorter ==
    \A t \in Seq(Messages) : SizeOf(Visible(t)) <= SizeOf(t)
<1> DEFINE P == {t \in Seq(Messages) : SizeOf(Visible(t)) <= SizeOf(t)}
<1>1. <<>> \in P
  BY VisibleIs, FlatIs, EmptySeq DEF SizeOf
<1>2. ASSUME NEW t \in Seq(Messages), NEW m \in Messages, t \in P
      PROVE  Append(t, m) \in P
  <2>1. Append(t, m) = t \o <<m>> /\ <<m>> \in Seq(Messages) /\ Append(t, m) \in Seq(Messages)
    BY AppendIsConcat, AppendProperties
  <2>2. /\ Flat(t \o <<m>>) = Flat(t) \o Units(m) /\ Flat(t) \in Seq(Unit)
        /\ Units(m) \in Seq(Unit)
    BY <2>1, FlatIs, UnitsAre
  <2>3. /\ SizeOf(t \o <<m>>) = SizeOf(t) + Len(Units(m))
        /\ SizeOf(t) \in Nat /\ Len(Units(m)) \in Nat
    BY <2>2, ConcatProperties, LenProperties DEF SizeOf
  <2>4. /\ Visible(t \o <<m>>) = Visible(t) \o Visible(<<m>>)
        /\ Visible(t) \in Seq(Messages)
    BY <2>1, VisibleIs
  <2>5. CASE Filtered(m)
    <3>1. Visible(t \o <<m>>) = Visible(t)
      BY <2>4, <2>5, VisibleIs, ConcatEmptySeq
    <3>2. SizeOf(Visible(t)) \in Nat
      BY <2>4, FlatIs, LenProperties DEF SizeOf
    <3>3. SizeOf(Visible(t)) <= SizeOf(t \o <<m>>)
      BY <1>2, <2>3, <3>2
    <3> QED
      BY <2>1, <3>1, <3>3, Zenon
  <2>6. CASE ~Filtered(m)
    <3>1. Visible(t \o <<m>>) = Visible(t) \o <<m>>
      BY <2>4, <2>6, VisibleIs
    <3>2. /\ Flat(Visible(t) \o <<m>>) = Flat(Visible(t)) \o Units(m)
          /\ Flat(Visible(t)) \in Seq(Unit)
      BY <2>1, <2>4, FlatIs
    <3>3. /\ SizeOf(Visible(t) \o <<m>>) = SizeOf(Visible(t)) + Len(Units(m))
          /\ SizeOf(Visible(t)) \in Nat
      BY <2>2, <3>2, ConcatProperties, LenProperties DEF SizeOf
    <3>4. SizeOf(Visible(t) \o <<m>>) <= SizeOf(t \o <<m>>)
      BY <1>2, <2>3, <3>3
    <3> QED
      BY <2>1, <3>1, <3>4, Zenon
  <2> QED
    BY <2>5, <2>6
<1> HIDE DEF P
<1>3. Seq(Messages) \subseteq P
  BY <1>1, <1>2, SequencesFromEmpty
<1> QED
  BY <1>3 DEF P

-----------------------------------------------------------------------------
(* Where messages begin and end in a stream of units *)

\* Every unit lies within one of the messages.
LEMMA UnitPlace ==
    ASSUME NEW t \in Seq(Messages), NEW q \in 1 .. Len(Flat(t))
    PROVE  \E a, b \in Seq(Messages), m \in Messages :
              /\ t = (a \o <<m>>) \o b
              /\ Len(Flat(a)) < q /\ q <= Len(Flat(a)) + m.size
              /\ Flat(t)[q] = [m |-> m, at |-> q - Len(Flat(a))]
<1> DEFINE Placed(u, p) ==
              \E a, b \in Seq(Messages), m \in Messages :
                 /\ u = (a \o <<m>>) \o b
                 /\ Len(Flat(a)) < p /\ p <= Len(Flat(a)) + m.size
                 /\ Flat(u)[p] = [m |-> m, at |-> p - Len(Flat(a))]
           P == {u \in Seq(Messages) : \A p \in 1 .. Len(Flat(u)) : Placed(u, p)}
<1>1. <<>> \in P
  BY FlatIs, EmptySeq
<1>2. ASSUME NEW u \in Seq(Messages), NEW x \in Messages, u \in P
      PROVE  Append(u, x) \in P
  <2> DEFINE v == Append(u, x)
  <2>1. v = u \o <<x>> /\ <<x>> \in Seq(Messages)
    BY AppendIsConcat
  <2>2. x.size \in Nat
    BY UnitsAre
  <2> HIDE DEF v
  <2> HIDE DEF P
  <2>3. /\ v \in Seq(Messages)
        /\ Len(Flat(u)) \in Nat /\ Len(Flat(v)) = Len(Flat(u)) + x.size
        /\ \A i \in 1 .. Len(Flat(u)) : Flat(v)[i] = Flat(u)[i]
        /\ \A i \in Len(Flat(u)) + 1 .. Len(Flat(u)) + x.size :
              Flat(v)[i] = [m |-> x, at |-> i - Len(Flat(u))]
    <3>1. Grows(u, x, v)
      BY <2>1, FlatGrows, Zenon
    <3> QED
      BY <3>1, Zenon DEF Grows
  <2> USE DEF P
  <2>4. ASSUME NEW p \in 1 .. Len(Flat(v)) PROVE Placed(v, p)
    <3>1. CASE p <= Len(Flat(u))
      <4>1. p \in 1 .. Len(Flat(u)) /\ Flat(v)[p] = Flat(u)[p]
        BY <2>3, <3>1
      <4>2. PICK a \in Seq(Messages), b \in Seq(Messages), m \in Messages :
                 /\ u = (a \o <<m>>) \o b
                 /\ Len(Flat(a)) < p /\ p <= Len(Flat(a)) + m.size
                 /\ Flat(u)[p] = [m |-> m, at |-> p - Len(Flat(a))]
        BY <1>2, <4>1
      <4> DEFINE c == b \o <<x>>
                 d == a \o <<m>>
      <4>3. c \in Seq(Messages) /\ d \in Seq(Messages)
        BY <2>1, MessagesJoin, Zenon
      <4> HIDE DEF d
      <4>4. (d \o b) \o <<x>> = d \o c
        <5>1. d \in Seq(Messages) /\ <<x>> \in Seq(Messages)
          BY <2>1, <4>3, Zenon
        <5>2. (d \o b) \o <<x>> = d \o (b \o <<x>>)
          <6>1. \A f \in Seq(Messages) : (d \o b) \o f = d \o (b \o f)
            BY <5>1, MessagesThrice, Zenon
          <6> QED
            BY <5>1, <6>1, Zenon
        <5> QED
          BY <5>2, Zenon DEF c
      <4>5. v = d \o c
        <5>1. u = d \o b
          BY <4>2 DEF d
        <5> QED
          BY <2>1, <5>1, <4>4, Zenon
      <4>6. Flat(v)[p] = [m |-> m, at |-> p - Len(Flat(a))]
        BY <4>1, <4>2
      <4> HIDE DEF c
      <4>7. v = (a \o <<m>>) \o c
        BY <4>5 DEF d
      <4> QED
        BY <4>2, <4>3, <4>6, <4>7, Zenon
    <3>2. CASE ~(p <= Len(Flat(u)))
      <4>1. /\ Len(Flat(u)) < p /\ p <= Len(Flat(u)) + x.size
            /\ p \in Len(Flat(u)) + 1 .. Len(Flat(u)) + x.size
        BY <2>2, <2>3, <3>2
      <4>2. Flat(v)[p] = [m |-> x, at |-> p - Len(Flat(u))]
        BY <2>3, <4>1
      <4>3. (u \o <<x>>) \o <<>> = v /\ <<>> \in Seq(Messages)
        <5>1. v \o <<>> = v
          BY <2>3, ConcatEmptySeq
        <5> QED
          BY <2>1, <5>1, EmptySeq, Zenon
      <4> QED
        BY <4>1, <4>2, <4>3, Zenon
    <3> QED
      BY <3>1, <3>2
  <2> QED
    BY <2>3, <2>4 DEF v
<1> HIDE DEF P
<1>3. Seq(Messages) \subseteq P
  BY <1>1, <1>2, SequencesFromEmpty
<1>4. t \in P
  BY <1>3
<1> QED
  BY <1>4 DEF P

\* The last unit of a message is where the messages before it and itself end.
LEMMA MessageEnds ==
    ASSUME NEW t \in Seq(Messages), NEW q \in 1 .. Len(Flat(t)),
           Flat(t)[q].at = Flat(t)[q].m.size
    PROVE  \E a, b \in Seq(Messages) :
              /\ t = a \o b /\ q = Len(Flat(a))
              /\ a # <<>> /\ a[Len(a)] = Flat(t)[q].m
<1>1. PICK a \in Seq(Messages), b \in Seq(Messages), m \in Messages :
              /\ t = (a \o <<m>>) \o b
              /\ Len(Flat(a)) < q /\ q <= Len(Flat(a)) + m.size
              /\ Flat(t)[q] = [m |-> m, at |-> q - Len(Flat(a))]
  BY UnitPlace
<1> DEFINE c == a \o <<m>>
<1>2. c \in Seq(Messages) /\ c = Append(a, m) /\ Len(Flat(c)) = Len(Flat(a)) + m.size
  <2>1. Grows(a, m, c)
    BY FlatGrows, Zenon
  <2> HIDE DEF c
  <2> QED
    BY <2>1 DEF Grows
<1>3. m.size \in Nat /\ Len(Flat(a)) \in Nat /\ Flat(t)[q].at = m.size
  BY <1>1, UnitsAre, FlatMore
<1>5. q = Len(Flat(c))
  <2>1. q - Len(Flat(a)) = m.size
    BY <1>1, <1>3
  <2> QED
    BY <1>2, <1>3, <2>1
<1>6. c[Len(c)] = m /\ c # <<>>
  <2>1. Len(c) = Len(a) + 1 /\ Len(a) \in Nat /\ c[Len(a) + 1] = m
    BY <1>2, AppendProperties, LenProperties
  <2> HIDE DEF c
  <2> QED
    BY <1>2, <2>1, EmptySeq
<1>7. Flat(t)[q].m = m
  BY <1>1
<1> QED
  BY <1>1, <1>2, <1>5, <1>6, <1>7, Zenon

\* What MessagesIn looks at are the first n units.
LEMMA MessagesInBeginning ==
    ASSUME NEW w \in Seq(Unit), NEW z \in Seq(Unit)
    PROVE  MessagesIn(w \o z, Len(w)) = MessagesIn(w, Len(w))
<1> DEFINE g(u, i) == IF u[i].at = u[i].m.size THEN <<u[i].m>> ELSE <<>>
           v == w \o z
<1>1. \A i \in 1 .. Len(w) : v[i] = w[i]
  <2>1. /\ Len(w) \in Nat /\ Len(z) \in Nat
        /\ \A i \in 1 .. Len(w) + Len(z) : v[i] = IF i <= Len(w) THEN w[i] ELSE z[i - Len(w)]
    BY ConcatProperties, LenProperties
  <2> HIDE DEF v
  <2> QED
    BY <2>1
<1> HIDE DEF v
<1>2. [i \in 1 .. Len(w) |-> g(v, i)] = [i \in 1 .. Len(w) |-> g(w, i)]
  BY <1>1
<1>3. MessagesIn(v, Len(w)) = MessagesIn(w, Len(w))
  BY <1>2 DEF MessagesIn
<1> QED
  BY <1>3 DEF v

\* The messages of a stream of whole messages.
LEMMA WholesOfFlat ==
    \A t \in Seq(Messages) : MessagesIn(Flat(t), Len(Flat(t))) = t
<1> DEFINE f == [u \in Unit |-> IF u.at = u.m.size THEN <<u.m>> ELSE <<>>]
<1>1. f \in [Unit -> Seq(Messages)]
  <2>1. \A u \in Unit : <<>> \in Seq(Messages) /\ <<u.m>> \in Seq(Messages)
    BY DEF Unit
  <2> QED
    BY <2>1
<1>2. ASSUME NEW w \in Seq(Unit) PROVE MessagesIn(w, Len(w)) = Gathered(f, w)
  <2>1. \A i \in 1 .. Len(w) :
            f[w[i]] = IF w[i].at = w[i].m.size THEN <<w[i].m>> ELSE <<>>
    BY ElementOfSeq
  <2>2. [i \in 1 .. Len(w) |-> f[w[i]]]
          = [i \in 1 .. Len(w) |-> IF w[i].at = w[i].m.size THEN <<w[i].m>> ELSE <<>>]
    BY <2>1
  <2> QED
    BY <2>2 DEF MessagesIn, Gathered
<1>3. \A u \in Unit : f[u] = IF u.at = u.m.size THEN <<u.m>> ELSE <<>>
  OBVIOUS
<1> HIDE DEF f
<1>4. ASSUME NEW m \in Messages PROVE Gathered(f, Units(m)) = <<m>>
  <2> DEFINE w == Units(m)
  <2>1. PICK k \in Nat : m.size = k + 1
    <3>1. m.size \in Nat \ {0}
      BY UnitsAre
    <3>2. m.size - 1 \in Nat /\ m.size = (m.size - 1) + 1
      BY <3>1
    <3> QED
      BY <3>2
  <2>2. /\ w \in Seq(Unit) /\ Len(w) = k + 1 /\ k \in 0 .. Len(w)
        /\ \A i \in 1 .. k : w[i] = [m |-> m, at |-> i]
        /\ w[k + 1] = [m |-> m, at |-> k + 1]
    BY <2>1, UnitsAre
  <2> HIDE DEF w
  <2> DEFINE a == SubSeq(w, 1, k)
             b == SubSeq(w, k + 1, Len(w))
             u == [m |-> m, at |-> k + 1]
  <2>3. /\ a \in Seq(Unit) /\ Len(a) = k /\ \A i \in 1 .. k : a[i] = w[i]
        /\ b \in Seq(Unit) /\ Len(b) = Len(w) - k
        /\ \A i \in 1 .. Len(w) - k : b[i] = w[k + i]
        /\ w = a \o b
    <3>1. w \in Seq(Unit) /\ k \in 0 .. Len(w)
      BY <2>2
    <3>2. a \in Seq(Unit) /\ Len(a) = k /\ \A i \in 1 .. k : a[i] = w[i]
      BY <3>1, CutAt
    <3>3. /\ b \in Seq(Unit) /\ Len(b) = Len(w) - k
          /\ \A i \in 1 .. Len(w) - k : b[i] = w[k + i]
      BY <3>1, CutAt
    <3>4. w = a \o b
      BY <3>1, CutAt, Zenon
    <3> QED
      BY <3>2, <3>3, <3>4, Zenon
  <2>4. w = a \o b
    BY <2>3
  <2> HIDE DEF a, b
  <2>5. u \in Unit /\ u.at = u.m.size /\ u.m = m
    BY <2>1 DEF Unit
  <2>6. ASSUME NEW i \in 1 .. Len(a) PROVE f[a[i]] = <<>>
    <3>0. i \in 1 .. k /\ i # k + 1
      BY <2>3
    <3>1. a[i] = [m |-> m, at |-> i] /\ i # k + 1
      BY <2>2, <2>3, <3>0
    <3>2. a[i].at = i /\ a[i].m.size = k + 1
      BY <2>1, <3>1
    <3>3. a[i] \in Unit
      BY <2>3, ElementOfSeq, Zenon
    <3> QED
      BY <1>3, <3>1, <3>2, <3>3
  <2>7. Gathered(f, a) = <<>>
    <3>1. a \in Seq(Unit)
      BY <2>3
    <3> QED
      BY <1>1, <2>6, <3>1, GatheredNothing
  <2>8. b = <<u>>
    <3>1. Len(b) = 1 /\ b[1] = u
      BY <2>2, <2>3
    <3> HIDE DEF u
    <3> QED
      BY <2>3, <2>5, <3>1, SeqEqual
  <2>9. Gathered(f, b) = <<m>>
    <3>1. f[u] = <<m>>
      BY <1>3, <2>5
    <3> HIDE DEF u
    <3>2. Gathered(f, <<u>>) = f[u]
      BY <1>1, <2>5, GatheredIs
    <3> QED
      BY <2>8, <3>1, <3>2, Zenon
  <2>10. Gathered(f, a \o b) = Gathered(f, a) \o Gathered(f, b)
    <3>1. a \in Seq(Unit) /\ b \in Seq(Unit)
      BY <2>3
    <3> QED
      BY <1>1, <3>1, GatheredJoined
  <2>11. <<>> \o <<m>> = <<m>>
    BY ConcatEmptySeq
  <2>12. Gathered(f, w) = <<m>>
    BY <2>4, <2>7, <2>9, <2>10, <2>11, Zenon
  <2> QED
    BY <2>12 DEF w
<1> DEFINE P == {t \in Seq(Messages) : Gathered(f, Flat(t)) = t}
<1>5. <<>> \in P
  BY <1>1, FlatIs, GatheredGrows, EmptySeq
<1>6. ASSUME NEW t \in Seq(Messages), NEW m \in Messages, t \in P
      PROVE  Append(t, m) \in P
  <2>1. Append(t, m) = t \o <<m>> /\ <<m>> \in Seq(Messages) /\ Append(t, m) \in Seq(Messages)
    BY AppendIsConcat, AppendProperties
  <2>2. Flat(t \o <<m>>) = Flat(t) \o Units(m)
    BY FlatMore
  <2>3. Gathered(f, Flat(t) \o Units(m)) = Gathered(f, Flat(t)) \o Gathered(f, Units(m))
    <3> DEFINE x == Flat(t)
               y == Units(m)
    <3>1. x \in Seq(Unit) /\ y \in Seq(Unit)
      BY FlatMore
    <3> HIDE DEF x, y
    <3>2. Gathered(f, x \o y) = Gathered(f, x) \o Gathered(f, y)
      BY <1>1, <3>1, GatheredJoined
    <3> QED
      BY <3>2 DEF x, y
  <2>4. Gathered(f, Flat(t)) = t /\ Gathered(f, Units(m)) = <<m>>
    BY <1>4, <1>6
  <2>5. Gathered(f, Flat(Append(t, m))) = Append(t, m)
    BY <2>1, <2>2, <2>3, <2>4, Zenon
  <2> QED
    BY <2>1, <2>5
<1> HIDE DEF P
<1>7. Seq(Messages) \subseteq P
  BY <1>5, <1>6, SequencesFromEmpty
<1> QED
  BY <1>2, <1>7, FlatIs DEF P

-----------------------------------------------------------------------------
(* The invariant *)

\* The units w are the beginning of the messages t, or all of them.
Carries(w, t, whole) ==
    \E z \in Seq(Unit) : Flat(t) = Behind(w, z) /\ (whole => z = <<>>)

States == {"gone", "startup", "password", "scram", "proof", "stuck", "ready"}

Typed ==
    /\ conf \in [method : Methods, params : Params,
                 secret : {"a", "b"}, password : {"a"}]
    /\ phase \in {"down", "login", "idle", "sending", "reading"}
    /\ login \in [rounds : 0 .. MaxRounds, scram : BOOLEAN, nonce : Nat, auth : Auths]
    /\ send_buf \in Seq(Requests) /\ up \in Seq(Requests)
    /\ recv_acc \in Seq(Unit) /\ down \in Seq(Unit)
    /\ be_resp \in Seq(Messages) /\ said \in Seq(Messages)
    /\ server \in [at : States, skip : BOOLEAN, auth : Auths, out : Seq(Unit)]
    /\ used \in [requests : 0 .. MaxRequests, logins : 0 .. MaxLogins,
                 cuts : 0 .. MaxCuts, notices : 0 .. MaxNotices]

Bounded ==
    /\ Len(send_buf) <= 4 /\ Len(up) <= UpCap /\ Len(down) <= DownCap
    /\ Len(recv_acc) <= Cap /\ SizeOf(be_resp) <= Cap

WhenDown ==
    phase = "down" =>
        /\ send_buf = <<>> /\ recv_acc = <<>> /\ be_resp = <<>>
        /\ up = <<>> /\ down = <<>> /\ server = Gone

\* What the server's first SCRAM message says, and what both sides sign.
First == [nonce |-> <<login.nonce, "s">>]

Signed == AuthMessage(login.nonce, First)

ServerIs(at) == server.at \in {at, "gone"}

Writes(kind, data) == up = <<[kind |-> kind, data |-> data]>>

\* The proxy has spoken, and the server has not answered yet.
Starting ==
    /\ Writes("startup", 0) /\ login.rounds = 0 /\ ServerIs("startup")

PasswordSent ==
    /\ conf.method = "password" /\ login.rounds = 1
    /\ Writes("p", conf.password) /\ ServerIs("password")

NonceSent ==
    /\ conf.method = "scram" /\ login.rounds = 1 /\ login.scram
    /\ Writes("p", login.nonce) /\ ServerIs("scram")

ProofSent ==
    /\ conf.method = "scram" /\ login.rounds = 2 /\ login.scram
    /\ login.auth = Signed /\ Writes("p", Proof(conf.password, Signed))
    /\ ServerIs("proof") /\ (server.at = "proof" => server.auth = Signed)

\* The server has answered with t, and the proxy has not read it yet.
Challenged(t) ==
    /\ conf.method \in {"password", "scram"} /\ login.rounds = 0
    /\ t = <<Short(conf.method, 0)>> /\ ServerIs(conf.method)

FirstCame(t) ==
    /\ conf.method = "scram" /\ login.rounds = 1 /\ login.scram
    /\ t = <<Short("first", First)>>
    /\ ServerIs("proof") /\ (server.at = "proof" => server.auth = Signed)

FinalCame(t) ==
    /\ conf.method = "scram" /\ login.rounds = 2 /\ login.scram
    /\ login.auth = Signed /\ Agree /\ ServerIs("ready")
    /\ t = <<Short("final", ServerSignature(conf.secret, Signed))>> \o Welcome

Welcomed(t) ==
    /\ conf.method \in {"trust", "password", "scram"}
    /\ conf.method # "trust" => Agree
    /\ Len(t) \in 1 .. Len(Welcome)
    /\ \A i \in 1 .. Len(t) : t[i] = Welcome[(Len(Welcome) - Len(t)) + i]
    /\ login.rounds = DialogueLength - Len(t) /\ ServerIs("ready")

Refused(t) ==
    /\ t = <<Short("E", 0)>> /\ server.at = "gone"

Unknown(t) ==
    /\ conf.method \in {"gss", "scram-plus"} /\ ServerIs("stuck")
    /\ t \in {<<>>, <<Short(conf.method, 0)>>}

Stage(t) ==
    \/ t = <<>> /\ (Starting \/ PasswordSent \/ NonceSent \/ ProofSent)
    \/ /\ up = <<>>
       /\ \/ Challenged(t) \/ FirstCame(t) \/ FinalCame(t)
          \/ Welcomed(t) \/ Refused(t) \/ Unknown(t)

WhenLogin ==
    phase = "login" =>
        /\ send_buf = <<>> /\ recv_acc = <<>> /\ be_resp = <<>> /\ ~server.skip
        /\ \E t \in Seq(Messages) :
              Carries(down \o server.out, t, server.at # "gone") /\ Stage(t)

\* The messages of request r.
Asked(r) == [i \in 1 .. 4 |-> [kind |-> <<"P", "B", "X", "S">>[i], data |-> r]]

\* After j of the four messages were answered, s are the others.
Asking(r, j, s) ==
    /\ Len(s) = 4 - j
    /\ \A i \in 1 .. 4 - j : s[i] = Asked(r)[j + i]

\* The rows of an answer.
Rows(r) ==
    {<<Message("D", n, r), Short("C", r)>> : n \in RowSizes \ {0}}
        \cup (IF 0 \in RowSizes THEN {<<Short("C", r)>>} ELSE {})

Unfinished(s) == \A i \in 1 .. Len(s) : s[i].kind # "Z"

\* What the server may have said after it answered j messages of request r, and
\* whether it has failed since.
Heard(r, j, failed, s) ==
    LET v == Visible(s)
    IN  /\ j = 0 => ~failed
        /\ j < 4 => Unfinished(s)
        /\ j < 3 /\ ~failed => v = <<>>
        /\ j = 3 /\ ~failed => v \in Rows(r)
        /\ j < 4 /\ failed => v = <<Short("E", r)>>
        /\ j = 4 => /\ ~failed /\ v \in Answers(r)
                    /\ \E u \in Seq(Messages) : s = u \o <<Short("Z", r)>> /\ Unfinished(u)

WhenExchange ==
    phase \in {"sending", "reading"} =>
        /\ ServerIs("ready") /\ (server.at = "gone" => server.out = <<>> /\ ~server.skip)
        /\ phase = "reading" => send_buf = <<>>
        /\ \E j \in 0 .. 4, failed \in BOOLEAN, a, b \in Seq(Messages) :
              /\ Heard(used.requests, j, failed, said)
              /\ server.at = "ready" => server.skip = failed
              /\ Asking(used.requests, j, up \o send_buf)
              /\ said = a \o b /\ be_resp = Visible(a)
              /\ Carries(InFlight, b, server.at # "gone")

SessionInv ==
    Typed /\ Bounded /\ WhenDown /\ WhenLogin /\ IdleInStep /\ WhenExchange

-----------------------------------------------------------------------------
(* Reading from a stream that carries messages *)

\* Behind, for units.
LEMMA UnitBehind ==
    /\ \A s, t \in Seq(Unit) :
          Behind(s, t) \in Seq(Unit) /\ Len(Behind(s, t)) = Len(s) + Len(t)
    /\ \A s, t, u \in Seq(Unit) : Behind(Behind(s, t), u) = Behind(s, Behind(t, u))
    /\ \A s \in Seq(Unit) : Behind(s, <<>>) = s /\ Behind(<<>>, s) = s
    /\ \A s, t \in Seq(Unit) : Behind(s, t) = <<>> => s = <<>> /\ t = <<>>
    /\ \A s \in Seq(Unit) : Len(s) \in Nat /\ (s = <<>> <=> Len(s) = 0)
    /\ <<>> \in Seq(Unit) /\ Len(<<>>) = 0
BY BehindIn

\* Behind, for messages.
LEMMA MessageBehind ==
    /\ \A s, t \in Seq(Messages) :
          Behind(s, t) \in Seq(Messages) /\ Len(Behind(s, t)) = Len(s) + Len(t)
    /\ \A s, t, u \in Seq(Messages) : Behind(Behind(s, t), u) = Behind(s, Behind(t, u))
    /\ \A s \in Seq(Messages) : Behind(s, <<>>) = s /\ Behind(<<>>, s) = s
    /\ \A s \in Seq(Messages) : Len(s) \in Nat /\ (s = <<>> <=> Len(s) = 0)
    /\ \A x \in Messages : <<x>> \in Seq(Messages) /\ Len(<<x>>) = 1 /\ <<x>>[1] = x
    /\ <<>> \in Seq(Messages)
BY BehindIn

\* Cutting into units goes through Behind.
LEMMA FlatBehind ==
    /\ Flat(<<>>) = <<>>
    /\ \A t \in Seq(Messages) : Flat(t) \in Seq(Unit)
    /\ \A t, u \in Seq(Messages) : Flat(Behind(t, u)) = Behind(Flat(t), Flat(u))
    /\ \A m \in Messages : Flat(<<m>>) = Units(m)
BY FlatIs DEF Behind

\* So does filtering.
LEMMA VisibleBehind ==
    /\ Visible(<<>>) = <<>>
    /\ \A t \in Seq(Messages) : Visible(t) \in Seq(Messages)
    /\ \A t, u \in Seq(Messages) : Visible(Behind(t, u)) = Behind(Visible(t), Visible(u))
    /\ \A m \in Messages : Visible(<<m>>) = IF Filtered(m) THEN <<>> ELSE <<m>>
BY VisibleIs DEF Behind

\* Whole messages are taken off the front of a stream.
LEMMA TakenOff ==
    ASSUME NEW w \in Seq(Unit), NEW o \in Seq(Unit),
           NEW a \in Seq(Messages), NEW b \in Seq(Messages), NEW whole,
           Carries(Behind(w, o), Behind(a, b), whole), Len(Flat(a)) <= Len(w)
    PROVE  \E v \in Seq(Unit) : w = Behind(Flat(a), v) /\ Carries(Behind(v, o), b, whole)
<1>1. PICK z \in Seq(Unit) :
              Flat(Behind(a, b)) = Behind(Behind(w, o), z) /\ (whole => z = <<>>)
  BY DEF Carries
<1> DEFINE f == Flat(a)
           g == Flat(b)
           y == Behind(o, z)
<1>2. f \in Seq(Unit) /\ g \in Seq(Unit) /\ Flat(Behind(a, b)) = Behind(f, g)
  BY FlatBehind
<1>3. Behind(Behind(w, o), z) = Behind(w, y) /\ y \in Seq(Unit)
  BY UnitBehind
<1>4. Len(f) <= Len(w)
  OBVIOUS
<1> HIDE DEF f, g, y
<1>5. Behind(f, g) = Behind(w, y)
  BY <1>1, <1>2, <1>3
<1>6. PICK v \in Seq(Unit) : w = Behind(f, v) /\ g = Behind(v, y)
  BY <1>2, <1>3, <1>4, <1>5, LongerBeginning
<1>8. Carries(Behind(v, o), b, whole)
  <2>1. Behind(Behind(v, o), z) = Behind(v, Behind(o, z))
    BY UnitBehind
  <2>2. g = Behind(Behind(v, o), z)
    BY <1>6, <2>1 DEF y
  <2> QED
    BY <1>1, <2>2 DEF Carries, g
<1> QED
  BY <1>6, <1>8 DEF f

\* A stream that carries no messages is empty; one that carries all of them can
\* carry more; one that loses its end is still a beginning.
LEMMA CarriesNothing ==
    ASSUME NEW w \in Seq(Unit), NEW whole, Carries(w, <<>>, whole)
    PROVE  w = <<>>
BY UnitBehind, FlatBehind DEF Carries

\* An empty stream carries no message.
LEMMA NothingCarried ==
    ASSUME NEW whole
    PROVE  Carries(<<>>, <<>>, whole)
BY UnitBehind, FlatBehind DEF Carries

\* What the server adds whole is carried behind the rest.
LEMMA CarriesMore ==
    ASSUME NEW w \in Seq(Unit), NEW t \in Seq(Messages), NEW u \in Seq(Messages),
           NEW whole, Carries(w, t, TRUE)
    PROVE  Carries(Behind(w, Flat(u)), Behind(t, u), whole)
<1>1. Flat(t) = w
  BY UnitBehind DEF Carries
<1>2. Flat(Behind(t, u)) = Behind(w, Flat(u)) /\ Flat(u) \in Seq(Unit)
  BY <1>1, FlatBehind
<1>3. Behind(Behind(w, Flat(u)), <<>>) = Behind(w, Flat(u))
  BY <1>2, UnitBehind
<1>4. Flat(Behind(t, u)) = Behind(Behind(w, Flat(u)), <<>>)
  BY <1>2, <1>3
<1> QED
  BY <1>4, UnitBehind DEF Carries

\* When the end of a stream is lost, what arrives still carries the same messages,
\* the last ones in part.
LEMMA CarriesLess ==
    ASSUME NEW w \in Seq(Unit), NEW o \in Seq(Unit), NEW t \in Seq(Messages),
           NEW whole, Carries(Behind(w, o), t, whole)
    PROVE  Carries(w, t, FALSE)
<1>1. PICK z \in Seq(Unit) : Flat(t) = Behind(Behind(w, o), z)
  BY DEF Carries
<1>2. Behind(Behind(w, o), z) = Behind(w, Behind(o, z)) /\ Behind(o, z) \in Seq(Unit)
  BY UnitBehind
<1> QED
  BY <1>1, <1>2 DEF Carries

\* A sequence of messages is its first one and the others.
LEMMA HeadIn ==
    ASSUME NEW t \in Seq(Messages), t # <<>>
    PROVE  /\ t[1] \in Messages /\ Head(t) = t[1] /\ Tail(t) \in Seq(Messages)
           /\ t = Behind(<<t[1]>>, Tail(t)) /\ Len(t) \in Nat \ {0}
           /\ Len(Tail(t)) = Len(t) - 1
           /\ \A i \in 1 .. Len(t) - 1 : Tail(t)[i] = t[i + 1]
<1>1. /\ Head(t) = t[1] /\ t[1] \in Messages /\ Tail(t) \in Seq(Messages)
      /\ Len(Tail(t)) = Len(t) - 1 /\ Len(t) \in Nat \ {0}
      /\ \A i \in 1 .. Len(t) - 1 : Tail(t)[i] = t[i + 1]
  BY HeadTailProperties, LenProperties, EmptySeq
<1> DEFINE h == <<t[1]>>
           r == Tail(t)
           v == Behind(h, r)
<1>2. h \in Seq(Messages) /\ Len(h) = 1 /\ h[1] = t[1] /\ r \in Seq(Messages)
  BY <1>1
<1>3. Len(r) = Len(t) - 1 /\ \A i \in 1 .. Len(t) - 1 : r[i] = t[i + 1]
  BY <1>1
<1> HIDE DEF h, r
<1>4. /\ v \in Seq(Messages) /\ Len(v) = 1 + Len(r)
      /\ \A i \in 1 .. 1 : v[i] = h[i]
      /\ \A i \in 1 .. Len(r) : v[1 + i] = r[i]
  <2>1. v \in Seq(Messages) /\ Len(v) = Len(h) + Len(r)
    BY <1>2, MessageBehind
  <2>2. /\ \A i \in 1 .. Len(h) : v[i] = h[i]
        /\ \A i \in 1 .. Len(r) : v[Len(h) + i] = r[i]
    <3>1. h \in Seq(Messages) /\ r \in Seq(Messages)
      BY <1>2
    <3> QED
      BY <3>1, BehindAt
  <2> QED
    BY <1>2, <2>1, <2>2
<1> HIDE DEF v
<1>5. ASSUME NEW i \in 1 .. Len(t) PROVE v[i] = t[i]
  <2>1. CASE i = 1
    BY <1>2, <1>4, <2>1
  <2>2. CASE i # 1
    <3>1. i - 1 \in 1 .. Len(t) - 1 /\ 1 + (i - 1) = i /\ (i - 1) + 1 = i
      BY <1>1, <2>2
    <3> QED
      BY <1>3, <1>4, <3>1
  <2> QED
    BY <2>1, <2>2
<1>6. v = t
  <2>1. Len(v) = Len(t)
    BY <1>1, <1>3, <1>4
  <2> QED
    BY <1>4, <1>5, <2>1, SeqEqual
<1> QED
  BY <1>1, <1>6 DEF v, h, r

\* The first unit of a stream is the first one of its first message, which can
\* be taken off once it is there.
LEMMA ReadOne ==
    ASSUME NEW w \in Seq(Unit), NEW o \in Seq(Unit), NEW t \in Seq(Messages),
           NEW whole, Carries(Behind(w, o), t, whole), w # <<>>
    PROVE  /\ t # <<>> /\ w[1] = [m |-> t[1], at |-> 1] /\ t[1].size \in Nat
           /\ Len(w) >= t[1].size =>
                 /\ SubSeq(w, t[1].size + 1, Len(w)) \in Seq(Unit)
                 /\ Len(SubSeq(w, t[1].size + 1, Len(w))) <= Len(w)
                 /\ Carries(Behind(SubSeq(w, t[1].size + 1, Len(w)), o), Tail(t), whole)
<1>1. t # <<>>
  <2>1. Behind(w, o) \in Seq(Unit)
    BY UnitBehind
  <2>2. t = <<>> => Behind(w, o) = <<>>
    BY <2>1, CarriesNothing
  <2> QED
    BY <2>2, UnitBehind
<1> DEFINE m == t[1]
           r == Tail(t)
<1>2. m \in Messages /\ r \in Seq(Messages)
  BY <1>1, HeadIn
<1>3. t = Behind(<<m>>, r)
  BY <1>1, HeadIn
<1> HIDE DEF m, r
<1>4. <<m>> \in Seq(Messages) /\ Flat(<<m>>) = Units(m) /\ Flat(r) \in Seq(Unit)
  BY <1>2, FlatBehind, MessagesJoin
<1>5. /\ Units(m) \in Seq(Unit) /\ Len(Units(m)) = m.size /\ m.size \in Nat \ {0}
      /\ Units(m)[1] = [m |-> m, at |-> 1]
  <2>1. /\ m.size \in Nat \ {0} /\ Units(m) \in Seq(Unit) /\ Len(Units(m)) = m.size
        /\ \A i \in 1 .. m.size : Units(m)[i] = [m |-> m, at |-> i]
    BY <1>2, UnitsAre, Zenon
  <2>2. 1 \in 1 .. m.size
    BY <2>1
  <2> QED
    BY <2>1, <2>2, Zenon
<1>6. Flat(t) = Behind(Units(m), Flat(r))
  BY <1>2, <1>3, <1>4, FlatBehind, Zenon
<1> DEFINE y == Units(m)
           f == Flat(r)
<1>7. y \in Seq(Unit) /\ f \in Seq(Unit)
  BY <1>4, <1>5
<1>8. Len(w) \in Nat \ {0}
  BY LenProperties, EmptySeq
<1>9. w[1] = [m |-> m, at |-> 1]
  <2>1. PICK z \in Seq(Unit) : Flat(t) = Behind(Behind(w, o), z)
    BY DEF Carries
  <2>2. Behind(Behind(w, o), z) = Behind(w, Behind(o, z)) /\ Behind(o, z) \in Seq(Unit)
    BY UnitBehind
  <2> DEFINE g == Behind(o, z)
  <2>3. g \in Seq(Unit) /\ Flat(t) = Behind(w, g)
    BY <2>1, <2>2
  <2> HIDE DEF g, y, f
  <2>4. Behind(w, g)[1] = w[1]
    <3>1. g \in Seq(Unit)
      BY <2>3
    <3>2. \A i \in 1 .. Len(w) : Behind(w, g)[i] = w[i]
      BY <3>1, BehindAt
    <3> QED
      BY <1>8, <3>2
  <2>5. Behind(y, f)[1] = y[1]
    <3>1. \A i \in 1 .. Len(y) : Behind(y, f)[i] = y[i]
      BY <1>7, BehindAt
    <3>2. 1 \in 1 .. Len(y)
      BY <1>5 DEF y
    <3> QED
      BY <3>1, <3>2
  <2>6. w[1] = y[1]
    BY <1>6, <2>3, <2>4, <2>5, Zenon DEF y, f
  <2> QED
    BY <1>5, <2>6 DEF y
<1>10. ASSUME Len(w) >= m.size
       PROVE  /\ SubSeq(w, m.size + 1, Len(w)) \in Seq(Unit)
              /\ Len(SubSeq(w, m.size + 1, Len(w))) <= Len(w)
              /\ Carries(Behind(SubSeq(w, m.size + 1, Len(w)), o), r, whole)
  <2> DEFINE a == <<m>>
  <2>1. Carries(Behind(w, o), Behind(a, r), whole)
    BY <1>3, Zenon
  <2>2. a \in Seq(Messages) /\ Flat(a) = y
    BY <1>4
  <2>3. Len(y) = m.size /\ m.size \in Nat
    BY <1>5
  <2> HIDE DEF a, y
  <2>4. Len(Flat(a)) = m.size /\ Len(Flat(a)) <= Len(w)
    BY <1>8, <1>10, <2>2, <2>3
  <2>5. PICK v \in Seq(Unit) : w = Behind(Flat(a), v) /\ Carries(Behind(v, o), r, whole)
    <3>1. a \in Seq(Messages) /\ Len(Flat(a)) <= Len(w)
      BY <2>2, <2>4
    <3> QED
      BY <1>2, <2>1, <3>1, TakenOff
  <2>6. v = SubSeq(w, m.size + 1, Len(w))
    <3>1. SubSeq(Behind(y, v), Len(y) + 1, Len(Behind(y, v))) = v
      BY <1>7, BehindCut DEF y
    <3> QED
      BY <2>2, <2>3, <2>5, <3>1, Zenon
  <2>7. Len(v) <= Len(w)
    <3>1. Len(Behind(y, v)) = Len(y) + Len(v) /\ Len(v) \in Nat
      BY <1>7, UnitBehind DEF y
    <3>2. w = Behind(y, v)
      BY <2>2, <2>5
    <3> QED
      BY <2>3, <3>1, <3>2
  <2> QED
    BY <2>5, <2>6, <2>7, Zenon
<1>11. Len(w) >= t[1].size =>
          /\ SubSeq(w, t[1].size + 1, Len(w)) \in Seq(Unit)
          /\ Len(SubSeq(w, t[1].size + 1, Len(w))) <= Len(w)
          /\ Carries(Behind(SubSeq(w, t[1].size + 1, Len(w)), o), Tail(t), whole)
  BY <1>10, Zenon DEF m, r
<1>12. w[1] = [m |-> t[1], at |-> 1] /\ t[1].size \in Nat
  BY <1>5, <1>9 DEF m
<1> QED
  BY <1>1, <1>11, <1>12, Zenon

\* How far async_on_recv gets is nowhere or the end of a message.
LEMMA ConsumedIs ==
    ASSUME NEW acc \in Seq(Unit)
    PROVE  /\ Consumed(acc) \in 0 .. Len(acc)
           /\ Consumed(acc) > 0 =>
                 acc[Consumed(acc)].at = acc[Consumed(acc)].m.size
<1> DEFINE done == {i \in DOMAIN acc : Completes(acc[i])}
           whole == {i \in DOMAIN acc : acc[i].at = acc[i].m.size}
           n == Consumed(acc)
<1>1. DOMAIN acc = 1 .. Len(acc) /\ Len(acc) \in Nat
  BY LenProperties
<1>2. done \subseteq whole /\ whole \subseteq 1 .. Len(acc)
  BY <1>1 DEF Completes
<1>3. \A i \in whole : acc[i].at = acc[i].m.size
  OBVIOUS
<1>4. n = IF done # {} THEN Min(done) ELSE Max(whole \cup {0})
  BY DEF Consumed
<1> HIDE DEF done, whole, n
<1>5. ASSUME done # {} PROVE n \in 0 .. Len(acc) /\ (n > 0 => acc[n].at = acc[n].m.size)
  <2>1. \E d \in done : \A e \in done : d <= e
    BY <1>1, <1>2, <1>5, LeastNatural
  <2>2. Min(done) \in done
    BY <2>1 DEF Min
  <2>3. n \in whole
    BY <1>2, <1>4, <1>5, <2>2
  <2> QED
    BY <1>1, <1>2, <1>3, <2>3
<1>6. ASSUME done = {} PROVE n \in 0 .. Len(acc) /\ (n > 0 => acc[n].at = acc[n].m.size)
  <2> DEFINE S == whole \cup {0}
  <2>1. S \in SUBSET Nat /\ S # {} /\ \A e \in S : e <= Len(acc)
    BY <1>1, <1>2
  <2> HIDE DEF S
  <2>2. PICK d \in S : \A e \in S : e <= d
    BY <1>1, <2>1, GreatestNatural
  <2>3. \E x \in S : \A y \in S : x >= y
    BY <2>1, <2>2
  <2>4. Max(S) \in S
    BY <2>3 DEF Max
  <2>5. n \in whole \/ n = 0
    BY <1>4, <1>6, <2>4 DEF S
  <2> QED
    <3>1. CASE n \in whole
      BY <1>1, <1>2, <1>3, <3>1
    <3>2. CASE n = 0
      BY <1>1, <3>2
    <3> QED
      BY <2>5, <3>1, <3>2
<1> QED
  BY <1>5, <1>6 DEF n

\* What async_on_recv makes of the accumulated units: it takes whole messages
\* off the front, and those it hands on are the messages it takes.
LEMMA Recognised ==
    ASSUME NEW acc \in Seq(Unit), NEW o \in Seq(Unit), NEW t \in Seq(Messages),
           NEW whole, Carries(Behind(acc, o), t, whole)
    PROVE  \E a, b \in Seq(Messages) :
              /\ t = Behind(a, b) /\ MessagesIn(acc, Consumed(acc)) = a
              /\ Carries(Behind(SubSeq(acc, Consumed(acc) + 1, Len(acc)), o), b, whole)
              /\ SubSeq(acc, Consumed(acc) + 1, Len(acc)) \in Seq(Unit)
              /\ Len(SubSeq(acc, Consumed(acc) + 1, Len(acc))) <= Len(acc)
              /\ Consumed(acc) > 0 /\ Completes(acc[Consumed(acc)]) =>
                    a # <<>> /\ a[Len(a)].kind = "Z"
<1> DEFINE n == Consumed(acc)
<1>1. n \in 0 .. Len(acc) /\ (n > 0 => acc[n].at = acc[n].m.size)
  BY ConsumedIs
<1> HIDE DEF n
<1>2. PICK a \in Seq(Messages), b \in Seq(Messages) :
              /\ t = Behind(a, b) /\ n = Len(Flat(a))
              /\ n > 0 /\ Completes(acc[n]) => a # <<>> /\ a[Len(a)].kind = "Z"
  <2>1. CASE n = 0
    <3>1. t = Behind(<<>>, t) /\ <<>> \in Seq(Messages)
      BY MessageBehind
    <3>2. n = Len(Flat(<<>>)) /\ ~(n > 0)
      BY <2>1, FlatBehind, UnitBehind
    <3> QED
      BY <3>1, <3>2, Zenon
  <2>2. CASE n # 0
    <3>1. PICK z \in Seq(Unit) : Flat(t) = Behind(Behind(acc, o), z)
      BY DEF Carries
    <3> DEFINE f == Flat(t)
               g == Behind(o, z)
    <3>2. g \in Seq(Unit) /\ f = Behind(acc, g)
      BY <3>1, UnitBehind
    <3> HIDE DEF g
    <3>3. /\ \A i \in 1 .. Len(acc) : Behind(acc, g)[i] = acc[i]
          /\ Len(Behind(acc, g)) = Len(acc) + Len(g) /\ Len(acc) \in Nat /\ Len(g) \in Nat
      <4>1. g \in Seq(Unit)
        BY <3>2
      <4> QED
        BY <4>1, BehindAt, UnitBehind
    <3>4. n \in 1 .. Len(acc) /\ n > 0
      BY <1>1, <2>2
    <3>5. n \in 1 .. Len(f) /\ f[n] = acc[n]
      BY <3>2, <3>3, <3>4
    <3>6. f[n].at = f[n].m.size
      BY <1>1, <3>4, <3>5
    <3>7. PICK a \in Seq(Messages), b \in Seq(Messages) :
              /\ t = a \o b /\ n = Len(Flat(a))
              /\ a # <<>> /\ a[Len(a)] = Flat(t)[n].m
      BY <3>5, <3>6, MessageEnds
    <3>8. a[Len(a)] = acc[n].m
      BY <3>5, <3>7
    <3>9. t = Behind(a, b)
      BY <3>7 DEF Behind
    <3>10. Completes(acc[n]) => a[Len(a)].kind = "Z"
      BY <3>8 DEF Completes
    <3> QED
      BY <3>7, <3>9, <3>10, Zenon
  <2> QED
    BY <2>1, <2>2
<1> DEFINE f == Flat(a)
           r == SubSeq(acc, n + 1, Len(acc))
<1>3. f \in Seq(Unit)
  BY FlatBehind
<1>4. PICK v \in Seq(Unit) : acc = Behind(f, v) /\ Carries(Behind(v, o), b, whole)
  <2>1. Carries(Behind(acc, o), Behind(a, b), whole)
    BY <1>2, Zenon
  <2>2. Len(Flat(a)) <= Len(acc)
    BY <1>1, <1>2
  <2> QED
    BY <2>1, <2>2, TakenOff
<1>5. n = Len(f)
  BY <1>2
<1> HIDE DEF f
<1>6. r = v
  <2>1. SubSeq(Behind(f, v), Len(f) + 1, Len(Behind(f, v))) = v
    BY <1>3, BehindCut
  <2> QED
    BY <1>4, <1>5, <2>1, Zenon
<1>7. Len(v) <= Len(acc)
  <2>1. Len(Behind(f, v)) = Len(f) + Len(v) /\ Len(f) \in Nat /\ Len(v) \in Nat
    BY <1>3, UnitBehind
  <2> QED
    BY <1>4, <2>1
<1>8. MessagesIn(acc, n) = a
  <2>1. MessagesIn(f \o v, Len(f)) = MessagesIn(f, Len(f))
    BY <1>3, MessagesInBeginning
  <2>2. MessagesIn(f, Len(f)) = a
    BY WholesOfFlat DEF f
  <2>3. acc = f \o v
    BY <1>4 DEF Behind
  <2> QED
    BY <1>5, <2>1, <2>2, <2>3, Zenon
<1> HIDE DEF r
<1>9. /\ t = Behind(a, b) /\ MessagesIn(acc, n) = a
      /\ Carries(Behind(r, o), b, whole)
      /\ r \in Seq(Unit) /\ Len(r) <= Len(acc)
      /\ n > 0 /\ Completes(acc[n]) => a # <<>> /\ a[Len(a)].kind = "Z"
  BY <1>2, <1>4, <1>6, <1>7, <1>8
<1> QED
  BY <1>9 DEF r, n

-----------------------------------------------------------------------------
(* What is said in a login *)

\* What the messages say.
LEMMA DataIs ==
    /\ \A n \in Nat : n \in Data /\ [nonce |-> <<n, "s">>] \in Data
    /\ \A n \in Nat : AuthMessage(n, [nonce |-> <<n, "s">>]) \in Auths
    /\ \A p \in Secrets : p \in Data
    /\ \A p \in Secrets, a \in Auths : Proof(p, a) \in Data /\ ServerSignature(p, a) \in Data
    /\ <<>> \in Auths
<1>1. \A n \in Nat : n \in Data /\ [nonce |-> <<n, "s">>] \in Data
  <2>1. \A n \in Nat : [nonce |-> <<n, "s">>] \in Nonces
    BY Zenon DEF Nonces
  <2> QED
    BY <2>1 DEF Data
<1>2. \A n \in Nat : AuthMessage(n, [nonce |-> <<n, "s">>]) \in Auths
  BY Zenon DEF Auths
<1>3. \A p \in Secrets : p \in Data
  BY DEF Data
<1>4. \A p \in Secrets, a \in Auths : Proof(p, a) \in Data /\ ServerSignature(p, a) \in Data
  <2>1. \A p \in Secrets, a \in Auths :
           Proof(p, a) \in Proofs /\ ServerSignature(p, a) \in Signatures
    BY DEF Proofs, Signatures
  <2> QED
    BY <2>1, Zenon DEF Data
<1>5. <<>> \in Auths
  BY Zenon DEF Auths
<1> QED
  BY <1>1, <1>2, <1>3, <1>4, <1>5

\* A message without a body.
LEMMA ShortIs ==
    ASSUME NEW k \in Kinds, NEW d \in Data
    PROVE  /\ Short(k, d) \in Messages
           /\ Short(k, d).kind = k /\ Short(k, d).size = 2 /\ Short(k, d).data = d
BY DEF Short, Message, Header, Messages

\* The ones that only say a number.
LEMMA ShortNat ==
    \A k \in Kinds, n \in Nat :
       /\ Short(k, n) \in Messages
       /\ Short(k, n).kind = k /\ Short(k, n).size = 2 /\ Short(k, n).data = n
BY DataIs, ShortIs, Zenon

\* The end of a login that goes well, message by message.
LEMMA WelcomeIs ==
    ASSUME Typed
    PROVE  /\ Welcome \in Seq(Messages)
           /\ conf.params \in Nat /\ Len(Welcome) = conf.params + 2
           /\ Welcome[1] = Short("ok", 0)
           /\ \A i \in 2 .. conf.params + 1 : Welcome[i] = Short("S", i - 1)
           /\ Welcome[conf.params + 2] = Short("Z", 0)
<1>1. conf.params \in Nat
  BY SessionAssumption DEF Typed
<1> DEFINE a == <<Short("ok", 0)>>
           b == [i \in 1 .. conf.params |-> Short("S", i)]
           c == <<Short("Z", 0)>>
           p == conf.params
<1>3. /\ a \in Seq(Messages) /\ Len(a) = 1 /\ a[1] = Short("ok", 0)
      /\ c \in Seq(Messages) /\ Len(c) = 1 /\ c[1] = Short("Z", 0)
  <2>1. Short("ok", 0) \in Messages /\ Short("Z", 0) \in Messages
    BY ShortNat DEF Kinds
  <2> QED
    BY <2>1
<1>4. b \in Seq(Messages) /\ Len(b) = p /\ \A i \in 1 .. p : b[i] = Short("S", i)
  <2>1. \A i \in 1 .. p : Short("S", i) \in Messages
    BY <1>1, ShortNat DEF Kinds
  <2> QED
    BY <1>1, <2>1, IsASeq
<1> DEFINE d == Behind(a, b)
           e == Behind(d, c)
<1>5. Welcome = e
  BY DEF Welcome, Behind
<1> HIDE DEF a, b, c, p
<1>6. d \in Seq(Messages) /\ Len(d) = 1 + p
  <2>1. d \in Seq(Messages) /\ Len(d) = Len(a) + Len(b)
    BY <1>3, <1>4, MessageBehind, Zenon
  <2> QED
    BY <1>3, <1>4, <2>1
<1>7. d[1] = a[1] /\ \A i \in 1 .. p : d[1 + i] = b[i]
  <2>1. a \in Seq(Messages) /\ b \in Seq(Messages)
    BY <1>3, <1>4
  <2>2. /\ \A i \in 1 .. Len(a) : d[i] = a[i]
        /\ \A i \in 1 .. Len(b) : d[Len(a) + i] = b[i]
    BY <2>1, BehindAt
  <2> QED
    BY <1>3, <1>4, <2>2
<1> HIDE DEF d
<1>8. e \in Seq(Messages) /\ Len(e) = p + 2
  <2>1. e \in Seq(Messages) /\ Len(e) = Len(d) + Len(c)
    BY <1>3, <1>6, MessageBehind
  <2> QED
    BY <1>1, <1>3, <1>6, <2>1 DEF p
<1>9. e[p + 2] = c[1] /\ \A i \in 1 .. p + 1 : e[i] = d[i]
  <2>1. c \in Seq(Messages) /\ d \in Seq(Messages)
    BY <1>3, <1>6
  <2>2. /\ \A i \in 1 .. Len(d) : e[i] = d[i]
        /\ \A i \in 1 .. Len(c) : e[Len(d) + i] = c[i]
    BY <2>1, BehindAt
  <2>3. Len(d) = p + 1 /\ (p + 1) + 1 = p + 2
    BY <1>1, <1>6 DEF p
  <2> QED
    BY <1>3, <2>2, <2>3
<1> HIDE DEF e
<1>10. ASSUME NEW i \in 2 .. p + 1 PROVE e[i] = Short("S", i - 1)
  <2>1. i \in 1 .. p + 1 /\ i - 1 \in 1 .. p /\ 1 + (i - 1) = i
    BY <1>1 DEF p
  <2> QED
    BY <1>4, <1>7, <1>9, <2>1
<1>11. e[1] = Short("ok", 0) /\ e[p + 2] = Short("Z", 0)
  <2>1. 1 \in 1 .. p + 1
    BY <1>1 DEF p
  <2> QED
    BY <1>3, <1>7, <1>9, <2>1
<1> QED
  BY <1>1, <1>5, <1>8, <1>10, <1>11 DEF p

\* ReadyForQuery is the last message of a login, and nothing in it asks for more.
LEMMA WelcomeKinds ==
    ASSUME Typed, NEW i \in 1 .. Len(Welcome)
    PROVE  /\ Welcome[i].kind \in {"ok", "S", "Z"}
           /\ Welcome[i].kind = "Z" <=> i = Len(Welcome)
<1>2. /\ Short("ok", 0).kind = "ok" /\ Short("Z", 0).kind = "Z"
      /\ \A n \in Nat : Short("S", n).kind = "S"
  BY ShortNat DEF Kinds
<1>3. CASE i = 1
  BY <1>2, <1>3, WelcomeIs
<1>4. CASE i \in 2 .. conf.params + 1
  BY <1>2, <1>4, WelcomeIs
<1>5. CASE i = conf.params + 2
  BY <1>2, <1>5, WelcomeIs
<1> QED
  BY <1>3, <1>4, <1>5, WelcomeIs

\* How many messages a login takes.
LEMMA DialogueIs ==
    /\ conf.method = "trust" => DialogueLength = Len(Welcome) + 0
    /\ conf.method = "password" => DialogueLength = Len(Welcome) + 1
    /\ conf.method = "scram" => DialogueLength = Len(Welcome) + 3
BY DEF DialogueLength

-----------------------------------------------------------------------------
(* The invariant holds: the login *)

LoginType == [rounds : 0 .. MaxRounds, scram : BOOLEAN, nonce : Nat, auth : Auths]

ServerType == [at : States, skip : BOOLEAN, auth : Auths, out : Seq(Unit)]

UsedType ==
    [requests : 0 .. MaxRequests, logins : 0 .. MaxLogins,
     cuts : 0 .. MaxCuts, notices : 0 .. MaxNotices]

\* What holds of the empty buffers, the connection that is gone and the bounds.
LEMMA EmptyIs ==
    /\ <<>> \in Seq(Requests) /\ <<>> \in Seq(Unit) /\ <<>> \in Seq(Messages)
    /\ Len(<<>>) = 0 /\ SizeOf(<<>>) = 0
    /\ Gone \in ServerType /\ NoLogin \in LoginType
    /\ 4 \in Nat /\ UpCap \in Nat \ {0} /\ DownCap \in Nat \ {0} /\ Cap \in Nat \ {0}
    /\ MaxRounds \in Nat \ {0}
<1>1. /\ UpCap \in Nat \ {0} /\ DownCap \in Nat \ {0} /\ Cap \in Nat \ {0}
      /\ MaxRounds \in Nat \ {0}
  BY SessionAssumption
<1>2. <<>> \in Seq(Requests) /\ <<>> \in Seq(Unit) /\ <<>> \in Seq(Messages) /\ Len(<<>>) = 0
  BY EmptySeq
<1>3. SizeOf(<<>>) = 0
  BY <1>2, FlatBehind DEF SizeOf
<1>4. <<>> \in Auths
  BY DataIs
<1>5. Gone \in ServerType
  BY <1>2, <1>4 DEF Gone, ServerType, States
<1>6. NoLogin \in LoginType
  BY <1>1, <1>4 DEF NoLogin, LoginType
<1> QED
  BY <1>1, <1>2, <1>3, <1>5, <1>6

\* At the start every slot is down.
LEMMA InitInv == Init => SessionInv
<1> SUFFICES ASSUME Init PROVE SessionInv
  OBVIOUS
<1>1. used \in [requests : 0 .. MaxRequests, logins : 0 .. MaxLogins,
                cuts : 0 .. MaxCuts, notices : 0 .. MaxNotices]
  BY SessionAssumption DEF Init
<1>2. Typed
  BY <1>1, EmptyIs DEF Init, Typed, LoginType, ServerType
<1>3. Bounded
  BY EmptyIs DEF Init, Bounded
<1>4. WhenDown /\ WhenLogin /\ IdleInStep /\ WhenExchange
  BY DEF Init, WhenDown, WhenLogin, IdleInStep, WhenExchange
<1> QED
  BY <1>2, <1>3, <1>4 DEF SessionInv

\* A connection that was torn down.
LEMMA DownInv ==
    ASSUME Typed, phase' = "down", login' \in LoginType, be_resp' = <<>>, Teardown,
           UNCHANGED <<conf, used>>
    PROVE  SessionInv'
<1>1. Typed'
  BY EmptyIs DEF Typed, Teardown, LoginType, ServerType
<1>2. Bounded'
  BY EmptyIs DEF Teardown, Bounded
<1>3. WhenDown' /\ WhenLogin' /\ IdleInStep' /\ WhenExchange'
  BY DEF Teardown, WhenDown, WhenLogin, IdleInStep, WhenExchange
<1> QED
  BY <1>1, <1>2, <1>3 DEF SessionInv

\* The login goes on with the messages u to come.
LEMMA StaysInv ==
    ASSUME Typed, phase' = "login",
           send_buf' = <<>>, recv_acc' = <<>>, be_resp' = <<>>, UNCHANGED <<conf, said>>,
           login' \in LoginType, up' \in Seq(Requests), Len(up') <= UpCap,
           down' \in Seq(Unit), Len(down') <= DownCap,
           server' \in ServerType, ~server'.skip, used' \in UsedType,
           NEW u \in Seq(Messages),
           Carries(Behind(down', server'.out), u, server'.at # "gone"), Stage(u)'
    PROVE  SessionInv'
<1>1. Typed'
  BY EmptyIs DEF Typed, LoginType, ServerType, UsedType
<1>2. Bounded'
  BY EmptyIs DEF Bounded
<1>3. WhenLogin'
  <2>1. Carries(down' \o server'.out, u, server'.at # "gone")
    BY DEF Behind
  <2> QED
    BY <2>1, Zenon DEF WhenLogin
<1>4. WhenDown' /\ IdleInStep' /\ WhenExchange'
  BY DEF WhenDown, IdleInStep, WhenExchange
<1> QED
  BY <1>1, <1>2, <1>3, <1>4 DEF SessionInv

\* A connection begins with the startup message and nothing to read.
LEMMA ConnectInv == SessionInv /\ Connect => SessionInv'
<1> SUFFICES ASSUME SessionInv, Connect PROVE SessionInv'
  OBVIOUS
<1>1. /\ Typed /\ phase = "down" /\ send_buf = <<>> /\ recv_acc = <<>> /\ be_resp = <<>>
  BY DEF SessionInv, Connect, WhenDown
<1>2. /\ phase' = "login" /\ send_buf' = <<>> /\ recv_acc' = <<>> /\ be_resp' = <<>>
      /\ conf' = conf /\ said' = said /\ down' = <<>>
      /\ up' = <<[kind |-> "startup", data |-> 0]>>
      /\ login' = [NoLogin EXCEPT !.nonce = used.logins + 1]
      /\ server' = [Gone EXCEPT !.at = "startup"]
  BY <1>1 DEF Connect
<1>3. used' \in UsedType /\ used.logins + 1 \in Nat
  <2>1. used \in UsedType /\ MaxLogins \in Nat
    BY <1>1, SessionAssumption DEF Typed, UsedType
  <2>2. used.logins < MaxLogins /\ used' = [used EXCEPT !.logins = @ + 1]
    BY DEF Connect
  <2> QED
    BY <2>1, <2>2 DEF UsedType
<1>4. /\ server' \in ServerType /\ ~server'.skip /\ server'.at = "startup"
      /\ server'.out = <<>>
  BY <1>2, EmptyIs DEF Gone, ServerType, States
<1>5. login' \in LoginType /\ login'.rounds = 0
  BY <1>2, <1>3, EmptyIs DEF NoLogin, LoginType
<1>6. up' \in Seq(Requests) /\ Len(up') = 1
  <2>1. [kind |-> "startup", data |-> 0] \in Requests
    BY DataIs DEF Requests, Kinds
  <2> QED
    BY <1>2, <2>1
<1>7. 1 <= UpCap /\ Len(down') <= DownCap /\ down' \in Seq(Unit)
  BY <1>2, EmptyIs
<1>8. Carries(Behind(down', server'.out), <<>>, server'.at # "gone")
  <2>1. Behind(<<>>, <<>>) = <<>>
    BY UnitBehind
  <2>2. down' = <<>> /\ server'.out = <<>>
    BY <1>2, <1>4
  <2> QED
    BY <2>1, <2>2, NothingCarried, Zenon
<1>9. Stage(<<>>)'
  BY <1>2, <1>4, <1>5 DEF Stage, Starting, Writes, ServerIs
<1>10. <<>> \in Seq(Messages)
  BY EmptyIs
<1> QED
  BY <1>1, <1>2, <1>3, <1>4, <1>5, <1>6, <1>7, <1>8, <1>9, <1>10, StaysInv

\* What a login reads is the first of the messages to come.
LEMMA ReadIs ==
    ASSUME SessionInv, NEW k, Reading(k)
    PROVE  /\ Typed /\ Bounded /\ phase = "login" /\ send_buf = <<>> /\ recv_acc = <<>>
           /\ be_resp = <<>> /\ ~server.skip /\ login.rounds + 1 \in 0 .. MaxRounds
           /\ \E t \in Seq(Messages) :
                 /\ Stage(t) /\ t # <<>> /\ t[1].kind = k /\ Got = t[1]
                 /\ SubSeq(down, Got.size + 1, Len(down)) \in Seq(Unit)
                 /\ Len(SubSeq(down, Got.size + 1, Len(down))) <= DownCap
                 /\ Carries(Behind(SubSeq(down, Got.size + 1, Len(down)), server.out),
                            Tail(t), server.at # "gone")
<1>1. /\ phase = "login" /\ RoundsLeft /\ down # <<>> /\ Len(down) >= Got.size
      /\ Got.kind = k /\ Got = down[1].m
  BY DEF Reading, Arrived, Got
<1>2. /\ Typed /\ Bounded /\ send_buf = <<>> /\ recv_acc = <<>>
      /\ be_resp = <<>> /\ ~server.skip
  BY <1>1 DEF SessionInv, WhenLogin
<1>3. PICK t \in Seq(Messages) :
              Carries(Behind(down, server.out), t, server.at # "gone") /\ Stage(t)
  BY <1>1 DEF SessionInv, WhenLogin, Behind
<1>4. login.rounds + 1 \in 0 .. MaxRounds
  BY <1>1, <1>2, EmptyIs DEF Typed, RoundsLeft
<1>5. down \in Seq(Unit) /\ server.out \in Seq(Unit) /\ Len(down) <= DownCap
  BY <1>2 DEF Typed, Bounded
<1> DEFINE o == server.out
           w == server.at # "gone"
<1>6. Carries(Behind(down, o), t, w) /\ o \in Seq(Unit)
  BY <1>3, <1>5
<1> HIDE DEF o, w
<1>7. /\ t # <<>> /\ down[1] = [m |-> t[1], at |-> 1]
      /\ Len(down) >= t[1].size =>
                 /\ SubSeq(down, t[1].size + 1, Len(down)) \in Seq(Unit)
                 /\ Len(SubSeq(down, t[1].size + 1, Len(down))) <= Len(down)
                 /\ Carries(Behind(SubSeq(down, t[1].size + 1, Len(down)), o), Tail(t), w)
  BY <1>1, <1>5, <1>6, ReadOne
<1>8. Got = t[1]
  BY <1>1, <1>7
<1> DEFINE r == SubSeq(down, Got.size + 1, Len(down))
<1>9. r \in Seq(Unit) /\ Len(r) <= Len(down) /\ Carries(Behind(r, o), Tail(t), w)
  BY <1>1, <1>7, <1>8
<1>10. Len(r) <= DownCap
  BY <1>5, <1>9, LenProperties, EmptyIs
<1> QED
  BY <1>1, <1>2, <1>3, <1>4, <1>7, <1>8, <1>9, <1>10 DEF o, w

\* Which message it is tells how far the login has come.
LEMMA StageKinds ==
    ASSUME Typed, NEW t \in Seq(Messages), Stage(t), t # <<>>
    PROVE  /\ up = <<>>
           /\ \/ Challenged(t) /\ t[1].kind = conf.method /\ Tail(t) = <<>>
              \/ FirstCame(t) /\ t[1].kind = "first" /\ Tail(t) = <<>> /\ t[1].data = First
              \/ FinalCame(t) /\ t[1].kind = "final" /\ Tail(t) = Welcome
                    /\ t[1].data = ServerSignature(conf.secret, Signed)
              \/ Welcomed(t) /\ t[1].kind \in {"ok", "S"} /\ Len(t) > 1
              \/ Welcomed(t) /\ t[1].kind = "Z" /\ Len(t) = 1
              \/ Refused(t) /\ t[1].kind = "E"
              \/ Unknown(t) /\ t[1].kind = conf.method /\ Tail(t) = <<>>
<1>1. /\ up = <<>>
      /\ \/ Challenged(t) \/ FirstCame(t) \/ FinalCame(t)
         \/ Welcomed(t) \/ Refused(t) \/ Unknown(t)
  BY DEF Stage
<1>2. \A x : <<x>>[1] = x /\ Tail(<<x>>) = <<>>
  OBVIOUS
<1>3. \A k, d : Short(k, d).kind = k /\ Short(k, d).data = d
  BY DEF Short, Message
<1>4. CASE Challenged(t)
  <2>1. t = <<Short(conf.method, 0)>>
    BY <1>4 DEF Challenged
  <2> QED
    BY <1>1, <1>2, <1>3, <1>4, <2>1, Zenon
<1>5. CASE FirstCame(t)
  <2>1. t = <<Short("first", First)>>
    BY <1>5 DEF FirstCame
  <2> QED
    BY <1>1, <1>2, <1>3, <1>5, <2>1, Zenon
<1>6. CASE FinalCame(t)
  <2> DEFINE x == Short("final", ServerSignature(conf.secret, Signed))
             a == <<x>>
  <2>1. t = Behind(a, Welcome)
    BY <1>6 DEF FinalCame, Behind
  <2>2. x \in Messages /\ x.kind = "final" /\ x.data = ServerSignature(conf.secret, Signed)
    <3>1. login.nonce \in Nat /\ conf.secret \in Secrets
      BY DEF Typed, Secrets
    <3>2. Signed \in Auths
      BY <3>1, DataIs, Zenon DEF Signed, First
    <3>3. ServerSignature(conf.secret, Signed) \in Data
      BY <3>1, <3>2, DataIs, Zenon
    <3>4. "final" \in Kinds
      BY DEF Kinds
    <3> QED
      BY <1>3, <3>3, <3>4, ShortIs
  <2> HIDE DEF x
  <2>3. a \in Seq(Messages) /\ Len(a) = 1 /\ a[1] = x
    BY <2>2
  <2>4. Welcome \in Seq(Messages)
    BY WelcomeIs
  <2> HIDE DEF a
  <2>5. t[1] = x
    <3>1. \A i \in 1 .. Len(a) : Behind(a, Welcome)[i] = a[i]
      BY <2>3, <2>4, BehindAt
    <3> QED
      BY <2>1, <2>3, <3>1
  <2>6. Tail(t) = Welcome
    <3>1. SubSeq(Behind(a, Welcome), Len(a) + 1, Len(Behind(a, Welcome))) = Welcome
      BY <2>3, <2>4, BehindCut
    <3>2. SubSeq(t, 2, Len(t)) = Welcome
      BY <2>1, <2>3, <3>1
    <3> QED
      BY <3>2, TailIsSubSeq
  <2> QED
    BY <1>1, <1>6, <2>2, <2>5, <2>6
<1>7. CASE Welcomed(t)
  <2> DEFINE i == (Len(Welcome) - Len(t)) + 1
  <2>1. /\ Len(t) \in 1 .. Len(Welcome) /\ Len(Welcome) \in Nat
        /\ \A j \in 1 .. Len(t) : t[j] = Welcome[(Len(Welcome) - Len(t)) + j]
    BY <1>7, WelcomeIs DEF Welcomed
  <2>2. t[1] = Welcome[i] /\ i \in 1 .. Len(Welcome)
    BY <2>1
  <2>3. /\ Welcome[i].kind \in {"ok", "S", "Z"}
        /\ Welcome[i].kind = "Z" <=> i = Len(Welcome)
    BY <2>2, WelcomeKinds
  <2>4. Len(t) \in 1 .. Len(Welcome) /\ Len(Welcome) \in Nat
    BY <2>1
  <2>5. \A n \in Nat : \A k \in 1 .. n : ((n - k) + 1 = n <=> k = 1) /\ (k > 1 \/ k = 1)
    OBVIOUS
  <2>6. /\ i = Len(Welcome) <=> Len(t) = 1
        /\ Len(t) > 1 \/ Len(t) = 1
    BY <2>4, <2>5, Zenon
  <2> HIDE DEF i
  <2> QED
    BY <1>1, <1>7, <2>2, <2>3, <2>6
<1>8. CASE Refused(t)
  <2>1. t = <<Short("E", 0)>>
    BY <1>8 DEF Refused
  <2> QED
    BY <1>1, <1>2, <1>3, <1>8, <2>1, Zenon
<1>9. CASE Unknown(t)
  <2>1. t = <<Short(conf.method, 0)>>
    BY <1>9 DEF Unknown
  <2> QED
    BY <1>1, <1>2, <1>3, <1>9, <2>1, Zenon
<1> QED
  BY <1>1, <1>4, <1>5, <1>6, <1>7, <1>8, <1>9, Zenon

\* A message was read and the login goes on.
LEMMA StayInv ==
    ASSUME SessionInv, NEW k, Reading(k), NEW l \in LoginType, l.rounds = login.rounds,
           StayInLogin(l), up' \in Seq(Requests), Len(up') <= UpCap,
           NEW u \in Seq(Messages),
           SubSeq(down, Got.size + 1, Len(down)) \in Seq(Unit),
           Len(SubSeq(down, Got.size + 1, Len(down))) <= DownCap,
           Carries(Behind(SubSeq(down, Got.size + 1, Len(down)), server.out), u,
                   server.at # "gone"),
           Stage(u)'
    PROVE  SessionInv'
<1>1. /\ Typed /\ phase = "login" /\ send_buf = <<>> /\ recv_acc = <<>>
      /\ be_resp = <<>> /\ ~server.skip /\ login.rounds + 1 \in 0 .. MaxRounds
  BY ReadIs
<1>2. /\ phase' = "login" /\ send_buf' = <<>> /\ recv_acc' = <<>> /\ be_resp' = <<>>
      /\ UNCHANGED <<conf, said>> /\ server' = server /\ used' = used
      /\ login' = [l EXCEPT !.rounds = @ + 1]
      /\ down' = SubSeq(down, Got.size + 1, Len(down))
  BY <1>1 DEF Reading, StayInLogin, ReadMessage
<1>3. login' \in LoginType
  BY <1>1, <1>2 DEF LoginType
<1>4. used' \in UsedType /\ server' \in ServerType /\ ~server'.skip
  BY <1>1, <1>2 DEF Typed, UsedType, ServerType
<1>5. /\ down' \in Seq(Unit) /\ Len(down') <= DownCap
      /\ Carries(Behind(down', server'.out), u, server'.at # "gone")
  BY <1>2, Zenon
<1> QED
  BY <1>1, <1>2, <1>3, <1>4, <1>5, StaysInv

\* The rest of a welcome is one.
LEMMA WelcomedTail ==
    ASSUME Typed, NEW t \in Seq(Messages), Welcomed(t), Len(t) > 1,
           conf' = conf, server' = server, login'.rounds = login.rounds + 1
    PROVE  Welcomed(Tail(t))'
<1> DEFINE n == Len(Welcome)
           u == Tail(t)
<1>1. Welcome' = Welcome /\ DialogueLength' = DialogueLength /\ Agree' = Agree
  BY DEF Welcome, DialogueLength, Agree
<1>2. n \in Nat /\ Len(t) \in 1 .. n /\ t # <<>>
  BY WelcomeIs, EmptySeq DEF Welcomed
<1>3. \A i \in 1 .. Len(t) : t[i] = Welcome[(n - Len(t)) + i]
  BY DEF Welcomed
<1>4. Len(u) = Len(t) - 1 /\ \A i \in 1 .. Len(t) - 1 : u[i] = t[i + 1]
  BY <1>2, HeadIn
<1>5. DialogueLength \in Nat /\ login.rounds = DialogueLength - Len(t)
      /\ login.rounds + 1 = DialogueLength - (Len(t) - 1)
  <2>1. conf.method \in {"trust", "password", "scram"}
    BY DEF Welcomed
  <2>2. DialogueLength \in Nat
    BY <1>2, <2>1, DialogueIs
  <2>3. login.rounds = DialogueLength - Len(t) /\ Len(t) \in Nat
    BY <1>2 DEF Welcomed
  <2> QED
    BY <2>2, <2>3
<1> HIDE DEF n, u
<1>6. Len(u) \in 1 .. n
  BY <1>2, <1>4
<1>7. ASSUME NEW i \in 1 .. Len(u) PROVE u[i] = Welcome[(n - Len(u)) + i]
  <2>1. i \in 1 .. Len(t) - 1 /\ i + 1 \in 1 .. Len(t)
    BY <1>2, <1>4
  <2>2. (n - Len(t)) + (i + 1) = (n - Len(u)) + i
    BY <1>2, <1>4
  <2>3. u[i] = t[i + 1] /\ t[i + 1] = Welcome[(n - Len(t)) + (i + 1)]
    BY <1>3, <1>4, <2>1
  <2> QED
    BY <2>2, <2>3
<1>8. login'.rounds = DialogueLength - Len(u)
  BY <1>4, <1>5
<1>9. /\ conf.method \in {"trust", "password", "scram"} /\ (conf.method # "trust" => Agree)
      /\ ServerIs("ready")
  BY DEF Welcomed
<1>10. /\ conf'.method \in {"trust", "password", "scram"} /\ (conf'.method # "trust" => Agree')
       /\ ServerIs("ready")'
  BY <1>1, <1>9 DEF ServerIs
<1>11. Len(u) \in 1 .. n' /\ \A i \in 1 .. Len(u) : u[i] = Welcome'[(n' - Len(u)) + i]
  BY <1>1, <1>6, <1>7 DEF n
<1>12. login'.rounds = DialogueLength' - Len(u)
  BY <1>1, <1>8
<1>13. Welcomed(u)'
  BY <1>10, <1>11, <1>12, Zenon DEF Welcomed, n
<1> QED
  BY <1>13 DEF u

\* A message that is passed over is one fewer of the dialogue to come.
LEMMA LoginContinuesInv == SessionInv /\ LoginContinues => SessionInv'
<1> SUFFICES ASSUME SessionInv, LoginContinues PROVE SessionInv'
  OBVIOUS
<1>1. PICK k \in {"ok", "gss", "S"} : Reading(k)
  BY DEF LoginContinues
<1>2. StayInLogin(login) /\ up' = up
  BY DEF LoginContinues
<1>3. PICK t \in Seq(Messages) :
         /\ Stage(t) /\ t # <<>> /\ t[1].kind = k
         /\ SubSeq(down, Got.size + 1, Len(down)) \in Seq(Unit)
         /\ Len(SubSeq(down, Got.size + 1, Len(down))) <= DownCap
         /\ Carries(Behind(SubSeq(down, Got.size + 1, Len(down)), server.out),
                    Tail(t), server.at # "gone")
  BY <1>1, ReadIs, Zenon
<1>4. Typed /\ Bounded /\ login.rounds + 1 \in 0 .. MaxRounds
  BY <1>1, ReadIs
<1>5. /\ up' \in Seq(Requests) /\ Len(up') <= UpCap /\ login \in LoginType
      /\ login'.rounds = login.rounds + 1
      /\ conf' = conf /\ server' = server /\ Tail(t) \in Seq(Messages)
  <2>1. up \in Seq(Requests) /\ Len(up) <= UpCap /\ login \in LoginType
    BY <1>4 DEF Typed, Bounded, LoginType
  <2>2. login' = [login EXCEPT !.rounds = @ + 1] /\ conf' = conf /\ server' = server
    BY <1>1, <1>2 DEF Reading, StayInLogin
  <2>3. login'.rounds = login.rounds + 1
    BY <2>1, <2>2 DEF LoginType
  <2>4. Tail(t) \in Seq(Messages)
    BY <1>3, HeadIn
  <2> QED
    BY <1>2, <2>1, <2>2, <2>3, <2>4
<1>6. /\ up = <<>>
      /\ \/ Welcomed(t) /\ Len(t) > 1
         \/ Unknown(t) /\ Tail(t) = <<>>
  BY <1>1, <1>3, <1>4, StageKinds DEF Challenged
<1>7. Stage(Tail(t))'
  <2>1. CASE Welcomed(t) /\ Len(t) > 1
    <3>1. Welcomed(Tail(t))'
      BY <1>4, <1>5, <2>1, WelcomedTail
    <3>2. up' = <<>>
      BY <1>2, <1>6
    <3> QED
      BY <3>1, <3>2, Zenon DEF Stage
  <2>2. CASE Unknown(t) /\ Tail(t) = <<>>
    <3>1. Unknown(<<>>)'
      BY <1>5, <2>2 DEF Unknown, ServerIs
    <3>2. up' = <<>>
      BY <1>2, <1>6
    <3> QED
      BY <2>2, <3>1, <3>2, Zenon DEF Stage
  <2> QED
    BY <1>6, <2>1, <2>2
<1> QED
  BY <1>1, <1>2, <1>3, <1>5, <1>7, StayInv, Zenon

\* The proxy replies to the last message that had come.
LEMMA RepliesInv ==
    ASSUME SessionInv, NEW k, Reading(k), NEW l \in LoginType, l.rounds = login.rounds,
           StayInLogin(l), NEW d \in Data, Reply("p", d), up = <<>>,
           SubSeq(down, Got.size + 1, Len(down)) \in Seq(Unit),
           Len(SubSeq(down, Got.size + 1, Len(down))) <= DownCap,
           Carries(Behind(SubSeq(down, Got.size + 1, Len(down)), server.out), <<>>,
                   server.at # "gone"),
           up' = <<[kind |-> "p", data |-> d]>> => (PasswordSent \/ NonceSent \/ ProofSent)'
    PROVE  SessionInv'
<1> DEFINE x == [kind |-> "p", data |-> d]
<1>1. x \in Requests
  BY DEF Requests, Kinds
<1>2. up' = <<x>>
  BY DEF Reply
<1>3. (PasswordSent \/ NonceSent \/ ProofSent)'
  BY <1>2
<1>4. Stage(<<>>)'
  BY <1>3, Zenon DEF Stage
<1> HIDE DEF x
<1>5. up' \in Seq(Requests) /\ Len(up') = 1 /\ 1 <= UpCap
  BY <1>1, <1>2, EmptyIs
<1>6. Len(up') <= UpCap /\ <<>> \in Seq(Messages)
  BY <1>5, EmptyIs
<1> QED
  BY <1>4, <1>5, <1>6, StayInv, Zenon

\* The password is the only message on its way.
LEMMA AskedForPasswordInv == SessionInv /\ AskedForPassword => SessionInv'
<1> SUFFICES ASSUME SessionInv, AskedForPassword PROVE SessionInv'
  OBVIOUS
<1>1. Reading("password") /\ Reply("p", conf.password) /\ StayInLogin(login)
  BY DEF AskedForPassword
<1>2. PICK t \in Seq(Messages) :
         /\ Stage(t) /\ t # <<>> /\ t[1].kind = "password"
         /\ SubSeq(down, Got.size + 1, Len(down)) \in Seq(Unit)
         /\ Len(SubSeq(down, Got.size + 1, Len(down))) <= DownCap
         /\ Carries(Behind(SubSeq(down, Got.size + 1, Len(down)), server.out),
                    Tail(t), server.at # "gone")
  BY <1>1, ReadIs, Zenon
<1>3. Typed
  BY <1>1, ReadIs
<1>4. Challenged(t) /\ conf.method = "password" /\ Tail(t) = <<>> /\ up = <<>>
  BY <1>2, <1>3, StageKinds DEF Challenged, Unknown
<1>5. login \in LoginType /\ conf.password \in Data
  <2>1. login \in LoginType /\ conf.password \in Secrets
    BY <1>3 DEF Typed, LoginType, Secrets
  <2> QED
    BY <2>1, DataIs
<1>6. up' = <<[kind |-> "p", data |-> conf.password]>> => PasswordSent'
  <2>1. login' = [login EXCEPT !.rounds = @ + 1] /\ conf' = conf /\ server' = server
    BY <1>1 DEF Reading, StayInLogin
  <2>2. login'.rounds = 1
    BY <1>4, <1>5, <2>1 DEF LoginType, Challenged
  <2> QED
    BY <1>4, <2>1, <2>2 DEF PasswordSent, Challenged, ServerIs, Writes
<1> QED
  BY <1>1, <1>2, <1>4, <1>5, <1>6, RepliesInv, Zenon

\* The client's nonce is the only message on its way.
LEMMA AskedForScramInv == SessionInv /\ AskedForScram => SessionInv'
<1> SUFFICES ASSUME SessionInv, AskedForScram PROVE SessionInv'
  OBVIOUS
<1> DEFINE l == [login EXCEPT !.scram = TRUE]
<1>1. Reading("scram") /\ Reply("p", login.nonce) /\ StayInLogin(l)
  BY DEF AskedForScram, ClientFirst
<1>2. PICK t \in Seq(Messages) :
         /\ Stage(t) /\ t # <<>> /\ t[1].kind = "scram"
         /\ SubSeq(down, Got.size + 1, Len(down)) \in Seq(Unit)
         /\ Len(SubSeq(down, Got.size + 1, Len(down))) <= DownCap
         /\ Carries(Behind(SubSeq(down, Got.size + 1, Len(down)), server.out),
                    Tail(t), server.at # "gone")
  BY <1>1, ReadIs, Zenon
<1>3. Typed
  BY <1>1, ReadIs
<1>4. Challenged(t) /\ conf.method = "scram" /\ Tail(t) = <<>> /\ up = <<>>
  BY <1>2, <1>3, StageKinds DEF Challenged, Unknown
<1>5. /\ login \in LoginType /\ l \in LoginType /\ l.rounds = login.rounds
      /\ l.scram = TRUE /\ l.nonce = login.nonce
      /\ login.nonce \in Data
  <2>1. login \in LoginType
    BY <1>3 DEF Typed, LoginType
  <2>2. login.nonce \in Nat
    BY <2>1 DEF LoginType
  <2> QED
    BY <2>1, <2>2, DataIs DEF LoginType
<1> HIDE DEF l
<1>6. up' = <<[kind |-> "p", data |-> login.nonce]>> => NonceSent'
  <2>1. login' = [l EXCEPT !.rounds = @ + 1] /\ conf' = conf /\ server' = server
    BY <1>1 DEF Reading, StayInLogin
  <2>2. login'.rounds = 1 /\ login'.scram /\ login'.nonce = login.nonce
    BY <1>4, <1>5, <2>1 DEF LoginType, Challenged
  <2> QED
    BY <1>4, <2>1, <2>2 DEF NonceSent, Challenged, ServerIs, Writes
<1> QED
  BY <1>1, <1>2, <1>4, <1>5, <1>6, RepliesInv, Zenon

\* The server's nonce extends ours, and both sides sign the same.
LEMMA ScramProofInv == SessionInv /\ ScramProof => SessionInv' /\ phase' = "login"
<1> SUFFICES ASSUME SessionInv, ScramProof PROVE SessionInv' /\ phase' = "login"
  OBVIOUS
<1>1. Reading("first")
  BY DEF ScramProof
<1>2. PICK t \in Seq(Messages) :
         /\ Stage(t) /\ t # <<>> /\ t[1].kind = "first" /\ Got = t[1]
         /\ SubSeq(down, Got.size + 1, Len(down)) \in Seq(Unit)
         /\ Len(SubSeq(down, Got.size + 1, Len(down))) <= DownCap
         /\ Carries(Behind(SubSeq(down, Got.size + 1, Len(down)), server.out),
                    Tail(t), server.at # "gone")
  BY <1>1, ReadIs, Zenon
<1>3. Typed
  BY <1>1, ReadIs
<1>4. FirstCame(t) /\ Tail(t) = <<>> /\ up = <<>> /\ t[1].data = First
  BY <1>2, <1>3, StageKinds DEF Challenged, Unknown
<1>5. login \in LoginType /\ login.nonce \in Nat /\ conf.password \in Secrets
  BY <1>3 DEF Typed, LoginType, Secrets
<1>6. Signed \in Auths /\ Proof(conf.password, Signed) \in Data
  <2>1. Signed \in Auths
    BY <1>5, DataIs, Zenon DEF Signed, First
  <2> QED
    BY <1>5, <2>1, DataIs, Zenon
<1> DEFINE l == [login EXCEPT !.auth = Signed]
<1>7. Got.data = First
  BY <1>2, <1>4
<1>8. Got.data.nonce[1] = login.nonce /\ AuthMessage(login.nonce, Got.data) = Signed
  <2>1. First.nonce[1] = login.nonce
    BY DEF First
  <2> QED
    BY <1>7, <2>1 DEF Signed
<1>9. Reply("p", Proof(conf.password, Signed)) /\ StayInLogin(l)
  BY <1>8 DEF ScramProof
<1>10. l \in LoginType /\ l.rounds = login.rounds /\ l.auth = Signed
       /\ l.nonce = login.nonce /\ l.scram = login.scram
  BY <1>5, <1>6 DEF LoginType
<1> HIDE DEF l
<1>11. up' = <<[kind |-> "p", data |-> Proof(conf.password, Signed)]>> => ProofSent'
  <2>1. login' = [l EXCEPT !.rounds = @ + 1] /\ conf' = conf /\ server' = server
    BY <1>1, <1>9 DEF Reading, StayInLogin
  <2>2. /\ login'.rounds = 2 /\ login'.scram /\ login'.nonce = login.nonce
        /\ login'.auth = Signed
    <3>1. login.rounds = 1 /\ login.scram
      BY <1>4 DEF FirstCame
    <3>2. l.scram = TRUE
      <4>1. login.scram \in BOOLEAN
        BY <1>5 DEF LoginType
      <4> QED
        BY <1>10, <3>1, <4>1, Zenon
    <3>3. l.rounds = 1
      BY <1>10, <3>1
    <3>4. l \in LoginType /\ l.auth = Signed /\ l.nonce = login.nonce
      BY <1>10
    <3> QED
      BY <2>1, <3>2, <3>3, <3>4 DEF LoginType
  <2>3. Signed' = Signed
    BY <2>2 DEF Signed, First
  <2> QED
    BY <1>4, <2>1, <2>2, <2>3 DEF ProofSent, FirstCame, ServerIs, Writes
<1>12. SessionInv'
  BY <1>1, <1>2, <1>4, <1>6, <1>9, <1>10, <1>11, RepliesInv, Zenon
<1>13. phase' = "login"
  BY <1>1, <1>9 DEF Reading, StayInLogin
<1> QED
  BY <1>12, <1>13

\* A server that knew the password proves it.
LEMMA ScramVerifiedInv == SessionInv /\ ScramVerified => SessionInv' /\ phase' = "login"
<1> SUFFICES ASSUME SessionInv, ScramVerified PROVE SessionInv' /\ phase' = "login"
  OBVIOUS
<1>1. Reading("final")
  BY DEF ScramVerified
<1>2. PICK t \in Seq(Messages) :
         /\ Stage(t) /\ t # <<>> /\ t[1].kind = "final" /\ Got = t[1]
         /\ SubSeq(down, Got.size + 1, Len(down)) \in Seq(Unit)
         /\ Len(SubSeq(down, Got.size + 1, Len(down))) <= DownCap
         /\ Carries(Behind(SubSeq(down, Got.size + 1, Len(down)), server.out),
                    Tail(t), server.at # "gone")
  BY <1>1, ReadIs, Zenon
<1>3. Typed /\ Bounded
  BY <1>1, ReadIs
<1>4. /\ FinalCame(t) /\ Tail(t) = Welcome /\ up = <<>>
      /\ t[1].data = ServerSignature(conf.secret, Signed)
  BY <1>2, <1>3, StageKinds DEF Challenged, Unknown
<1>5. login \in LoginType /\ up \in Seq(Requests) /\ Len(up) <= UpCap
  BY <1>3 DEF Typed, Bounded, LoginType
<1>6. StayInLogin(login) /\ up' = up
  <2>1. conf.secret = conf.password /\ login.auth = Signed
    BY <1>4 DEF FinalCame, Agree
  <2>2. Got.data = ServerSignature(conf.password, login.auth)
    BY <1>2, <1>4, <2>1
  <2> QED
    BY <2>2 DEF ScramVerified
<1>7. login' = [login EXCEPT !.rounds = @ + 1] /\ conf' = conf /\ server' = server
  BY <1>1, <1>6 DEF Reading, StayInLogin
<1> DEFINE u == Tail(t)
<1>8. Welcomed(u)'
  <2>1. Welcome' = Welcome /\ DialogueLength' = DialogueLength /\ Agree' = Agree
    BY <1>7 DEF Welcome, DialogueLength, Agree
  <2>2. Len(Welcome) \in 1 .. Len(Welcome) /\ Len(Welcome) \in Nat
    BY <1>3, WelcomeIs
  <2>3. login'.rounds = 3
    BY <1>4, <1>5, <1>7 DEF FinalCame, LoginType
  <2>4. DialogueLength = Len(Welcome) + 3
    BY <1>4, DialogueIs DEF FinalCame
  <2>5. login'.rounds = DialogueLength - Len(Welcome)
    BY <2>2, <2>3, <2>4
  <2>6. \A i \in 1 .. Len(Welcome) : (Len(Welcome) - Len(Welcome)) + i = i
    BY <2>2
  <2>7. u = Welcome /\ u = Welcome'
    BY <1>4, <2>1
  <2>8. conf'.method = "scram" /\ Agree' /\ ServerIs("ready")'
    BY <1>4, <1>7, <2>1 DEF FinalCame, ServerIs
  <2> HIDE DEF u
  <2>9. /\ Len(u) \in 1 .. Len(Welcome')
        /\ \A i \in 1 .. Len(u) : u[i] = Welcome'[(Len(Welcome') - Len(u)) + i]
    BY <2>1, <2>2, <2>6, <2>7
  <2>10. login'.rounds = DialogueLength' - Len(u)
    BY <2>1, <2>5, <2>7
  <2> QED
    BY <2>8, <2>9, <2>10 DEF Welcomed
<1>9. Stage(u)'
  BY <1>4, <1>6, <1>8, Zenon DEF Stage
<1>10. u \in Seq(Messages)
  BY <1>2, HeadIn
<1>11. SessionInv'
  BY <1>1, <1>2, <1>5, <1>6, <1>9, <1>10, StayInv, Zenon
<1>12. phase' = "login"
  BY <1>1, <1>6 DEF Reading, StayInLogin
<1> QED
  BY <1>11, <1>12

\* A login fails only when the server does not admit the proxy or is gone.
LEMMA LoginFailsInv ==
    ASSUME SessionInv, LoginFailed, phase = "login", UNCHANGED <<conf, be_resp, used>>
    PROVE  SessionInv'
<1>1. Typed /\ be_resp' = <<>>
  BY DEF SessionInv, WhenLogin
<1>2. Teardown /\ phase' = "down" /\ login' \in LoginType
  BY EmptyIs DEF LoginFailed
<1> QED
  BY <1>1, <1>2, DownInv

\* A refused login is torn down; the server does not admit the proxy or is gone.
LEMMA LoginRefusedInv ==
    SessionInv /\ LoginRefused => SessionInv' /\ (~Admitted \/ server.at = "gone")
<1> SUFFICES ASSUME SessionInv, LoginRefused
             PROVE  SessionInv' /\ (~Admitted \/ server.at = "gone")
  OBVIOUS
<1>1. PICK k \in {"scram-plus", "E"} : Reading(k)
  BY DEF LoginRefused
<1>2. SessionInv'
  BY <1>1, LoginFailsInv DEF LoginRefused, Reading
<1>3. PICK t \in Seq(Messages) : Stage(t) /\ t # <<>> /\ t[1].kind = k
  BY <1>1, ReadIs, Zenon
<1>4. Typed
  BY DEF SessionInv
<1>5. Refused(t) \/ Unknown(t)
  BY <1>1, <1>3, <1>4, StageKinds DEF Challenged
<1>6. Refused(t) => server.at = "gone"
  BY DEF Refused
<1>7. Unknown(t) => ~Admitted
  BY DEF Unknown, Admitted
<1> QED
  BY <1>2, <1>5, <1>6, <1>7


\* ReadyForQuery is the last thing a login reads: nothing is left unread.
LEMMA LoggedInInv == SessionInv /\ LoggedIn => SessionInv' /\ Admitted
<1> SUFFICES ASSUME SessionInv, LoggedIn PROVE SessionInv' /\ Admitted
  OBVIOUS
<1>1. Reading("Z")
  BY DEF LoggedIn
<1> DEFINE r == SubSeq(down, Got.size + 1, Len(down))
<1>2. PICK t \in Seq(Messages) :
         /\ Stage(t) /\ t # <<>> /\ t[1].kind = "Z" /\ r \in Seq(Unit)
         /\ Carries(Behind(r, server.out), Tail(t), server.at # "gone")
  BY <1>1, ReadIs, Zenon
<1>3. /\ Typed /\ Bounded /\ send_buf = <<>> /\ recv_acc = <<>> /\ be_resp = <<>>
      /\ ~server.skip /\ login.rounds + 1 \in 0 .. MaxRounds
  BY <1>1, ReadIs
<1>4. Welcomed(t) /\ Len(t) = 1 /\ up = <<>>
  BY <1>2, <1>3, StageKinds DEF Challenged, Unknown
<1>5. /\ phase' = "idle" /\ login' = NoLogin /\ down' = r
      /\ UNCHANGED <<conf, be_resp, used, send_buf, recv_acc, up, server, said>>
  BY <1>1 DEF LoggedIn, ReadMessage, Reading
<1> HIDE DEF r
<1>6. Tail(t) = <<>>
  <2>1. Tail(t) \in Seq(Messages) /\ Len(Tail(t)) = Len(t) - 1
    BY <1>2, HeadIn
  <2>2. Len(Tail(t)) = 0
    BY <1>4, <2>1
  <2> QED
    BY <2>1, <2>2, MessageBehind
<1>7. r = <<>> /\ server.out = <<>>
  <2>1. server.out \in Seq(Unit)
    BY <1>3 DEF Typed
  <2>2. Behind(r, server.out) \in Seq(Unit)
    BY <1>2, <2>1, UnitBehind
  <2>3. Behind(r, server.out) = <<>>
    BY <1>2, <1>6, <2>2, CarriesNothing, Zenon
  <2> QED
    BY <1>2, <2>1, <2>3, UnitBehind
<1>8. down' = <<>> /\ server'.out = <<>> /\ recv_acc' = <<>>
  BY <1>3, <1>5, <1>7
<1>9. Typed'
  BY <1>3, <1>5, <1>8, EmptyIs DEF Typed, LoginType
<1>10. Bounded'
  BY <1>3, <1>5, <1>8, EmptyIs DEF Bounded, SizeOf
<1>11. IdleInStep'
  <2>1. InFlight' = <<>>
    BY <1>8 DEF InFlight
  <2>2. server'.at \in {"ready", "gone"} /\ ~server'.skip
    BY <1>3, <1>4, <1>5 DEF Welcomed, ServerIs
  <2> QED
    BY <1>3, <1>4, <1>5, <2>1, <2>2 DEF IdleInStep
<1>12. WhenDown' /\ WhenLogin' /\ WhenExchange'
  BY <1>5 DEF WhenDown, WhenLogin, WhenExchange
<1>13. Admitted
  <2>1. /\ conf.method \in {"trust", "password", "scram"} /\ (conf.method # "trust" => Agree)
        /\ login.rounds = DialogueLength - 1
    BY <1>4 DEF Welcomed
  <2>2. Len(Welcome) \in Nat
    BY <1>3, WelcomeIs
  <2>3. DialogueLength \in Nat
    BY <2>1, <2>2, DialogueIs
  <2>4. DialogueLength <= MaxRounds
    BY <1>3, <2>1, <2>3, EmptyIs
  <2> QED
    BY <2>1, <2>4 DEF Admitted
<1> QED
  BY <1>9, <1>10, <1>11, <1>12, <1>13 DEF SessionInv

\* No stage of a login that is to go through lies behind its length, and in
\* none of them the server waits for what never comes.
LEMMA StageRounds ==
    ASSUME Typed, NEW t \in Seq(Messages), Stage(t), Admitted, server.at # "gone"
    PROVE  login.rounds < DialogueLength /\ server.at # "stuck"
<1>1. Len(Welcome) \in Nat /\ Len(Welcome) >= 2 /\ login.rounds \in Nat
  <2>1. conf.params \in Nat /\ Len(Welcome) = conf.params + 2
    BY WelcomeIs
  <2>2. login.rounds \in Nat
    BY EmptyIs DEF Typed
  <2> QED
    BY <2>1, <2>2
<1>2. conf.method \in {"trust", "password", "scram"}
  BY DEF Admitted
<1>3. /\ DialogueLength \in Nat /\ DialogueLength >= 2
      /\ conf.method = "password" => DialogueLength >= 3
      /\ conf.method = "scram" => DialogueLength >= 5
  BY <1>1, <1>2, DialogueIs
<1>4. CASE Starting \/ PasswordSent \/ NonceSent \/ ProofSent
  BY <1>3, <1>4 DEF Starting, PasswordSent, NonceSent, ProofSent, ServerIs
<1>5. CASE Challenged(t) \/ FirstCame(t) \/ FinalCame(t)
  BY <1>3, <1>5 DEF Challenged, FirstCame, FinalCame, ServerIs
<1>6. CASE Welcomed(t)
  <2>1. Len(t) \in 1 .. Len(Welcome) /\ login.rounds = DialogueLength - Len(t)
        /\ server.at # "stuck"
    BY <1>6 DEF Welcomed, ServerIs
  <2> QED
    BY <1>1, <1>3, <2>1
<1>7. CASE Refused(t) \/ Unknown(t)
  BY <1>2, <1>7 DEF Refused, Unknown
<1> QED
  BY <1>4, <1>5, <1>6, <1>7 DEF Stage

\* So it is when a login gives up.
LEMMA LoginGivesUpInv ==
    SessionInv /\ LoginGivesUp => SessionInv' /\ (~Admitted \/ server.at = "gone")
<1> SUFFICES ASSUME SessionInv, LoginGivesUp
             PROVE  SessionInv' /\ (~Admitted \/ server.at = "gone")
  OBVIOUS
<1>1. SessionInv'
  BY LoginFailsInv DEF LoginGivesUp
<1>2. ASSUME Admitted, server.at # "gone" PROVE FALSE
  <2>1. Typed
    BY DEF SessionInv
  <2>2. PICK t \in Seq(Messages) : Stage(t)
    BY DEF SessionInv, WhenLogin, LoginGivesUp
  <2>3. login.rounds < DialogueLength /\ server.at # "stuck"
    BY <1>2, <2>1, <2>2, StageRounds
  <2>4. login.rounds \in Nat /\ DialogueLength <= MaxRounds /\ DialogueLength \in Nat
    <3>1. login.rounds \in Nat
      BY <2>1, EmptyIs DEF Typed
    <3>2. Len(Welcome) \in Nat
      BY <2>1, WelcomeIs
    <3>3. DialogueLength \in Nat
      BY <1>2, <3>2, DialogueIs DEF Admitted
    <3> QED
      BY <1>2, <3>1, <3>3 DEF Admitted
  <2>5. login.rounds < MaxRounds
    BY <2>3, <2>4, EmptyIs
  <2> QED
    BY <1>2, <2>3, <2>5 DEF LoginGivesUp, RoundsLeft
<1> QED
  BY <1>1, <1>2

-----------------------------------------------------------------------------
(* The invariant holds: the server during a login *)

\* A server that hears something before it is ready hears it in a login, in
\* which everything it said before was read.
LEMMA InLogin ==
    ASSUME SessionInv, server.at \notin {"ready", "gone"}, up # <<>>, server.out = <<>>
    PROVE  /\ Typed /\ Bounded /\ phase = "login" /\ send_buf = <<>> /\ recv_acc = <<>>
           /\ be_resp = <<>> /\ ~server.skip /\ down = <<>> /\ Tail(up) = <<>>
           /\ Starting \/ PasswordSent \/ NonceSent \/ ProofSent
<1>1. Typed /\ Bounded
  BY DEF SessionInv
<1>2. phase = "login"
  BY <1>1 DEF SessionInv, Typed, WhenDown, Gone, IdleInStep, WhenExchange, ServerIs
<1>3. /\ send_buf = <<>> /\ recv_acc = <<>> /\ be_resp = <<>> /\ ~server.skip
  BY <1>2 DEF SessionInv, WhenLogin
<1>4. PICK t \in Seq(Messages) :
         Carries(Behind(down, server.out), t, server.at # "gone") /\ Stage(t)
  BY <1>2 DEF SessionInv, WhenLogin, Behind
<1>5. t = <<>> /\ (Starting \/ PasswordSent \/ NonceSent \/ ProofSent)
  BY <1>4 DEF Stage
<1>6. down = <<>>
  <2>1. down \in Seq(Unit) /\ server.out \in Seq(Unit)
    BY <1>1 DEF Typed
  <2>2. Behind(down, server.out) = down
    BY <2>1, UnitBehind
  <2> QED
    BY <1>4, <1>5, <2>1, <2>2, CarriesNothing, Zenon
<1>7. \E x : up = <<x>>
  BY <1>5 DEF Starting, PasswordSent, NonceSent, ProofSent, Writes
<1>8. Tail(up) = <<>>
  BY <1>7
<1> QED
  BY <1>1, <1>2, <1>3, <1>5, <1>6, <1>8

\* The server answers with u.
LEMMA SpeaksInv ==
    ASSUME SessionInv, server.at \notin {"ready", "gone"}, up # <<>>, server.out = <<>>,
           NEW s \in ServerType, Proceeds(s), UNCHANGED said, ~s.skip,
           NEW u \in Seq(Messages), s.out = Flat(u), Stage(u)'
    PROVE  SessionInv'
<1>1. /\ Typed /\ Bounded /\ phase = "login" /\ send_buf = <<>> /\ recv_acc = <<>>
      /\ be_resp = <<>> /\ down = <<>> /\ Tail(up) = <<>>
  BY InLogin
<1>2. /\ phase' = "login" /\ send_buf' = <<>> /\ recv_acc' = <<>> /\ be_resp' = <<>>
      /\ UNCHANGED <<conf, said>> /\ login' = login /\ used' = used
      /\ up' = <<>> /\ down' = <<>> /\ server' = s
  BY <1>1 DEF Proceeds, proxy
<1>3. login' \in LoginType /\ used' \in UsedType
  BY <1>1, <1>2 DEF Typed, LoginType, UsedType
<1>4. /\ up' \in Seq(Requests) /\ Len(up') <= UpCap
      /\ down' \in Seq(Unit) /\ Len(down') <= DownCap
  BY <1>2, EmptyIs
<1>5. Carries(Behind(down', server'.out), u, server'.at # "gone")
  <2>1. Flat(u) \in Seq(Unit)
    BY FlatBehind
  <2>2. Behind(<<>>, Flat(u)) = Flat(u) /\ Behind(Flat(u), <<>>) = Flat(u)
    BY <2>1, UnitBehind
  <2>3. \A whole : Carries(Flat(u), u, whole)
    BY <2>2, EmptyIs, Zenon DEF Carries
  <2>4. Behind(down', server'.out) = Flat(u)
    BY <1>2, <2>2
  <2> QED
    BY <2>3, <2>4, Zenon
<1>6. server' \in ServerType /\ ~server'.skip
  BY <1>2
<1> QED
  BY <1>1, <1>2, <1>3, <1>4, <1>5, <1>6, StaysInv, Zenon

\* What the server has to say when it said nothing before.
LEMMA SaysIs ==
    ASSUME Typed, server.out = <<>>, NEW u \in Seq(Messages), NEW at \in States
    PROVE  /\ [Says(u) EXCEPT !.at = at] \in ServerType
           /\ [Says(u) EXCEPT !.at = at].out = Flat(u)
           /\ [Says(u) EXCEPT !.at = at].at = at
           /\ [Says(u) EXCEPT !.at = at].skip = server.skip
           /\ [Says(u) EXCEPT !.at = at].auth = server.auth
<1>1. server \in ServerType
  BY DEF Typed, ServerType
<1>2. Flat(u) \in Seq(Unit) /\ server.out \o Flat(u) = Flat(u)
  BY FlatBehind, UnitBehind DEF Behind
<1>3. Says(u) = [server EXCEPT !.out = Flat(u)]
  <2>1. Says(u) = [server EXCEPT !.out = server.out \o Flat(u)]
    BY DEF Says
  <2> QED
    BY <1>2, <2>1
<1> DEFINE f == Flat(u)
<1>4. f \in Seq(Unit) /\ Says(u) = [server EXCEPT !.out = f]
  BY <1>2, <1>3
<1> HIDE DEF f
<1>5. Says(u) \in ServerType /\ Says(u).out = f /\ Says(u).skip = server.skip
      /\ Says(u).auth = server.auth
  BY <1>1, <1>4 DEF ServerType
<1> DEFINE s == Says(u)
<1>6. s \in ServerType /\ s.out = f /\ s.skip = server.skip /\ s.auth = server.auth
  BY <1>5
<1> HIDE DEF s
<1>7. /\ [s EXCEPT !.at = at] \in ServerType /\ [s EXCEPT !.at = at].out = f
      /\ [s EXCEPT !.at = at].at = at
      /\ [s EXCEPT !.at = at].auth = server.auth
  BY <1>6 DEF ServerType
<1>8. [s EXCEPT !.at = at].skip = server.skip
  <2>1. [s EXCEPT !.at = at].skip = s.skip
    BY <1>6 DEF ServerType
  <2> QED
    BY <1>6, <2>1, Zenon
<1> QED
  BY <1>7, <1>8, Zenon DEF s, f

\* The server lets the proxy in.
LEMMA WelcomesInv ==
    ASSUME Typed, conf' = conf, login' = login, server'.at = "ready",
           conf.method \in {"trust", "password", "scram"}, conf.method # "trust" => Agree,
           login.rounds + Len(Welcome) = DialogueLength
    PROVE  Welcomed(Welcome)'
<1>1. Welcome' = Welcome /\ DialogueLength' = DialogueLength /\ Agree' = Agree
  BY DEF Welcome, DialogueLength, Agree
<1>2. Len(Welcome) \in 1 .. Len(Welcome) /\ Len(Welcome) \in Nat
  BY WelcomeIs
<1>3. login.rounds \in Nat
  BY EmptyIs DEF Typed
<1>4. login'.rounds = DialogueLength - Len(Welcome)
  BY <1>2, <1>3
<1>5. \A i \in 1 .. Len(Welcome) : (Len(Welcome) - Len(Welcome)) + i = i
  BY <1>2
<1> DEFINE u == Welcome
<1>6. u = Welcome /\ u = Welcome' /\ u' = Welcome
  BY <1>1
<1> HIDE DEF u
<1>7. /\ Len(u) \in 1 .. Len(Welcome')
      /\ \A i \in 1 .. Len(u) : u[i] = Welcome'[(Len(Welcome') - Len(u)) + i]
  BY <1>1, <1>2, <1>5, <1>6
<1>8. login'.rounds = DialogueLength' - Len(u)
  BY <1>1, <1>4, <1>6
<1>9. ServerIs("ready")'
  BY DEF ServerIs
<1>10. conf'.method \in {"trust", "password", "scram"} /\ (conf'.method # "trust" => Agree')
  BY <1>1
<1>11. u' = u
  BY <1>6
<1> QED
  BY <1>6, <1>7, <1>8, <1>9, <1>10, <1>11 DEF Welcomed

\* The server greets as it is set up to.
LEMMA ServerGreetsInv == SessionInv /\ ServerGreets => SessionInv'
<1> SUFFICES ASSUME SessionInv, ServerGreets PROVE SessionInv'
  OBVIOUS
<1>1. /\ server.at = "startup" /\ server.out = <<>> /\ up # <<>> /\ said' = said
  BY DEF ServerGreets, Hears
<1>2. /\ Typed /\ phase = "login" /\ Tail(up) = <<>> /\ ~server.skip
      /\ Starting \/ PasswordSent \/ NonceSent \/ ProofSent
  BY <1>1, InLogin
<1>3. login.rounds = 0
  BY <1>1, <1>2 DEF Starting, PasswordSent, NonceSent, ProofSent, ServerIs
<1> DEFINE one == <<Short(conf.method, 0)>>
<1>4. PICK s : Proceeds(s) /\
         s = CASE conf.method = "trust" -> [Says(Welcome) EXCEPT !.at = "ready"]
               [] conf.method \in {"password", "scram"} ->
                    [Says(one) EXCEPT !.at = conf.method]
               [] OTHER -> [Says(one) EXCEPT !.at = "stuck"]
  BY DEF ServerGreets
<1>5. /\ conf' = conf /\ login' = login /\ server' = s /\ up' = <<>>
  BY <1>2, <1>4 DEF Proceeds, proxy
<1>6. conf.method \in {"trust", "password", "scram", "gss", "scram-plus"}
  BY <1>2, SessionAssumption DEF Typed
<1>7. CASE conf.method = "trust"
  <2>1. s = [Says(Welcome) EXCEPT !.at = "ready"]
    BY <1>4, <1>7
  <2>2. Welcome \in Seq(Messages) /\ "ready" \in States /\ Len(Welcome) \in Nat
    BY <1>2, WelcomeIs DEF States
  <2>3. /\ s \in ServerType /\ s.out = Flat(Welcome) /\ s.at = "ready" /\ s.skip = server.skip
    BY <1>1, <1>2, <2>1, <2>2, SaysIs, Zenon
  <2>4. login.rounds + Len(Welcome) = DialogueLength
    BY <1>3, <1>7, <2>2, DialogueIs
  <2>5. Welcomed(Welcome)'
    BY <1>2, <1>5, <1>7, <2>3, <2>4, WelcomesInv
  <2> DEFINE u == Welcome
  <2>6. Stage(u)'
    BY <1>5, <2>5, Zenon DEF Stage
  <2>7. Welcome' = Welcome
    BY <1>5 DEF Welcome
  <2>8. \E v \in Seq(Messages) : v = Welcome /\ Stage(v)'
    BY <2>2, <2>6, <2>7
  <2>9. PICK v \in Seq(Messages) : v = Welcome /\ Stage(v)'
    BY <2>8
  <2>10. s.out = Flat(v) /\ ~s.skip
    BY <1>2, <2>3, <2>9, Zenon
  <2> QED
    BY <1>1, <1>4, <2>3, <2>9, <2>10, SpeaksInv, Zenon
<1>8. CASE conf.method \in {"password", "scram", "gss", "scram-plus"}
  <2>1. PICK at \in {conf.method, "stuck"} :
           /\ s = [Says(one) EXCEPT !.at = at]
           /\ conf.method \in {"password", "scram"} => at = conf.method
           /\ conf.method \in {"gss", "scram-plus"} => at = "stuck"
    BY <1>4, <1>8
  <2>2. at \in States /\ one \in Seq(Messages) /\ at \notin {"gone", "ready"}
    <3>1. Short(conf.method, 0) \in Messages
      BY <1>8, ShortNat DEF Kinds
    <3>2. one \in Seq(Messages)
      BY <3>1, MessageBehind
    <3> QED
      BY <1>8, <2>1, <3>2 DEF States
  <2> HIDE DEF one
  <2>3. /\ s \in ServerType /\ s.out = Flat(one) /\ s.at = at /\ s.skip = server.skip
    BY <1>1, <1>2, <2>1, <2>2, SaysIs, Zenon
  <2>4. PICK v \in Seq(Messages) : v = one
    BY <2>2
  <2>5. v = <<Short(conf'.method, 0)>>
    BY <1>5, <2>4 DEF one
  <2>6. Challenged(v)' \/ Unknown(v)'
    <3>1. CASE conf.method \in {"password", "scram"}
      <4>1. ServerIs(conf.method)' /\ conf'.method \in {"password", "scram"}
        BY <1>5, <2>1, <2>3, <3>1 DEF ServerIs
      <4>2. login'.rounds = 0
        BY <1>3, <1>5
      <4> QED
        BY <2>5, <4>1, <4>2, Zenon DEF Challenged
    <3>2. CASE conf.method \in {"gss", "scram-plus"}
      <4>1. ServerIs("stuck")' /\ conf'.method \in {"gss", "scram-plus"}
        BY <1>5, <2>1, <2>3, <3>2 DEF ServerIs
      <4> QED
        BY <2>5, <4>1, Zenon DEF Unknown
    <3> QED
      BY <1>8, <3>1, <3>2
  <2>7. Stage(v)'
    BY <1>5, <2>6, Zenon DEF Stage
  <2>8. s.out = Flat(v) /\ ~s.skip
    BY <1>2, <2>3, <2>4, Zenon
  <2> QED
    BY <1>1, <1>4, <2>3, <2>7, <2>8, SpeaksInv, Zenon
<1> QED
  BY <1>6, <1>7, <1>8

\* The server's judgement of a password or a proof.
LEMMA JudgesInv ==
    ASSUME SessionInv, server.at \notin {"ready", "gone"}, up # <<>>, server.out = <<>>,
           UNCHANGED said, NEW right \in BOOLEAN, NEW ms \in Seq(Messages), Judges(right, ms),
           right /\ server'.at = "ready" /\ up' = <<>> /\ conf' = conf /\ login' = login =>
              \E u \in Seq(Messages) : u = Behind(ms, Welcome) /\ Stage(u)'
    PROVE  SessionInv'
<1>1. Typed /\ Tail(up) = <<>> /\ ~server.skip
  BY InLogin
<1>2. PICK s : Proceeds(s) /\
         s = IF right THEN [Says(ms \o Welcome) EXCEPT !.at = "ready"]
                      ELSE [Says(<<Short("E", 0)>>) EXCEPT !.at = "gone"]
  BY DEF Judges
<1>3. /\ conf' = conf /\ login' = login /\ server' = s /\ up' = <<>>
  BY <1>1, <1>2 DEF Proceeds, proxy
<1>4. CASE right
  <2> DEFINE w == Behind(ms, Welcome)
  <2>1. s = [Says(w) EXCEPT !.at = "ready"]
    BY <1>2, <1>4 DEF Behind
  <2>2. w \in Seq(Messages) /\ "ready" \in States
    BY <1>1, WelcomeIs, MessageBehind DEF States
  <2>3. /\ s \in ServerType /\ s.out = Flat(w) /\ s.at = "ready" /\ s.skip = server.skip
    <3> HIDE DEF w
    <3> QED
      BY <1>1, <2>1, <2>2, SaysIs, Zenon
  <2>4. PICK u \in Seq(Messages) : u = w /\ Stage(u)'
    BY <1>3, <1>4, <2>3
  <2>5. s.out = Flat(u) /\ ~s.skip
    BY <1>1, <2>3, <2>4, Zenon
  <2> QED
    BY <1>2, <2>3, <2>4, <2>5, SpeaksInv, Zenon
<1>5. CASE ~right
  <2> DEFINE u == <<Short("E", 0)>>
  <2>1. s = [Says(u) EXCEPT !.at = "gone"]
    BY <1>2, <1>5
  <2>2. u \in Seq(Messages) /\ "gone" \in States
    BY ShortNat, MessageBehind DEF Kinds, States
  <2>3. /\ s \in ServerType /\ s.out = Flat(u) /\ s.at = "gone" /\ s.skip = server.skip
    <3> HIDE DEF u
    <3> QED
      BY <1>1, <2>1, <2>2, SaysIs, Zenon
  <2>4. Stage(u)'
    BY <1>3, <2>3, Zenon DEF Stage, Refused
  <2>5. ~s.skip
    BY <1>1, <2>3, Zenon
  <2> HIDE DEF u
  <2> QED
    BY <1>2, <2>2, <2>3, <2>4, <2>5, SpeaksInv, Zenon
<1> QED
  BY <1>4, <1>5

\* The server judges a password or a proof by its own secret.
LEMMA ServerAuthenticatesInv == SessionInv /\ ServerAuthenticates => SessionInv'
<1> SUFFICES ASSUME SessionInv, ServerAuthenticates PROVE SessionInv'
  OBVIOUS
<1> DEFINE d == up[1].data
           first == [nonce |-> <<d, "s">>]
<1>1. server.out = <<>> /\ up # <<>> /\ said' = said
  BY DEF ServerAuthenticates, Hears
<1>2. \/ server.at = "password" /\ Judges(d = conf.secret, <<>>)
      \/ /\ server.at = "scram"
         /\ Proceeds([Says(<<Short("first", first)>>)
                        EXCEPT !.at = "proof", !.auth = AuthMessage(d, first)])
      \/ /\ server.at = "proof"
         /\ Judges(d = Proof(conf.secret, server.auth),
                   <<Short("final", ServerSignature(conf.secret, server.auth))>>)
  BY DEF ServerAuthenticates
<1>3. server.at \notin {"ready", "gone"}
  BY <1>2
<1>4. /\ Typed /\ phase = "login" /\ Tail(up) = <<>> /\ ~server.skip
      /\ Starting \/ PasswordSent \/ NonceSent \/ ProofSent
  BY <1>1, <1>3, InLogin
<1>5. Welcome \in Seq(Messages) /\ Len(Welcome) \in Nat
  BY <1>4, WelcomeIs
<1>6. \A x : <<x>>[1] = x
  OBVIOUS
<1>7. \A k, e : [kind |-> k, data |-> e].data = e
  OBVIOUS
<1>8. CASE server.at = "password" /\ Judges(d = conf.secret, <<>>)
  <2>1. PasswordSent
    BY <1>4, <1>8 DEF Starting, PasswordSent, NonceSent, ProofSent, ServerIs
  <2>2. d = conf.password
    <3>1. up = <<[kind |-> "p", data |-> conf.password]>>
      BY <2>1 DEF PasswordSent, Writes
    <3> QED
      BY <1>6, <1>7, <3>1, Zenon
  <2>3. ASSUME d = conf.secret, server'.at = "ready", up' = <<>>, conf' = conf, login' = login
        PROVE  \E u \in Seq(Messages) : u = Behind(<<>>, Welcome) /\ Stage(u)'
    <3>1. login.rounds = 1 /\ conf.method = "password" /\ Agree
      BY <2>1, <2>2, <2>3 DEF PasswordSent, Agree
    <3>2. login.rounds + Len(Welcome) = DialogueLength
      BY <1>5, <3>1, DialogueIs
    <3>3. Welcomed(Welcome)'
      BY <1>4, <2>3, <3>1, <3>2, WelcomesInv
    <3>4. Stage(Welcome)'
      BY <2>3, <3>3, Zenon DEF Stage
    <3>5. Welcome' = Welcome /\ Behind(<<>>, Welcome) = Welcome
      BY <1>5, <2>3, MessageBehind DEF Welcome
    <3> QED
      BY <1>5, <3>4, <3>5
  <2>4. <<>> \in Seq(Messages) /\ (d = conf.secret) \in BOOLEAN
    BY EmptyIs
  <2> HIDE DEF d
  <2> QED
    BY <1>1, <1>3, <1>8, <2>3, <2>4, JudgesInv, Zenon
<1>9. CASE /\ server.at = "scram"
           /\ Proceeds([Says(<<Short("first", first)>>)
                          EXCEPT !.at = "proof", !.auth = AuthMessage(d, first)])
  <2>1. NonceSent
    BY <1>4, <1>9 DEF Starting, PasswordSent, NonceSent, ProofSent, ServerIs
  <2>2. d = login.nonce
    <3>1. up = <<[kind |-> "p", data |-> login.nonce]>>
      BY <2>1 DEF NonceSent, Writes
    <3> QED
      BY <1>6, <1>7, <3>1, Zenon
  <2>3. first = First /\ AuthMessage(d, first) = Signed
    BY <2>2 DEF First, Signed
  <2> DEFINE u == <<Short("first", First)>>
             s == [Says(u) EXCEPT !.at = "proof"]
             r == [s EXCEPT !.auth = Signed]
  <2>4. Proceeds(r)
    BY <1>9, <2>3
  <2>5. Signed \in Auths /\ u \in Seq(Messages) /\ "proof" \in States
    <3>1. login.nonce \in Nat
      BY <1>4 DEF Typed
    <3>2. Signed \in Auths /\ First \in Data
      BY <3>1, DataIs, Zenon DEF Signed, First
    <3>3. Short("first", First) \in Messages
      <4>1. "first" \in Kinds
        BY DEF Kinds
      <4> QED
        BY <3>2, <4>1, ShortIs
    <3>4. u \in Seq(Messages)
      BY <3>3, MessageBehind
    <3> QED
      BY <3>2, <3>4 DEF States
  <2>6. s \in ServerType /\ s.out = Flat(u) /\ s.at = "proof" /\ s.skip = server.skip
    <3> HIDE DEF u
    <3> QED
      BY <1>1, <1>4, <2>5, SaysIs, Zenon
  <2>7. ~s.skip
    BY <1>4, <2>6, Zenon
  <2> DEFINE f == Flat(u)
  <2>8. s.out = f
    BY <2>6
  <2> HIDE DEF d, first, s, f
  <2>9. r \in ServerType /\ r.out = f /\ r.at = "proof" /\ ~r.skip /\ r.auth = Signed
    BY <2>5, <2>6, <2>7, <2>8 DEF ServerType
  <2> HIDE DEF r
  <2>10. /\ conf' = conf /\ login' = login /\ server' = r /\ up' = <<>>
    BY <1>4, <2>4 DEF Proceeds, proxy
  <2>11. First' = First /\ Signed' = Signed
    BY <2>10 DEF First, Signed
  <2>12. u' = u
    BY <2>11
  <2>13. PICK v \in Seq(Messages) : v = u
    BY <2>5
  <2>14. FirstCame(v)'
    <3>1. conf'.method = "scram" /\ login'.rounds = 1 /\ login'.scram
      BY <2>1, <2>10 DEF NonceSent
    <3>2. ServerIs("proof")' /\ server'.auth = Signed'
      BY <2>9, <2>10, <2>11 DEF ServerIs
    <3>3. v = <<Short("first", First')>>
      BY <2>11, <2>13
    <3> QED
      BY <3>1, <3>2, <3>3, Zenon DEF FirstCame
  <2>15. Stage(v)'
    BY <2>10, <2>14, Zenon DEF Stage
  <2>16. r.out = Flat(v)
    BY <2>9, <2>13 DEF f
  <2> QED
    BY <1>1, <1>3, <2>4, <2>9, <2>15, <2>16, SpeaksInv, Zenon
<1>10. CASE /\ server.at = "proof"
            /\ Judges(d = Proof(conf.secret, server.auth),
                      <<Short("final", ServerSignature(conf.secret, server.auth))>>)
  <2>1. ProofSent
    BY <1>4, <1>10 DEF Starting, PasswordSent, NonceSent, ProofSent, ServerIs
  <2>2. server.auth = Signed /\ d = Proof(conf.password, Signed)
    <3>1. up = <<[kind |-> "p", data |-> Proof(conf.password, Signed)]>>
      BY <2>1 DEF ProofSent, Writes
    <3>2. server.auth = Signed
      BY <1>10, <2>1 DEF ProofSent
    <3> QED
      BY <1>6, <1>7, <3>1, <3>2, Zenon
  <2> DEFINE x == Short("final", ServerSignature(conf.secret, Signed))
             right == d = Proof(conf.secret, Signed)
             ms == <<x>>
  <2>3. Judges(right, ms)
    BY <1>10, <2>2
  <2>4. right \in BOOLEAN /\ ms \in Seq(Messages)
    <3>1. login.nonce \in Nat /\ conf.secret \in Secrets
      BY <1>4 DEF Typed, Secrets
    <3>2. Signed \in Auths
      BY <3>1, DataIs, Zenon DEF Signed, First
    <3>3. ServerSignature(conf.secret, Signed) \in Data
      BY <3>1, <3>2, DataIs, Zenon
    <3>4. "final" \in Kinds
      BY DEF Kinds
    <3>5. x \in Messages
      BY <3>3, <3>4, ShortIs
    <3> QED
      BY <3>5, MessageBehind
  <2>5. ASSUME right, server'.at = "ready", up' = <<>>, conf' = conf, login' = login
        PROVE  \E u \in Seq(Messages) : u = Behind(ms, Welcome) /\ Stage(u)'
    <3>1. Agree
      <4>1. Proof(conf.password, Signed) = Proof(conf.secret, Signed)
        BY <2>2, <2>5
      <4>2. conf.password = conf.secret
        BY <4>1 DEF Proof
      <4> QED
        BY <4>2 DEF Agree
    <3>2. First' = First /\ Signed' = Signed /\ Welcome' = Welcome /\ Agree' = Agree
      BY <2>5 DEF First, Signed, Welcome, Agree
    <3> DEFINE v == Behind(ms, Welcome)
    <3>3. v \in Seq(Messages)
      BY <1>5, <2>4, MessageBehind
    <3>4. PICK u \in Seq(Messages) : u = v
      BY <3>3
    <3>5. u = <<Short("final", ServerSignature(conf'.secret, Signed'))>> \o Welcome'
      BY <2>5, <3>2, <3>4 DEF Behind
    <3>6. /\ conf'.method = "scram" /\ login'.rounds = 2 /\ login'.scram
          /\ login'.auth = Signed' /\ Agree' /\ ServerIs("ready")'
      BY <2>1, <2>5, <3>1, <3>2 DEF ProofSent, ServerIs
    <3>7. FinalCame(u)'
      BY <3>5, <3>6, Zenon DEF FinalCame
    <3>8. Stage(u)'
      BY <2>5, <3>7, Zenon DEF Stage
    <3> QED
      BY <3>4, <3>8
  <2> HIDE DEF right, ms
  <2> QED
    BY <1>1, <1>3, <1>10, <2>3, <2>4, <2>5, JudgesInv, Zenon
<1> QED
  BY <1>2, <1>8, <1>9, <1>10

-----------------------------------------------------------------------------
(* The invariant holds: what moves on the wire, and what is lost there *)

\* An exchange, with its streams as joins.
LEMMA Exchanging ==
    ASSUME SessionInv, phase \in {"sending", "reading"}
    PROVE  /\ Typed /\ Bounded /\ ServerIs("ready")
           /\ server.at = "gone" => server.out = <<>> /\ ~server.skip
           /\ phase = "reading" => send_buf = <<>>
           /\ \E j \in 0 .. 4, failed \in BOOLEAN, a, b \in Seq(Messages) :
                 /\ Heard(used.requests, j, failed, said)
                 /\ server.at = "ready" => server.skip = failed
                 /\ Asking(used.requests, j, up \o send_buf)
                 /\ said = Behind(a, b) /\ be_resp = Visible(a)
                 /\ Carries(Behind(Behind(recv_acc, down), server.out), b,
                            server.at # "gone")
<1>1. WhenExchange /\ Typed /\ Bounded
  BY DEF SessionInv
<1>2. InFlight = Behind(Behind(recv_acc, down), server.out)
  BY DEF InFlight, Behind
<1>3. /\ ServerIs("ready") /\ (server.at = "gone" => server.out = <<>> /\ ~server.skip)
      /\ phase = "reading" => send_buf = <<>>
      /\ \E j \in 0 .. 4, failed \in BOOLEAN, a, b \in Seq(Messages) :
            /\ Heard(used.requests, j, failed, said)
            /\ server.at = "ready" => server.skip = failed
            /\ Asking(used.requests, j, up \o send_buf)
            /\ said = a \o b /\ be_resp = Visible(a)
            /\ Carries(InFlight, b, server.at # "gone")
  BY <1>1, Zenon DEF WhenExchange
<1> QED
  BY <1>1, <1>2, <1>3, Zenon DEF Behind

\* What is to be shown of a step after which the exchange goes on.
LEMMA GoesOnInv ==
    ASSUME Typed', Bounded', phase' \in {"sending", "reading"}, ServerIs("ready")',
           server'.at = "gone" => server'.out = <<>> /\ ~server'.skip,
           phase' = "reading" => send_buf' = <<>>,
           NEW j \in 0 .. 4, NEW failed \in BOOLEAN,
           NEW a \in Seq(Messages), NEW b \in Seq(Messages),
           Heard(used'.requests, j, failed, said'), server'.at = "ready" => server'.skip = failed,
           Asking(used'.requests, j, up' \o send_buf'), said' = Behind(a, b), be_resp' = Visible(a),
           Carries(Behind(Behind(recv_acc', down'), server'.out), b, server'.at # "gone")
    PROVE  SessionInv'
<1>1. InFlight' = Behind(Behind(recv_acc', down'), server'.out)
  BY DEF InFlight, Behind
<1>2. Carries(InFlight', b, server'.at # "gone")
  BY <1>1, Zenon
<1>3. said' = a \o b
  BY DEF Behind
<1>4. WhenExchange'
  BY <1>2, <1>3, Zenon DEF WhenExchange
<1>5. WhenDown' /\ WhenLogin' /\ IdleInStep'
  BY DEF WhenDown, WhenLogin, IdleInStep
<1> QED
  BY <1>4, <1>5 DEF SessionInv

\* The stage of a login does not change while the server only writes, or ends.
LEMMA StageKept ==
    ASSUME UNCHANGED <<conf, login, up>>, NEW t, Stage(t),
           server'.at \in {server.at, "gone"},
           server'.at # "gone" => server'.auth = server.auth
    PROVE  Stage(t)'
<1>1. /\ Welcome' = Welcome /\ DialogueLength' = DialogueLength /\ Agree' = Agree
      /\ First' = First /\ Signed' = Signed
  BY DEF Welcome, DialogueLength, Agree, First, Signed
<1>2. \A x : ServerIs(x) => ServerIs(x)'
  BY DEF ServerIs
<1>3. \A k, d : Writes(k, d) => Writes(k, d)'
  BY DEF Writes
<1>4. conf' = conf /\ login' = login /\ up' = up
  OBVIOUS
<1>5. (server.at = "proof" => server.auth = Signed) =>
         (server'.at = "proof" => server'.auth = Signed')
  BY <1>1
<1>6. Starting => Starting'
  BY <1>2, <1>3, <1>4 DEF Starting
<1>7. PasswordSent => PasswordSent'
  <2>1. ServerIs("password") => ServerIs("password")'
    BY <1>2
  <2>2. Writes("p", conf.password) => Writes("p", conf.password)'
    BY <1>4 DEF Writes
  <2> QED
    BY <1>4, <2>1, <2>2, Zenon DEF PasswordSent
<1>8. NonceSent => NonceSent'
  <2>1. ServerIs("scram") => ServerIs("scram")'
    BY <1>2
  <2>2. Writes("p", login.nonce) => Writes("p", login.nonce)'
    BY <1>4 DEF Writes
  <2> QED
    BY <1>4, <2>1, <2>2, Zenon DEF NonceSent
<1>9. ProofSent => ProofSent'
  <2>1. ServerIs("proof") => ServerIs("proof")'
    BY <1>2
  <2>2. Writes("p", Proof(conf.password, Signed)) => Writes("p", Proof(conf.password, Signed))'
    BY <1>1, <1>4 DEF Writes
  <2> QED
    BY <1>1, <1>4, <1>5, <2>1, <2>2, Zenon DEF ProofSent
<1>10. Challenged(t) => Challenged(t)'
  <2>1. ServerIs(conf.method) => ServerIs(conf.method)'
    BY <1>4 DEF ServerIs
  <2> QED
    BY <1>4, <2>1, Zenon DEF Challenged
<1>11. FirstCame(t) => FirstCame(t)'
  <2>1. ServerIs("proof") => ServerIs("proof")'
    BY <1>2
  <2> QED
    BY <1>1, <1>4, <1>5, <2>1, Zenon DEF FirstCame
<1>12. FinalCame(t) => FinalCame(t)'
  <2>1. ServerIs("ready") => ServerIs("ready")'
    BY <1>2
  <2> QED
    BY <1>1, <1>4, <2>1, Zenon DEF FinalCame
<1>13. Welcomed(t) => Welcomed(t)'
  <2>1. ServerIs("ready") => ServerIs("ready")'
    BY <1>2
  <2> QED
    BY <1>1, <1>4, <2>1, Zenon DEF Welcomed
<1>14. Refused(t) => Refused(t)'
  BY DEF Refused
<1>15. Unknown(t) => Unknown(t)'
  <2>1. ServerIs("stuck") => ServerIs("stuck")'
    BY <1>2
  <2> QED
    BY <1>4, <2>1, Zenon DEF Unknown
<1> QED
  BY <1>4, <1>6, <1>7, <1>8, <1>9, <1>10, <1>11, <1>12, <1>13, <1>14, <1>15, Zenon DEF Stage

\* A unit the server writes was in flight already.
LEMMA ServerWritesInv == SessionInv /\ ServerWrites => SessionInv'
<1> SUFFICES ASSUME SessionInv, ServerWrites PROVE SessionInv'
  OBVIOUS
<1> DEFINE o == server.out
           x == Head(o)
           p == Tail(o)
           y == <<x>>
<1>1. /\ o # <<>> /\ Len(down) < DownCap /\ down' = Append(down, x)
      /\ server' = [server EXCEPT !.out = p]
      /\ UNCHANGED <<conf, phase, login, send_buf, recv_acc, be_resp, up, said, used>>
  BY DEF ServerWrites, proxy
<1>2. Typed /\ Bounded
  BY DEF SessionInv
<1>3. server \in ServerType /\ o \in Seq(Unit) /\ down \in Seq(Unit) /\ recv_acc \in Seq(Unit)
  BY <1>2 DEF Typed, ServerType
<1>4. x \in Unit /\ p \in Seq(Unit) /\ y \in Seq(Unit) /\ o = Behind(y, p)
  <2>1. x \in Unit /\ p \in Seq(Unit) /\ o = <<x>> \o p
    BY <1>1, <1>3
  <2> QED
    BY <2>1 DEF Behind
<1>5. down' = Behind(down, y)
  BY <1>1, <1>3, <1>4, AppendIsConcat DEF Behind
<1> HIDE DEF x, p, o, y
<1>6. Behind(Behind(down, y), p) = Behind(down, o)
  <2>1. Behind(Behind(down, y), p) = Behind(down, Behind(y, p))
    <3>1. down \in Seq(Unit) /\ y \in Seq(Unit) /\ p \in Seq(Unit)
      BY <1>3, <1>4
    <3> QED
      BY <3>1, UnitBehind
  <2> QED
    BY <1>4, <2>1
<1>7. /\ server' \in ServerType /\ server'.at = server.at /\ server'.auth = server.auth
      /\ server'.out = p
  BY <1>1, <1>3, <1>4 DEF ServerType
<1>8. server'.skip = server.skip
  <2>1. DOMAIN server = {"at", "skip", "auth", "out"}
    BY <1>3 DEF ServerType
  <2> QED
    BY <1>1, <1>3 DEF ServerType
<1>9. down' \in Seq(Unit) /\ Len(down') <= DownCap
  <2>1. down' \in Seq(Unit) /\ Len(down') = Len(down) + 1
    BY <1>1, <1>3, <1>4
  <2>2. Len(down) \in Nat
    BY <1>3, LenProperties
  <2> QED
    BY <1>1, <2>1, <2>2, EmptyIs
<1>10. Typed'
  BY <1>1, <1>2, <1>7, <1>9 DEF Typed, ServerType
<1>11. Bounded'
  BY <1>1, <1>2, <1>9 DEF Bounded, SizeOf
<1>12. phase \notin {"down", "idle"}
  <2>1. phase # "down"
    BY <1>1 DEF SessionInv, WhenDown, Gone, o
  <2>2. phase = "idle" => Behind(Behind(recv_acc, down), o) = <<>>
    BY DEF SessionInv, IdleInStep, InFlight, Behind, o
  <2>3. Behind(Behind(recv_acc, down), o) # <<>>
    <3>1. Behind(recv_acc, down) \in Seq(Unit)
      BY <1>3, UnitBehind
    <3> QED
      BY <1>1, <1>3, <3>1, UnitBehind
  <2> QED
    BY <2>1, <2>2, <2>3
<1>13. CASE phase = "login"
  <2>1. /\ send_buf = <<>> /\ recv_acc = <<>> /\ be_resp = <<>> /\ ~server.skip
    BY <1>13 DEF SessionInv, WhenLogin
  <2>2. PICK t \in Seq(Messages) : Carries(Behind(down, o), t, server.at # "gone") /\ Stage(t)
    BY <1>13 DEF SessionInv, WhenLogin, Behind, o
  <2>3. Stage(t)'
    BY <1>1, <1>7, <2>2, StageKept
  <2>4. Carries(Behind(down', server'.out), t, server'.at # "gone")
    BY <1>5, <1>6, <1>7, <2>2, Zenon
  <2>5. /\ phase' = "login" /\ send_buf' = <<>> /\ recv_acc' = <<>> /\ be_resp' = <<>>
        /\ UNCHANGED <<conf, said>> /\ ~server'.skip
    <3>1. ~server'.skip
      BY <1>8, <2>1, Zenon
    <3> QED
      BY <1>1, <1>13, <2>1, <3>1
  <2>6. /\ login' \in LoginType /\ used' \in UsedType /\ up' \in Seq(Requests)
        /\ Len(up') <= UpCap
    BY <1>10, <1>11 DEF Typed, Bounded, LoginType, UsedType
  <2> QED
    BY <1>2, <1>7, <1>9, <2>2, <2>3, <2>4, <2>5, <2>6, StaysInv, Zenon
<1>14. CASE phase \in {"sending", "reading"}
  <2>1. /\ ServerIs("ready") /\ server.at # "gone"
        /\ phase = "reading" => send_buf = <<>>
    BY <1>1, <1>14, Exchanging DEF o
  <2>2. PICK j \in 0 .. 4, failed \in BOOLEAN, a \in Seq(Messages), b \in Seq(Messages) :
           /\ Heard(used.requests, j, failed, said)
           /\ server.at = "ready" => server.skip = failed
           /\ Asking(used.requests, j, up \o send_buf)
           /\ said = Behind(a, b) /\ be_resp = Visible(a)
           /\ Carries(Behind(Behind(recv_acc, down), o), b, server.at # "gone")
    BY <1>14, Exchanging, Zenon DEF o
  <2>3. Behind(Behind(recv_acc, down'), p) = Behind(Behind(recv_acc, down), o)
    <3>1. Behind(Behind(recv_acc, down'), p) = Behind(recv_acc, Behind(down', p))
      BY <1>3, <1>4, <1>9, UnitBehind
    <3>2. Behind(Behind(recv_acc, down), o) = Behind(recv_acc, Behind(down, o))
      BY <1>3, UnitBehind
    <3>3. Behind(down', p) = Behind(down, o)
      BY <1>5, <1>6
    <3> QED
      BY <3>1, <3>2, <3>3
  <2>4. Carries(Behind(Behind(recv_acc', down'), server'.out), b, server'.at # "gone")
    <3>1. recv_acc' = recv_acc
      BY <1>1
    <3> QED
      BY <1>7, <2>2, <2>3, <3>1, Zenon
  <2>5. /\ Heard(used'.requests, j, failed, said')
        /\ Asking(used'.requests, j, up' \o send_buf')
        /\ said' = Behind(a, b) /\ be_resp' = Visible(a)
    <3>1. used' = used /\ said' = said /\ up' = up /\ send_buf' = send_buf /\ be_resp' = be_resp
      BY <1>1
    <3> QED
      BY <2>2, <3>1, Zenon
  <2>6. /\ phase' \in {"sending", "reading"} /\ ServerIs("ready")' /\ server'.at # "gone"
        /\ phase' = "reading" => send_buf' = <<>>
    BY <1>1, <1>7, <1>14, <2>1 DEF ServerIs
  <2>7. server'.at = "ready" => server'.skip = failed
    BY <1>7, <1>8, <2>2, Zenon
  <2> QED
    BY <1>10, <1>11, <2>4, <2>5, <2>6, <2>7, GoesOnInv, Zenon
<1> QED
  BY <1>2, <1>12, <1>13, <1>14 DEF Typed

\* What a lost connection still delivers is the beginning of what was in flight.
LEMMA CutInv == SessionInv /\ Cut => SessionInv'
<1> SUFFICES ASSUME SessionInv, Cut PROVE SessionInv'
  OBVIOUS
<1>1. /\ server.at # "gone" /\ server' = Gone /\ used' = [used EXCEPT !.cuts = @ + 1]
      /\ used.cuts < MaxCuts
      /\ UNCHANGED <<conf, phase, login, send_buf, recv_acc, be_resp, up, down, said>>
  BY DEF Cut, proxy
<1>2. Typed /\ Bounded
  BY DEF SessionInv
<1>3. used' \in UsedType /\ used'.requests = used.requests
  <2>1. used \in UsedType /\ MaxCuts \in Nat
    BY <1>2, SessionAssumption DEF Typed, UsedType
  <2> QED
    BY <1>1, <2>1 DEF UsedType
<1>4. server' \in ServerType /\ server'.at = "gone" /\ ~server'.skip /\ server'.out = <<>>
  BY <1>1, EmptyIs DEF Gone
<1>5. Typed'
  BY <1>1, <1>2, <1>3, <1>4 DEF Typed, ServerType, UsedType
<1>6. Bounded'
  BY <1>1, <1>2 DEF Bounded, SizeOf
<1>7. phase # "down"
  BY <1>1 DEF SessionInv, WhenDown, Gone
<1>8. server.out \in Seq(Unit) /\ down \in Seq(Unit) /\ recv_acc \in Seq(Unit)
      /\ Behind(recv_acc, down) \in Seq(Unit)
  <2>1. server.out \in Seq(Unit) /\ down \in Seq(Unit) /\ recv_acc \in Seq(Unit)
    BY <1>2 DEF Typed
  <2> QED
    BY <2>1, UnitBehind
<1>9. CASE phase = "idle"
  <2>1. Behind(Behind(recv_acc, down), server.out) = <<>>
    BY <1>9 DEF SessionInv, IdleInStep, InFlight, Behind
  <2>2. recv_acc = <<>> /\ down = <<>>
    <3>1. Behind(recv_acc, down) = <<>>
      BY <1>8, <2>1, UnitBehind
    <3> QED
      BY <1>8, <3>1, UnitBehind
  <2>3. InFlight' = <<>>
    BY <1>1, <1>4, <2>2 DEF InFlight
  <2>4. IdleInStep'
    BY <1>1, <1>4, <1>9, <2>3 DEF SessionInv, IdleInStep
  <2>5. WhenDown' /\ WhenLogin' /\ WhenExchange'
    BY <1>1, <1>9 DEF WhenDown, WhenLogin, WhenExchange
  <2> QED
    BY <1>5, <1>6, <2>4, <2>5 DEF SessionInv
<1>10. CASE phase = "login"
  <2>1. /\ send_buf = <<>> /\ recv_acc = <<>> /\ be_resp = <<>>
    BY <1>10 DEF SessionInv, WhenLogin
  <2>2. PICK t \in Seq(Messages) :
           Carries(Behind(down, server.out), t, server.at # "gone") /\ Stage(t)
    BY <1>10 DEF SessionInv, WhenLogin, Behind
  <2>3. Stage(t)'
    BY <1>1, <1>4, <2>2, StageKept
  <2>4. Carries(Behind(down', server'.out), t, server'.at # "gone")
    <3>1. Carries(down, t, FALSE)
      BY <1>8, <2>2, CarriesLess, Zenon
    <3>2. Behind(down', server'.out) = down
      BY <1>1, <1>4, <1>8, UnitBehind
    <3>3. (server'.at # "gone") = FALSE
      BY <1>4
    <3> QED
      BY <3>1, <3>2, <3>3, Zenon
  <2>5. /\ phase' = "login" /\ send_buf' = <<>> /\ recv_acc' = <<>> /\ be_resp' = <<>>
        /\ UNCHANGED <<conf, said>> /\ down' = down
    BY <1>1, <1>10, <2>1
  <2>6. /\ login' \in LoginType /\ up' \in Seq(Requests) /\ Len(up') <= UpCap
        /\ down' \in Seq(Unit) /\ Len(down') <= DownCap
    BY <1>5, <1>6 DEF Typed, Bounded, LoginType
  <2> QED
    BY <1>2, <1>3, <1>4, <2>2, <2>3, <2>4, <2>5, <2>6, StaysInv, Zenon
<1>11. CASE phase \in {"sending", "reading"}
  <2>1. phase = "reading" => send_buf = <<>>
    BY <1>11, Exchanging
  <2>2. PICK j \in 0 .. 4, failed \in BOOLEAN, a \in Seq(Messages), b \in Seq(Messages) :
           /\ Heard(used.requests, j, failed, said)
           /\ Asking(used.requests, j, up \o send_buf)
           /\ said = Behind(a, b) /\ be_resp = Visible(a)
           /\ Carries(Behind(Behind(recv_acc, down), server.out), b, server.at # "gone")
    BY <1>11, Exchanging, Zenon
  <2>3. Carries(Behind(Behind(recv_acc', down'), server'.out), b, server'.at # "gone")
    <3>1. Carries(Behind(recv_acc, down), b, FALSE)
      BY <1>8, <2>2, CarriesLess, Zenon
    <3>2. Behind(Behind(recv_acc', down'), server'.out) = Behind(recv_acc, down)
      BY <1>1, <1>4, <1>8, UnitBehind
    <3>3. (server'.at # "gone") = FALSE
      BY <1>4
    <3> QED
      BY <3>1, <3>2, <3>3, Zenon
  <2>4. /\ Heard(used'.requests, j, failed, said')
        /\ Asking(used'.requests, j, up' \o send_buf')
        /\ said' = Behind(a, b) /\ be_resp' = Visible(a)
    <3>1. said' = said /\ up' = up /\ send_buf' = send_buf /\ be_resp' = be_resp
      BY <1>1
    <3> QED
      BY <1>3, <2>2, <3>1, Zenon
  <2>5. /\ phase' \in {"sending", "reading"} /\ ServerIs("ready")'
        /\ phase' = "reading" => send_buf' = <<>>
    BY <1>1, <1>4, <1>11, <2>1 DEF ServerIs
  <2>6. server'.at = "ready" => server'.skip = failed
    BY <1>4
  <2> QED
    BY <1>4, <1>5, <1>6, <2>3, <2>4, <2>5, <2>6, GoesOnInv, Zenon
<1> QED
  BY <1>2, <1>7, <1>9, <1>10, <1>11 DEF Typed

-----------------------------------------------------------------------------
(* The invariant holds: the exchange *)

\* Behind, for request messages.
LEMMA RequestBehind ==
    /\ \A s, t \in Seq(Requests) :
          Behind(s, t) \in Seq(Requests) /\ Len(Behind(s, t)) = Len(s) + Len(t)
    /\ \A s, t, u \in Seq(Requests) : Behind(Behind(s, t), u) = Behind(s, Behind(t, u))
    /\ \A s \in Seq(Requests) : Behind(s, <<>>) = s /\ Behind(<<>>, s) = s
    /\ \A s, t \in Seq(Requests) : Behind(s, t) = <<>> => s = <<>> /\ t = <<>>
    /\ \A s \in Seq(Requests) : Len(s) \in Nat /\ (s = <<>> <=> Len(s) = 0)
    /\ <<>> \in Seq(Requests) /\ Len(<<>>) = 0
BY BehindIn

\* The four messages of a request.
LEMMA AskedIs ==
    ASSUME NEW r \in Nat
    PROVE  /\ Asked(r) \in Seq(Requests) /\ Len(Asked(r)) = 4
           /\ \A i \in 1 .. 4 : Asked(r)[i].data = r
           /\ Asked(r)[1].kind = "P" /\ Asked(r)[2].kind = "B"
           /\ Asked(r)[3].kind = "X" /\ Asked(r)[4].kind = "S"
<1> DEFINE k == <<"P", "B", "X", "S">>
<1>1. k[1] = "P" /\ k[2] = "B" /\ k[3] = "X" /\ k[4] = "S"
  OBVIOUS
<1>2. Asked(r) = [i \in 1 .. 4 |-> [kind |-> k[i], data |-> r]]
  BY DEF Asked
<1>3. r \in Data
  BY DataIs
<1> HIDE DEF k
<1>4. \A i \in 1 .. 4 : i = 1 \/ i = 2 \/ i = 3 \/ i = 4
  OBVIOUS
<1>5. \A i \in 1 .. 4 : k[i] \in Kinds
  BY <1>1, <1>4 DEF Kinds
<1>6. \A i \in 1 .. 4 : [kind |-> k[i], data |-> r] \in Requests
  BY <1>3, <1>5 DEF Requests
<1>7. Asked(r) \in Seq(Requests) /\ Len(Asked(r)) = 4
  BY <1>2, <1>6, IsASeq
<1>8. \A i \in 1 .. 4 : Asked(r)[i].data = r /\ Asked(r)[i].kind = k[i]
  BY <1>2
<1>9. 1 \in 1 .. 4 /\ 2 \in 1 .. 4 /\ 3 \in 1 .. 4 /\ 4 \in 1 .. 4
  OBVIOUS
<1> QED
  BY <1>1, <1>7, <1>8, <1>9, Zenon

\* A request begins with nothing in flight, neither up nor down.
LEMMA BeginInv == SessionInv /\ Begin => SessionInv'
<1> SUFFICES ASSUME SessionInv, Begin PROVE SessionInv'
  OBVIOUS
<1>1. /\ phase = "idle" /\ used.requests < MaxRequests
      /\ used' = [used EXCEPT !.requests = @ + 1] /\ send_buf' = Pipeline
      /\ recv_acc' = <<>> /\ be_resp' = <<>> /\ phase' = "sending" /\ said' = <<>>
      /\ UNCHANGED <<conf, login, up, down, server>>
  BY DEF Begin
<1>2. Typed /\ Bounded
  BY DEF SessionInv
<1>3. used \in UsedType /\ MaxRequests \in Nat /\ down \in Seq(Unit)
      /\ recv_acc \in Seq(Unit) /\ server.out \in Seq(Unit)
  BY <1>2, SessionAssumption DEF Typed, UsedType
<1>4. used' \in UsedType /\ used'.requests = used.requests + 1 /\ used'.requests \in Nat
  BY <1>1, <1>3 DEF UsedType
<1>5. up = <<>> /\ server.at \in {"ready", "gone"} /\ ~server.skip
  BY <1>1 DEF SessionInv, IdleInStep
<1>6. down = <<>> /\ server.out = <<>>
  <2>1. Behind(Behind(recv_acc, down), server.out) = <<>>
    BY <1>1 DEF SessionInv, IdleInStep, InFlight, Behind
  <2>2. Behind(recv_acc, down) \in Seq(Unit)
    BY <1>3, UnitBehind
  <2>3. Behind(recv_acc, down) = <<>> /\ server.out = <<>>
    BY <1>3, <2>1, <2>2, UnitBehind
  <2> QED
    BY <1>3, <2>3, UnitBehind
<1> DEFINE r == used'.requests
<1>7. send_buf' = Asked(r)
  BY <1>1, <1>4 DEF Pipeline, Asked
<1>8. send_buf' \in Seq(Requests) /\ Len(send_buf') = 4
  BY <1>4, <1>7, AskedIs
<1>9. Typed'
  BY <1>1, <1>2, <1>4, <1>8, EmptyIs DEF Typed, UsedType
<1>10. Bounded'
  BY <1>1, <1>2, <1>8, EmptyIs DEF Bounded
<1>11. Asking(r, 0, up' \o send_buf')
  <2>1. up' = <<>>
    BY <1>1, <1>5
  <2>2. up' \o send_buf' = Asked(r)
    BY <1>7, <1>8, <2>1
  <2>3. Len(Asked(r)) = 4 - 0
    BY <1>7, <1>8
  <2>4. \A i \in 1 .. 4 - 0 : Asked(r)[i] = Asked(r)[0 + i]
    OBVIOUS
  <2> HIDE DEF r
  <2> QED
    BY <2>2, <2>3, <2>4, Zenon DEF Asking
<1>12. Heard(r, 0, FALSE, said')
  <2>1. Visible(said') = <<>> /\ said' = <<>>
    BY <1>1, VisibleBehind
  <2>2. Unfinished(said')
    BY <2>1, EmptyIs DEF Unfinished
  <2> HIDE DEF r
  <2> QED
    BY <2>1, <2>2 DEF Heard
<1>13. said' = Behind(<<>>, <<>>) /\ be_resp' = Visible(<<>>)
  BY <1>1, VisibleBehind, MessageBehind
<1>14. Carries(Behind(Behind(recv_acc', down'), server'.out), <<>>, server'.at # "gone")
  <2>1. Behind(Behind(recv_acc', down'), server'.out) = <<>>
    BY <1>1, <1>6, UnitBehind
  <2> QED
    BY <2>1, NothingCarried, Zenon
<1>15. /\ phase' \in {"sending", "reading"} /\ phase' # "reading" /\ ServerIs("ready")'
       /\ server'.out = <<>> /\ ~server'.skip
  BY <1>1, <1>5, <1>6 DEF ServerIs
<1>16. server'.at = "ready" => server'.skip = FALSE
  BY <1>1, <1>2, <1>5 DEF Typed
<1>17. 0 \in 0 .. 4 /\ FALSE \in BOOLEAN /\ <<>> \in Seq(Messages)
  BY EmptyIs
<1> QED
  BY <1>9, <1>10, <1>11, <1>12, <1>13, <1>14, <1>15, <1>16, <1>17, GoesOnInv, Zenon

\* An exchange that failed leaves a connection that was torn down.
LEMMA ExchangeFailedInv == SessionInv /\ ExchangeFailed => SessionInv'
<1> SUFFICES ASSUME SessionInv, ExchangeFailed PROVE SessionInv'
  OBVIOUS
<1>1. Typed /\ login \in LoginType
  BY DEF SessionInv, Typed, LoginType
<1>2. /\ phase' = "down" /\ be_resp' = <<>> /\ Teardown /\ UNCHANGED <<conf, used>>
      /\ login' \in LoginType
  BY <1>1 DEF ExchangeFailed
<1> QED
  BY <1>1, <1>2, DownInv

\* A send, in part or whole, moves messages from the buffer to the socket.
LEMMA BeSendInv == SessionInv /\ BeSend => SessionInv'
<1> SUFFICES ASSUME SessionInv, BeSend PROVE SessionInv'
  OBVIOUS
<1>1. phase = "sending" /\ Typed /\ Bounded
  BY DEF BeSend, SessionInv
<1>2. ASSUME NEW n \in 1 .. Len(send_buf), Len(up) + n <= UpCap, Sent(n),
             UNCHANGED <<conf, login, recv_acc, be_resp, down, server, said, used>>
      PROVE  SessionInv'
  <2> DEFINE h == SubSeq(send_buf, 1, n)
             t == SubSeq(send_buf, n + 1, Len(send_buf))
  <2>1. /\ up' = Behind(up, h) /\ send_buf' = t
        /\ phase' = IF n = Len(send_buf) THEN "reading" ELSE "sending"
    BY <1>2 DEF Sent, Behind
  <2>2. /\ send_buf \in Seq(Requests) /\ up \in Seq(Requests) /\ Len(send_buf) \in Nat
        /\ Len(up) \in Nat /\ n \in 0 .. Len(send_buf) /\ Len(send_buf) <= 4
    <3>1. send_buf \in Seq(Requests) /\ up \in Seq(Requests) /\ Len(send_buf) <= 4
      BY <1>1 DEF Typed, Bounded
    <3>2. Len(send_buf) \in Nat /\ Len(up) \in Nat
      BY <3>1, RequestBehind
    <3> QED
      BY <1>2, <3>1, <3>2
  <2>3. /\ h \in Seq(Requests) /\ Len(h) = n /\ t \in Seq(Requests)
        /\ Len(t) = Len(send_buf) - n /\ send_buf = Behind(h, t)
    BY <2>2, CutAt DEF Behind
  <2> HIDE DEF h, t
  <2>4. up' \in Seq(Requests) /\ Len(up') = Len(up) + n
    BY <2>1, <2>2, <2>3, RequestBehind
  <2>5. send_buf' \in Seq(Requests) /\ Len(send_buf') <= 4 /\ Len(up') <= UpCap
    BY <1>2, <2>1, <2>2, <2>3, <2>4, EmptyIs
  <2>6. phase' = "reading" => send_buf' = <<>>
    <3>1. ASSUME n = Len(send_buf) PROVE t = <<>>
      <4>1. Len(t) = 0
        BY <2>2, <2>3, <3>1
      <4> QED
        BY <2>3, <4>1, RequestBehind
    <3> QED
      BY <2>1, <3>1
  <2>7. Behind(up', send_buf') = Behind(up, send_buf)
    <3>1. Behind(Behind(up, h), t) = Behind(up, Behind(h, t))
      <4>1. up \in Seq(Requests) /\ h \in Seq(Requests) /\ t \in Seq(Requests)
        BY <2>2, <2>3
      <4> QED
        BY <4>1, RequestBehind
    <3> QED
      BY <2>1, <2>3, <3>1
  <2>8. Typed'
    BY <1>1, <1>2, <2>1, <2>4, <2>5 DEF Typed
  <2>9. Bounded'
    BY <1>1, <1>2, <2>5 DEF Bounded, SizeOf
  <2>10. /\ ServerIs("ready") /\ (server.at = "gone" => server.out = <<>> /\ ~server.skip)
    BY <1>1, Exchanging
  <2>11. PICK j \in 0 .. 4, failed \in BOOLEAN, a \in Seq(Messages), b \in Seq(Messages) :
            /\ Heard(used.requests, j, failed, said)
            /\ server.at = "ready" => server.skip = failed
            /\ Asking(used.requests, j, up \o send_buf)
            /\ said = Behind(a, b) /\ be_resp = Visible(a)
            /\ Carries(Behind(Behind(recv_acc, down), server.out), b, server.at # "gone")
    BY <1>1, Exchanging, Zenon
  <2>12. UNCHANGED <<recv_acc, be_resp, down, server, said, used>>
    BY <1>2
  <2>13. /\ Heard(used'.requests, j, failed, said')
         /\ server'.at = "ready" => server'.skip = failed
         /\ said' = Behind(a, b) /\ be_resp' = Visible(a)
         /\ Carries(Behind(Behind(recv_acc', down'), server'.out), b, server'.at # "gone")
    <3>1. /\ recv_acc' = recv_acc /\ be_resp' = be_resp /\ down' = down /\ server' = server
          /\ said' = said /\ used' = used
      BY <2>12
    <3> QED
      BY <2>11, <3>1, Zenon
  <2>14. Asking(used'.requests, j, up' \o send_buf')
    <3>1. Asking(used.requests, j, Behind(up, send_buf))
      BY <2>11 DEF Behind
    <3>2. used' = used
      BY <2>12
    <3>3. Asking(used'.requests, j, Behind(up', send_buf'))
      BY <2>7, <3>1, <3>2, Zenon
    <3> QED
      BY <3>3 DEF Behind
  <2>15. /\ phase' \in {"sending", "reading"} /\ ServerIs("ready")'
         /\ server'.at = "gone" => server'.out = <<>> /\ ~server'.skip
    BY <2>1, <2>10, <2>12 DEF ServerIs
  <2> QED
    BY <2>6, <2>8, <2>9, <2>11, <2>13, <2>14, <2>15, GoesOnInv, Zenon
<1>3. ASSUME ExchangeFailed PROVE SessionInv'
  BY <1>3, ExchangeFailedInv
<1> QED
  BY <1>2, <1>3 DEF BeSend

\* Short sequences, joined.
LEMMA TwoJoined ==
    ASSUME NEW T, NEW x \in T, NEW y \in T, NEW z \in T
    PROVE  <<x>> \o <<y>> = <<x, y>> /\ <<x, y>> \o <<z>> = <<x, y, z>>
<1> DEFINE v == <<x, y>> \o <<z>>
           w == <<x>> \o <<y>>
           d == <<x, y>>
           e == <<x, y, z>>
<1>1. v \in Seq(T) /\ Len(v) = 3 /\ v[1] = x /\ v[2] = y /\ v[3] = z
  OBVIOUS
<1>2. e \in Seq(T) /\ Len(e) = 3 /\ e[1] = x /\ e[2] = y /\ e[3] = z
  OBVIOUS
<1>3. w \in Seq(T) /\ Len(w) = 2 /\ w[1] = x /\ w[2] = y
  OBVIOUS
<1>4. d \in Seq(T) /\ Len(d) = 2 /\ d[1] = x /\ d[2] = y
  OBVIOUS
<1> HIDE DEF v, w, d, e
<1>5. \A i \in 1 .. 3 : i = 1 \/ i = 2 \/ i = 3
  OBVIOUS
<1>6. \A i \in 1 .. 3 : v[i] = e[i]
  BY <1>1, <1>2, <1>5
<1>7. \A i \in 1 .. 2 : w[i] = d[i]
  BY <1>3, <1>4
<1>8. v = e
  <2>1. \A i \in 1 .. Len(v) : v[i] = e[i]
    BY <1>1, <1>6
  <2> QED
    BY <1>1, <1>2, <2>1, SeqEqual
<1>9. w = d
  <2>1. \A i \in 1 .. Len(w) : w[i] = d[i]
    BY <1>3, <1>7
  <2> QED
    BY <1>3, <1>4, <2>1, SeqEqual
<1> QED
  BY <1>8, <1>9, Zenon DEF v, w, d, e

\* What the server says on top of what it said before.
LEMMA UnfinishedBehind ==
    ASSUME NEW s \in Seq(Messages), NEW ms \in Seq(Messages), Unfinished(s), Unfinished(ms)
    PROVE  Unfinished(Behind(s, ms))
<1> DEFINE v == Behind(s, ms)
<1>1. /\ Len(v) = Len(s) + Len(ms) /\ Len(s) \in Nat /\ Len(ms) \in Nat
  BY MessageBehind
<1>2. /\ \A i \in 1 .. Len(s) : v[i] = s[i]
      /\ \A i \in 1 .. Len(ms) : v[Len(s) + i] = ms[i]
  BY BehindAt
<1> HIDE DEF v
<1>3. ASSUME NEW i \in 1 .. Len(v) PROVE v[i].kind # "Z"
  <2>1. CASE i <= Len(s)
    <3>1. i \in 1 .. Len(s)
      BY <1>1, <2>1
    <3> QED
      BY <1>2, <3>1 DEF Unfinished
  <2>2. CASE ~(i <= Len(s))
    <3>1. i - Len(s) \in 1 .. Len(ms) /\ Len(s) + (i - Len(s)) = i
      BY <1>1, <2>2
    <3>2. v[i] = ms[i - Len(s)]
      BY <1>2, <3>1
    <3> QED
      BY <3>1, <3>2 DEF Unfinished
  <2> QED
    BY <2>1, <2>2
<1> QED
  BY <1>3 DEF Unfinished, v

\* One message that the server adds to what it said.
LEMMA OneMore ==
    ASSUME NEW r \in Nat, NEW k \in Kinds
    PROVE  /\ <<Short(k, r)>> \in Seq(Messages)
           /\ k \in {"1", "2"} => Visible(<<Short(k, r)>>) = <<>>
           /\ k \notin {"1", "2"} => Visible(<<Short(k, r)>>) = <<Short(k, r)>>
           /\ k # "Z" => Unfinished(<<Short(k, r)>>)
<1> DEFINE m == Short(k, r)
<1>1. m \in Messages /\ m.kind = k
  BY ShortNat
<1> HIDE DEF m
<1>2. <<m>> \in Seq(Messages) /\ Len(<<m>>) = 1 /\ <<m>>[1] = m
  BY <1>1, MessageBehind
<1>3. Visible(<<m>>) = IF Filtered(m) THEN <<>> ELSE <<m>>
  BY <1>1, VisibleBehind
<1>4. Filtered(m) <=> k \in {"1", "2"}
  BY <1>1 DEF Filtered
<1>5. k # "Z" => Unfinished(<<m>>)
  BY <1>1, <1>2 DEF Unfinished
<1> QED
  BY <1>2, <1>3, <1>4, <1>5 DEF m

\* The rows, as one answer to Execute.
LEMMA RowsMore ==
    ASSUME NEW r \in Nat, NEW n \in RowSizes, NEW ms,
           ms = (IF n = 0 THEN <<>> ELSE <<Message("D", n, r)>>) \o <<Short("C", r)>>
    PROVE  /\ ms \in Seq(Messages) /\ Visible(ms) = ms /\ Unfinished(ms) /\ ms \in Rows(r)
<1> DEFINE c == Short("C", r)
           d == Message("D", n, r)
           y == <<c>>
           x == <<d>>
<1>1. y \in Seq(Messages) /\ Visible(y) = y /\ Unfinished(y)
  BY OneMore DEF Kinds
<1>2. CASE n = 0
  <2>1. ms = y
    BY <1>1, <1>2
  <2>2. y \in Rows(r)
    BY <1>2 DEF Rows
  <2> QED
    BY <1>1, <2>1, <2>2
<1>3. CASE n # 0
  <2>1. ms = Behind(x, y)
    BY <1>3 DEF Behind
  <2>2. d \in Messages /\ d.kind = "D"
    <3>1. n \in Nat \ {0} /\ r \in Data
      BY <1>3, SessionAssumption, DataIs
    <3> QED
      BY <3>1 DEF Messages, Message, Kinds
  <2>3. ms \in Rows(r)
    <3>1. <<d, c>> \in Rows(r)
      BY <1>3 DEF Rows
    <3>2. <<d>> \o <<c>> = <<d, c>>
      <4>1. c \in Messages
        BY ShortNat DEF Kinds
      <4> QED
        BY <2>2, <4>1, TwoJoined, Zenon
    <3> QED
      BY <1>3, <3>1, <3>2
  <2> HIDE DEF d
  <2>4. x \in Seq(Messages) /\ Len(x) = 1 /\ x[1] = d
    BY <2>2, MessageBehind
  <2>5. Visible(x) = x /\ Unfinished(x)
    <3>1. Visible(x) = IF Filtered(d) THEN <<>> ELSE <<d>>
      BY <2>2, VisibleBehind
    <3>2. ~Filtered(d)
      BY <2>2 DEF Filtered
    <3>3. Unfinished(x)
      BY <2>2, <2>4 DEF Unfinished
    <3> QED
      BY <3>1, <3>2, <3>3
  <2> HIDE DEF x, y
  <2>6. Visible(ms) = ms /\ Unfinished(ms) /\ ms \in Seq(Messages)
    <3>1. Visible(Behind(x, y)) = Behind(Visible(x), Visible(y))
      BY <1>1, <2>4, VisibleBehind
    <3>2. Visible(ms) = ms
      BY <1>1, <2>1, <2>5, <3>1
    <3>3. Unfinished(Behind(x, y)) /\ Behind(x, y) \in Seq(Messages)
      BY <1>1, <2>4, <2>5, UnfinishedBehind, MessageBehind
    <3> QED
      BY <2>1, <3>2, <3>3
  <2> QED
    BY <2>3, <2>6
<1> QED
  BY <1>2, <1>3

\* The end of the answer.
LEMMA AnswersMore ==
    ASSUME NEW r \in Nat, NEW v, v \in Rows(r) \/ v = <<Short("E", r)>>
    PROVE  v \o <<Short("Z", r)>> \in Answers(r)
<1> DEFINE z == Short("Z", r)
           c == Short("C", r)
           e == Short("E", r)
<1>0. z \in Messages /\ c \in Messages /\ e \in Messages
  BY ShortNat DEF Kinds
<1>1. CASE v = <<e>>
  <2>1. v \o <<z>> = <<e, z>>
    BY <1>0, <1>1, TwoJoined, Zenon
  <2> QED
    BY <2>1 DEF Answers
<1>2. CASE \E n \in RowSizes \ {0} : v = <<Message("D", n, r), c>>
  <2>1. PICK n \in RowSizes \ {0} : v = <<Message("D", n, r), c>>
    BY <1>2
  <2> DEFINE d == Message("D", n, r)
  <2>2. v = <<d, c>>
    BY <2>1
  <2>3. <<d, c, z>> \in Answers(r)
    BY DEF Answers
  <2>4. d \in Messages
    <3>1. n \in Nat \ {0} /\ r \in Data
      BY SessionAssumption, DataIs
    <3> QED
      BY <3>1 DEF Messages, Message, Kinds
  <2>5. v \o <<z>> = <<d, c, z>>
    BY <1>0, <2>2, <2>4, TwoJoined, Zenon
  <2> QED
    BY <2>3, <2>5, Zenon
<1>3. CASE 0 \in RowSizes /\ v = <<c>>
  <2>1. v \o <<z>> = <<c, z>>
    BY <1>0, <1>3, TwoJoined, Zenon
  <2> QED
    BY <1>3, <2>1 DEF Answers
<1>4. v \in Rows(r) => (\E n \in RowSizes \ {0} : v = <<Message("D", n, r), c>>)
                          \/ (0 \in RowSizes /\ v = <<c>>)
  BY DEF Rows
<1> QED
  BY <1>1, <1>2, <1>3, <1>4

\* A server that is ready and hears something hears the next message of the
\* request being made.
LEMMA Answering ==
    ASSUME SessionInv, server.at = "ready", up # <<>>
    PROVE  /\ Typed /\ Bounded /\ phase \in {"sending", "reading"}
           /\ phase = "reading" => send_buf = <<>>
           /\ Tail(up) \in Seq(Requests) /\ Len(Tail(up)) <= UpCap
           /\ \E j \in 0 .. 3, failed \in BOOLEAN, a, b \in Seq(Messages) :
                 /\ Heard(used.requests, j, failed, said) /\ server.skip = failed
                 /\ up[1] = Asked(used.requests)[j + 1]
                 /\ Asking(used.requests, j + 1, Behind(Tail(up), send_buf))
                 /\ said = Behind(a, b) /\ be_resp = Visible(a)
                 /\ Carries(Behind(Behind(recv_acc, down), server.out), b,
                            server.at # "gone")
<1>1. Typed /\ Bounded
  BY DEF SessionInv
<1>2. phase \in {"sending", "reading"}
  <2>1. phase # "down"
    BY DEF SessionInv, WhenDown
  <2>2. phase # "idle"
    BY DEF SessionInv, IdleInStep
  <2>3. ASSUME phase = "login" PROVE FALSE
    <3>1. PICK t : Stage(t)
      BY <2>3 DEF SessionInv, WhenLogin
    <3>2. Starting \/ PasswordSent \/ NonceSent \/ ProofSent
      BY <3>1 DEF Stage
    <3> QED
      BY <3>2 DEF Starting, PasswordSent, NonceSent, ProofSent, ServerIs
  <2> QED
    BY <1>1, <2>1, <2>2, <2>3 DEF Typed
<1> DEFINE r == used.requests
           q == Behind(up, send_buf)
<1>3. PICK j \in 0 .. 4, failed \in BOOLEAN, a \in Seq(Messages), b \in Seq(Messages) :
         /\ Heard(r, j, failed, said) /\ server.skip = failed
         /\ Asking(r, j, q)
         /\ said = Behind(a, b) /\ be_resp = Visible(a)
         /\ Carries(Behind(Behind(recv_acc, down), server.out), b, server.at # "gone")
  <2>1. \E j \in 0 .. 4, failed \in BOOLEAN, a, b \in Seq(Messages) :
                 /\ Heard(used.requests, j, failed, said)
                 /\ server.at = "ready" => server.skip = failed
                 /\ Asking(used.requests, j, up \o send_buf)
                 /\ said = Behind(a, b) /\ be_resp = Visible(a)
                 /\ Carries(Behind(Behind(recv_acc, down), server.out), b,
                            server.at # "gone")
    BY <1>2, Exchanging, Zenon
  <2> QED
    BY <2>1, Zenon DEF Behind
<1>4. /\ phase = "reading" => send_buf = <<>>
  BY <1>2, Exchanging
<1> HIDE DEF r
<1>5. /\ up \in Seq(Requests) /\ send_buf \in Seq(Requests) /\ Len(up) \in Nat \ {0}
      /\ Len(send_buf) \in Nat
  <2>1. up \in Seq(Requests) /\ send_buf \in Seq(Requests)
    BY <1>1 DEF Typed
  <2> QED
    BY <2>1, RequestBehind
<1>6. /\ Len(q) = 4 - j /\ \A i \in 1 .. 4 - j : q[i] = Asked(r)[j + i]
  BY <1>3 DEF Asking
<1>7. /\ Tail(up) \in Seq(Requests) /\ Len(Tail(up)) = Len(up) - 1
      /\ \A i \in 1 .. Len(up) - 1 : Tail(up)[i] = up[i + 1]
  BY <1>5, HeadTailProperties
<1> DEFINE p == Tail(up)
           o == Behind(p, send_buf)
<1>8. /\ Len(q) = Len(up) + Len(send_buf)
      /\ \A i \in 1 .. Len(up) : q[i] = up[i]
      /\ \A i \in 1 .. Len(send_buf) : q[Len(up) + i] = send_buf[i]
  <2>1. Len(q) = Len(up) + Len(send_buf)
    BY <1>5, RequestBehind
  <2> QED
    BY <1>5, <2>1, BehindAt
<1>9. p \in Seq(Requests) /\ Len(p) = Len(up) - 1 /\ \A i \in 1 .. Len(up) - 1 : p[i] = up[i + 1]
  BY <1>7
<1> HIDE DEF p
<1>10. /\ Len(o) = Len(p) + Len(send_buf)
       /\ \A i \in 1 .. Len(p) : o[i] = p[i]
       /\ \A i \in 1 .. Len(send_buf) : o[Len(p) + i] = send_buf[i]
  <2>1. Len(o) = Len(p) + Len(send_buf)
    BY <1>5, <1>9, RequestBehind
  <2>2. p \in Seq(Requests) /\ send_buf \in Seq(Requests)
    BY <1>5, <1>9
  <2>3. /\ \A i \in 1 .. Len(p) : o[i] = p[i]
        /\ \A i \in 1 .. Len(send_buf) : o[Len(p) + i] = send_buf[i]
    BY <2>2, BehindAt
  <2> QED
    BY <2>1, <2>3
<1> HIDE DEF q, o
<1>11. j \in 0 .. 3 /\ Len(o) = 4 - (j + 1)
  BY <1>5, <1>6, <1>8, <1>9, <1>10
<1>12. up[1] = Asked(r)[j + 1]
  <2>1. 1 \in 1 .. Len(up) /\ 1 \in 1 .. 4 - j
    BY <1>5, <1>11
  <2>2. q[1] = up[1] /\ q[1] = Asked(r)[j + 1]
    BY <1>6, <1>8, <2>1, Zenon
  <2> QED
    BY <2>2
<1>13. ASSUME NEW i \in 1 .. 4 - (j + 1) PROVE o[i] = Asked(r)[(j + 1) + i]
  <2>1. i + 1 \in 1 .. 4 - j /\ j + (i + 1) = (j + 1) + i
    BY <1>11
  <2>2. q[i + 1] = Asked(r)[(j + 1) + i]
    BY <1>6, <2>1
  <2>3. o[i] = q[i + 1]
    <3>1. CASE i <= Len(up) - 1
      <4>1. i \in 1 .. Len(p) /\ i \in 1 .. Len(up) - 1 /\ i + 1 \in 1 .. Len(up)
        BY <1>5, <1>9, <1>11, <3>1
      <4> QED
        BY <1>8, <1>9, <1>10, <4>1
    <3>2. CASE ~(i <= Len(up) - 1)
      <4> DEFINE e == i - (Len(up) - 1)
      <4>1. e \in 1 .. Len(send_buf) /\ Len(p) + e = i /\ Len(up) + e = i + 1
        BY <1>5, <1>9, <1>10, <1>11, <3>2
      <4> HIDE DEF e
      <4> QED
        BY <1>8, <1>10, <4>1
    <3> QED
      BY <3>1, <3>2
  <2> QED
    BY <2>2, <2>3
<1>14. Asking(r, j + 1, o)
  BY <1>11, <1>13 DEF Asking
<1>15. Len(p) <= UpCap
  BY <1>1, <1>5, <1>9, EmptyIs DEF Bounded
<1>16. \E i \in 0 .. 3, g \in BOOLEAN, c, d \in Seq(Messages) :
         /\ Heard(r, i, g, said) /\ server.skip = g
         /\ up[1] = Asked(r)[i + 1] /\ Asking(r, i + 1, o)
         /\ said = Behind(c, d) /\ be_resp = Visible(c)
         /\ Carries(Behind(Behind(recv_acc, down), server.out), d, server.at # "gone")
  BY <1>3, <1>11, <1>12, <1>14, Zenon
<1> QED
  BY <1>1, <1>2, <1>4, <1>9, <1>15, <1>16, Zenon DEF r, o, p

\* The server answers the next message with ms.
LEMMA AnsweredInv ==
    ASSUME SessionInv, server.at = "ready", server.out = <<>>, up # <<>>,
           NEW ms \in Seq(Messages), NEW f \in BOOLEAN, Answered(ms, f),
           \A j \in 0 .. 3, failed \in BOOLEAN :
              Heard(used.requests, j, failed, said) /\ server.skip = failed
                 /\ up[1] = Asked(used.requests)[j + 1]
              => Heard(used.requests, j + 1, f, Behind(said, ms))
    PROVE  SessionInv'
<1> DEFINE r == used.requests
           p == Tail(up)
           o == Behind(p, send_buf)
<1>1. /\ Typed /\ Bounded /\ phase \in {"sending", "reading"}
      /\ phase = "reading" => send_buf = <<>>
      /\ p \in Seq(Requests) /\ Len(p) <= UpCap
  BY Answering
<1>2. PICK j \in 0 .. 3, failed \in BOOLEAN, a \in Seq(Messages), b \in Seq(Messages) :
         /\ Heard(r, j, failed, said) /\ server.skip = failed
         /\ up[1] = Asked(r)[j + 1] /\ Asking(r, j + 1, o)
         /\ said = Behind(a, b) /\ be_resp = Visible(a)
         /\ Carries(Behind(Behind(recv_acc, down), server.out), b, server.at # "gone")
  BY Answering, Zenon
<1>3. Heard(r, j + 1, f, Behind(said, ms))
  BY <1>2, Zenon
<1> HIDE DEF r, p, o
<1>4. /\ server' = [Says(ms) EXCEPT !.skip = f] /\ said' = Behind(said, ms) /\ up' = p
       /\ UNCHANGED <<conf, phase, login, send_buf, recv_acc, be_resp, down, used>>
  BY DEF Answered, Proceeds, proxy, Behind, p
<1>5. /\ server' \in ServerType /\ server'.out = Flat(ms) /\ server'.at = "ready"
       /\ server'.skip = f
  <2> DEFINE s == [Says(ms) EXCEPT !.at = "ready"]
  <2>1. "ready" \in States
    BY DEF States
  <2>2. s \in ServerType /\ s.out = Flat(ms) /\ s.at = "ready"
    BY <1>1, <2>1, SaysIs, Zenon
  <2>3. Says(ms) = s
    <3>1. server \in ServerType
      BY <1>1 DEF Typed, ServerType
    <3>2. Says(ms) = [server EXCEPT !.out = server.out \o Flat(ms)]
      BY DEF Says
    <3> QED
      BY <3>1, <3>2 DEF ServerType
  <2> DEFINE y == Flat(ms)
  <2>4. server' = [s EXCEPT !.skip = f] /\ s.out = y
    BY <1>4, <2>2, <2>3
  <2> HIDE DEF s, y
  <2>5. server' \in ServerType /\ server'.out = y /\ server'.at = "ready"
    BY <2>2, <2>4 DEF ServerType
  <2>6. server'.skip = f
    BY <2>2, <2>4 DEF ServerType
  <2> QED
    BY <2>5, <2>6 DEF y
<1>6. said' \in Seq(Messages)
  <2>1. said \in Seq(Messages)
    BY <1>1 DEF Typed
  <2> QED
    BY <1>4, <2>1, MessageBehind
<1>7. Typed'
  BY <1>1, <1>4, <1>5, <1>6 DEF Typed, ServerType
<1>8. Bounded'
  BY <1>1, <1>4 DEF Bounded, SizeOf
<1> DEFINE c == Behind(b, ms)
<1>9. c \in Seq(Messages) /\ said' = Behind(a, c)
  <2>1. Behind(Behind(a, b), ms) = Behind(a, Behind(b, ms))
    BY MessageBehind
  <2> QED
    BY <1>2, <1>4, <2>1, MessageBehind
<1>10. Carries(Behind(Behind(recv_acc', down'), server'.out), c, server'.at # "gone")
  <2> DEFINE w == Behind(recv_acc, down)
  <2>1. w \in Seq(Unit)
    <3>1. recv_acc \in Seq(Unit) /\ down \in Seq(Unit)
      BY <1>1 DEF Typed
    <3> QED
      BY <3>1, UnitBehind
  <2>2. Carries(w, b, TRUE)
    <3>1. Behind(w, server.out) = w /\ (server.at # "gone") = TRUE
      BY <2>1, UnitBehind
    <3> QED
      BY <1>2, <3>1, Zenon
  <2>3. Carries(Behind(w, Flat(ms)), c, server'.at # "gone")
    BY <2>1, <2>2, CarriesMore, Zenon
  <2>4. recv_acc' = recv_acc /\ down' = down
    BY <1>4
  <2> QED
    BY <1>5, <2>3, <2>4, Zenon
<1>11. Heard(used'.requests, j + 1, f, said')
  <2>1. used' = used
    BY <1>4
  <2> QED
    BY <1>3, <1>4, <2>1, Zenon DEF r
<1>12. Asking(used'.requests, j + 1, up' \o send_buf')
  <2>1. used' = used /\ send_buf' = send_buf
    BY <1>4
  <2>2. Asking(r, j + 1, Behind(up', send_buf'))
    BY <1>2, <1>4, <2>1, Zenon DEF o
  <2> QED
    BY <2>1, <2>2, Zenon DEF Behind, r
<1>13. /\ phase' \in {"sending", "reading"} /\ ServerIs("ready")' /\ server'.at # "gone"
       /\ phase' = "reading" => send_buf' = <<>>
       /\ j + 1 \in 0 .. 4
  BY <1>1, <1>4, <1>5 DEF ServerIs
<1>14. be_resp' = Visible(a)
  BY <1>2, <1>4
<1> HIDE DEF c
<1> QED
  BY <1>5, <1>7, <1>8, <1>9, <1>10, <1>11, <1>12, <1>13, <1>14, GoesOnInv, Zenon

\* How what was heard goes on: with an error, ...
LEMMA HeardError ==
    ASSUME NEW r \in Nat, NEW j \in 0 .. 2, NEW s \in Seq(Messages), Heard(r, j, FALSE, s)
    PROVE  Heard(r, j + 1, TRUE, Behind(s, <<Short("E", r)>>))
<1> DEFINE e == <<Short("E", r)>>
           v == Behind(s, e)
<1>1. e \in Seq(Messages) /\ Visible(e) = e /\ Unfinished(e)
  BY OneMore DEF Kinds
<1>2. Unfinished(s) /\ Visible(s) = <<>>
  BY DEF Heard
<1> HIDE DEF e
<1>3. Unfinished(v)
  BY <1>1, <1>2, UnfinishedBehind
<1>4. Visible(v) = e
  <2>1. Visible(v) = Behind(Visible(s), Visible(e))
    BY <1>1, VisibleBehind
  <2> QED
    BY <1>1, <1>2, <2>1, MessageBehind
<1>5. j + 1 # 0 /\ j + 1 # 4
  OBVIOUS
<1> HIDE DEF v
<1>6. Visible(v) = <<Short("E", r)>>
  BY <1>4 DEF e
<1>7. Heard(r, j + 1, TRUE, v)
  BY <1>3, <1>5, <1>6, Zenon DEF Heard
<1> QED
  BY <1>7 DEF v, e

\* ... with nothing the client sees, ...
LEMMA HeardHidden ==
    ASSUME NEW r \in Nat, NEW j \in 0 .. 1, NEW s \in Seq(Messages), Heard(r, j, FALSE, s),
           NEW k \in {"1", "2"}
    PROVE  Heard(r, j + 1, FALSE, Behind(s, <<Short(k, r)>>))
<1> DEFINE e == <<Short(k, r)>>
           v == Behind(s, e)
<1>1. e \in Seq(Messages) /\ Visible(e) = <<>> /\ Unfinished(e)
  BY OneMore DEF Kinds
<1>2. Unfinished(s) /\ Visible(s) = <<>>
  BY DEF Heard
<1> HIDE DEF e
<1>3. Unfinished(v)
  BY <1>1, <1>2, UnfinishedBehind
<1>4. Visible(v) = <<>>
  <2>1. Visible(v) = Behind(Visible(s), Visible(e))
    BY <1>1, VisibleBehind
  <2> QED
    BY <1>1, <1>2, <2>1, MessageBehind
<1>5. j + 1 # 3 /\ j + 1 # 4
  OBVIOUS
<1> HIDE DEF v
<1>6. Heard(r, j + 1, FALSE, v)
  BY <1>3, <1>4, <1>5, Zenon DEF Heard
<1> QED
  BY <1>6 DEF v, e

\* ... with the rows, ...
LEMMA HeardRows ==
    ASSUME NEW r \in Nat, NEW s \in Seq(Messages), Heard(r, 2, FALSE, s),
           NEW ms \in Seq(Messages), Visible(ms) = ms, Unfinished(ms), ms \in Rows(r)
    PROVE  Heard(r, 3, FALSE, Behind(s, ms))
<1> DEFINE v == Behind(s, ms)
<1>1. Unfinished(s) /\ Visible(s) = <<>>
  BY DEF Heard
<1>2. Unfinished(v)
  BY <1>1, UnfinishedBehind
<1>3. Visible(v) = ms
  <2>1. Visible(v) = Behind(Visible(s), Visible(ms))
    BY VisibleBehind
  <2> QED
    BY <1>1, <2>1, MessageBehind
<1> HIDE DEF v
<1>4. Visible(v) \in Rows(r)
  BY <1>3
<1>5. Heard(r, 3, FALSE, v)
  BY <1>2, <1>4 DEF Heard
<1> QED
  BY <1>5 DEF v

\* ... and with ReadyForQuery.
LEMMA HeardReady ==
    ASSUME NEW r \in Nat, NEW failed \in BOOLEAN, NEW s \in Seq(Messages),
           Heard(r, 3, failed, s)
    PROVE  Heard(r, 4, FALSE, Behind(s, <<Short("Z", r)>>))
<1> DEFINE e == <<Short("Z", r)>>
           v == Behind(s, e)
<1>1. e \in Seq(Messages) /\ Visible(e) = e
  BY OneMore DEF Kinds
<1>2. Unfinished(s) /\ (Visible(s) \in Rows(r) \/ Visible(s) = <<Short("E", r)>>)
  BY DEF Heard
<1>3. Behind(Visible(s), e) \in Answers(r)
  BY <1>2, AnswersMore, Zenon DEF Behind
<1> HIDE DEF e
<1>4. Visible(v) = Behind(Visible(s), e)
  <2>1. Visible(v) = Behind(Visible(s), Visible(e))
    BY <1>1, VisibleBehind
  <2> QED
    BY <1>1, <2>1
<1>5. v = s \o <<Short("Z", r)>>
  BY DEF v, e, Behind
<1> HIDE DEF v
<1>6. Visible(v) \in Answers(r)
  BY <1>3, <1>4
<1>7. \E u \in Seq(Messages) : v = u \o <<Short("Z", r)>> /\ Unfinished(u)
  BY <1>2, <1>5
<1>8. \A j : j = 4 => Heard(r, j, FALSE, v)
  <2> SUFFICES ASSUME NEW j, j = 4 PROVE Heard(r, j, FALSE, v)
    OBVIOUS
  <2>1. j # 0 /\ ~(j < 4) /\ ~(j < 3) /\ j # 3
    OBVIOUS
  <2> QED
    BY <1>6, <1>7, <2>1, Zenon DEF Heard
<1> QED
  BY <1>8 DEF v, e

\* An answered message adds what was said to what is in flight.
LEMMA ServerAnswersInv == SessionInv /\ ServerAnswers => SessionInv'
<1> SUFFICES ASSUME SessionInv, ServerAnswers PROVE SessionInv'
  OBVIOUS
<1> DEFINE r == up[1].data
           k == up[1].kind
           q == used.requests
<1>1. server.at = "ready" /\ server.out = <<>> /\ up # <<>>
  BY DEF ServerAnswers
<1>2. \/ k # "S" /\ server.skip /\ Answered(<<>>, TRUE)
      \/ k # "S" /\ ~server.skip /\ Answered(<<Short("E", r)>>, TRUE)
      \/ k = "P" /\ Answered(<<Short("1", r)>>, FALSE)
      \/ k = "B" /\ ~server.skip /\ Answered(<<Short("2", r)>>, FALSE)
      \/ /\ k = "X" /\ ~server.skip
         /\ \E n \in RowSizes :
              Answered((IF n = 0 THEN <<>> ELSE <<Message("D", n, r)>>)
                          \o <<Short("C", r)>>, FALSE)
      \/ k = "S" /\ Answered(<<Short("Z", r)>>, FALSE)
  BY DEF ServerAnswers
<1>3. q \in Nat /\ said \in Seq(Messages) /\ server.skip \in BOOLEAN
  <2>1. Typed
    BY DEF SessionInv
  <2> QED
    BY <2>1, SessionAssumption DEF Typed
\* Which of the four it is.
<1>4. ASSUME NEW j \in 0 .. 3, up[1] = Asked(q)[j + 1]
      PROVE  /\ r = q
             /\ k = "P" => j = 0
             /\ k = "B" => j = 1
             /\ k = "X" => j = 2
             /\ k = "S" <=> j = 3
  <2>1. j = 0 \/ j = 1 \/ j = 2 \/ j = 3
    OBVIOUS
  <2>2. j + 1 \in 1 .. 4
    OBVIOUS
  <2>3. Asked(q)[j + 1].data = q
    BY <1>3, <2>2, AskedIs
  <2>4. /\ Asked(q)[1].kind = "P" /\ Asked(q)[2].kind = "B"
        /\ Asked(q)[3].kind = "X" /\ Asked(q)[4].kind = "S"
    BY <1>3, AskedIs
  <2>5. r = q
    BY <1>4, <2>3
  <2> HIDE DEF r
  <2>6. /\ k = "P" => j = 0
        /\ k = "B" => j = 1
        /\ k = "X" => j = 2
        /\ k = "S" <=> j = 3
    <3>1. k = Asked(q)[j + 1].kind
      BY <1>4
    <3> HIDE DEF k
    <3>2. CASE j = 0
      BY <2>4, <3>1, <3>2
    <3>3. CASE j = 1
      BY <2>4, <3>1, <3>3
    <3>4. CASE j = 2
      BY <2>4, <3>1, <3>4
    <3>5. CASE j = 3
      BY <2>4, <3>1, <3>5
    <3> QED
      BY <2>1, <3>2, <3>3, <3>4, <3>5
  <2> QED
    BY <2>5, <2>6
<1> HIDE DEF r, k
<1> DEFINE Next1(ms, f) ==
              \A j \in 0 .. 3, failed \in BOOLEAN :
                 Heard(q, j, failed, said) /\ server.skip = failed /\ up[1] = Asked(q)[j + 1]
                    => Heard(q, j + 1, f, Behind(said, ms))
<1>5. ASSUME NEW ms \in Seq(Messages), NEW f \in BOOLEAN, Answered(ms, f), Next1(ms, f)
      PROVE  SessionInv'
  BY <1>1, <1>5, AnsweredInv, Zenon
<1> HIDE DEF q
\* The request the server answers is the one being made.
<1>6. r = q /\ r \in Nat
  <2>1. \E j \in 0 .. 3 : up[1] = Asked(q)[j + 1]
    BY <1>1, Answering, Zenon DEF q
  <2> QED
    BY <1>3, <1>4, <2>1
<1>7. CASE k # "S" /\ server.skip /\ Answered(<<>>, TRUE)
  <2>1. ASSUME NEW j \in 0 .. 3, NEW failed \in BOOLEAN, Heard(q, j, failed, said),
               server.skip = failed, up[1] = Asked(q)[j + 1]
        PROVE  Heard(q, j + 1, TRUE, Behind(said, <<>>))
    <3>1. j \in 0 .. 2 /\ failed = TRUE
      BY <1>4, <1>7, <2>1
    <3>2. Unfinished(said) /\ Visible(said) = <<Short("E", q)>>
      BY <2>1, <3>1 DEF Heard
    <3>3. Behind(said, <<>>) = said
      BY <1>3, MessageBehind
    <3>4. j + 1 # 0 /\ j + 1 # 4
      BY <3>1
    <3>5. Heard(q, j + 1, TRUE, said)
      BY <3>2, <3>4, Zenon DEF Heard
    <3> QED
      BY <3>3, <3>5, Zenon
  <2>2. Next1(<<>>, TRUE)
    BY <2>1
  <2>3. <<>> \in Seq(Messages) /\ TRUE \in BOOLEAN
    BY EmptyIs
  <2> HIDE DEF Next1
  <2> QED
    BY <1>5, <1>7, <2>2, <2>3, Zenon
<1>8. CASE k # "S" /\ ~server.skip /\ Answered(<<Short("E", r)>>, TRUE)
  <2> DEFINE ms == <<Short("E", q)>>
  <2>1. ASSUME NEW j \in 0 .. 3, NEW failed \in BOOLEAN, Heard(q, j, failed, said),
               server.skip = failed, up[1] = Asked(q)[j + 1]
        PROVE  Heard(q, j + 1, TRUE, Behind(said, ms))
    <3>1. j \in 0 .. 2 /\ failed = FALSE
      BY <1>4, <1>8, <2>1
    <3>2. Heard(q, j, FALSE, said)
      BY <2>1, <3>1
    <3> QED
      BY <1>3, <3>1, <3>2, HeardError
  <2>2. Next1(ms, TRUE)
    BY <2>1
  <2>3. ms \in Seq(Messages) /\ TRUE \in BOOLEAN
    BY <1>3, OneMore DEF Kinds
  <2>4. Answered(ms, TRUE)
    BY <1>6, <1>8, Zenon
  <2> HIDE DEF Next1, ms
  <2> QED
    BY <1>5, <2>2, <2>3, <2>4, Zenon
<1>9. CASE k = "P" /\ Answered(<<Short("1", r)>>, FALSE)
  <2> DEFINE ms == <<Short("1", q)>>
  <2>1. ASSUME NEW j \in 0 .. 3, NEW failed \in BOOLEAN, Heard(q, j, failed, said),
               server.skip = failed, up[1] = Asked(q)[j + 1]
        PROVE  Heard(q, j + 1, FALSE, Behind(said, ms))
    <3>1. j = 0
      BY <1>4, <1>9, <2>1
    <3>2. failed = FALSE
      BY <2>1, <3>1 DEF Heard
    <3>3. Heard(q, j, FALSE, said)
      BY <2>1, <3>2, Zenon
    <3>4. j \in 0 .. 1
      BY <3>1
    <3> QED
      BY <1>3, <3>3, <3>4, HeardHidden
  <2>2. Next1(ms, FALSE)
    BY <2>1
  <2>3. ms \in Seq(Messages) /\ FALSE \in BOOLEAN
    BY <1>3, OneMore DEF Kinds
  <2>4. Answered(ms, FALSE)
    BY <1>6, <1>9, Zenon
  <2> HIDE DEF Next1, ms
  <2> QED
    BY <1>5, <2>2, <2>3, <2>4, Zenon
<1>10. CASE k = "B" /\ ~server.skip /\ Answered(<<Short("2", r)>>, FALSE)
  <2> DEFINE ms == <<Short("2", q)>>
  <2>1. ASSUME NEW j \in 0 .. 3, NEW failed \in BOOLEAN, Heard(q, j, failed, said),
               server.skip = failed, up[1] = Asked(q)[j + 1]
        PROVE  Heard(q, j + 1, FALSE, Behind(said, ms))
    <3>1. j = 1 /\ failed = FALSE
      BY <1>4, <1>10, <2>1
    <3>2. Heard(q, j, FALSE, said)
      BY <2>1, <3>1, Zenon
    <3>3. j \in 0 .. 1
      BY <3>1
    <3> QED
      BY <1>3, <3>2, <3>3, HeardHidden
  <2>2. Next1(ms, FALSE)
    BY <2>1
  <2>3. ms \in Seq(Messages) /\ FALSE \in BOOLEAN
    BY <1>3, OneMore DEF Kinds
  <2>4. Answered(ms, FALSE)
    BY <1>6, <1>10, Zenon
  <2> HIDE DEF Next1, ms
  <2> QED
    BY <1>5, <2>2, <2>3, <2>4, Zenon
<1>11. CASE /\ k = "X" /\ ~server.skip
            /\ \E n \in RowSizes :
                 Answered((IF n = 0 THEN <<>> ELSE <<Message("D", n, r)>>)
                             \o <<Short("C", r)>>, FALSE)
  <2>1. PICK n \in RowSizes :
           Answered((IF n = 0 THEN <<>> ELSE <<Message("D", n, r)>>) \o <<Short("C", r)>>, FALSE)
    BY <1>11
  <2>2. PICK ms : ms = (IF n = 0 THEN <<>> ELSE <<Message("D", n, r)>>) \o <<Short("C", r)>>
    OBVIOUS
  <2>3. /\ ms \in Seq(Messages) /\ Visible(ms) = ms /\ Unfinished(ms) /\ ms \in Rows(q)
    BY <1>6, <2>2, RowsMore, Zenon
  <2>4. Answered(ms, FALSE)
    BY <2>1, <2>2, Zenon
  <2>5. ASSUME NEW j \in 0 .. 3, NEW failed \in BOOLEAN, Heard(q, j, failed, said),
               server.skip = failed, up[1] = Asked(q)[j + 1]
        PROVE  Heard(q, j + 1, FALSE, Behind(said, ms))
    <3>1. j = 2 /\ failed = FALSE /\ j + 1 = 3
      BY <1>4, <1>11, <2>5
    <3>2. Heard(q, 2, FALSE, said)
      BY <2>5, <3>1
    <3>3. Heard(q, 3, FALSE, Behind(said, ms))
      BY <1>3, <2>3, <3>2, HeardRows
    <3> QED
      BY <3>1, <3>3
  <2>6. Next1(ms, FALSE)
    BY <2>5
  <2>7. FALSE \in BOOLEAN
    OBVIOUS
  <2> HIDE DEF Next1
  <2> QED
    BY <1>5, <2>3, <2>4, <2>6, <2>7, Zenon
<1>12. CASE k = "S" /\ Answered(<<Short("Z", r)>>, FALSE)
  <2> DEFINE ms == <<Short("Z", q)>>
  <2>1. ASSUME NEW j \in 0 .. 3, NEW failed \in BOOLEAN, Heard(q, j, failed, said),
               server.skip = failed, up[1] = Asked(q)[j + 1]
        PROVE  Heard(q, j + 1, FALSE, Behind(said, ms))
    <3>1. j = 3 /\ j + 1 = 4
      BY <1>4, <1>12, <2>1
    <3>2. Heard(q, 3, failed, said)
      BY <2>1, <3>1
    <3>3. Heard(q, 4, FALSE, Behind(said, ms))
      BY <1>3, <3>2, HeardReady
    <3> QED
      BY <3>1, <3>3
  <2>2. Next1(ms, FALSE)
    BY <2>1
  <2>3. ms \in Seq(Messages) /\ FALSE \in BOOLEAN
    BY <1>3, OneMore DEF Kinds
  <2>4. Answered(ms, FALSE)
    BY <1>6, <1>12, Zenon
  <2> HIDE DEF Next1, ms
  <2> QED
    BY <1>5, <2>2, <2>3, <2>4, Zenon
<1> QED
  BY <1>2, <1>7, <1>8, <1>9, <1>10, <1>11, <1>12

\* What is heard and collected in an exchange, with the messages b to come.
Collected(j, failed, a, b) ==
    /\ Heard(used.requests, j, failed, said)
    /\ server.at = "ready" => server.skip = failed
    /\ Asking(used.requests, j, up \o send_buf)
    /\ said = Behind(a, b) /\ be_resp = Visible(a)

\* A receive of n units: acc is what was left over with the chunk behind it.
LEMMA Receiving ==
    ASSUME SessionInv, phase = "reading", NEW n \in 1 .. Len(down)
    PROVE  \E acc, rest \in Seq(Unit) :
              /\ acc = recv_acc \o SubSeq(down, 1, n) /\ acc # <<>>
              /\ rest = SubSeq(down, Len(SubSeq(down, 1, n)) + 1, Len(down))
              /\ Len(rest) <= DownCap
              /\ \E j \in 0 .. 4, failed \in BOOLEAN, a, b \in Seq(Messages) :
                    /\ Collected(j, failed, a, b)
                    /\ Carries(Behind(acc, Behind(rest, server.out)), b, server.at # "gone")
<1>1. Typed /\ Bounded
  BY DEF SessionInv
<1>2. PICK j \in 0 .. 4, failed \in BOOLEAN, a \in Seq(Messages), b \in Seq(Messages) :
         /\ Collected(j, failed, a, b)
         /\ Carries(Behind(Behind(recv_acc, down), server.out), b, server.at # "gone")
  BY Exchanging, Zenon DEF Collected
<1>3. /\ down \in Seq(Unit) /\ recv_acc \in Seq(Unit) /\ server.out \in Seq(Unit)
      /\ Len(down) \in Nat /\ Len(down) <= DownCap
  <2>1. down \in Seq(Unit) /\ recv_acc \in Seq(Unit) /\ server.out \in Seq(Unit)
        /\ Len(down) <= DownCap
    BY <1>1 DEF Typed, Bounded
  <2> QED
    BY <2>1, UnitBehind
<1>4. n \in 0 .. Len(down) /\ n > 0 /\ n \in Nat
  BY <1>3
<1> DEFINE chunk == SubSeq(down, 1, n)
           rest == SubSeq(down, n + 1, Len(down))
           acc == Behind(recv_acc, chunk)
           p == server.out
<1>5. /\ chunk \in Seq(Unit) /\ Len(chunk) = n /\ rest \in Seq(Unit)
      /\ Len(rest) = Len(down) - n /\ down = Behind(chunk, rest)
  BY <1>3, <1>4, CutAt DEF Behind
<1>6. acc = recv_acc \o chunk
  BY DEF Behind
<1>7. /\ recv_acc \in Seq(Unit) /\ chunk \in Seq(Unit) /\ rest \in Seq(Unit) /\ p \in Seq(Unit)
      /\ Len(chunk) = n
  BY <1>3, <1>5
<1>8. Carries(Behind(Behind(recv_acc, down), p), b, server.at # "gone")
  BY <1>2
<1> HIDE DEF chunk, rest, p
<1>9. acc \in Seq(Unit) /\ Len(acc) = Len(recv_acc) + n /\ Len(recv_acc) \in Nat
  BY <1>7, UnitBehind
<1>10. acc # <<>> /\ Len(rest) <= DownCap
  <2>1. Len(acc) # 0
    BY <1>4, <1>9
  <2>2. Len(rest) <= DownCap
    BY <1>3, <1>4, <1>5, EmptyIs
  <2> QED
    BY <1>9, <2>1, <2>2, UnitBehind
<1>11. Behind(Behind(recv_acc, down), p) = Behind(acc, Behind(rest, p))
  <2>1. Behind(recv_acc, Behind(chunk, rest)) = Behind(acc, rest)
    BY <1>7, UnitBehind
  <2> HIDE DEF acc
  <2>2. Behind(Behind(acc, rest), p) = Behind(acc, Behind(rest, p))
    BY <1>7, <1>9, UnitBehind
  <2> QED
    BY <1>5, <2>1, <2>2, Zenon
<1>12. Carries(Behind(acc, Behind(rest, p)), b, server.at # "gone")
  BY <1>8, <1>11, Zenon
<1>13. rest = SubSeq(down, Len(chunk) + 1, Len(down))
  BY <1>5 DEF rest
<1> HIDE DEF acc
<1>14. \E x, y \in Seq(Unit) :
              /\ x = recv_acc \o chunk /\ x # <<>>
              /\ y = SubSeq(down, Len(chunk) + 1, Len(down))
              /\ Len(y) <= DownCap
              /\ \E jj \in 0 .. 4, ff \in BOOLEAN, aa, bb \in Seq(Messages) :
                    /\ Collected(jj, ff, aa, bb)
                    /\ Carries(Behind(x, Behind(y, server.out)), bb, server.at # "gone")
  BY <1>2, <1>6, <1>7, <1>9, <1>10, <1>12, <1>13, Zenon DEF p
<1> QED
  BY <1>14, Zenon DEF chunk

\* ReadyForQuery is the end of what the server says.
LEMMA ReadyLast ==
    ASSUME NEW r \in Nat, NEW j \in 0 .. 4, NEW failed, NEW s \in Seq(Messages),
           NEW x \in Seq(Messages), NEW d \in Seq(Messages)
    PROVE  Heard(r, j, failed, s) /\ s = Behind(x, d) /\ x # <<>> /\ x[Len(x)].kind = "Z"
              => j = 4 /\ d = <<>>
<1>1. ASSUME Heard(r, j, failed, s), s = Behind(x, d), x # <<>>, x[Len(x)].kind = "Z"
      PROVE  j = 4 /\ d = <<>>
  <2>1. /\ Len(x) \in Nat \ {0} /\ Len(d) \in Nat /\ Len(s) = Len(x) + Len(d)
        /\ d = <<>> <=> Len(d) = 0
    BY <1>1, MessageBehind
  <2>2. Len(x) \in 1 .. Len(x) /\ Len(x) \in 1 .. Len(s)
    BY <2>1
  <2>3. s[Len(x)] = x[Len(x)]
    <3>1. \A i \in 1 .. Len(x) : Behind(x, d)[i] = x[i]
      BY BehindAt
    <3> QED
      BY <1>1, <2>2, <3>1, Zenon
  <2>4. ~Unfinished(s)
    BY <1>1, <2>2, <2>3, Zenon DEF Unfinished
  <2>5. j = 4
    BY <1>1, <2>4 DEF Heard
  <2>6. PICK u \in Seq(Messages) : s = u \o <<Short("Z", r)>> /\ Unfinished(u)
    BY <1>1, <2>5 DEF Heard
  <2> DEFINE z == <<Short("Z", r)>>
  <2>7. s = Behind(u, z)
    BY <2>6 DEF Behind
  <2>8. z \in Seq(Messages) /\ Len(z) = 1
    BY ShortNat, MessageBehind DEF Kinds
  <2> HIDE DEF z
  <2>9. Len(s) = Len(u) + 1 /\ Len(u) \in Nat
    <3>1. Len(Behind(u, z)) = Len(u) + Len(z) /\ Len(u) \in Nat
      BY <2>8, MessageBehind, Zenon
    <3> QED
      BY <2>7, <2>8, <3>1
  <2>10. ASSUME Len(x) <= Len(u) PROVE FALSE
    <3>1. Len(x) \in 1 .. Len(u)
      BY <2>1, <2>9, <2>10
    <3>2. \A i \in 1 .. Len(u) : Behind(u, z)[i] = u[i]
      BY <2>8, BehindAt
    <3>3. s[Len(x)] = u[Len(x)]
      BY <2>7, <3>1, <3>2, Zenon
    <3>4. u[Len(x)].kind # "Z"
      BY <2>6, <3>1, Zenon DEF Unfinished
    <3> QED
      BY <1>1, <2>3, <3>3, <3>4, Zenon
  <2>11. Len(d) = 0
    BY <2>1, <2>9, <2>10
  <2> QED
    BY <2>1, <2>5, <2>11
<1> QED
  BY <1>1

\* The sizes of joined messages add up.
LEMMA SizeBehind ==
    ASSUME NEW s \in Seq(Messages), NEW t \in Seq(Messages)
    PROVE  /\ SizeOf(Behind(s, t)) = SizeOf(s) + SizeOf(t)
           /\ SizeOf(s) \in Nat /\ SizeOf(t) \in Nat
<1>1. /\ Flat(Behind(s, t)) = Behind(Flat(s), Flat(t))
      /\ Flat(s) \in Seq(Unit) /\ Flat(t) \in Seq(Unit)
  BY FlatBehind
<1> DEFINE f == Flat(s)
           g == Flat(t)
<1>2. f \in Seq(Unit) /\ g \in Seq(Unit) /\ SizeOf(Behind(s, t)) = Len(Behind(f, g))
      /\ SizeOf(s) = Len(f) /\ SizeOf(t) = Len(g)
  BY <1>1 DEF SizeOf
<1> HIDE DEF f, g
<1>3. Len(Behind(f, g)) = Len(f) + Len(g) /\ Len(f) \in Nat /\ Len(g) \in Nat
  BY <1>2, UnitBehind
<1> QED
  BY <1>2, <1>3

\* A reply that fits into a buffer as a whole fits however it is cut.
LEMMA FitsInPart ==
    ASSUME NEW acc \in Seq(Unit), NEW o \in Seq(Unit), NEW a \in Seq(Messages),
           NEW b \in Seq(Messages), NEW c \in Seq(Messages), NEW d \in Seq(Messages)
    PROVE  b = Behind(c, d) /\ Carries(Behind(acc, o), b, TRUE) /\ Fits(SizeOf(Behind(a, b)))
              => Fits(Len(acc)) /\ Fits(SizeOf(Visible(Behind(a, c))))
<1>1. ASSUME b = Behind(c, d), Carries(Behind(acc, o), b, TRUE), Fits(SizeOf(Behind(a, b)))
      PROVE  Fits(Len(acc)) /\ Fits(SizeOf(Visible(Behind(a, c))))
  <2>1. SizeOf(Behind(a, b)) = SizeOf(a) + SizeOf(b) /\ SizeOf(a) \in Nat /\ SizeOf(b) \in Nat
    BY SizeBehind
  <2>2. SizeOf(b) = Len(acc) + Len(o) /\ Len(acc) \in Nat /\ Len(o) \in Nat
    <3>1. Behind(acc, o) \in Seq(Unit) /\ Len(Behind(acc, o)) = Len(acc) + Len(o)
          /\ Len(acc) \in Nat /\ Len(o) \in Nat
      BY UnitBehind
    <3>2. Flat(b) = Behind(acc, o)
      <4>1. \A w \in Seq(Unit) : Behind(w, <<>>) = w
        BY UnitBehind
      <4> QED
        BY <1>1, <3>1, <4>1, Zenon DEF Carries
    <3> QED
      BY <3>1, <3>2 DEF SizeOf
  <2>3. SizeOf(b) = SizeOf(c) + SizeOf(d) /\ SizeOf(c) \in Nat /\ SizeOf(d) \in Nat
    <3>1. SizeOf(Behind(c, d)) = SizeOf(c) + SizeOf(d) /\ SizeOf(c) \in Nat /\ SizeOf(d) \in Nat
      BY SizeBehind
    <3> QED
      BY <1>1, <3>1, Zenon
  <2>4. SizeOf(Behind(a, c)) = SizeOf(a) + SizeOf(c)
    BY SizeBehind
  <2> DEFINE v == Behind(a, c)
  <2>5. v \in Seq(Messages)
    BY MessageBehind
  <2>6. SizeOf(Visible(v)) <= SizeOf(v)
    BY <2>5, VisibleShorter
  <2>7. SizeOf(Visible(v)) \in Nat
    <3>1. Visible(v) \in Seq(Messages)
      BY <2>5, VisibleBehind
    <3> QED
      BY <3>1, SizeBehind
  <2>8. SizeOf(Behind(a, b)) <= Cap /\ Cap \in Nat
    BY <1>1, EmptyIs DEF Fits
  <2>9. Len(acc) <= Cap
    BY <2>1, <2>2, <2>8
  <2>10. SizeOf(v) <= Cap /\ SizeOf(v) \in Nat
    BY <2>1, <2>3, <2>4, <2>8
  <2>11. SizeOf(Visible(v)) <= Cap
    BY <2>6, <2>7, <2>8, <2>10
  <2> QED
    BY <2>9, <2>11 DEF Fits
<1> QED
  BY <1>1

\* A receive goes on, completes the exchange with the whole answer, or fails
\* because the connection is gone or the reply too large.
LEMMA OnRecvInv ==
    ASSUME SessionInv, phase = "reading", NEW n \in 1 .. Len(down), OnRecv(SubSeq(down, 1, n))
    PROVE  /\ SessionInv'
           /\ phase' = "idle" => be_resp' \in Answers(used.requests)
           /\ phase' = "down" => server.at = "gone" \/ SizeOf(said) > Cap
           /\ phase' \in {"idle", "down", "reading"} /\ conf' = conf /\ used' = used
<1> DEFINE chunk == SubSeq(down, 1, n)
           acc == recv_acc \o chunk
           rest == SubSeq(down, Len(chunk) + 1, Len(down))
           m == Consumed(acc)
           t == SubSeq(acc, m + 1, Len(acc))
           all == be_resp \o Visible(MessagesIn(acc, m))
<1>1. IF Fits(Len(acc)) /\ acc[1].at = 1 /\ Fits(SizeOf(all))
      THEN /\ IF m > 0 /\ Completes(acc[m])
              THEN phase' = "idle" /\ be_resp' = all /\ recv_acc' = <<>>
              ELSE be_resp' = all /\ recv_acc' = t /\ phase' = phase
           /\ down' = rest
           /\ UNCHANGED <<conf, login, send_buf, up, server, said, used>>
      ELSE ExchangeFailed
  BY DEF OnRecv, Takes
<1>2. /\ acc \in Seq(Unit) /\ acc # <<>> /\ rest \in Seq(Unit) /\ Len(rest) <= DownCap
      /\ \E j \in 0 .. 4, failed \in BOOLEAN, a, b \in Seq(Messages) :
            /\ Collected(j, failed, a, b)
            /\ Carries(Behind(acc, Behind(rest, server.out)), b, server.at # "gone")
  BY Receiving, Zenon
<1> HIDE DEF acc, rest, chunk
<1>3. PICK j \in 0 .. 4, failed \in BOOLEAN, a \in Seq(Messages), b \in Seq(Messages) :
         /\ Collected(j, failed, a, b)
         /\ Carries(Behind(acc, Behind(rest, server.out)), b, server.at # "gone")
  BY <1>2
<1>4. Typed /\ Bounded
  BY DEF SessionInv
<1> DEFINE o == Behind(rest, server.out)
           w == server.at # "gone"
<1>5. o \in Seq(Unit) /\ server.out \in Seq(Unit)
  <2>1. server.out \in Seq(Unit)
    BY <1>4 DEF Typed
  <2> QED
    BY <1>2, <2>1, UnitBehind
<1>6. Carries(Behind(acc, o), b, w)
  BY <1>3
<1> HIDE DEF o, w
<1>7. acc[1].at = 1
  <2>1. acc[1] = [m |-> b[1], at |-> 1]
    BY <1>2, <1>5, <1>6, ReadOne
  <2> QED
    BY <2>1
<1>8. PICK c \in Seq(Messages), d \in Seq(Messages) :
          /\ b = Behind(c, d) /\ MessagesIn(acc, m) = c
          /\ Carries(Behind(t, o), d, w)
          /\ t \in Seq(Unit) /\ Len(t) <= Len(acc)
          /\ m > 0 /\ Completes(acc[m]) => c # <<>> /\ c[Len(c)].kind = "Z"
  <2>1. acc \in Seq(Unit) /\ o \in Seq(Unit) /\ Carries(Behind(acc, o), b, w)
    BY <1>2, <1>5, <1>6
  <2> QED
    BY <2>1, Recognised
<1>9. /\ said = Behind(a, b) /\ be_resp = Visible(a) /\ Heard(used.requests, j, failed, said)
      /\ Asking(used.requests, j, up \o send_buf)
      /\ server.at = "ready" => server.skip = failed
  BY <1>3 DEF Collected
<1> DEFINE x == Behind(a, c)
<1>10. all = Visible(x) /\ x \in Seq(Messages) /\ Visible(x) \in Seq(Messages)
  <2>1. Visible(x) = Behind(Visible(a), Visible(c))
    BY VisibleBehind
  <2>2. all = Behind(Visible(a), Visible(c))
    BY <1>8, <1>9, Zenon DEF Behind
  <2>3. x \in Seq(Messages)
    BY MessageBehind
  <2> QED
    BY <2>1, <2>2, <2>3, VisibleBehind
<1>11. said = Behind(x, d)
  <2>1. Behind(Behind(a, c), d) = Behind(a, Behind(c, d))
    BY MessageBehind
  <2> QED
    BY <1>8, <1>9, <2>1, Zenon
<1>12. /\ ServerIs("ready") /\ (server.at = "gone" => server.out = <<>> /\ ~server.skip)
       /\ send_buf = <<>>
  BY Exchanging
<1> HIDE DEF m, t, all, x
<1>13. CASE ~(Fits(Len(acc)) /\ acc[1].at = 1 /\ Fits(SizeOf(all)))
  <2>1. ExchangeFailed
    BY <1>1, <1>13
  <2>2. SessionInv' /\ phase' = "down" /\ conf' = conf /\ used' = used
    BY <2>1, ExchangeFailedInv DEF ExchangeFailed
  <2>3. ASSUME w, Fits(SizeOf(said)) PROVE FALSE
    <3>1. Carries(Behind(acc, o), b, TRUE)
      BY <1>6, <2>3, Zenon
    <3>2. Fits(SizeOf(Behind(a, b)))
      BY <1>9, <2>3, Zenon
    <3>3. Fits(Len(acc)) /\ Fits(SizeOf(Visible(x)))
      BY <1>2, <1>5, <1>8, <3>1, <3>2, FitsInPart, Zenon DEF x
    <3> QED
      BY <1>7, <1>10, <1>13, <3>3, Zenon
  <2>4. SizeOf(said) \in Nat /\ Cap \in Nat
    <3>1. said \in Seq(Messages)
      BY <1>4 DEF Typed
    <3> QED
      BY <3>1, SizeBehind, EmptyIs
  <2>5. ~w \/ SizeOf(said) > Cap
    BY <2>3, <2>4 DEF Fits
  <2> QED
    BY <2>2, <2>5 DEF w
<1>14. CASE Fits(Len(acc)) /\ acc[1].at = 1 /\ Fits(SizeOf(all))
  <2>1. /\ be_resp' = Visible(x) /\ down' = rest
        /\ UNCHANGED <<conf, login, send_buf, up, server, said, used>>
        /\ SizeOf(be_resp') <= Cap /\ Len(acc) <= Cap
    BY <1>1, <1>10, <1>14 DEF Fits
  <2>2. CASE m > 0 /\ Completes(acc[m])
    <3>1. phase' = "idle" /\ recv_acc' = <<>>
      BY <1>1, <1>14, <2>2
    <3>2. x # <<>> /\ x[Len(x)].kind = "Z"
      <4>1. c # <<>> /\ c[Len(c)].kind = "Z"
        BY <1>8, <2>2
      <4>2. Len(c) \in Nat \ {0} /\ Len(a) \in Nat /\ Len(x) = Len(a) + Len(c)
        BY <4>1, MessageBehind DEF x
      <4>3. Len(c) \in 1 .. Len(c) /\ Len(x) # 0
        BY <4>2
      <4>4. x[Len(a) + Len(c)] = c[Len(c)]
        <5>1. \A i \in 1 .. Len(c) : x[Len(a) + i] = c[i]
          BY BehindAt DEF x
        <5> QED
          BY <4>3, <5>1
      <4>5. x # <<>>
        BY <1>10, <4>3, MessageBehind
      <4> QED
        BY <4>1, <4>2, <4>4, <4>5
    <3>3. used.requests \in Nat /\ said \in Seq(Messages)
      BY <1>4, SessionAssumption DEF Typed
    <3>4. j = 4 /\ d = <<>>
      BY <1>9, <1>10, <1>11, <3>2, <3>3, ReadyLast
    <3>5. failed = FALSE /\ Visible(said) \in Answers(used.requests)
      BY <1>9, <3>4 DEF Heard
    <3>6. said = x
      BY <1>10, <1>11, <3>4, MessageBehind
    <3>7. rest = <<>> /\ server.out = <<>>
      <4>1. Behind(t, o) \in Seq(Unit)
        BY <1>5, <1>8, UnitBehind
      <4>2. Behind(t, o) = <<>>
        BY <1>8, <3>4, <4>1, CarriesNothing, Zenon
      <4>3. o = <<>>
        BY <1>5, <1>8, <4>2, UnitBehind
      <4> QED
        BY <1>2, <1>5, <4>3, UnitBehind DEF o
    <3>8. up = <<>>
      <4>1. Len(Behind(up, send_buf)) = 4 - 4
        BY <1>9, <3>4 DEF Asking, Behind
      <4>2. up \in Seq(Requests)
        BY <1>4 DEF Typed
      <4>3. Behind(up, send_buf) = up
        BY <1>12, <4>2, RequestBehind
      <4>4. Len(up) = 0
        BY <4>1, <4>3
      <4> QED
        BY <4>2, <4>4, RequestBehind
    <3>9. server.at \in {"ready", "gone"} /\ ~server.skip
      BY <1>9, <1>12, <3>5 DEF ServerIs
    <3>10. /\ send_buf' = <<>> /\ up' = <<>> /\ recv_acc' = <<>> /\ down' = <<>>
           /\ server'.out = <<>> /\ server' = server
      BY <1>12, <2>1, <3>1, <3>7, <3>8
    <3>11. IdleInStep'
      <4>1. InFlight' = <<>>
        BY <3>10 DEF InFlight
      <4> QED
        BY <3>9, <3>10, <4>1 DEF IdleInStep
    <3>12. Typed'
      BY <1>4, <1>10, <2>1, <3>1, <3>10, EmptyIs DEF Typed
    <3>13. Bounded'
      BY <1>4, <2>1, <3>10, EmptyIs DEF Bounded
    <3>14. WhenDown' /\ WhenLogin' /\ WhenExchange'
      BY <3>1 DEF WhenDown, WhenLogin, WhenExchange
    <3>15. be_resp' \in Answers(used.requests)
      BY <2>1, <3>5, <3>6
    <3> QED
      BY <2>1, <3>1, <3>11, <3>12, <3>13, <3>14, <3>15 DEF SessionInv
  <2>3. CASE ~(m > 0 /\ Completes(acc[m]))
    <3>1. phase' = "reading" /\ recv_acc' = t
      BY <1>1, <1>14, <2>3
    <3>2. Len(recv_acc') <= Cap
      <4>1. Len(t) \in Nat /\ Len(acc) \in Nat /\ Len(t) <= Len(acc)
        BY <1>2, <1>8, UnitBehind
      <4> QED
        BY <2>1, <3>1, <4>1, EmptyIs
    <3>3. Typed'
      BY <1>2, <1>4, <1>8, <1>10, <2>1, <3>1 DEF Typed
    <3>4. Bounded'
      BY <1>2, <1>4, <2>1, <3>2 DEF Bounded
    <3>5. Carries(Behind(Behind(recv_acc', down'), server'.out), d, server'.at # "gone")
      <4> DEFINE p == server.out
      <4>1. t \in Seq(Unit) /\ rest \in Seq(Unit) /\ p \in Seq(Unit)
        BY <1>2, <1>5, <1>8
      <4> HIDE DEF p
      <4>2. Behind(Behind(t, rest), p) = Behind(t, Behind(rest, p))
        BY <4>1, UnitBehind
      <4>3. Behind(Behind(recv_acc', down'), server'.out) = Behind(t, o)
        <5>1. server' = server
          BY <2>1
        <5> QED
          BY <2>1, <3>1, <4>2, <5>1, Zenon DEF o, p
      <4>4. (server'.at # "gone") = w
        BY <2>1 DEF w
      <4> QED
        BY <1>8, <4>3, <4>4, Zenon
    <3>6. /\ Heard(used'.requests, j, failed, said')
          /\ Asking(used'.requests, j, up' \o send_buf')
          /\ said' = Behind(x, d) /\ be_resp' = Visible(x)
          /\ server'.at = "ready" => server'.skip = failed
      <4>1. used' = used /\ said' = said /\ up' = up /\ send_buf' = send_buf /\ server' = server
        BY <2>1
      <4> QED
        BY <1>9, <1>11, <2>1, <4>1, Zenon
    <3>7. /\ phase' \in {"sending", "reading"} /\ ServerIs("ready")'
          /\ server'.at = "gone" => server'.out = <<>> /\ ~server'.skip
          /\ send_buf' = <<>>
      BY <1>12, <2>1, <3>1 DEF ServerIs
    <3>8. SessionInv'
      BY <1>10, <3>3, <3>4, <3>5, <3>6, <3>7, GoesOnInv, Zenon
    <3> QED
      BY <2>1, <3>1, <3>8
  <2> QED
    BY <2>2, <2>3
<1> QED
  BY <1>13, <1>14

\* A receive keeps the invariant; it ends the exchange with the whole answer, or
\* fails it because the connection is gone or the reply too large.
LEMMA BeRecvInv ==
    SessionInv /\ BeRecv =>
       /\ SessionInv'
       /\ phase' = "idle" => be_resp' \in Answers(used.requests)
       /\ phase' = "down" => server.at = "gone" \/ SizeOf(said) > Cap
       /\ phase = "reading" /\ phase' \in {"idle", "down", "reading"}
       /\ conf' = conf /\ used' = used
<1> SUFFICES ASSUME SessionInv, BeRecv
             PROVE  /\ SessionInv'
                    /\ phase' = "idle" => be_resp' \in Answers(used.requests)
                    /\ phase' = "down" => server.at = "gone" \/ SizeOf(said) > Cap
                    /\ phase = "reading" /\ phase' \in {"idle", "down", "reading"}
                    /\ conf' = conf /\ used' = used
  OBVIOUS
<1>1. phase = "reading"
  BY DEF BeRecv
<1>2. CASE server.at = "gone" /\ ExchangeFailed
  <2>1. SessionInv'
    BY <1>2, ExchangeFailedInv
  <2> QED
    BY <1>1, <1>2, <2>1 DEF ExchangeFailed
<1>3. CASE \E n \in 1 .. Len(down) : OnRecv(SubSeq(down, 1, n))
  BY <1>1, <1>3, OnRecvInv
<1> QED
  BY <1>2, <1>3 DEF BeRecv

-----------------------------------------------------------------------------
(* The session *)

\* So does a step that changes nothing.
LEMMA SameInv == SessionInv /\ UNCHANGED vars => SessionInv'
<1> SUFFICES ASSUME SessionInv, UNCHANGED vars PROVE SessionInv'
  OBVIOUS
<1>1. UNCHANGED <<conf, phase, login, send_buf, recv_acc, be_resp, up, down, server, said, used>>
  BY DEF vars
<1>2. Typed' /\ Bounded'
  BY <1>1 DEF SessionInv, Typed, Bounded, SizeOf
<1>3. WhenDown' /\ IdleInStep'
  BY <1>1 DEF SessionInv, WhenDown, IdleInStep, InFlight
<1>4. WhenLogin'
  <2>1. ASSUME phase = "login"
        PROVE  /\ send_buf = <<>> /\ recv_acc = <<>> /\ be_resp = <<>> /\ ~server.skip
               /\ \E t \in Seq(Messages) :
                     Carries(down \o server.out, t, server.at # "gone") /\ Stage(t)'
    <3>1. /\ send_buf = <<>> /\ recv_acc = <<>> /\ be_resp = <<>> /\ ~server.skip
      BY <2>1 DEF SessionInv, WhenLogin
    <3>2. PICK t \in Seq(Messages) :
             Carries(down \o server.out, t, server.at # "gone") /\ Stage(t)
      BY <2>1, Zenon DEF SessionInv, WhenLogin
    <3>3. Stage(t)'
      BY <1>1, <3>2, StageKept
    <3> QED
      BY <3>1, <3>2, <3>3
  <2>2. /\ phase' = phase /\ send_buf' = send_buf /\ recv_acc' = recv_acc /\ be_resp' = be_resp
        /\ server' = server /\ down' = down
    BY <1>1
  <2> QED
    BY <2>1, <2>2, Zenon DEF WhenLogin
<1>5. WhenExchange'
  <2>1. /\ phase' = phase /\ send_buf' = send_buf /\ recv_acc' = recv_acc /\ be_resp' = be_resp
        /\ server' = server /\ down' = down /\ up' = up /\ said' = said /\ used' = used
    BY <1>1
  <2>2. InFlight' = InFlight /\ (ServerIs("ready") => ServerIs("ready")')
    BY <2>1 DEF InFlight, ServerIs
  <2>3. WhenExchange
    BY DEF SessionInv
  <2> QED
    BY <2>1, <2>2, <2>3, Zenon DEF WhenExchange
<1> QED
  BY <1>2, <1>3, <1>4, <1>5 DEF SessionInv

\* Every step keeps the invariant.
LEMMA NextInv == SessionInv /\ [Next]_vars => SessionInv'
<1> SUFFICES ASSUME SessionInv, [Next]_vars PROVE SessionInv'
  OBVIOUS
<1>1. CASE Login
  <2>1. CASE Connect
    BY <2>1, ConnectInv
  <2>2. CASE LoginContinues
    BY <2>2, LoginContinuesInv
  <2>3. CASE AskedForPassword
    BY <2>3, AskedForPasswordInv
  <2>4. CASE AskedForScram
    BY <2>4, AskedForScramInv
  <2>5. CASE ScramProof
    BY <2>5, ScramProofInv
  <2>6. CASE ScramVerified
    BY <2>6, ScramVerifiedInv
  <2>7. CASE LoginRefused
    BY <2>7, LoginRefusedInv
  <2>8. CASE LoggedIn
    BY <2>8, LoggedInInv
  <2>9. CASE LoginGivesUp
    BY <2>9, LoginGivesUpInv
  <2> QED
    BY <1>1, <2>1, <2>2, <2>3, <2>4, <2>5, <2>6, <2>7, <2>8, <2>9 DEF Login
<1>2. CASE Exchange
  <2>1. CASE Begin
    BY <2>1, BeginInv
  <2>2. CASE BeSend
    BY <2>2, BeSendInv
  <2>3. CASE BeRecv
    BY <2>3, BeRecvInv
  <2> QED
    BY <1>2, <2>1, <2>2, <2>3 DEF Exchange
<1>3. CASE Server
  <2>1. CASE ServerGreets
    BY <2>1, ServerGreetsInv
  <2>2. CASE ServerAuthenticates
    BY <2>2, ServerAuthenticatesInv
  <2>3. CASE ServerAnswers
    BY <2>3, ServerAnswersInv
  <2>4. CASE ServerWrites
    BY <2>4, ServerWritesInv
  <2> QED
    BY <1>3, <2>1, <2>2, <2>3, <2>4 DEF Server
<1>4. CASE Cut
  BY <1>4, CutInv
<1>5. CASE UNCHANGED vars
  BY <1>5, SameInv
<1> QED
  BY <1>1, <1>2, <1>3, <1>4, <1>5 DEF Next

\* In every reachable state the stage of the login or of the exchange explains
\* what is in flight: the units not read yet are those of the messages the
\* server still has to be heard with (read_msg, async_on_recv).
THEOREM SessionInvariant == Spec => []SessionInv
<1>1. Init => SessionInv
  BY InitInv
<1>2. SessionInv /\ [Next]_vars => SessionInv'
  BY NextInv
<1> QED
  BY <1>1, <1>2, PTL DEF Spec

\* Neither buffer is ever written past its end, no login reads more than its
\* rounds and no counter passes its bound, whatever the server says.
THEOREM SessionTypes == Spec => []TypeOK
<1>1. SessionInv => TypeOK
  BY DEF SessionInv, Typed, Bounded, TypeOK, States
<1> QED
  BY <1>1, SessionInvariant, PTL

\* A session that is handed back to the pool is in step with its server.
THEOREM SessionIdleInStep == Spec => []IdleInStep
<1>1. SessionInv => IdleInStep
  BY DEF SessionInv
<1> QED
  BY <1>1, SessionInvariant, PTL

\* The last unit of some messages ends one of them.
LEMMA LastEnds ==
    \A a \in Seq(Messages) :
       Len(Flat(a)) > 0 => Flat(a)[Len(Flat(a))].at = Flat(a)[Len(Flat(a))].m.size
<1> DEFINE Q(f) == Len(f) > 0 => f[Len(f)].at = f[Len(f)].m.size
           P == {a \in Seq(Messages) : Q(Flat(a))}
<1>1. <<>> \in P
  BY FlatBehind, EmptyIs
<1>2. ASSUME NEW t \in Seq(Messages), NEW m \in Messages, t \in P
      PROVE  Append(t, m) \in P
  <2> DEFINE v == t \o <<m>>
             f == Flat(v)
             n == Len(Flat(t))
  <2>1. /\ v \in Seq(Messages) /\ v = Append(t, m) /\ n \in Nat /\ Len(f) = n + m.size
        /\ \A i \in n + 1 .. n + m.size : f[i] = [m |-> m, at |-> i - n]
    BY FlatMore
  <2>2. m.size \in Nat \ {0}
    BY DEF Messages
  <2> HIDE DEF v, f, n
  <2>3. f[Len(f)] = [m |-> m, at |-> m.size]
    <3>1. n + m.size \in n + 1 .. n + m.size /\ (n + m.size) - n = m.size
      BY <2>1, <2>2
    <3> QED
      BY <2>1, <3>1
  <2>4. Q(f)
    BY <2>3
  <2> QED
    BY <2>1, <2>4 DEF f
<1> HIDE DEF P
<1>3. Seq(Messages) \subseteq P
  BY <1>1, <1>2, SequencesFromEmpty
<1> QED
  BY <1>3 DEF P

\* Wherever a receive cuts the reply, nothing of it is lost, taken twice or
\* taken out of order, and be_resp holds the whole messages that were taken
\* without the filtered ones.
THEOREM SessionReplyAccounted == Spec => []ReplyAccounted
<1>1. ASSUME SessionInv, phase \in {"sending", "reading"}, server.at = "ready"
      PROVE  LET all   == Flat(said)
                 taken == Len(all) - Len(InFlight)
             IN /\ taken >= 0
                /\ taken > 0 => all[taken].at = all[taken].m.size
                /\ SubSeq(all, taken + 1, Len(all)) = InFlight
                /\ be_resp = Visible(MessagesIn(all, taken))
  <2> DEFINE w == InFlight
             all == Flat(said)
  <2>1. PICK a \in Seq(Messages), b \in Seq(Messages) :
           /\ said = Behind(a, b) /\ be_resp = Visible(a)
           /\ Carries(Behind(Behind(recv_acc, down), server.out), b, server.at # "gone")
    BY <1>1, Exchanging, Zenon
  <2>2. w \in Seq(Unit) /\ w = Behind(Behind(recv_acc, down), server.out)
    <3>1. w = Behind(Behind(recv_acc, down), server.out)
      BY DEF InFlight, Behind
    <3>2. recv_acc \in Seq(Unit) /\ down \in Seq(Unit) /\ server.out \in Seq(Unit)
      BY <1>1 DEF SessionInv, Typed
    <3>3. Behind(recv_acc, down) \in Seq(Unit)
      BY <3>2, UnitBehind
    <3> QED
      BY <3>1, <3>2, <3>3, UnitBehind
  <2>3. Carries(w, b, TRUE)
    <3>1. (server.at # "gone") = TRUE
      BY <1>1
    <3> QED
      BY <2>1, <2>2, <3>1, Zenon
  <2> DEFINE f == Flat(a)
             n == Len(f)
  <2> HIDE DEF w
  <2>4. Flat(b) = w
    <3>1. \A v \in Seq(Unit) : Behind(v, <<>>) = v
      BY UnitBehind
    <3> QED
      BY <2>2, <2>3, <3>1, Zenon DEF Carries
  <2>5. all = Behind(f, w) /\ f \in Seq(Unit)
    <3>1. Flat(Behind(a, b)) = Behind(Flat(a), Flat(b)) /\ Flat(a) \in Seq(Unit)
      BY FlatBehind
    <3> QED
      BY <2>1, <2>4, <3>1, Zenon
  <2>6. MessagesIn(f, n) = a /\ (n > 0 => f[n].at = f[n].m.size)
    BY WholesOfFlat, LastEnds
  <2> HIDE DEF all, f
  <2>7. Len(all) = n + Len(w) /\ n \in Nat /\ Len(w) \in Nat
    <3>1. Len(Behind(f, w)) = Len(f) + Len(w) /\ Len(f) \in Nat /\ Len(w) \in Nat
      BY <2>2, <2>5, UnitBehind, Zenon
    <3> QED
      BY <2>5, <3>1
  <2>8. Len(all) - Len(w) = n
    BY <2>7
  <2>9. SubSeq(all, n + 1, Len(all)) = w
    <3>1. f \in Seq(Unit) /\ w \in Seq(Unit)
      BY <2>2, <2>5
    <3>2. SubSeq(Behind(f, w), Len(f) + 1, Len(Behind(f, w))) = w
      BY <3>1, BehindCut
    <3> QED
      BY <2>5, <3>2, Zenon
  <2>10. MessagesIn(all, n) = a
    <3>1. f \in Seq(Unit) /\ w \in Seq(Unit)
      BY <2>2, <2>5
    <3>2. MessagesIn(f \o w, Len(f)) = MessagesIn(f, Len(f))
      BY <3>1, MessagesInBeginning
    <3> QED
      BY <2>5, <2>6, <3>2, Zenon DEF Behind
  <2>11. n > 0 => all[n].at = all[n].m.size
    <3>1. f \in Seq(Unit) /\ w \in Seq(Unit)
      BY <2>2, <2>5
    <3>2. \A i \in 1 .. Len(f) : Behind(f, w)[i] = f[i]
      BY <3>1, BehindAt
    <3>3. n > 0 => n \in 1 .. Len(f)
      BY <2>7
    <3>4. n > 0 => all[n] = f[n]
      BY <2>5, <3>2, <3>3, Zenon
    <3> QED
      BY <2>6, <3>4, Zenon
  <2>12. be_resp = Visible(a)
    BY <2>1
  <2>13. n >= 0
    BY <2>7
  <2> HIDE DEF n
  <2>14. /\ Len(all) - Len(w) >= 0
         /\ Len(all) - Len(w) > 0 =>
               all[Len(all) - Len(w)].at = all[Len(all) - Len(w)].m.size
         /\ SubSeq(all, (Len(all) - Len(w)) + 1, Len(all)) = w
         /\ be_resp = Visible(MessagesIn(all, Len(all) - Len(w)))
    BY <2>8, <2>9, <2>10, <2>11, <2>12, <2>13, Zenon
  <2> QED
    BY <2>14, Zenon DEF all, w
<1>2. SessionInv => ReplyAccounted
  BY <1>1, Zenon DEF ReplyAccounted
<1> QED
  BY <1>2, SessionInvariant, PTL

\* A login fails only where it must: the server does not admit the proxy, or
\* the connection is gone. The SCRAM conversation agrees whenever the passwords
\* do, and no dialogue of 64 messages is given up.
THEOREM SessionLoginFailsForCause == Spec => LoginFailsForCause
<1>1. ASSUME SessionInv, [Next]_vars, phase = "login", phase' = "down"
      PROVE  ~Admitted \/ server.at = "gone"
  <2>1. CASE Login
    <3>1. ~(Connect \/ LoginContinues \/ AskedForPassword \/ AskedForScram \/ LoggedIn)
      BY <1>1 DEF Connect, LoginContinues, AskedForPassword, AskedForScram, LoggedIn,
                  StayInLogin
    <3>2. ~ScramProof /\ ~ScramVerified
      BY <1>1, ScramProofInv, ScramVerifiedInv
    <3>3. LoginRefused \/ LoginGivesUp
      BY <2>1, <3>1, <3>2 DEF Login
    <3> QED
      BY <1>1, <3>3, LoginRefusedInv, LoginGivesUpInv
  <2>2. CASE Exchange
    BY <1>1, <2>2 DEF Exchange, Begin, BeSend, BeRecv
  <2>3. CASE Server
    BY <1>1, <2>3 DEF Server, ServerGreets, ServerAuthenticates, Judges, ServerAnswers,
                      Answered, ServerWrites, Proceeds, proxy
  <2>4. CASE Cut \/ UNCHANGED vars
    BY <1>1, <2>4 DEF Cut, vars, proxy
  <2> QED
    BY <1>1, <2>1, <2>2, <2>3, <2>4 DEF Next
<1>2. SessionInv /\ [Next]_vars =>
         [phase = "login" /\ phase' = "down" => ~Admitted \/ server.at = "gone"]_vars
  BY <1>1
<1> QED
  BY <1>2, SessionInvariant, PTL DEF Spec, LoginFailsForCause

\* A reply of at most Cap units is served however it is cut into chunks.
THEOREM SessionSmallReplyIsServed == Spec => SmallReplyIsServed
<1>1. ASSUME SessionInv, [Next]_vars, phase = "reading", phase' = "down"
      PROVE  server.at = "gone" \/ SizeOf(said) > Cap
  <2>1. CASE Login
    BY <1>1, <2>1 DEF Login, Connect, LoginContinues, AskedForPassword, AskedForScram,
                      ScramProof, ScramVerified, LoginRefused, LoggedIn, LoginGivesUp, Reading
  <2>2. CASE Exchange
    <3>1. BeRecv
      BY <1>1, <2>2 DEF Exchange, Begin, BeSend
    <3> QED
      BY <1>1, <3>1, BeRecvInv
  <2>3. CASE Server
    BY <1>1, <2>3 DEF Server, ServerGreets, ServerAuthenticates, Judges, ServerAnswers,
                      Answered, ServerWrites, Proceeds, proxy
  <2>4. CASE Cut \/ UNCHANGED vars
    BY <1>1, <2>4 DEF Cut, vars, proxy
  <2> QED
    BY <1>1, <2>1, <2>2, <2>3, <2>4 DEF Next
<1>2. SessionInv /\ [Next]_vars =>
         [phase = "reading" /\ phase' = "down" =>
            server.at = "gone" \/ SizeOf(said) > Cap]_vars
  BY <1>1
<1> QED
  BY <1>2, SessionInvariant, PTL DEF Spec, SmallReplyIsServed

-----------------------------------------------------------------------------
(* The session implements BackendExchange *)

\* How BackendExchange sees the session.
StateSeen ==
    CASE phase \in {"down", "login"} -> "down"
      [] phase = "idle" -> "idle"
      [] OTHER -> "busy"

AnswerSeen == IF phase = "idle" THEN be_resp ELSE <<>>

\* What is seen in each phase.
LEMMA SeenIs ==
    /\ phase \in {"down", "login"} => StateSeen = "down" /\ AnswerSeen = <<>>
    /\ phase = "idle" => StateSeen = "idle" /\ AnswerSeen = be_resp
    /\ phase \in {"sending", "reading"} => StateSeen = "busy" /\ AnswerSeen = <<>>
<1> QED
  BY DEF StateSeen, AnswerSeen

\* And after a step.
LEMMA SeenNext ==
    /\ phase' \in {"down", "login"} => StateSeen' = "down" /\ AnswerSeen' = <<>>
    /\ phase' = "idle" => StateSeen' = "idle" /\ AnswerSeen' = be_resp'
    /\ phase' \in {"sending", "reading"} => StateSeen' = "busy" /\ AnswerSeen' = <<>>
<1> QED
  BY DEF StateSeen, AnswerSeen

\* The server's set-up does not change.
LEMMA AdmittedKept == conf' = conf => Admitted' = Admitted
<1> QED
  BY DEF Admitted, DialogueLength, Welcome, Agree

\* Every step of the session is one of the exchange, or not seen.
LEMMA StepSeen ==
    ASSUME SessionInv, [Next]_vars
    PROVE  \/ UNCHANGED <<Admitted, StateSeen, used.requests, AnswerSeen>>
           \/ /\ StateSeen = "down" /\ Admitted /\ StateSeen' = "idle"
              /\ UNCHANGED <<Admitted, used.requests, AnswerSeen>>
           \/ /\ StateSeen = "idle" /\ StateSeen' = "busy"
              /\ used.requests' = used.requests + 1
              /\ AnswerSeen' = <<>> /\ UNCHANGED Admitted
           \/ /\ StateSeen = "busy" /\ AnswerSeen' \in Answers(used.requests)
              /\ StateSeen' = "idle" /\ UNCHANGED <<Admitted, used.requests>>
           \/ /\ StateSeen = "busy" /\ StateSeen' = "down"
              /\ UNCHANGED <<Admitted, used.requests, AnswerSeen>>
<1> DEFINE Goal ==
           \/ UNCHANGED <<Admitted, StateSeen, used.requests, AnswerSeen>>
           \/ /\ StateSeen = "down" /\ Admitted /\ StateSeen' = "idle"
              /\ UNCHANGED <<Admitted, used.requests, AnswerSeen>>
           \/ /\ StateSeen = "idle" /\ StateSeen' = "busy"
              /\ used.requests' = used.requests + 1
              /\ AnswerSeen' = <<>> /\ UNCHANGED Admitted
           \/ /\ StateSeen = "busy" /\ AnswerSeen' \in Answers(used.requests)
              /\ StateSeen' = "idle" /\ UNCHANGED <<Admitted, used.requests>>
           \/ /\ StateSeen = "busy" /\ StateSeen' = "down"
              /\ UNCHANGED <<Admitted, used.requests, AnswerSeen>>
<1>1. phase \in {"down", "login", "idle", "sending", "reading"}
  BY DEF SessionInv, Typed
<1>2. ASSUME conf' = conf, used.requests' = used.requests,
             phase \in {"down", "login"}, phase' \in {"down", "login"}
      PROVE  Goal
  BY <1>2, SeenIs, SeenNext, AdmittedKept
<1>3. ASSUME conf' = conf, used.requests' = used.requests,
             phase' = phase, be_resp' = be_resp
      PROVE  Goal
  BY <1>1, <1>3, SeenIs, SeenNext, AdmittedKept
<1>4. CASE Login
  <2>1. CASE LoggedIn
    <3>1. Admitted /\ be_resp = <<>>
      BY <1>4, <2>1, LoggedInInv DEF LoggedIn, Reading, SessionInv, WhenLogin
    <3>2. /\ phase = "login" /\ phase' = "idle" /\ conf' = conf /\ used' = used
          /\ be_resp' = be_resp
      BY <2>1 DEF LoggedIn, Reading
    <3> QED
      BY <3>1, <3>2, SeenIs, SeenNext, AdmittedKept
  <2>2. CASE Connect
    <3>1. /\ phase = "down" /\ phase' = "login" /\ conf' = conf
          /\ used' = [used EXCEPT !.logins = @ + 1]
      BY <2>2 DEF Connect
    <3>2. used.requests' = used.requests
      BY <3>1 DEF SessionInv, Typed
    <3> QED
      BY <1>2, <3>1, <3>2
  <2>3. CASE \/ LoginContinues \/ AskedForPassword \/ AskedForScram \/ ScramProof
             \/ ScramVerified \/ LoginRefused \/ LoginGivesUp
    <3>1. phase = "login" /\ conf' = conf /\ used' = used
      BY <2>3 DEF LoginContinues, AskedForPassword, AskedForScram, ScramProof, ScramVerified,
                  LoginRefused, LoginGivesUp, Reading
    <3>2. phase' \in {"login", "down"}
      <4>1. CASE LoginContinues \/ AskedForPassword \/ AskedForScram
        BY <3>1, <4>1 DEF LoginContinues, AskedForPassword, AskedForScram, StayInLogin
      <4>2. CASE ScramProof \/ ScramVerified
        BY <4>2, ScramProofInv, ScramVerifiedInv
      <4>3. CASE LoginRefused \/ LoginGivesUp
        BY <4>3 DEF LoginRefused, LoginGivesUp, LoginFailed
      <4> QED
        BY <2>3, <4>1, <4>2, <4>3
    <3> QED
      BY <1>2, <3>1, <3>2
  <2> QED
    BY <1>4, <2>1, <2>2, <2>3 DEF Login
<1>5. CASE Exchange
  <2>1. CASE Begin
    <3>1. /\ phase = "idle" /\ phase' = "sending" /\ conf' = conf
          /\ used' = [used EXCEPT !.requests = @ + 1]
      BY <2>1 DEF Begin
    <3>2. used.requests' = used.requests + 1
      BY <3>1 DEF SessionInv, Typed
    <3> QED
      BY <3>1, <3>2, SeenIs, SeenNext, AdmittedKept
  <2>2. ASSUME phase \in {"sending", "reading"}, ExchangeFailed
        PROVE  Goal
    <3>1. phase' = "down" /\ conf' = conf /\ used' = used
      BY <2>2 DEF ExchangeFailed
    <3> QED
      BY <2>2, <3>1, SeenIs, SeenNext, AdmittedKept
  <2>3. CASE BeSend
    <3>1. phase = "sending"
      BY <2>3 DEF BeSend
    <3>2. ASSUME NEW n \in 1 .. Len(send_buf), Sent(n), conf' = conf, used' = used
          PROVE  Goal
      <4>1. phase' \in {"sending", "reading"}
        BY <3>2 DEF Sent
      <4> QED
        BY <3>1, <3>2, <4>1, SeenIs, SeenNext, AdmittedKept
    <3> QED
      BY <2>2, <2>3, <3>1, <3>2 DEF BeSend
  <2>4. CASE BeRecv
    <3>1. /\ phase' = "idle" => be_resp' \in Answers(used.requests)
          /\ phase = "reading" /\ phase' \in {"idle", "down", "reading"}
          /\ conf' = conf /\ used' = used
      BY <2>4, BeRecvInv
    <3>2. CASE phase' = "idle"
      BY <3>1, <3>2, SeenIs, SeenNext, AdmittedKept
    <3>3. CASE phase' \in {"down", "reading"}
      BY <3>1, <3>3, SeenIs, SeenNext, AdmittedKept
    <3> QED
      BY <3>1, <3>2, <3>3
  <2> QED
    BY <1>5, <2>1, <2>3, <2>4 DEF Exchange
<1>6. CASE Server
  <2>1. UNCHANGED <<conf, phase, be_resp, used>>
    BY <1>6 DEF Server, ServerGreets, ServerAuthenticates, Judges, ServerAnswers,
                Answered, ServerWrites, Proceeds, proxy
  <2> QED
    BY <1>3, <2>1
<1>7. CASE Cut
  <2>1. UNCHANGED <<conf, phase, be_resp>> /\ used' = [used EXCEPT !.cuts = @ + 1]
    BY <1>7 DEF Cut, proxy
  <2>2. used.requests' = used.requests
    BY <2>1 DEF SessionInv, Typed
  <2> QED
    BY <1>3, <2>1, <2>2
<1>8. CASE UNCHANGED vars
  BY <1>3, <1>8 DEF vars
<1>9. Goal
  BY <1>4, <1>5, <1>6, <1>7, <1>8 DEF Next
<1> QED
  BY <1>9 DEF Goal

\* The session keeps its promise to the event loop: what it hands over as
\* complete is the whole visible answer to the request just made, whatever the
\* sizes of the buffers and of the chunks, and a session that is lost hands over
\* nothing (backend_authenticate, pqproxy_backend_async_begin, async_on_recv,
\* async_finish).
THEOREM SessionKeepsItsPromise == Spec => KeepsItsPromise
<1>1. Init => Exchanges!Init
  <2> SUFFICES ASSUME Init PROVE Exchanges!Init
    OBVIOUS
  <2>1. phase = "down" /\ used.requests = 0
    BY DEF Init
  <2>2. StateSeen = "down" /\ AnswerSeen = <<>>
    BY <2>1, SeenIs
  <2>3. Admitted \in BOOLEAN
    BY DEF Admitted
  <2> QED
    BY <2>1, <2>2, <2>3 DEF Exchanges!Init, StateSeen, AnswerSeen
<1>2. SessionInv /\ [Next]_vars => [Exchanges!Next]_(Exchanges!vars)
  <2> SUFFICES ASSUME SessionInv, [Next]_vars PROVE [Exchanges!Next]_(Exchanges!vars)
    OBVIOUS
  <2> QED
    BY StepSeen DEF Exchanges!Next, Exchanges!vars, Exchanges!LogIn, Exchanges!Ask,
                    Exchanges!Answer, Exchanges!Lose, StateSeen, AnswerSeen
<1> QED
  BY <1>1, <1>2, SessionInvariant, PTL DEF Spec, KeepsItsPromise, Exchanges!Spec
==============================================================================
