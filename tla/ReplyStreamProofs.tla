-------------------------- MODULE ReplyStreamProofs --------------------------
(****************************************************************************)
(* No Bind has two outcomes and results come in the order of the Binds, for *)
(* any client, any number of messages and any length of the queue. A client *)
(* that waits for ReadyForQuery loses no result if the queue holds a batch. *)
(****************************************************************************)
EXTENDS ReplyStream, DataLemmas

Tags == {"ParseComplete", "BindComplete", "Select0", "Error", "Result", "Ready"}
Replies == [tag : Tags, of : Int]
Positive == Nat \ {0}

\* The Binds a sequence of replies has an outcome of, or a result of.
Outcomes(s) == {n \in Positive : \E i \in 1 .. Len(s) : s[i].of = n}
Results(s) == {n \in Positive : \E i \in 1 .. Len(s) : s[i] = Result(n)}

\* OutcomeOnceInOrder is InOrder(out).
InOrder(s) ==
    \A i, j \in 1 .. Len(s) :
        i < j /\ s[i].of > 0 /\ s[j].of > 0 =>
            /\ s[i].of # s[j].of
            /\ s[i].tag = "Result" /\ s[j].tag = "Result" => s[i].of < s[j].of

-----------------------------------------------------------------------------
(* Sequences of replies.                                                    *)

\* Two sequences in order make one if they share no Bind and the results of the
\* second are later ones.
LEMMA JoinInOrder ==
    ASSUME NEW s \in Seq(Replies), NEW t \in Seq(Replies), InOrder(s), InOrder(t),
           Outcomes(s) \intersect Outcomes(t) = {},
           \A m \in Results(s), n \in Results(t) : m < n
    PROVE  /\ s \o t \in Seq(Replies)
           /\ InOrder(s \o t)
           /\ Outcomes(s \o t) = Outcomes(s) \union Outcomes(t)
           /\ Results(s \o t) = Results(s) \union Results(t)
<1> DEFINE u == s \o t
<1>1. /\ Len(s) \in Nat /\ Len(t) \in Nat
      /\ \A i \in 1 .. Len(s) : s[i] \in Replies
      /\ \A i \in 1 .. Len(t) : t[i] \in Replies
  BY LenProperties, ElementOfSeq
<1>2. /\ u \in Seq(Replies)
      /\ Len(u) = Len(s) + Len(t)
      /\ \A i \in 1 .. Len(s) + Len(t) :
            u[i] = IF i <= Len(s) THEN s[i] ELSE t[i - Len(s)]
  BY ConcatProperties
<1> HIDE DEF u
<1>3. \A i \in 1 .. Len(s) : i \in 1 .. Len(u) /\ u[i] = s[i]
  BY <1>1, <1>2
<1>4. ASSUME NEW i \in 1 .. Len(t)
      PROVE  Len(s) + i \in 1 .. Len(u) /\ u[Len(s) + i] = t[i]
  <2>1. /\ Len(s) + i \in 1 .. Len(s) + Len(t)
        /\ ~(Len(s) + i <= Len(s))
        /\ (Len(s) + i) - Len(s) = i
    BY <1>1
  <2> QED
    BY <1>2, <2>1
<1>5. \A i \in 1 .. Len(u) :
         \/ i \in 1 .. Len(s) /\ u[i] = s[i]
         \/ i - Len(s) \in 1 .. Len(t) /\ u[i] = t[i - Len(s)] /\ i > Len(s)
  BY <1>1, <1>2
<1>6. Outcomes(u) = Outcomes(s) \union Outcomes(t)
  <2>1. Outcomes(s) \subseteq Outcomes(u)
    BY <1>3 DEF Outcomes
  <2>2. Outcomes(t) \subseteq Outcomes(u)
    BY <1>4 DEF Outcomes
  <2>3. Outcomes(u) \subseteq Outcomes(s) \union Outcomes(t)
    BY <1>5 DEF Outcomes
  <2> QED
    BY <2>1, <2>2, <2>3
<1>7. Results(u) = Results(s) \union Results(t)
  <2>1. Results(s) \subseteq Results(u)
    BY <1>3 DEF Results
  <2>2. Results(t) \subseteq Results(u)
    BY <1>4 DEF Results
  <2>3. Results(u) \subseteq Results(s) \union Results(t)
    BY <1>5 DEF Results
  <2> QED
    BY <2>1, <2>2, <2>3
<1>8. ASSUME NEW i \in 1 .. Len(u), NEW j \in 1 .. Len(u),
             i < j, u[i].of > 0, u[j].of > 0
      PROVE  /\ u[i].of # u[j].of
             /\ u[i].tag = "Result" /\ u[j].tag = "Result" => u[i].of < u[j].of
  <2>1. CASE i \in 1 .. Len(s) /\ j \in 1 .. Len(s)
    BY <1>3, <1>8, <2>1 DEF InOrder
  <2>2. CASE i > Len(s) /\ j > Len(s)
    <3>1. /\ i - Len(s) \in 1 .. Len(t) /\ u[i] = t[i - Len(s)]
          /\ j - Len(s) \in 1 .. Len(t) /\ u[j] = t[j - Len(s)]
          /\ i - Len(s) < j - Len(s)
      BY <1>1, <1>2, <1>8, <2>2
    <3> QED
      BY <1>8, <3>1 DEF InOrder
  <2>3. CASE i \in 1 .. Len(s) /\ j > Len(s)
    <3>1. /\ u[i] = s[i]
          /\ j - Len(s) \in 1 .. Len(t) /\ u[j] = t[j - Len(s)]
      BY <1>1, <1>2, <1>5, <2>3
    <3>2. s[i] \in Replies /\ t[j - Len(s)] \in Replies
      BY <1>1, <2>3, <3>1
    <3>3. u[i].of \in Outcomes(s) /\ u[j].of \in Outcomes(t)
      BY <1>8, <2>3, <3>1, <3>2 DEF Outcomes, Replies, Positive
    <3>4. u[i].tag = "Result" => u[i].of \in Results(s)
      BY <2>3, <3>1, <3>2, <3>3 DEF Outcomes, Results, Replies, Result, Reply
    <3>5. u[j].tag = "Result" => u[j].of \in Results(t)
      BY <3>1, <3>2, <3>3 DEF Outcomes, Results, Replies, Result, Reply
    <3> QED
      BY <3>3, <3>4, <3>5
  <2> QED
    BY <1>1, <1>2, <1>8, <2>1, <2>2, <2>3
<1>9. InOrder(u)
  BY <1>8 DEF InOrder
<1> QED
  BY <1>2, <1>6, <1>7, <1>9 DEF u

\* No reply at all.
LEMMA NoReply ==
    /\ <<>> \in Seq(Replies) /\ InOrder(<<>>)
    /\ Outcomes(<<>>) = {} /\ Results(<<>>) = {}
<1>1. <<>> \in Seq(Replies) /\ Len(<<>>) = 0
  BY EmptySeq
<1> QED
  BY <1>1 DEF InOrder, Outcomes, Results

\* One reply.
LEMMA OneReply ==
    ASSUME NEW r \in Replies
    PROVE  /\ <<r>> \in Seq(Replies) /\ InOrder(<<r>>)
           /\ Outcomes(<<r>>) = {r.of} \intersect Positive
           /\ Results(<<r>>) \subseteq Outcomes(<<r>>)
           /\ r.tag # "Result" => Results(<<r>>) = {}
<1>1. <<r>> \in Seq(Replies) /\ Len(<<r>>) = 1 /\ <<r>>[1] = r
  OBVIOUS
<1>2. \A i \in 1 .. 1 : i = 1
  OBVIOUS
<1>3. InOrder(<<r>>)
  BY <1>1, <1>2 DEF InOrder
<1>4. Outcomes(<<r>>) = {r.of} \intersect Positive
  BY <1>1, <1>2 DEF Outcomes
<1>5. \A n \in Results(<<r>>) : r = Result(n) /\ n \in Positive
  BY <1>1, <1>2 DEF Results
<1>6. \A n \in Results(<<r>>) : r.of = n /\ r.tag = "Result"
  BY <1>5 DEF Result, Reply
<1> QED
  BY <1>1, <1>3, <1>4, <1>5, <1>6

\* An outcome and the ReadyForQuery behind it.
LEMMA ReplyAndReady ==
    ASSUME NEW r \in Replies
    PROVE  /\ <<r, Ready>> \in Seq(Replies) /\ InOrder(<<r, Ready>>)
           /\ Outcomes(<<r, Ready>>) = {r.of} \intersect Positive
           /\ Results(<<r, Ready>>) \subseteq Outcomes(<<r, Ready>>)
           /\ r.tag # "Result" => Results(<<r, Ready>>) = {}
<1>1. Ready \in Replies /\ Ready.of = 0 /\ Ready.tag # "Result"
  BY DEF Ready, Reply, Replies, Tags
<1>2. /\ <<Ready>> \in Seq(Replies) /\ InOrder(<<Ready>>)
      /\ Outcomes(<<Ready>>) = {} /\ Results(<<Ready>>) = {}
  BY <1>1, OneReply DEF Positive
<1>3. <<r, Ready>> = <<r>> \o <<Ready>>
  OBVIOUS
<1>4. /\ <<r>> \in Seq(Replies) /\ InOrder(<<r>>)
      /\ Outcomes(<<r>>) = {r.of} \intersect Positive
      /\ Results(<<r>>) \subseteq Outcomes(<<r>>)
      /\ r.tag # "Result" => Results(<<r>>) = {}
  BY OneReply
<1>5. /\ Outcomes(<<r>>) \intersect Outcomes(<<Ready>>) = {}
      /\ \A m \in Results(<<r>>), n \in Results(<<Ready>>) : m < n
  BY <1>2
<1>6. /\ <<r>> \o <<Ready>> \in Seq(Replies) /\ InOrder(<<r>> \o <<Ready>>)
      /\ Outcomes(<<r>> \o <<Ready>>) = Outcomes(<<r>>) \union Outcomes(<<Ready>>)
      /\ Results(<<r>> \o <<Ready>>) = Results(<<r>>) \union Results(<<Ready>>)
  BY <1>2, <1>4, <1>5, JoinInOrder
<1> QED
  BY <1>2, <1>3, <1>4, <1>6

-----------------------------------------------------------------------------
(* The invariant.                                                           *)

Shown == Outcomes(out) \union Outcomes(wire)

\* The Binds that may still get an outcome.
Pending == {cur, resp} \union {feq[i].of : i \in 1 .. Len(feq)}

StreamTypes == TypeOK /\ binds \in Nat

StreamsOK ==
    /\ out \in Seq(Replies) /\ InOrder(out)
    /\ wire \in Seq(Replies) /\ InOrder(wire)
    /\ Outcomes(out) \intersect Outcomes(wire) = {}
    /\ Results(wire) = {}
    /\ Shown \subseteq 1 .. binds

\* What is pending has no outcome yet, and comes after every result so far.
PendingOK ==
    /\ Pending \intersect Shown = {}
    /\ \A n \in Pending \intersect Positive, m \in Results(out) : m < n

\* Binds are queued in their order, behind the one in flight or held.
QueueOK ==
    /\ \A i, j \in 1 .. Len(feq) :
          i < j /\ feq[i].of > 0 /\ feq[j].of > 0 => feq[i].of < feq[j].of
    /\ \A i \in 1 .. Len(feq) :
          feq[i].of > 0 => cur < feq[i].of /\ resp < feq[i].of

\* Only a pipeline in flight has a Bind; between handlers nothing is queued
\* unless a pipeline is in flight or parked.
ControlOK ==
    /\ wait # "FLIGHT" => cur = 0
    /\ pc = "drain" => wait = "IDLE"
    /\ wait = "IDLE" /\ pc \in {"loop", "recv"} => feq = <<>>

StreamInv == StreamTypes /\ StreamsOK /\ PendingOK /\ QueueOK /\ ControlOK

\* Replies go to the client's socket.
LEMMA ToSocket ==
    ASSUME StreamsOK, binds \in Nat, NEW t \in Seq(Replies), InOrder(t),
           Outcomes(t) \subseteq 1 .. binds, Outcomes(t) \intersect Shown = {},
           \A m \in Results(out), n \in Results(t) : m < n,
           out' = out \o t, wire' \in {wire, <<>>}, binds' = binds
    PROVE  /\ StreamsOK'
           /\ Shown' \subseteq Shown \union Outcomes(t)
           /\ Results(out)' = Results(out) \union Results(t)
           /\ Len(out') >= Len(out)
<1>1. /\ out' \in Seq(Replies) /\ InOrder(out')
      /\ Outcomes(out') = Outcomes(out) \union Outcomes(t)
      /\ Results(out') = Results(out) \union Results(t)
  BY JoinInOrder DEF StreamsOK, Shown
<1>2. /\ wire' \in Seq(Replies) /\ InOrder(wire')
      /\ Outcomes(wire') \subseteq Outcomes(wire) /\ Results(wire') = {}
  BY NoReply DEF StreamsOK
<1>3. Len(out') = Len(out) + Len(t) /\ Len(out) \in Nat /\ Len(t) \in Nat
  BY ConcatProperties, LenProperties DEF StreamsOK
<1> QED
  BY <1>1, <1>2, <1>3 DEF StreamsOK, Shown

\* Replies go to the frontend wire, no result among them.
LEMMA ToWire ==
    ASSUME StreamsOK, binds \in Nat, NEW t \in Seq(Replies), InOrder(t),
           Results(t) = {}, Outcomes(t) \intersect Shown = {},
           binds' \in {binds, binds + 1}, Outcomes(t) \subseteq 1 .. binds',
           wire' = wire \o t, out' = out
    PROVE  /\ StreamsOK'
           /\ Shown' = Shown \union Outcomes(t)
           /\ Results(out)' = Results(out)
           /\ Len(out') >= Len(out)
<1>0. /\ Outcomes(wire) \intersect Outcomes(t) = {}
      /\ \A m \in Results(wire), n \in Results(t) : m < n
  BY DEF StreamsOK, Shown
<1>1. /\ wire' \in Seq(Replies) /\ InOrder(wire')
      /\ Outcomes(wire') = Outcomes(wire) \union Outcomes(t)
      /\ Results(wire') = Results(wire) \union Results(t)
  BY <1>0, JoinInOrder DEF StreamsOK
<1>2. Shown \subseteq 1 .. binds' /\ Len(out) \in Nat
  BY LenProperties DEF StreamsOK
<1> QED
  BY <1>1, <1>2 DEF StreamsOK, Shown

\* The frontend wire is drained to the socket when a handler ends.
LEMMA WireDrained ==
    ASSUME StreamsOK, Drained(wire), binds' = binds
    PROVE  /\ StreamsOK'
           /\ Shown' = Shown
           /\ Results(out)' = Results(out)
           /\ Len(out') >= Len(out)
<1>1. out' = out \o wire /\ wire' = <<>>
  BY DEF Drained
<1>0. \A m \in Results(out), n \in Results(wire) : m < n
  BY DEF StreamsOK
<1>2. /\ out' \in Seq(Replies) /\ InOrder(out')
      /\ Outcomes(out') = Outcomes(out) \union Outcomes(wire)
      /\ Results(out') = Results(out) \union Results(wire)
  BY <1>0, <1>1, JoinInOrder DEF StreamsOK
<1>3. Len(out') = Len(out) + Len(wire) /\ Len(out) \in Nat /\ Len(wire) \in Nat
  BY <1>1, ConcatProperties, LenProperties DEF StreamsOK
<1> QED
  BY <1>1, <1>2, <1>3, NoReply DEF StreamsOK, Shown

\* The proxy's own replies are about no Bind.
LEMMA OwnReplies ==
    /\ {ParseComplete, BindComplete, Select0, Ready, Error(0), Result(0)}
          \subseteq Replies
    /\ ParseComplete.tag # "Result" /\ BindComplete.tag # "Result"
    /\ Select0.tag # "Result" /\ Ready.tag # "Result" /\ Error(0).tag # "Result"
    /\ ParseComplete.of = 0 /\ BindComplete.of = 0 /\ Select0.of = 0
    /\ Ready.of = 0 /\ Error(0).of = 0 /\ Result(0).of = 0
BY DEF ParseComplete, BindComplete, Select0, Ready, Error, Result, Reply, Replies, Tags

\* An error or a result is about the Bind it names.
LEMMA OutcomeReplies ==
    ASSUME NEW n \in Int
    PROVE  /\ Error(n) \in Replies /\ Error(n).of = n /\ Error(n).tag # "Result"
           /\ Result(n) \in Replies /\ Result(n).of = n
BY DEF Error, Result, Reply, Replies, Tags

-----------------------------------------------------------------------------
(* The queue.                                                               *)

\* The queue names Binds the client has sent.
LEMMA QueueTyped ==
    ASSUME StreamTypes
    PROVE  /\ feq \in Seq([kind : Kinds, of : 0 .. binds])
           /\ Len(feq) \in Nat
           /\ \A i \in 1 .. Len(feq) : feq[i].kind \in Kinds /\ feq[i].of \in 0 .. binds
<1> DEFINE S == [kind : Kinds, of : 0 .. binds]
<1>1. feq \in Seq(S)
  BY DEF StreamTypes, TypeOK
<1> HIDE DEF S
<1>2. Len(feq) \in Nat /\ \A i \in 1 .. Len(feq) : feq[i] \in S
  BY <1>1, LenProperties, ElementOfSeq
<1> QED
  BY <1>1, <1>2 DEF S

\* What is left of the queue when its head is taken.
LEMMA QueueTaken ==
    ASSUME NEW S, feq \in Seq(S), feq # <<>>, feq' = Tail(feq)
    PROVE  /\ feq' \in Seq(S)
           /\ Head(feq) \in S
           /\ Len(feq') = Len(feq) - 1
           /\ Len(feq) \in Nat \ {0}
           /\ Head(feq) = feq[1]
           /\ \A i \in 1 .. Len(feq') : i + 1 \in 1 .. Len(feq) /\ feq'[i] = feq[i + 1]
<1>1. Len(feq) \in Nat \ {0}
  BY LenProperties, EmptySeq
<1>2. /\ feq' \in Seq(S)
      /\ Head(feq) \in S
      /\ Len(feq') = Len(feq) - 1
      /\ \A i \in 1 .. Len(feq') : feq'[i] = feq[i + 1]
  BY HeadTailProperties
<1>3. Head(feq) = feq[1]
  OBVIOUS
<1> QED
  BY <1>1, <1>2, <1>3

\* A message is put behind the others.
LEMMA QueueAppended ==
    ASSUME NEW S, feq \in Seq(S), NEW x \in S, feq' = Append(feq, x)
    PROVE  /\ feq' \in Seq(S)
           /\ Len(feq) \in Nat
           /\ Len(feq') = Len(feq) + 1
           /\ feq'[Len(feq) + 1] = x
           /\ \A i \in 1 .. Len(feq) : feq'[i] = feq[i]
BY AppendProperties, LenProperties

-----------------------------------------------------------------------------
(* Steps.                                                                   *)

\* What the proxy answers alone is about no Bind, except for a Sync, which gets
\* the result that is held.
LEMMA AnswerSafe ==
    ASSUME StreamInv, NEW kind, Answer(kind), binds' = binds
    PROVE  /\ StreamsOK'
           /\ Len(out') >= Len(out)
           /\ \/ /\ resp' \in {resp, 0, Torn}
                 /\ Shown' \subseteq Shown
                 /\ Results(out)' = Results(out)
              \/ /\ resp' = 0
                 /\ Shown' \subseteq Shown \union {resp}
                 /\ Results(out)' \subseteq Results(out) \union {resp}
<1>t. /\ StreamsOK /\ binds \in Nat /\ wire \in Seq(Replies)
      /\ resp \in Torn .. binds
  BY DEF StreamInv, StreamTypes, TypeOK, StreamsOK
<1>1. CASE AnswerParse
  <2>1. PICK t \in Seq(Replies) : /\ wire' = wire \o t
                                  /\ InOrder(t) /\ Outcomes(t) = {} /\ Results(t) = {}
    <3>1. CASE wire' = Append(wire, ParseComplete)
      <4>1. wire' = wire \o <<ParseComplete>>
        BY <1>t, <3>1, OwnReplies
      <4> QED
        BY <4>1, OwnReplies, OneReply DEF Positive
    <3>2. CASE wire' = wire \o <<Error(0), Ready>>
      BY <3>2, OwnReplies, ReplyAndReady DEF Positive
    <3> QED
      BY <1>1, <3>1, <3>2 DEF AnswerParse
  <2>2. out' = out /\ resp' = resp
    BY <1>1 DEF AnswerParse
  <2> QED
    BY <1>t, <2>1, <2>2, ToWire
<1>2. CASE AnswerExecute
  <2>1. PICK t \in Seq(Replies) : /\ wire' = wire \o t
                                  /\ InOrder(t) /\ Outcomes(t) = {} /\ Results(t) = {}
    <3>1. CASE resp = 0
      <4>1. wire' = wire \o <<Select0>>
        BY <1>t, <1>2, <3>1, OwnReplies DEF AnswerExecute
      <4> QED
        BY <4>1, OwnReplies, OneReply DEF Positive
    <3>2. CASE resp # 0
      <4>1. wire' = wire \o <<>>
        BY <1>t, <1>2, <3>2 DEF AnswerExecute
      <4> QED
        BY <4>1, NoReply
    <3> QED
      BY <3>1, <3>2
  <2>2. out' = out /\ resp' = resp
    BY <1>2 DEF AnswerExecute
  <2> QED
    BY <1>t, <2>1, <2>2, ToWire
<1>3. CASE AnswerSync
  <2>1. CASE resp # 0
    <3> DEFINE t == <<Result(resp), Ready>>
    <3>1. out' = out \o t /\ resp' = 0 /\ wire' = wire
      BY <1>3, <2>1 DEF AnswerSync
    <3>2. resp \in Int
      BY <1>t DEF Torn
    <3>3. /\ t \in Seq(Replies) /\ InOrder(t)
          /\ Outcomes(t) = {resp} \intersect Positive
          /\ Results(t) \subseteq {resp} \intersect Positive
      BY <3>2, OutcomeReplies, ReplyAndReady
    <3> HIDE DEF t
    <3>4. resp \in Pending
      BY DEF Pending
    <3>5. /\ Outcomes(t) \intersect Shown = {}
          /\ \A m \in Results(out), n \in Results(t) : m < n
      BY <3>3, <3>4 DEF StreamInv, PendingOK
    <3>6. Outcomes(t) \subseteq 1 .. binds
      BY <1>t, <3>3 DEF Torn, Positive
    <3>7. /\ StreamsOK'
          /\ Shown' \subseteq Shown \union Outcomes(t)
          /\ Results(out)' = Results(out) \union Results(t)
          /\ Len(out') >= Len(out)
      BY <1>t, <3>1, <3>3, <3>5, <3>6, ToSocket
    <3> QED
      BY <3>1, <3>3, <3>7
  <2>2. CASE resp = 0
    <3>1. wire' = wire \o <<Ready>> /\ out' = out /\ resp' = resp
      BY <1>t, <1>3, <2>2, OwnReplies DEF AnswerSync
    <3>2. /\ <<Ready>> \in Seq(Replies) /\ InOrder(<<Ready>>)
          /\ Outcomes(<<Ready>>) = {} /\ Results(<<Ready>>) = {}
      BY OwnReplies, OneReply DEF Positive
    <3> QED
      BY <1>t, <3>1, <3>2, ToWire
  <2> QED
    BY <2>1, <2>2
<1>4. CASE AnswerQuery
  <2>1. CASE out' = out \o <<Result(0), Ready>> /\ wire' = wire
    <3> DEFINE t == <<Result(0), Ready>>
    <3>1. /\ t \in Seq(Replies) /\ InOrder(t)
          /\ Outcomes(t) = {} /\ Results(t) = {}
      BY OwnReplies, ReplyAndReady DEF Positive
    <3> HIDE DEF t
    <3>2. /\ StreamsOK'
          /\ Shown' \subseteq Shown \union Outcomes(t)
          /\ Results(out)' = Results(out) \union Results(t)
          /\ Len(out') >= Len(out)
      BY <1>t, <2>1, <3>1, ToSocket DEF t
    <3>3. resp' \in {resp, 0, Torn}
      BY <1>4 DEF AnswerQuery
    <3> QED
      BY <3>1, <3>2, <3>3
  <2>2. CASE wire' = wire \o <<Error(0), Ready>> /\ out' = out
    <3> DEFINE t == <<Error(0), Ready>>
    <3>1. /\ t \in Seq(Replies) /\ InOrder(t)
          /\ Outcomes(t) = {} /\ Results(t) = {}
      BY OwnReplies, ReplyAndReady DEF Positive
    <3> HIDE DEF t
    <3>2. /\ StreamsOK'
          /\ Shown' = Shown \union Outcomes(t)
          /\ Results(out)' = Results(out)
          /\ Len(out') >= Len(out)
      BY <1>t, <2>2, <3>1, ToWire DEF t
    <3>3. resp' \in {resp, 0, Torn}
      BY <1>4 DEF AnswerQuery
    <3> QED
      BY <3>1, <3>2, <3>3
  <2> QED
    BY <1>4, <2>1, <2>2 DEF AnswerQuery
<1> QED
  BY <1>1, <1>2, <1>3, <1>4 DEF Answer

\* What was pending, and the client's next Bind, have no outcome after a step
\* that shows none.
LEMMA StillPending ==
    ASSUME StreamInv, Shown' \subseteq Shown, Results(out)' \subseteq Results(out),
           Pending' \subseteq Pending \union {0, Torn, binds + 1}
    PROVE  PendingOK'
<1>1. Shown \subseteq 1 .. binds /\ binds \in Nat /\ Torn = -1
  BY DEF StreamInv, StreamTypes, StreamsOK, Torn
<1>2. Results(out) \subseteq Shown
  BY DEF Results, Outcomes, Result, Reply, Shown
<1>3. \A n \in Pending' : n \notin Shown
  BY <1>1 DEF StreamInv, PendingOK
<1>4. ASSUME NEW n \in Pending' \intersect Positive, NEW m \in Results(out)
      PROVE  m < n
  <2>1. CASE n \in Pending
    BY <1>4, <2>1 DEF StreamInv, PendingOK
  <2>2. CASE n = binds + 1
    <3>1. m \in 1 .. binds
      BY <1>1, <1>2
    <3> QED
      BY <1>1, <2>2, <3>1
  <2> QED
    BY <1>1, <1>4, <2>1, <2>2 DEF Positive
<1> QED
  BY <1>3, <1>4 DEF PendingOK

\* A message is answered, out of the queue or as it comes. No pipeline is in
\* flight, so that what is queued comes after what is held.
LEMMA AnswerKeepsOrder ==
    ASSUME StreamInv, NEW kind, Answer(kind), cur = 0, cur' = cur, binds' = binds,
           feq' = feq \/ (feq # <<>> /\ feq' = Tail(feq))
    PROVE  /\ StreamsOK' /\ PendingOK' /\ QueueOK'
           /\ resp' \in Torn .. binds
           /\ Len(out') >= Len(out)
<1>t. /\ StreamTypes /\ PendingOK /\ QueueOK
      /\ binds \in Nat /\ Torn = -1 /\ resp \in Torn .. binds
  BY DEF StreamInv, StreamTypes, TypeOK, Torn
<1>f. /\ feq \in Seq([kind : Kinds, of : 0 .. binds]) /\ Len(feq) \in Nat
      /\ \A i \in 1 .. Len(feq) : feq[i].of \in 0 .. binds
  BY <1>t, QueueTyped
<1>1. \/ feq' = feq
      \/ /\ Len(feq') \in Nat
         /\ \A i \in 1 .. Len(feq') : i + 1 \in 1 .. Len(feq) /\ feq'[i] = feq[i + 1]
  BY <1>f, QueueTaken
<1>2. \A i \in 1 .. Len(feq') : \E j \in 1 .. Len(feq) : feq'[i] = feq[j]
  BY <1>1
<1>3. /\ StreamsOK'
      /\ Len(out') >= Len(out)
      /\ \/ /\ resp' \in {resp, 0, Torn}
            /\ Shown' \subseteq Shown
            /\ Results(out)' = Results(out)
         \/ /\ resp' = 0
            /\ Shown' \subseteq Shown \union {resp}
            /\ Results(out)' \subseteq Results(out) \union {resp}
  BY AnswerSafe
<1>4. QueueOK'
  <2>1. ASSUME NEW i \in 1 .. Len(feq'), feq'[i].of > 0
        PROVE  cur' < feq'[i].of /\ resp' < feq'[i].of
    <3>1. PICK j \in 1 .. Len(feq) : feq'[i] = feq[j]
      BY <1>2
    <3>2. feq[j].of \in 0 .. binds /\ feq[j].of > 0 /\ resp < feq[j].of
      BY <1>t, <1>f, <2>1, <3>1 DEF QueueOK
    <3>3. resp' \in {resp, 0, Torn} /\ cur' = 0
      BY <1>3
    <3> QED
      BY <1>t, <3>1, <3>2, <3>3
  <2>2. ASSUME NEW i \in 1 .. Len(feq'), NEW j \in 1 .. Len(feq'),
               i < j, feq'[i].of > 0, feq'[j].of > 0
        PROVE  feq'[i].of < feq'[j].of
    <3>1. CASE feq' = feq
      BY <1>t, <2>2, <3>1 DEF QueueOK
    <3>2. CASE feq' # feq
      <4>1. /\ i + 1 \in 1 .. Len(feq) /\ feq'[i] = feq[i + 1]
            /\ j + 1 \in 1 .. Len(feq) /\ feq'[j] = feq[j + 1]
            /\ i + 1 < j + 1
        BY <1>1, <2>2, <3>2
      <4> QED
        BY <1>t, <2>2, <4>1 DEF QueueOK
    <3> QED
      BY <3>1, <3>2
  <2> QED
    BY <2>1, <2>2 DEF QueueOK
<1>5. Pending' \subseteq {0, resp'} \union {feq[i].of : i \in 1 .. Len(feq)}
  BY <1>2 DEF Pending
<1>6. PendingOK'
  <2>1. CASE /\ resp' \in {resp, 0, Torn}
             /\ Shown' \subseteq Shown
             /\ Results(out)' = Results(out)
    <3>1. Pending' \subseteq Pending \union {0, Torn, binds + 1}
      BY <1>5, <2>1 DEF Pending
    <3> QED
      BY <2>1, <3>1, StillPending
  <2>2. CASE /\ resp' = 0
             /\ Shown' \subseteq Shown \union {resp}
             /\ Results(out)' \subseteq Results(out) \union {resp}
    <3>1. ASSUME NEW n \in Pending', n # 0
          PROVE  n \in Pending /\ n > resp /\ n > 0
      <4>1. PICK i \in 1 .. Len(feq) : n = feq[i].of
        BY <1>5, <2>2, <3>1
      <4>2. n \in 0 .. binds /\ n > 0
        BY <1>f, <3>1, <4>1
      <4>3. resp < n
        BY <1>t, <4>1, <4>2 DEF QueueOK
      <4> QED
        BY <1>t, <4>1, <4>2, <4>3 DEF Pending
    <3>2. 0 \notin Shown'
      BY DEF Shown, Outcomes, Positive
    <3> QED
      BY <1>t, <2>2, <3>1, <3>2 DEF PendingOK, Positive
  <2> QED
    BY <1>3, <2>1, <2>2
<1>7. resp' \in Torn .. binds
  BY <1>t, <1>3
<1> QED
  BY <1>3, <1>4, <1>6, <1>7

\* The backend has answered: the outcome of the Bind in flight, if any, is sent.
LEMMA OutcomeSent ==
    ASSUME StreamInv, NEW t \in Seq(Replies), InOrder(t),
           Outcomes(t) \subseteq {cur} \intersect Positive,
           Results(t) \subseteq Outcomes(t),
           out' = out \o t, wire' = <<>>, binds' = binds, cur' = 0,
           feq' \in {feq, <<>>},
           resp' = 0 \/ (resp' = cur /\ Outcomes(t) = {})
    PROVE  /\ StreamsOK' /\ PendingOK' /\ QueueOK'
           /\ Len(out') >= Len(out)
<1>t. /\ StreamsOK /\ PendingOK /\ QueueOK /\ binds \in Nat
      /\ cur \in 0 .. binds /\ cur \in Pending
  BY DEF StreamInv, StreamTypes, TypeOK, Pending
<1>f. Len(feq) \in Nat /\ \A i \in 1 .. Len(feq) : feq[i].of \in 0 .. binds
  BY QueueTyped DEF StreamInv
<1>1. /\ Outcomes(t) \subseteq 1 .. binds
      /\ Outcomes(t) \intersect Shown = {}
      /\ \A m \in Results(out), n \in Results(t) : m < n
  BY <1>t DEF PendingOK, Positive
<1>2. /\ StreamsOK'
      /\ Shown' \subseteq Shown \union Outcomes(t)
      /\ Results(out)' = Results(out) \union Results(t)
      /\ Len(out') >= Len(out)
  BY <1>t, <1>1, ToSocket
<1>3. feq' = feq \/ Len(feq') = 0
  BY EmptySeq
<1>4. QueueOK'
  <2>1. CASE Len(feq') = 0
    BY <2>1 DEF QueueOK
  <2>2. CASE feq' = feq
    <3>1. \A i \in 1 .. Len(feq) : feq[i].of > 0 => cur' < feq[i].of /\ resp' < feq[i].of
      BY <1>t, <1>f DEF QueueOK
    <3> QED
      BY <1>t, <2>2, <3>1 DEF QueueOK
  <2> QED
    BY <1>3, <2>1, <2>2
<1>5. Pending' \subseteq {0, resp'} \union {feq[i].of : i \in 1 .. Len(feq)}
  BY <1>3 DEF Pending
<1>6. ASSUME NEW n \in Pending', n # 0
      PROVE  /\ n \in Pending
             /\ n \notin Outcomes(t)
             /\ \A m \in Outcomes(t) : m < n
  <2>1. CASE n = resp'
    BY <1>t, <1>6, <2>1
  <2>2. CASE n # resp'
    <3>1. PICK i \in 1 .. Len(feq) : n = feq[i].of
      BY <1>5, <1>6, <2>2
    <3>2. n \in 0 .. binds /\ n > 0
      BY <1>f, <1>6, <3>1
    <3>3. cur < n
      BY <1>t, <3>1, <3>2 DEF QueueOK
    <3>4. n \in Pending
      BY <3>1 DEF Pending
    <3> QED
      BY <1>t, <3>2, <3>3, <3>4
  <2> QED
    BY <2>1, <2>2
<1>7. 0 \notin Shown'
  BY DEF Shown, Outcomes, Positive
<1>8. PendingOK'
  <2>1. \A n \in Pending' : n \notin Shown'
    BY <1>t, <1>2, <1>6, <1>7 DEF PendingOK
  <2>2. \A n \in Pending' \intersect Positive, m \in Results(out') : m < n
    BY <1>t, <1>2, <1>6 DEF PendingOK, Positive
  <2> QED
    BY <2>1, <2>2 DEF PendingOK
<1> QED
  BY <1>2, <1>4, <1>8

\* What the client's next message changes.
LEMMA SendsTypes ==
    ASSUME StreamInv, NEW k, Sends(k)
    PROVE  /\ k \in Kinds
           /\ binds' = IF k = "bind" THEN binds + 1 ELSE binds
           /\ binds' \in Nat
           /\ sent' \in Nat /\ client' \in Clients
           /\ pc' = "recv" /\ pc \in {"loop", "recv"}
           /\ mark' \in 0 .. Len(out) /\ Len(out) \in Nat
<1>1. Len(out) \in Nat /\ mark \in 0 .. Len(out) /\ sent \in Nat /\ binds \in Nat
      /\ client \in Clients
  BY LenProperties DEF StreamInv, StreamTypes, TypeOK, StreamsOK
<1> QED
  BY <1>1 DEF Sends

\* A message finds a pipeline in flight or parked: it waits in the queue, or is
\* refused.
LEMMA RecvQueuedSafe ==
    ASSUME StreamInv, NEW k, RecvQueued(k)
    PROVE  StreamInv'
<1>s. /\ k \in Kinds /\ binds' \in Nat
      /\ binds' = IF k = "bind" THEN binds + 1 ELSE binds
      /\ sent' \in Nat /\ client' \in Clients
      /\ pc' = "recv" /\ pc \in {"loop", "recv"}
      /\ mark' \in 0 .. Len(out)
  BY SendsTypes DEF RecvQueued
<1>r. /\ wait # "IDLE" /\ gotSync' \in BOOLEAN
      /\ UNCHANGED <<wait, cur, resp, out>>
  BY DEF RecvQueued, StreamInv, StreamTypes, TypeOK
<1>t. /\ StreamTypes /\ StreamsOK /\ PendingOK /\ QueueOK /\ ControlOK
      /\ binds \in Nat /\ Torn = -1 /\ cur \in 0 .. binds /\ resp \in Torn .. binds
      /\ wait \in {"IDLE", "FLIGHT", "PARKED"}
      /\ Len(feq) <= FeQMax /\ FeQMax \in Nat
      /\ Shown \subseteq 1 .. binds
  BY StreamAssumption DEF StreamInv, StreamTypes, TypeOK, Torn, StreamsOK
<1>f. /\ feq \in Seq([kind : Kinds, of : 0 .. binds]) /\ Len(feq) \in Nat
      /\ \A i \in 1 .. Len(feq) : feq[i].of \in 0 .. binds
  BY <1>t, QueueTyped
<1> DEFINE T == [kind : Kinds, of : 0 .. binds']
<1>g. feq \in Seq(T)
  <2>1. [kind : Kinds, of : 0 .. binds] \subseteq T
    BY <1>s, <1>t
  <2> QED
    BY <1>f, <2>1, SeqMonotonic
<1>i. /\ Item(k) \in T
      /\ Item(k).of = IF k = "bind" THEN binds + 1 ELSE 0
  BY <1>s, <1>t DEF Item
<1>c. ControlOK'
  BY <1>s, <1>r, <1>t DEF ControlOK
<1>1. CASE Len(feq) < FeQMax
  <2>1. feq' = Append(feq, Item(k)) /\ wire' = wire
    BY <1>1 DEF RecvQueued
  <2> HIDE DEF T
  <2>2. /\ feq' \in Seq(T)
        /\ Len(feq') = Len(feq) + 1
        /\ feq'[Len(feq) + 1] = Item(k)
        /\ \A i \in 1 .. Len(feq) : feq'[i] = feq[i]
    BY <1>g, <1>i, <2>1, QueueAppended
  <2>3. \A i \in 1 .. Len(feq') :
           \/ i \in 1 .. Len(feq) /\ feq'[i] = feq[i]
           \/ i = Len(feq) + 1 /\ feq'[i] = Item(k)
    BY <1>f, <2>2
  <2>4. QueueOK'
    <3>1. ASSUME NEW i \in 1 .. Len(feq'), feq'[i].of > 0
          PROVE  cur' < feq'[i].of /\ resp' < feq'[i].of
      <4>1. CASE i \in 1 .. Len(feq)
        BY <1>r, <1>t, <2>2, <3>1, <4>1 DEF QueueOK
      <4>2. CASE i = Len(feq) + 1
        <5>1. feq'[i].of = binds + 1
          BY <1>i, <2>2, <3>1, <4>2
        <5> QED
          BY <1>r, <1>t, <5>1
      <4> QED
        BY <2>3, <4>1, <4>2
    <3>2. ASSUME NEW i \in 1 .. Len(feq'), NEW j \in 1 .. Len(feq'),
                 i < j, feq'[i].of > 0, feq'[j].of > 0
          PROVE  feq'[i].of < feq'[j].of
      <4>1. i \in 1 .. Len(feq) /\ feq'[i] = feq[i]
        BY <1>f, <2>2, <2>3, <3>2
      <4>2. CASE j \in 1 .. Len(feq)
        BY <1>t, <2>2, <3>2, <4>1, <4>2 DEF QueueOK
      <4>3. CASE j = Len(feq) + 1
        BY <1>i, <1>t, <1>f, <2>2, <3>2, <4>1, <4>3
      <4> QED
        BY <2>3, <4>2, <4>3
    <3> QED
      BY <3>1, <3>2 DEF QueueOK
  <2>5. Pending' \subseteq Pending \union {0, Torn, binds + 1}
    BY <1>i, <1>r, <2>3 DEF Pending
  <2>6. Shown' = Shown /\ Results(out)' = Results(out)
    BY <1>r, <2>1 DEF Shown
  <2>7. PendingOK'
    BY <2>5, <2>6, StillPending
  <2>8. StreamsOK'
    <3>1. Shown' \subseteq 1 .. binds'
      BY <1>s, <1>t, <2>6
    <3> QED
      BY <1>r, <1>t, <2>1, <3>1 DEF StreamsOK
  <2>9. StreamTypes'
    BY <1>1, <1>s, <1>r, <1>t, <1>f, <2>2 DEF StreamTypes, TypeOK, T
  <2> QED
    BY <1>c, <2>4, <2>7, <2>8, <2>9 DEF StreamInv
<1>2. CASE ~(Len(feq) < FeQMax)
  <2>1. /\ feq' = feq
        /\ wire' = wire \o (CASE k = "parse" -> <<Error(0)>>
                              [] k \in {"bind", "query"} -> <<Error(Item(k).of), Ready>>
                              [] OTHER -> <<>>)
    BY <1>2 DEF RecvQueued
  <2>2. PICK t \in Seq(Replies) :
           /\ wire' = wire \o t /\ InOrder(t) /\ Results(t) = {}
           /\ Outcomes(t) \subseteq {Item(k).of} \intersect Positive
    <3>1. CASE k = "parse"
      <4>1. wire' = wire \o <<Error(0)>>
        BY <2>1, <3>1
      <4> QED
        BY <4>1, OwnReplies, OneReply DEF Positive
    <3>2. CASE k \in {"bind", "query"}
      <4>1. wire' = wire \o <<Error(Item(k).of), Ready>>
        BY <2>1, <3>2
      <4>2. Item(k).of \in Int
        BY <1>t, <1>i
      <4> QED
        BY <4>1, <4>2, OutcomeReplies, ReplyAndReady
    <3>3. CASE k \notin {"parse", "bind", "query"}
      <4>1. wire' = wire \o <<>>
        BY <2>1, <3>3
      <4> QED
        BY <4>1, NoReply
    <3> QED
      BY <3>1, <3>2, <3>3
  <2>3. \A n \in Outcomes(t) : n = binds + 1 /\ binds' = binds + 1
    BY <1>s, <1>t, <1>i, <2>2 DEF Positive
  <2>4. /\ Outcomes(t) \subseteq 1 .. binds'
        /\ Outcomes(t) \intersect Shown = {}
        /\ binds' \in {binds, binds + 1}
    BY <1>s, <1>t, <2>3
  <2>5. /\ StreamsOK'
        /\ Shown' = Shown \union Outcomes(t)
        /\ Results(out)' = Results(out)
    BY <1>r, <1>t, <2>2, <2>4, ToWire
  <2>6. Pending' = Pending /\ \A n \in Pending : n \in Torn .. binds
    BY <1>r, <1>t, <1>f, <2>1 DEF Pending
  <2>7. PendingOK'
    <3>1. \A n \in Pending : n \notin Outcomes(t)
      BY <1>t, <2>3, <2>6
    <3> QED
      BY <1>t, <2>5, <2>6, <3>1 DEF PendingOK
  <2>8. QueueOK'
    BY <1>r, <1>t, <2>1 DEF QueueOK
  <2>9. StreamTypes'
    BY <1>s, <1>r, <1>t, <1>g, <2>1 DEF StreamTypes, TypeOK
  <2> QED
    BY <1>c, <2>5, <2>7, <2>8, <2>9 DEF StreamInv
<1> QED
  BY <1>1, <1>2

\* No Bind is waiting but the one that is started or parked now.
LEMMA FreshBindSafe ==
    ASSUME StreamInv, RecvBindStart \/ RecvBindPark
    PROVE  StreamInv'
<1>s. /\ "bind" \in Kinds /\ binds' = binds + 1 /\ binds' \in Nat
      /\ sent' \in Nat /\ client' \in Clients
      /\ pc' = "recv" /\ pc \in {"loop", "recv"}
      /\ mark' \in 0 .. Len(out)
  BY SendsTypes DEF RecvBindStart, RecvBindPark
<1>t. /\ StreamTypes /\ StreamsOK /\ PendingOK /\ ControlOK
      /\ binds \in Nat /\ Torn = -1
      /\ FeQMax \in Nat \ {0} /\ wait = "IDLE" /\ feq = <<>> /\ cur = 0
      /\ Shown \subseteq 1 .. binds
  BY <1>s, StreamAssumption DEF StreamInv, StreamTypes, TypeOK, Torn, StreamsOK,
     ControlOK, RecvBindStart, RecvBindPark
<1>r. /\ UNCHANGED <<wire, out>>
      /\ resp' = 0 /\ gotSync' = FALSE
  BY DEF RecvBindStart, RecvBindPark, StartBind
<1>1. /\ Shown' = Shown /\ Results(out)' = Results(out)
  BY <1>r DEF Shown
<1>2. StreamsOK'
  <2>1. Shown' \subseteq 1 .. binds'
    BY <1>s, <1>t, <1>1
  <2> QED
    BY <1>r, <1>t, <2>1 DEF StreamsOK
<1>3. CASE RecvBindStart
  <2>1. feq' = <<>> /\ Len(feq') = 0 /\ cur' = binds + 1 /\ wait' = "FLIGHT"
    BY <1>3, <1>t, EmptySeq DEF RecvBindStart, StartBind
  <2>2. Pending' \subseteq Pending \union {0, Torn, binds + 1}
    BY <1>r, <2>1 DEF Pending
  <2>3. PendingOK'
    BY <1>1, <2>2, StillPending
  <2>4. QueueOK' /\ ControlOK'
    BY <1>s, <2>1 DEF QueueOK, ControlOK
  <2>5. StreamTypes'
    <3>1. feq' \in Seq([kind : Kinds, of : 0 .. binds'])
      BY <2>1, EmptySeq
    <3>2. /\ cur' \in 0 .. binds' /\ resp' \in Torn .. binds'
          /\ Len(feq') <= FeQMax
      BY <1>s, <1>r, <1>t, <2>1
    <3>3. mark' \in 0 .. Len(out')
      BY <1>s, <1>r
    <3> QED
      BY <1>s, <1>r, <2>1, <3>1, <3>2, <3>3 DEF StreamTypes, TypeOK
  <2> QED
    BY <1>2, <2>3, <2>4, <2>5 DEF StreamInv
<1>4. CASE RecvBindPark
  <2> DEFINE T == [kind : Kinds, of : 0 .. binds']
  <2>1. feq' = Append(feq, Item("bind")) /\ cur' = 0 /\ wait' = "PARKED"
    BY <1>4, <1>t DEF RecvBindPark
  <2>2. Item("bind") \in T /\ Item("bind").of = binds + 1
    BY <1>s, <1>t DEF Item
  <2> HIDE DEF T
  <2>3. feq \in Seq(T) /\ Len(feq) = 0
    BY <1>t, EmptySeq
  <2>4. feq' \in Seq(T) /\ Len(feq') = 1 /\ feq'[1] = Item("bind")
    BY <2>1, <2>2, <2>3, QueueAppended
  <2>5. \A i \in 1 .. Len(feq') : i = 1 /\ feq'[i].of = binds + 1
    BY <2>2, <2>4
  <2>6. Pending' \subseteq Pending \union {0, Torn, binds + 1}
    BY <1>r, <2>1, <2>5 DEF Pending
  <2>7. PendingOK'
    BY <1>1, <2>6, StillPending
  <2>8. QueueOK'
    BY <1>r, <1>t, <2>1, <2>5 DEF QueueOK
  <2>9. ControlOK'
    BY <1>s, <2>1 DEF ControlOK
  <2>10. StreamTypes'
    <3>1. /\ cur' \in 0 .. binds' /\ resp' \in Torn .. binds'
          /\ Len(feq') <= FeQMax
      BY <1>s, <1>r, <1>t, <2>1, <2>4
    <3>2. mark' \in 0 .. Len(out')
      BY <1>s, <1>r
    <3> QED
      BY <1>s, <1>r, <2>1, <2>4, <3>1, <3>2 DEF StreamTypes, TypeOK, T
  <2> QED
    BY <1>2, <2>7, <2>8, <2>9, <2>10 DEF StreamInv
<1> QED
  BY <1>3, <1>4

\* The backend answers with a result, an error, or not at all.
LEMMA BackendAnswersSafe ==
    ASSUME StreamInv, BackendAnswers
    PROVE  StreamInv'
<1>t. /\ StreamTypes /\ binds \in Nat /\ cur \in 0 .. binds /\ Torn = -1
      /\ feq \in Seq([kind : Kinds, of : 0 .. binds]) /\ Len(feq) <= FeQMax
      /\ FeQMax \in Nat /\ mark \in 0 .. Len(out) /\ Len(out) \in Nat
      /\ sent \in Nat /\ client \in Clients
  BY LenProperties, StreamAssumption
     DEF StreamInv, StreamTypes, StreamsOK, TypeOK, Torn
<1>r. /\ UNCHANGED <<client, sent, binds, mark>>
      /\ wait' = "IDLE" /\ cur' = 0 /\ gotSync' = FALSE /\ pc' = "drain"
      /\ wire' = <<>>
  BY DEF BackendAnswers, BeComplete, BeError, BeFail, Released, Drained, clientVars
<1>1. PICK t \in Seq(Replies) :
         /\ out' = out \o t /\ InOrder(t)
         /\ Outcomes(t) \subseteq {cur} \intersect Positive
         /\ Results(t) \subseteq Outcomes(t)
         /\ resp' = 0 \/ (resp' = cur /\ Outcomes(t) = {})
  <2>o. /\ <<BindComplete>> \in Seq(Replies) /\ InOrder(<<BindComplete>>)
        /\ Outcomes(<<BindComplete>>) = {} /\ Results(<<BindComplete>>) = {}
    BY OwnReplies, OneReply DEF Positive
  <2>1. CASE BeComplete /\ gotSync
    <3> DEFINE u == <<Result(cur), Ready>>
               t == u \o <<BindComplete>>
    <3>1. out' = out \o t /\ resp' = 0
      BY <2>1 DEF BeComplete, Drained
    <3>2. /\ u \in Seq(Replies) /\ InOrder(u)
          /\ Outcomes(u) = {cur} \intersect Positive
          /\ Results(u) \subseteq Outcomes(u)
      BY <1>t, OutcomeReplies, ReplyAndReady
    <3> HIDE DEF u
    <3>3. /\ t \in Seq(Replies) /\ InOrder(t)
          /\ Outcomes(t) = Outcomes(u) \union Outcomes(<<BindComplete>>)
          /\ Results(t) = Results(u) \union Results(<<BindComplete>>)
      <4>1. /\ Outcomes(u) \intersect Outcomes(<<BindComplete>>) = {}
            /\ \A m \in Results(u), n \in Results(<<BindComplete>>) : m < n
        BY <2>o
      <4> QED
        BY <2>o, <3>2, <4>1, JoinInOrder
    <3> HIDE DEF t
    <3> QED
      BY <2>o, <3>1, <3>2, <3>3
  <2>2. CASE BeComplete /\ ~gotSync
    <3>1. out' = out \o (<<>> \o <<BindComplete>>) /\ resp' = cur
      BY <2>2 DEF BeComplete, Drained
    <3>2. out' = out \o <<BindComplete>>
      BY <2>o, <3>1, ConcatEmptySeq
    <3> QED
      BY <2>o, <3>1, <3>2
  <2>3. CASE BeError \/ BeFail
    <3> DEFINE t == <<Error(cur), Ready>>
    <3>1. out' = out \o t /\ resp' = 0
      BY <2>3 DEF BeError, BeFail, Drained
    <3>2. /\ t \in Seq(Replies) /\ InOrder(t)
          /\ Outcomes(t) = {cur} \intersect Positive
          /\ Results(t) = {}
      BY <1>t, OutcomeReplies, ReplyAndReady
    <3> HIDE DEF t
    <3> QED
      BY <3>1, <3>2
  <2> QED
    BY <2>1, <2>2, <2>3 DEF BackendAnswers
<1>2. feq' \in {feq, <<>>}
  BY DEF BackendAnswers, BeComplete, BeError, BeFail
<1>3. /\ StreamsOK' /\ PendingOK' /\ QueueOK'
      /\ Len(out') >= Len(out)
  BY <1>r, <1>1, <1>2, OutcomeSent
<1>4. ControlOK'
  BY <1>r DEF ControlOK
<1>5. StreamTypes'
  <2>1. feq' \in Seq([kind : Kinds, of : 0 .. binds]) /\ Len(feq') <= FeQMax
    <3>1. <<>> \in Seq([kind : Kinds, of : 0 .. binds]) /\ Len(<<>>) <= FeQMax
      BY <1>t, EmptySeq
    <3> QED
      BY <1>t, <1>2, <3>1
  <2>2. Len(out') \in Nat
    BY <1>3, LenProperties DEF StreamsOK
  <2>3. mark' \in 0 .. Len(out')
    BY <1>t, <1>r, <1>3, <2>2
  <2>4. cur' \in 0 .. binds' /\ resp' \in Torn .. binds'
    BY <1>t, <1>r, <1>1
  <2> QED
    BY <1>t, <1>r, <2>1, <2>3, <2>4 DEF StreamTypes, TypeOK
<1> QED
  BY <1>3, <1>4, <1>5 DEF StreamInv

\* No pipeline is in flight: the message is answered as it comes.
LEMMA RecvAnsweredSafe ==
    ASSUME StreamInv, NEW k, RecvAnswered(k)
    PROVE  StreamInv'
<1>1. /\ k \in Kinds /\ binds' \in Nat
      /\ binds' = IF k = "bind" THEN binds + 1 ELSE binds
      /\ sent' \in Nat /\ client' \in Clients
      /\ pc' = "recv" /\ pc \in {"loop", "recv"}
      /\ mark' \in 0 .. Len(out) /\ Len(out) \in Nat
  BY SendsTypes DEF RecvAnswered
<1>2. Answer(k) /\ wait = "IDLE" /\ UNCHANGED <<wait, cur, feq, gotSync>>
  BY DEF RecvAnswered
<1>3. k # "bind" /\ binds' = binds
  BY <1>1, <1>2 DEF Answer
<1>4. cur = 0
  BY <1>2 DEF StreamInv, ControlOK
<1>5. /\ StreamsOK' /\ PendingOK' /\ QueueOK'
      /\ resp' \in Torn .. binds
      /\ Len(out') >= Len(out)
  BY <1>2, <1>3, <1>4, AnswerKeepsOrder
<1>6. ControlOK'
  BY <1>1, <1>2 DEF StreamInv, ControlOK
<1>7. StreamTypes'
  <2>1. Len(out') \in Nat
    BY <1>5, LenProperties DEF StreamsOK
  <2>2. mark' \in 0 .. Len(out')
    BY <1>1, <1>5, <2>1
  <2> QED
    BY <1>1, <1>2, <1>3, <1>5, <2>2 DEF StreamInv, StreamTypes, TypeOK
<1> QED
  BY <1>5, <1>6, <1>7 DEF StreamInv

\* The wire is drained and the loop goes on; no Bind changes its place.
LEMMA HandlerEnds ==
    ASSUME StreamInv, Drained(wire), pc' = "loop", wait' \in {wait, "PARKED"},
           cur' = 0 \/ wait' = "FLIGHT", UNCHANGED <<cur, feq, gotSync, resp, clientVars>>,
           wait' = "IDLE" => feq = <<>>
    PROVE  StreamInv'
<1>1. /\ StreamsOK' /\ Shown' = Shown /\ Results(out)' = Results(out)
      /\ Len(out') >= Len(out)
  BY WireDrained DEF StreamInv, clientVars
<1>2. PendingOK' /\ QueueOK' /\ ControlOK'
  BY <1>1 DEF StreamInv, PendingOK, Pending, QueueOK, ControlOK
<1>3. Len(out) \in Nat /\ Len(out') \in Nat
  BY <1>1, LenProperties DEF StreamInv, StreamsOK
<1>4. mark' \in 0 .. Len(out')
  BY <1>1, <1>3 DEF StreamInv, StreamTypes, TypeOK, clientVars
<1>5. StreamTypes'
  BY <1>4 DEF StreamInv, StreamTypes, TypeOK, clientVars
<1> QED
  BY <1>1, <1>2, <1>5 DEF StreamInv

\* One message is taken from the queue and answered, or its Bind is started.
LEMMA DrainSafe ==
    ASSUME StreamInv, DrainAnswered \/ DrainBindStart
    PROVE  StreamInv'
<1>t. /\ StreamTypes /\ binds \in Nat /\ pc = "drain" /\ wait = "IDLE" /\ cur = 0
      /\ feq # <<>> /\ feq' = Tail(feq) /\ Torn = -1
      /\ Len(feq) <= FeQMax /\ FeQMax \in Nat
      /\ StreamsOK /\ QueueOK
  BY StreamAssumption DEF StreamInv, StreamTypes, TypeOK, ControlOK, Torn,
     DrainAnswered, DrainBindStart
<1>q. /\ feq' \in Seq([kind : Kinds, of : 0 .. binds])
      /\ Len(feq') = Len(feq) - 1 /\ Len(feq) \in Nat \ {0}
      /\ Head(feq) = feq[1] /\ Head(feq).of \in 0 .. binds
      /\ \A i \in 1 .. Len(feq') : i + 1 \in 1 .. Len(feq) /\ feq'[i] = feq[i + 1]
  <2> DEFINE T == [kind : Kinds, of : 0 .. binds]
  <2>1. feq \in Seq(T)
    BY <1>t, QueueTyped
  <2> HIDE DEF T
  <2>2. /\ feq' \in Seq(T) /\ Head(feq) \in T
        /\ Len(feq') = Len(feq) - 1 /\ Len(feq) \in Nat \ {0}
        /\ Head(feq) = feq[1]
        /\ \A i \in 1 .. Len(feq') : i + 1 \in 1 .. Len(feq) /\ feq'[i] = feq[i + 1]
    BY <1>t, <2>1, QueueTaken
  <2> QED
    BY <2>2 DEF T
<1>u. binds' = binds /\ mark' = mark /\ UNCHANGED <<sent, client>>
  BY DEF DrainAnswered, DrainBindStart, clientVars
<1>m. /\ Len(out) \in Nat /\ mark \in 0 .. Len(out)
      /\ sent \in Nat /\ client \in Clients /\ gotSync \in BOOLEAN
  BY LenProperties DEF StreamInv, StreamTypes, TypeOK, StreamsOK
<1>1. CASE DrainAnswered
  <2>1. Answer(Head(feq).kind) /\ UNCHANGED <<wait, cur, gotSync, pc>>
    BY <1>1 DEF DrainAnswered
  <2>2. /\ StreamsOK' /\ PendingOK' /\ QueueOK'
        /\ resp' \in Torn .. binds
        /\ Len(out') >= Len(out)
    BY <1>t, <1>u, <2>1, AnswerKeepsOrder
  <2>3. ControlOK'
    BY <1>t, <2>1 DEF ControlOK
  <2>4. StreamTypes'
    <3>1. Len(out') \in Nat
      BY <2>2, LenProperties DEF StreamsOK
    <3>2. mark' \in 0 .. Len(out') /\ Len(feq') <= FeQMax
      BY <1>t, <1>q, <1>u, <1>m, <2>2, <3>1
    <3>3. cur' \in 0 .. binds'
      BY <1>t, <1>u, <2>1
    <3> QED
      BY <1>t, <1>q, <1>u, <1>m, <2>1, <2>2, <3>2, <3>3 DEF StreamTypes, TypeOK
  <2> QED
    BY <2>2, <2>3, <2>4 DEF StreamInv
<1>2. CASE DrainBindStart
  <2>1. /\ cur' = Head(feq).of /\ resp' = 0 /\ gotSync' = FALSE
        /\ wait' = "FLIGHT" /\ pc' = "loop" /\ Drained(wire)
    BY <1>2 DEF DrainBindStart, StartBind
  <2>2. /\ StreamsOK' /\ Shown' = Shown /\ Results(out)' = Results(out)
        /\ Len(out') >= Len(out)
    BY <1>t, <1>u, <2>1, WireDrained
  <2>3. /\ 1 \in 1 .. Len(feq)
        /\ \A i \in 1 .. Len(feq') : \E j \in 1 .. Len(feq) : feq'[i] = feq[j]
    BY <1>q
  <2>4. Pending' \subseteq Pending \union {0, Torn, binds + 1}
    BY <1>q, <2>1, <2>3 DEF Pending
  <2>5. PendingOK'
    BY <2>2, <2>4, StillPending
  <2>6. QueueOK'
    <3>1. ASSUME NEW i \in 1 .. Len(feq'), NEW j \in 1 .. Len(feq'),
                 i < j, feq'[i].of > 0, feq'[j].of > 0
          PROVE  feq'[i].of < feq'[j].of
      <4>1. /\ i + 1 \in 1 .. Len(feq) /\ feq'[i] = feq[i + 1]
            /\ j + 1 \in 1 .. Len(feq) /\ feq'[j] = feq[j + 1]
        BY <1>q
      <4>2. i + 1 < j + 1
        BY <3>1
      <4> QED
        BY <1>t, <3>1, <4>1, <4>2 DEF QueueOK
    <3>2. ASSUME NEW i \in 1 .. Len(feq'), feq'[i].of > 0
          PROVE  cur' < feq'[i].of /\ resp' < feq'[i].of
      <4>1. i + 1 \in 1 .. Len(feq) /\ feq'[i] = feq[i + 1] /\ 1 < i + 1
        BY <1>q
      <4>2. CASE Head(feq).of > 0
        BY <1>t, <1>q, <2>1, <2>3, <3>2, <4>1, <4>2 DEF QueueOK
      <4>3. CASE Head(feq).of = 0
        BY <2>1, <3>2, <4>3
      <4> QED
        BY <1>q, <4>2, <4>3
    <3> QED
      BY <3>1, <3>2 DEF QueueOK
  <2>7. ControlOK'
    BY <2>1 DEF ControlOK
  <2>8. StreamTypes'
    <3>1. Len(out') \in Nat
      BY <2>2, LenProperties DEF StreamsOK
    <3>2. mark' \in 0 .. Len(out') /\ Len(feq') <= FeQMax
      BY <1>t, <1>q, <1>u, <1>m, <2>2, <3>1
    <3>3. cur' \in 0 .. binds' /\ resp' \in Torn .. binds'
      BY <1>t, <1>q, <1>u, <2>1
    <3> QED
      BY <1>t, <1>q, <1>u, <1>m, <2>1, <3>2, <3>3 DEF StreamTypes, TypeOK
  <2> QED
    BY <2>2, <2>5, <2>6, <2>7, <2>8 DEF StreamInv
<1> QED
  BY <1>1, <1>2

LEMMA StreamStep == StreamInv /\ [Next]_vars => StreamInv'
<1> SUFFICES ASSUME StreamInv, [Next]_vars PROVE StreamInv'
  OBVIOUS
<1>1. CASE Recv
  <2>1. CASE \E k \in Kinds : RecvQueued(k) \/ RecvAnswered(k)
    BY <2>1, RecvQueuedSafe, RecvAnsweredSafe
  <2>2. CASE RecvBindStart \/ RecvBindPark
    BY <2>2, FreshBindSafe
  <2>3. CASE RecvEnd
    <3>1. /\ wait = "FLIGHT" \/ cur = 0
          /\ wait = "IDLE" => feq = <<>>
      BY <2>3 DEF RecvEnd, StreamInv, ControlOK
    <3> QED
      BY <2>3, <3>1, HandlerEnds DEF RecvEnd
  <2> QED
    BY <1>1, <2>1, <2>2, <2>3 DEF Recv
<1>2. CASE BePartial
  <2>1. /\ resp' = cur
        /\ UNCHANGED <<wait, cur, feq, gotSync, wire, out, pc, clientVars>>
    BY <1>2 DEF BePartial
  <2>2. Shown' = Shown /\ Results(out)' = Results(out)
    BY <2>1 DEF Shown
  <2>3. Pending' \subseteq Pending
    BY <2>1 DEF Pending
  <2>4. StreamsOK' /\ ControlOK'
    BY <2>1, <2>2 DEF StreamInv, StreamsOK, ControlOK, clientVars
  <2>5. PendingOK'
    BY <2>2, <2>3, StillPending
  <2>6. QueueOK'
    BY <2>1 DEF StreamInv, QueueOK
  <2>7. StreamTypes'
    <3>1. resp' \in Torn .. binds'
      BY <2>1 DEF StreamInv, StreamTypes, TypeOK, Torn, clientVars
    <3> QED
      BY <2>1, <3>1 DEF StreamInv, StreamTypes, TypeOK, clientVars
  <2> QED
    BY <2>4, <2>5, <2>6, <2>7 DEF StreamInv
<1>3. CASE BackendAnswers
  BY <1>3, BackendAnswersSafe
<1>4. CASE Grant
  <2>1. /\ wait = "PARKED" /\ wait' = "IDLE" /\ pc' = "drain"
        /\ UNCHANGED <<cur, feq, gotSync, resp, wire, out, clientVars>>
    BY <1>4 DEF Grant
  <2>2. StreamsOK' /\ PendingOK' /\ QueueOK'
    BY <2>1 DEF StreamInv, StreamsOK, PendingOK, Pending, Shown, QueueOK, clientVars
  <2>3. StreamTypes' /\ ControlOK'
    BY <2>1 DEF StreamInv, StreamTypes, TypeOK, ControlOK, clientVars
  <2> QED
    BY <2>2, <2>3 DEF StreamInv
<1>5. CASE Drain
  <2>1. CASE DrainAnswered \/ DrainBindStart
    BY <2>1, DrainSafe
  <2>2. CASE DrainBindPark \/ DrainEnd
    <3>1. cur = 0 /\ wait = "IDLE"
      BY <2>2 DEF DrainBindPark, DrainEnd, StreamInv, ControlOK
    <3> QED
      BY <2>2, <3>1, HandlerEnds DEF DrainBindPark, DrainEnd
  <2> QED
    BY <1>5, <2>1, <2>2 DEF Drain
<1>6. CASE UNCHANGED vars
  BY <1>6 DEF vars, loopVars, clientVars, StreamInv, StreamTypes, TypeOK, StreamsOK,
     PendingOK, Pending, Shown, QueueOK, ControlOK
<1> QED
  BY <1>1, <1>2, <1>3, <1>4, <1>5, <1>6 DEF Next

LEMMA StreamInit == Init => StreamInv
<1> SUFFICES ASSUME Init PROVE StreamInv
  OBVIOUS
<1>1. /\ out = <<>> /\ wire = <<>> /\ feq = <<>> /\ cur = 0 /\ resp = 0 /\ binds = 0
      /\ Len(feq) = 0 /\ Len(out) = 0
      /\ feq \in Seq([kind : Kinds, of : 0 .. binds])
  BY EmptySeq DEF Init
<1>2. StreamsOK /\ Shown = {} /\ Results(out) = {}
  BY <1>1, NoReply DEF StreamsOK, Shown
<1>3. PendingOK /\ QueueOK /\ ControlOK
  BY <1>1, <1>2 DEF PendingOK, QueueOK, ControlOK, Init
<1>4. StreamTypes
  <2>1. /\ 0 \in 0 .. binds /\ 0 \in Torn .. binds /\ 0 \in 0 .. Len(out)
        /\ Len(feq) <= FeQMax /\ binds \in Nat
    BY <1>1, StreamAssumption DEF Torn
  <2> QED
    BY <1>1, <2>1 DEF StreamTypes, TypeOK, Init
<1> QED
  BY <1>2, <1>3, <1>4 DEF StreamInv

LEMMA StreamAlways == Spec => []StreamInv
<1>1. StreamInv /\ [Next]_vars => StreamInv'
  BY StreamStep
<1> QED
  BY StreamInit, <1>1, PTL DEF Spec

\* Whatever the client sends and however it races with the backend, a Bind is
\* answered at most once, and results are sent in the order of their Binds
\* (be_resp, got_sync and fe_q between process_frontend and drain_fe_queue).
THEOREM OutcomesInOrder == Spec => []OutcomeOnceInOrder
<1>1. StreamInv => OutcomeOnceInOrder
  BY DEF StreamInv, StreamsOK, InOrder, OutcomeOnceInOrder
<1> QED
  BY <1>1, StreamAlways, PTL

\* The queue never holds more than FE_Q_MAX messages, nor one the client has
\* not sent (feq_push, and the Bind that is put back).
THEOREM StreamTypeCorrect == Spec => []TypeOK
<1>1. StreamInv => TypeOK
  BY DEF StreamInv, StreamTypes
<1> QED
  BY <1>1, StreamAlways, PTL

-----------------------------------------------------------------------------
(* A client that waits for the reply to its Sync: one Bind in a batch.      *)

Execute == [kind |-> "execute", of |-> 0]
Sync == [kind |-> "sync", of |-> 0]
LatestBind == [kind |-> "bind", of |-> binds]

\* The batch has no ReadyForQuery yet, and its Bind no outcome.
BatchOpen ==
    /\ binds > 0
    /\ ~Contains(wire, Ready)
    /\ last = "sync" => Awaiting

\* The Bind waits for a backend, what followed it is queued behind it.
Queued ==
    /\ BatchOpen
    /\ wait = "PARKED" \/ pc = "drain"
    /\ resp = 0
    /\ \/ last = "bind" /\ feq = <<LatestBind>>
       \/ last = "execute" /\ feq = <<LatestBind, Execute>>
       \/ last = "sync" /\ feq = <<LatestBind, Execute, Sync>>

\* A backend is at work on the Bind.
Started ==
    /\ BatchOpen
    /\ wait = "FLIGHT"
    /\ cur = binds
    /\ \/ last = "bind" /\ feq = <<>>
       \/ last = "execute" /\ feq = <<Execute>>
       \/ last = "sync" /\ feq = <<Execute, Sync>>

\* Its reply is held; the Sync that fetches it is queued, or has yet to come.
Held ==
    /\ wait = "IDLE"
    /\ binds > 0 /\ resp = binds
    /\ \/ last \in {"bind", "execute"} /\ feq \in {<<>>, <<Execute>>}
       \/ last = "sync" /\ feq \in {<<Execute, Sync>>, <<Sync>>}

\* Every Bind so far has its outcome.
Settled ==
    /\ wait = "IDLE"
    /\ resp = 0
    /\ binds > 0 => binds \in Outcomes(out)
    /\ feq \in {<<>>, <<Execute>>, <<Sync>>, <<Execute, Sync>>}

WaitInv ==
    client = "waits" =>
        /\ Queued \/ Started \/ Held \/ Settled
        /\ \A n \in 1 .. binds - 1 : n \in Outcomes(out)
        /\ pc = "recv" /\ Contains(wire, Ready) => Awaiting
        /\ pc = "loop" => wire = <<>>

\* A sequence that is another one and a last element.
LEMMA AppendIs ==
    ASSUME NEW T, NEW u \in Seq(T), NEW x \in T, NEW w \in Seq(T),
           Len(w) = Len(u) + 1, w[Len(u) + 1] = x, \A i \in 1 .. Len(u) : w[i] = u[i]
    PROVE  Append(u, x) = w
<1> DEFINE v == Append(u, x)
<1>1. /\ Len(u) \in Nat /\ v \in Seq(T) /\ Len(v) = Len(u) + 1
      /\ \A i \in 1 .. Len(u) : v[i] = u[i]
      /\ v[Len(u) + 1] = x
  BY LenProperties, AppendProperties
<1> HIDE DEF v
<1>2. \A i \in 1 .. Len(v) : v[i] = w[i]
  BY <1>1
<1>3. v = w
  BY <1>1, <1>2, SeqEqual
<1> QED
  BY <1>3 DEF v

\* The queue of a batch, as it grows and is taken from.
LEMMA BatchQueue ==
    ASSUME NEW b, NEW e, NEW s
    PROVE  /\ Append(<<>>, b) = <<b>> /\ Append(<<b>>, e) = <<b, e>>
           /\ Append(<<b, e>>, s) = <<b, e, s>>
           /\ Head(<<b>>) = b /\ Head(<<b, e>>) = b /\ Head(<<b, e, s>>) = b
           /\ Tail(<<b>>) = <<>> /\ Tail(<<b, e>>) = <<e>> /\ Tail(<<b, e, s>>) = <<e, s>>
           /\ Len(<<>>) = 0 /\ Len(<<b>>) = 1 /\ Len(<<b, e>>) = 2
           /\ <<b>> # <<>> /\ <<b, e>> # <<>> /\ <<b, e, s>> # <<>>
<1>1. Append(<<>>, b) = <<b>>
  OBVIOUS
<1>2. Append(<<b>>, e) = <<b, e>>
  <2>1. SUFFICES ASSUME NEW T, T = {b, e, s}, NEW u, u = <<b>>, NEW w, w = <<b, e>>
                 PROVE  Append(u, e) = w
    OBVIOUS
  <2>2. u \in Seq(T) /\ Len(u) = 1 /\ e \in T
    BY <2>1
  <2>3. w \in Seq(T) /\ Len(w) = 2
    BY <2>1
  <2>4. w[1] = u[1] /\ w[2] = e
    BY <2>1
  <2>5. Len(w) = Len(u) + 1 /\ w[Len(u) + 1] = e /\ \A i \in 1 .. Len(u) : w[i] = u[i]
    BY <2>2, <2>3, <2>4
  <2> QED
    BY <2>2, <2>3, <2>5, AppendIs
<1>3. Append(<<b, e>>, s) = <<b, e, s>>
  <2>1. SUFFICES ASSUME NEW T, T = {b, e, s}, NEW u, u = <<b, e>>, NEW w, w = <<b, e, s>>
                 PROVE  Append(u, s) = w
    OBVIOUS
  <2>2. u \in Seq(T) /\ Len(u) = 2 /\ s \in T
    BY <2>1
  <2>3. w \in Seq(T) /\ Len(w) = 3
    BY <2>1
  <2>4. w[1] = u[1] /\ w[2] = u[2] /\ w[3] = s
    BY <2>1
  <2>5. Len(w) = Len(u) + 1 /\ w[Len(u) + 1] = s /\ \A i \in 1 .. Len(u) : w[i] = u[i]
    BY <2>2, <2>3, <2>4
  <2> QED
    BY <2>2, <2>3, <2>5, AppendIs
<1>4. Head(<<b>>) = b /\ Head(<<b, e>>) = b /\ Head(<<b, e, s>>) = b
  OBVIOUS
<1>5. Tail(<<b>>) = <<>>
  OBVIOUS
<1>6. Tail(<<b, e>>) = <<e>>
  OBVIOUS
<1>7. Tail(<<b, e, s>>) = <<e, s>>
  OBVIOUS
<1>8. Len(<<>>) = 0 /\ Len(<<b>>) = 1 /\ Len(<<b, e>>) = 2
  OBVIOUS
<1>9. <<b>> # <<>> /\ <<b, e>> # <<>> /\ <<b, e, s>> # <<>>
  OBVIOUS
<1> QED
  BY <1>1, <1>2, <1>3, <1>4, <1>5, <1>6, <1>7, <1>8, <1>9

\* What is sent is added to the outcomes.
LEMMA JoinOutcomes ==
    ASSUME NEW s \in Seq(Replies), NEW t \in Seq(Replies)
    PROVE  Outcomes(s \o t) = Outcomes(s) \union Outcomes(t)
<1> DEFINE u == s \o t
<1>1. /\ Len(s) \in Nat /\ Len(t) \in Nat
      /\ Len(u) = Len(s) + Len(t)
      /\ \A i \in 1 .. Len(s) + Len(t) :
            u[i] = IF i <= Len(s) THEN s[i] ELSE t[i - Len(s)]
  BY ConcatProperties, LenProperties
<1> HIDE DEF u
<1>2. \A i \in 1 .. Len(s) : i \in 1 .. Len(u) /\ u[i] = s[i]
  BY <1>1
<1>3. ASSUME NEW i \in 1 .. Len(t)
      PROVE  Len(s) + i \in 1 .. Len(u) /\ u[Len(s) + i] = t[i]
  <2>1. /\ Len(s) + i \in 1 .. Len(s) + Len(t)
        /\ ~(Len(s) + i <= Len(s))
        /\ (Len(s) + i) - Len(s) = i
    BY <1>1
  <2> QED
    BY <1>1, <2>1
<1>4. \A i \in 1 .. Len(u) :
         \/ i \in 1 .. Len(s) /\ u[i] = s[i]
         \/ i - Len(s) \in 1 .. Len(t) /\ u[i] = t[i - Len(s)]
  BY <1>1
<1>5. Outcomes(s) \subseteq Outcomes(u)
  BY <1>2 DEF Outcomes
<1>6. Outcomes(t) \subseteq Outcomes(u)
  BY <1>3 DEF Outcomes
<1>7. Outcomes(u) \subseteq Outcomes(s) \union Outcomes(t)
  BY <1>4 DEF Outcomes
<1> QED
  BY <1>5, <1>6, <1>7 DEF u

\* The client goes on waiting until a ReadyForQuery is sent to it.
LEMMA StillAwaiting ==
    ASSUME out \in Seq(Replies), mark \in 0 .. Len(out), mark' = mark, last' = last,
           NEW t \in Seq(Replies), ~Contains(t, Ready), out' = out \o t, Awaiting
    PROVE  Awaiting'
<1> DEFINE u == out \o t
<1>1. /\ Len(out) \in Nat /\ Len(t) \in Nat /\ u \in Seq(Replies)
      /\ Len(u) = Len(out) + Len(t)
      /\ \A i \in 1 .. Len(out) + Len(t) :
            u[i] = IF i <= Len(out) THEN out[i] ELSE t[i - Len(out)]
  BY ConcatProperties, LenProperties
<1> HIDE DEF u
<1>2. mark \in 0 .. Len(u)
  BY <1>1
<1>3. /\ Len(SubSeq(u, mark + 1, Len(u))) = Len(u) - mark
      /\ \A i \in 1 .. Len(u) - mark : SubSeq(u, mark + 1, Len(u))[i] = u[mark + i]
  BY <1>1, <1>2, CutAt
<1>4. /\ Len(SubSeq(out, mark + 1, Len(out))) = Len(out) - mark
      /\ \A i \in 1 .. Len(out) - mark : SubSeq(out, mark + 1, Len(out))[i] = out[mark + i]
  BY CutAt
<1>5. ASSUME NEW i \in 1 .. Len(u) - mark, u[mark + i] = Ready
      PROVE  FALSE
  <2>1. CASE mark + i <= Len(out)
    <3>1. i \in 1 .. Len(out) - mark /\ out[mark + i] = Ready
      BY <1>1, <1>5, <2>1
    <3> QED
      BY <1>4, <3>1 DEF Awaiting, Contains
  <2>2. CASE mark + i > Len(out)
    <3>1. /\ mark + i - Len(out) \in 1 .. Len(t)
          /\ t[mark + i - Len(out)] = Ready
      BY <1>1, <1>5, <2>2
    <3> QED
      BY <3>1 DEF Contains
  <2> QED
    BY <1>1, <2>1, <2>2
<1>6. ~Contains(SubSeq(u, mark + 1, Len(u)), Ready)
  BY <1>3, <1>5 DEF Contains
<1> QED
  BY <1>6 DEF Awaiting, u

\* It waits from the moment it sends its Sync or Query.
LEMMA AwaitingBegins ==
    ASSUME out \in Seq(Replies), out' = out, mark' = Len(out), last' \in {"sync", "query"}
    PROVE  Awaiting'
<1>1. Len(out) \in Nat /\ Len(out) \in 0 .. Len(out)
  BY LenProperties
<1>2. Len(SubSeq(out, Len(out) + 1, Len(out))) = 0
  BY <1>1, CutAt
<1>3. ~Contains(SubSeq(out, Len(out) + 1, Len(out)), Ready)
  BY <1>2 DEF Contains
<1> QED
  BY <1>3 DEF Awaiting

\* What the steps below need of StreamInv.
LEMMA WaitTypes ==
    ASSUME StreamInv
    PROVE  /\ out \in Seq(Replies) /\ wire \in Seq(Replies)
           /\ Len(out) \in Nat /\ mark \in 0 .. Len(out)
           /\ binds \in Nat /\ cur \in 0 .. binds
           /\ wait = "IDLE" /\ pc \in {"loop", "recv"} => feq = <<>>
           /\ pc = "drain" => wait = "IDLE"
           /\ wait \in {"IDLE", "FLIGHT", "PARKED"}
           /\ pc \in {"loop", "recv", "drain"}
BY LenProperties DEF StreamInv, StreamTypes, TypeOK, StreamsOK, ControlOK

\* When the client sends, nothing on the frontend wire ends its batch; one Bind
\* is followed by its Execute and its Sync before the next.
LEMMA WaitSends ==
    ASSUME StreamInv, WaitInv, client = "waits", NEW k, Sends(k)
    PROVE  /\ pc \in {"loop", "recv"} /\ pc' = "recv" /\ last' = k /\ client' = client
           /\ ~Awaiting /\ ~Contains(wire, Ready)
           /\ binds' = IF k = "bind" THEN binds + 1 ELSE binds
           /\ last = "bind" => k = "execute"
           /\ last = "execute" => k = "sync"
           /\ out' = out /\ k \in {"sync", "query"} => Awaiting'
           /\ k \in MessageKinds
<1>1. /\ pc \in {"loop", "recv"} /\ pc' = "recv" /\ last' = k /\ client' = client
      /\ ~Awaiting
      /\ binds' = IF k = "bind" THEN binds + 1 ELSE binds
      /\ k \in Follows[last]
      /\ mark' = IF k \in {"sync", "query"} THEN Len(out) ELSE mark
      /\ k \in MessageKinds
  BY StreamAssumption DEF Sends, Pipelined
<1>2. ~Contains(wire, Ready)
  <2>1. ~Contains(<<>>, Ready)
    BY DEF Contains
  <2> QED
    BY <1>1, <2>1 DEF WaitInv
<1>3. /\ last = "bind" => k = "execute"
      /\ last = "execute" => k = "sync"
  BY <1>1 DEF Follows, Pipelined
<1>4. ASSUME out' = out, k \in {"sync", "query"} PROVE Awaiting'
  BY <1>1, <1>4, WaitTypes, AwaitingBegins
<1> QED
  BY <1>1, <1>2, <1>3, <1>4

\* A reply other than ReadyForQuery is added to the wire.
LEMMA WireTakes ==
    ASSUME NEW s \in Seq(Replies), ~Contains(s, Ready), NEW r \in Replies, r # Ready
    PROVE  ~Contains(Append(s, r), Ready)
BY AppendHas

\* Earlier Binds keep their outcomes.
LEMMA OutcomesGrow ==
    ASSUME out \in Seq(Replies), NEW t \in Seq(Replies), out' = out \o t
    PROVE  Outcomes(out)' = Outcomes(out) \union Outcomes(t)
BY JoinOutcomes

\* A pipeline is in flight or parked: the queue has room for what the client
\* that waits can send, the Execute and the Sync of its Bind.
LEMMA WaitQueued ==
    ASSUME StreamInv, WaitInv, client = "waits", FeQMax >= 3, NEW k, RecvQueued(k)
    PROVE  WaitInv'
<1>1. /\ pc' = "recv" /\ last' = k /\ client' = client /\ ~Awaiting /\ ~Contains(wire, Ready)
      /\ pc \in {"loop", "recv"}
      /\ binds' = IF k = "bind" THEN binds + 1 ELSE binds
      /\ last = "bind" => k = "execute"
      /\ last = "execute" => k = "sync"
      /\ out' = out /\ k \in {"sync", "query"} => Awaiting'
  BY WaitSends DEF RecvQueued
<1>2. /\ wait # "IDLE" /\ UNCHANGED <<wait, cur, resp, out>>
      /\ Len(feq) < FeQMax => feq' = Append(feq, Item(k)) /\ wire' = wire
  BY DEF RecvQueued
<1>3. (last = "bind" /\ k = "execute") \/ (last = "execute" /\ k = "sync")
  BY <1>1, <1>2 DEF WaitInv, Queued, Started, BatchOpen, Held, Settled
<1>4. /\ binds' = binds /\ LatestBind' = LatestBind
      /\ k = "execute" => Item(k) = Execute
      /\ k = "sync" => Item(k) = Sync
  BY <1>1, <1>3 DEF LatestBind, Item, Execute, Sync
<1>5. k = "sync" => Awaiting'
  BY <1>1, <1>2
<1>f. FeQMax \in Nat
  BY StreamAssumption
<1>6. CASE Queued
  <2>1. /\ last = "bind" => feq = <<LatestBind>>
        /\ last = "execute" => feq = <<LatestBind, Execute>>
        /\ BatchOpen /\ resp = 0 /\ wait = "PARKED"
    BY <1>1, <1>2, <1>3, <1>6, WaitTypes DEF Queued
  <2>2. Len(feq) < FeQMax
    <3>1. Len(feq) = 1 \/ Len(feq) = 2
      BY <1>3, <2>1, BatchQueue
    <3>2. 0 < FeQMax /\ 1 < FeQMax /\ 2 < FeQMax
      BY <1>f
    <3> QED
      BY <3>1, <3>2, Zenon
  <2>3. /\ last' = "execute" => feq' = <<LatestBind, Execute>>
        /\ last' = "sync" => feq' = <<LatestBind, Execute, Sync>>
        /\ wire' = wire
    BY <1>1, <1>2, <1>3, <1>4, <2>1, <2>2, BatchQueue
  <2>4. BatchOpen'
    BY <1>1, <1>3, <1>4, <1>5, <2>1, <2>3 DEF BatchOpen
  <2>5. Queued'
    BY <1>1, <1>2, <1>3, <1>4, <2>1, <2>3, <2>4 DEF Queued, Execute, Sync
  <2>6. pc' = "recv" /\ ~Contains(wire', Ready) /\ UNCHANGED <<binds, out>>
    BY <1>1, <1>2, <1>4, <2>3
  <2> QED
    BY <2>5, <2>6 DEF WaitInv
<1>7. CASE Started
  <2>1. /\ last = "bind" => feq = <<>>
        /\ last = "execute" => feq = <<Execute>>
        /\ BatchOpen /\ cur = binds /\ wait = "FLIGHT"
    BY <1>3, <1>7 DEF Started
  <2>2. Len(feq) < FeQMax
    <3>1. Len(feq) = 0 \/ Len(feq) = 1
      BY <1>3, <2>1, BatchQueue
    <3>2. 0 < FeQMax /\ 1 < FeQMax /\ 2 < FeQMax
      BY <1>f
    <3> QED
      BY <3>1, <3>2, Zenon
  <2>3. /\ last' = "execute" => feq' = <<Execute>>
        /\ last' = "sync" => feq' = <<Execute, Sync>>
        /\ wire' = wire
    BY <1>1, <1>2, <1>3, <1>4, <2>1, <2>2, BatchQueue
  <2>4. BatchOpen'
    BY <1>1, <1>3, <1>4, <1>5, <2>1, <2>3 DEF BatchOpen
  <2>5. Started'
    BY <1>1, <1>2, <1>3, <1>4, <2>1, <2>3, <2>4 DEF Started, Execute, Sync
  <2>6. pc' = "recv" /\ ~Contains(wire', Ready) /\ UNCHANGED <<binds, out>>
    BY <1>1, <1>2, <1>4, <2>3
  <2> QED
    BY <2>5, <2>6 DEF WaitInv
<1> QED
  BY <1>2, <1>6, <1>7 DEF WaitInv, Held, Settled

\* No pipeline: the Sync fetches the held reply; anything else is the proxy's own
\* answer, and no Bind waits for it.
LEMMA WaitAnswered ==
    ASSUME StreamInv, WaitInv, client = "waits", NEW k, RecvAnswered(k)
    PROVE  WaitInv'
<1>1. /\ pc \in {"loop", "recv"} /\ pc' = "recv" /\ last' = k /\ client' = client
      /\ ~Contains(wire, Ready)
      /\ binds' = IF k = "bind" THEN binds + 1 ELSE binds
      /\ last = "bind" => k = "execute"
      /\ last = "execute" => k = "sync"
      /\ out' = out /\ k \in {"sync", "query"} => Awaiting'
  BY WaitSends DEF RecvAnswered
<1>2. /\ wait = "IDLE" /\ Answer(k) /\ UNCHANGED <<wait, cur, feq, gotSync>>
  BY DEF RecvAnswered
<1>3. feq = <<>> /\ feq' = <<>> /\ binds' = binds /\ binds \in Nat
  BY <1>1, <1>2, WaitTypes DEF Answer
<1>t. out \in Seq(Replies) /\ wire \in Seq(Replies)
  BY WaitTypes
<1>4. CASE Held
  <2>1. /\ resp = binds /\ binds > 0 /\ resp # 0
        /\ (last = "bind" /\ k = "execute") \/ (last = "execute" /\ k = "sync")
    <3>1. resp = binds /\ binds > 0 /\ resp # 0
      BY <1>3, <1>4 DEF Held
    <3>2. last # "sync"
      BY <1>3, <1>4, BatchQueue DEF Held
    <3> QED
      BY <1>1, <1>4, <3>1, <3>2 DEF Held
  <2>2. CASE k = "execute"
    <3>1. wire' = wire /\ out' = out /\ resp' = resp
      BY <1>2, <2>1, <2>2 DEF Answer, AnswerExecute
    <3>2. Held'
      BY <1>1, <1>2, <1>3, <2>1, <2>2, <3>1 DEF Held
    <3> QED
      BY <1>1, <1>3, <3>1, <3>2 DEF WaitInv
  <2>3. CASE k = "sync"
    <3> DEFINE t == <<Result(resp), Ready>>
    <3>1. wire' = wire /\ out' = out \o t /\ resp' = 0
      BY <1>2, <2>1, <2>3 DEF Answer, AnswerSync
    <3>2. t \in Seq(Replies) /\ Outcomes(t) = {binds}
      BY <1>3, <2>1, OutcomeReplies, ReplyAndReady DEF Positive
    <3> HIDE DEF t
    <3>3. Outcomes(out)' = Outcomes(out) \union {binds}
      BY <1>t, <3>1, <3>2, OutcomesGrow
    <3>4. Settled'
      BY <1>2, <1>3, <3>1, <3>3 DEF Settled
    <3> QED
      BY <1>1, <1>3, <3>1, <3>3, <3>4 DEF WaitInv
  <2> QED
    BY <2>1, <2>2, <2>3
<1>5. CASE Settled
  <2>1. /\ resp = 0
        /\ binds > 0 => binds \in Outcomes(out)
    BY <1>5 DEF Settled
  <2>2. /\ resp' = 0
        /\ \E t \in Seq(Replies) : out' = out \o t
        /\ Contains(wire', Ready) => Awaiting'
    <3>e. <<>> \in Seq(Replies) /\ out \o <<>> = out
      BY <1>t, NoReply, ConcatEmptySeq
    <3>p. /\ ParseComplete \in Replies /\ Select0 \in Replies
          /\ ParseComplete # Ready /\ Select0 # Ready
      BY OwnReplies DEF ParseComplete, Select0, Ready, Reply
    <3>1. CASE k = "parse"
      <4>1. wire' = Append(wire, ParseComplete) /\ out' = out /\ resp' = resp
        BY <1>2, <3>1 DEF Answer, AnswerParse
      <4>2. ~Contains(wire', Ready)
        BY <1>1, <1>t, <3>p, <4>1, WireTakes
      <4> QED
        BY <2>1, <3>e, <4>1, <4>2
    <3>2. CASE k = "execute"
      <4>1. wire' = Append(wire, Select0) /\ out' = out /\ resp' = resp
        BY <1>2, <2>1, <3>2 DEF Answer, AnswerExecute
      <4>2. ~Contains(wire', Ready)
        BY <1>1, <1>t, <3>p, <4>1, WireTakes
      <4> QED
        BY <2>1, <3>e, <4>1, <4>2
    <3>3. CASE k = "sync"
      <4>1. out' = out /\ resp' = resp
        BY <1>2, <2>1, <3>3 DEF Answer, AnswerSync
      <4> QED
        BY <1>1, <2>1, <3>3, <3>e, <4>1
    <3>4. CASE k = "query"
      <4>1. AnswerQuery
        BY <1>2, <3>4 DEF Answer
      <4>2. CASE out' = out
        <5>1. resp' = 0
          BY <2>1, <4>1 DEF AnswerQuery
        <5> QED
          BY <1>1, <3>4, <3>e, <4>2, <5>1
      <4>3. CASE out' # out
        <5>1. out' = out \o <<Result(0), Ready>> /\ resp' = 0 /\ wire' = wire
          BY <2>1, <4>1, <4>3 DEF AnswerQuery
        <5>2. <<Result(0), Ready>> \in Seq(Replies)
          BY OwnReplies, ReplyAndReady
        <5> QED
          BY <1>1, <5>1, <5>2
      <4> QED
        BY <4>2, <4>3
    <3> QED
      BY <1>2, <3>1, <3>2, <3>3, <3>4 DEF Answer
  <2>3. Outcomes(out) \subseteq Outcomes(out')
    BY <1>t, <2>2, JoinOutcomes
  <2>4. Settled'
    BY <1>2, <1>3, <2>1, <2>2, <2>3 DEF Settled
  <2> QED
    BY <1>1, <1>3, <2>2, <2>3, <2>4 DEF WaitInv
<1>6. ~Queued /\ ~Started
  BY <1>1, <1>2 DEF Queued, Started
<1> QED
  BY <1>4, <1>5, <1>6 DEF WaitInv

\* A Bind is started, or parked: every Bind before it has its outcome.
LEMMA WaitBind ==
    ASSUME StreamInv, WaitInv, client = "waits", RecvBindStart \/ RecvBindPark
    PROVE  WaitInv'
<1>1. /\ pc \in {"loop", "recv"} /\ pc' = "recv" /\ last' = "bind" /\ client' = client
      /\ ~Contains(wire, Ready)
      /\ binds' = binds + 1
      /\ last # "bind" /\ last # "execute"
  <2>1. Sends("bind")
    BY DEF RecvBindStart, RecvBindPark
  <2> QED
    BY <2>1, WaitSends
<1>2. wait = "IDLE" /\ UNCHANGED <<wire, out>> /\ binds \in Nat /\ feq = <<>>
  BY <1>1, WaitTypes DEF RecvBindStart, RecvBindPark
<1>3. Settled
  <2>1. ~Queued /\ ~Started
    BY <1>1, <1>2 DEF Queued, Started
  <2>2. ~Held
    BY <1>1, <1>2, BatchQueue DEF Held
  <2> QED
    BY <2>1, <2>2 DEF WaitInv
<1>4. \A n \in 1 .. binds' - 1 : n \in Outcomes(out)
  <2>1. ASSUME NEW n \in 1 .. binds PROVE n \in Outcomes(out)
    <3>1. CASE n = binds
      BY <1>2, <1>3, <3>1 DEF Settled
    <3>2. CASE n # binds
      BY <1>2, <3>2 DEF WaitInv
    <3> QED
      BY <3>1, <3>2
  <2> QED
    BY <1>1, <1>2, <2>1
<1>5. BatchOpen'
  BY <1>1, <1>2 DEF BatchOpen
<1>6. CASE RecvBindStart
  <2>1. wait' = "FLIGHT" /\ cur' = binds' /\ feq' = <<>>
    BY <1>1, <1>2, <1>6 DEF RecvBindStart, StartBind
  <2>2. Started'
    BY <1>1, <1>5, <2>1 DEF Started
  <2> QED
    BY <1>1, <1>2, <1>4, <2>2 DEF WaitInv
<1>7. CASE RecvBindPark
  <2>1. wait' = "PARKED" /\ resp' = 0 /\ feq' = Append(feq, Item("bind"))
    BY <1>7 DEF RecvBindPark
  <2>2. Item("bind") = LatestBind'
    BY <1>1 DEF Item, LatestBind
  <2>3. feq' = <<LatestBind'>>
    BY <1>2, <2>1, <2>2, BatchQueue
  <2>4. Queued'
    BY <1>1, <1>5, <2>1, <2>3 DEF Queued
  <2> QED
    BY <1>1, <1>2, <1>4, <2>4 DEF WaitInv
<1> QED
  BY <1>6, <1>7

\* The wire is drained and the loop goes on; a batch that is open stays open.
LEMMA WaitDrained ==
    ASSUME StreamInv, WaitInv, client = "waits", Drained(wire), pc' = "loop",
           UNCHANGED <<cur, feq, gotSync, resp, clientVars>>,
           \/ wait' = wait /\ pc = "recv"
           \/ wait' = wait /\ feq = <<>>
           \/ wait' = "PARKED" /\ pc = "drain" /\ feq # <<>> /\ Head(feq).kind = "bind"
    PROVE  WaitInv'
<1>1. /\ wire' = <<>> /\ out' = out \o wire
      /\ UNCHANGED <<client, binds, last, mark>>
  BY DEF Drained, clientVars
<1>2. Outcomes(out)' = Outcomes(out) \union Outcomes(wire)
  BY <1>1, WaitTypes, OutcomesGrow
<1>3. BatchOpen => BatchOpen'
  <2>1. ASSUME BatchOpen PROVE BatchOpen'
    <3>1. last = "sync" => Awaiting'
      BY <1>1, <2>1, WaitTypes, StillAwaiting DEF BatchOpen
    <3>2. ~Contains(wire', Ready)
      BY <1>1 DEF Contains
    <3> QED
      BY <1>1, <2>1, <3>1, <3>2 DEF BatchOpen
  <2> QED
    BY <2>1
<1>4. pc' = "loop" /\ wire' = <<>> /\ \A n \in 1 .. binds' - 1 : n \in Outcomes(out')
  BY <1>1, <1>2 DEF WaitInv
<1>5. (Queued \/ Started \/ Held \/ Settled)'
  <2>1. CASE Queued
    <3>1. feq # <<>>
      BY <2>1, BatchQueue DEF Queued
    <3>2. wait' = "PARKED"
      BY <2>1, <3>1 DEF Queued
    <3> QED
      BY <1>1, <1>3, <2>1, <3>2 DEF Queued, LatestBind, Execute, Sync
  <2>2. CASE Started
    <3>1. wait' = "FLIGHT"
      BY <2>2, WaitTypes DEF Started
    <3> QED
      BY <1>1, <1>3, <2>2, <3>1 DEF Started, Execute, Sync
  <2>3. CASE Held \/ Settled
    <3>1. wait' = "IDLE"
      <4>1. feq # <<>> => Head(feq).kind # "bind"
        BY <2>3, BatchQueue DEF Held, Settled, Execute, Sync
      <4> QED
        BY <2>3, <4>1 DEF Held, Settled
    <3> QED
      BY <1>1, <1>2, <2>3, <3>1 DEF Held, Settled, Execute, Sync
  <2> QED
    BY <2>1, <2>2, <2>3 DEF WaitInv
<1> QED
  BY <1>4, <1>5 DEF WaitInv

\* The backend answers: the reply goes out, or is held for the Sync.
LEMMA WaitBackend ==
    ASSUME StreamInv, WaitInv, client = "waits", BackendAnswers
    PROVE  WaitInv'
<1>1. /\ UNCHANGED <<client, binds, last, mark>>
      /\ wait = "FLIGHT" /\ wait' = "IDLE" /\ pc' = "drain" /\ wire' = <<>>
  BY DEF BackendAnswers, BeComplete, BeError, BeFail, Released, Drained, InFlight, clientVars
<1>2. /\ cur = binds /\ binds > 0 /\ binds \in Nat
      /\ \/ last = "bind" /\ feq = <<>>
         \/ last = "execute" /\ feq = <<Execute>>
         \/ last = "sync" /\ feq = <<Execute, Sync>>
  BY <1>1, WaitTypes DEF WaitInv, Queued, Started, BatchOpen, Held, Settled
<1>t. out \in Seq(Replies) /\ <<BindComplete>> \in Seq(Replies)
  BY WaitTypes, OwnReplies, OneReply
<1>3. /\ \E t \in Seq(Replies) : out' = out \o t
      /\ (Held \/ Settled)'
  <2>1. CASE BeComplete /\ gotSync
    <3> DEFINE u == <<Result(cur), Ready>>
    <3>1. out' = out \o (u \o <<BindComplete>>) /\ resp' = 0 /\ feq' = feq
      BY <2>1 DEF BeComplete, Drained
    <3>2. u \in Seq(Replies) /\ Outcomes(u) = {binds}
      BY <1>2, OutcomeReplies, ReplyAndReady DEF Positive
    <3> HIDE DEF u
    <3>3. /\ u \o <<BindComplete>> \in Seq(Replies)
          /\ binds \in Outcomes(u \o <<BindComplete>>)
      BY <1>t, <3>2, JoinHas, JoinOutcomes
    <3>4. binds \in Outcomes(out')
      BY <1>t, <3>1, <3>3, JoinOutcomes
    <3>5. Settled'
      BY <1>1, <1>2, <3>1, <3>4 DEF Settled, Execute, Sync
    <3> QED
      BY <3>1, <3>3, <3>5
  <2>2. CASE BeComplete /\ ~gotSync
    <3>1. out' = out \o (<<>> \o <<BindComplete>>) /\ resp' = cur /\ feq' = feq
      BY <2>2 DEF BeComplete, Drained
    <3>2. out' = out \o <<BindComplete>>
      BY <1>t, <3>1, ConcatEmptySeq
    <3>3. Held'
      BY <1>1, <1>2, <3>1 DEF Held, Execute, Sync
    <3> QED
      BY <1>t, <3>2, <3>3
  <2>3. CASE BeError \/ BeFail
    <3> DEFINE u == <<Error(cur), Ready>>
    <3>1. out' = out \o u /\ resp' = 0 /\ feq' \in {feq, <<>>}
      BY <2>3 DEF BeError, BeFail, Drained
    <3>2. u \in Seq(Replies) /\ Outcomes(u) = {binds}
      BY <1>2, OutcomeReplies, ReplyAndReady DEF Positive
    <3> HIDE DEF u
    <3>3. binds \in Outcomes(out')
      BY <1>t, <3>1, <3>2, JoinOutcomes
    <3>4. Settled'
      BY <1>1, <1>2, <3>1, <3>3 DEF Settled, Execute, Sync
    <3> QED
      BY <3>1, <3>2, <3>4
  <2> QED
    BY <2>1, <2>2, <2>3 DEF BackendAnswers
<1>4. Outcomes(out) \subseteq Outcomes(out')
  BY <1>t, <1>3, JoinOutcomes
<1> QED
  BY <1>1, <1>3, <1>4 DEF WaitInv

\* One message of the batch is taken from the queue.
LEMMA WaitDrain ==
    ASSUME StreamInv, WaitInv, client = "waits", DrainAnswered \/ DrainBindStart
    PROVE  WaitInv'
<1>1. /\ pc = "drain" /\ wait = "IDLE" /\ feq # <<>> /\ feq' = Tail(feq)
      /\ UNCHANGED <<client, binds, last, mark>>
  BY WaitTypes DEF DrainAnswered, DrainBindStart, clientVars
<1>t. out \in Seq(Replies) /\ wire \in Seq(Replies) /\ binds \in Nat
  BY WaitTypes
<1>2. CASE DrainBindStart
  <2>1. /\ Head(feq).kind = "bind" /\ cur' = Head(feq).of
        /\ wait' = "FLIGHT" /\ pc' = "loop" /\ Drained(wire)
    BY <1>2 DEF DrainBindStart, StartBind
  <2>2. Queued
    <3>1. ~Held /\ ~Settled
      BY <1>1, <2>1, BatchQueue DEF Held, Settled, Execute, Sync
    <3> QED
      BY <1>1, <3>1 DEF WaitInv, Started
  <2>3. /\ Head(feq) = LatestBind
        /\ \/ last = "bind" /\ feq' = <<>>
           \/ last = "execute" /\ feq' = <<Execute>>
           \/ last = "sync" /\ feq' = <<Execute, Sync>>
    <3>1. CASE last = "bind" /\ feq = <<LatestBind>>
      BY <1>1, <3>1, BatchQueue
    <3>2. CASE last = "execute" /\ feq = <<LatestBind, Execute>>
      BY <1>1, <3>2, BatchQueue
    <3>3. CASE last = "sync" /\ feq = <<LatestBind, Execute, Sync>>
      BY <1>1, <3>3, BatchQueue
    <3> QED
      BY <2>2, <3>1, <3>2, <3>3 DEF Queued
  <2>4. wire' = <<>> /\ out' = out \o wire
    BY <2>1 DEF Drained
  <2>5. BatchOpen'
    <3>1. last = "sync" => Awaiting'
      BY <1>1, <2>2, <2>4, WaitTypes, StillAwaiting DEF Queued, BatchOpen
    <3>2. ~Contains(wire', Ready)
      BY <2>4 DEF Contains
    <3> QED
      BY <1>1, <2>2, <3>1, <3>2 DEF Queued, BatchOpen
  <2>6. Started'
    BY <1>1, <2>1, <2>3, <2>5 DEF Started, LatestBind, Execute, Sync
  <2>7. Outcomes(out) \subseteq Outcomes(out')
    BY <1>t, <2>4, JoinOutcomes
  <2> QED
    BY <1>1, <2>1, <2>4, <2>6, <2>7 DEF WaitInv
<1>3. CASE DrainAnswered
  <2>1. Answer(Head(feq).kind) /\ UNCHANGED <<wait, cur, gotSync, pc>>
    BY <1>3 DEF DrainAnswered
  <2>2. Held \/ Settled
    <3>1. ~Queued
      <4>1. ASSUME Queued PROVE Head(feq).kind = "bind"
        BY <4>1, BatchQueue DEF Queued, LatestBind
      <4> QED
        BY <2>1, <4>1 DEF Answer
    <3> QED
      BY <1>1, <3>1 DEF WaitInv, Started
  <2>3. /\ Head(feq) \in {Execute, Sync}
        /\ feq' \in {<<>>, <<Sync>>}
        /\ last = "sync" /\ Head(feq) = Execute /\ Held => feq' = <<Sync>>
        /\ Held /\ Head(feq) = Execute => last \in {"bind", "execute", "sync"}
        /\ last # "sync" /\ Held => feq' = <<>> /\ Head(feq) = Execute
    <3>1. feq \in {<<Execute>>, <<Sync>>, <<Execute, Sync>>}
      BY <1>1, <2>2 DEF Held, Settled
    <3>2. CASE feq = <<Execute>>
      <4>1. Head(feq) = Execute /\ feq' = <<>>
        BY <1>1, <3>2, BatchQueue
      <4>2. Held => last # "sync"
        BY <3>2 DEF Held, Execute, Sync
      <4> QED
        BY <4>1, <4>2 DEF Held
    <3>3. CASE feq = <<Sync>>
      <4>1. Head(feq) = Sync /\ feq' = <<>> /\ Sync # Execute
        BY <1>1, <3>3, BatchQueue DEF Execute, Sync
      <4>2. Held => last = "sync"
        BY <3>3 DEF Held, Execute, Sync
      <4> QED
        BY <4>1, <4>2
    <3>4. CASE feq = <<Execute, Sync>>
      <4>1. Head(feq) = Execute /\ feq' = <<Sync>>
        BY <1>1, <3>4, BatchQueue
      <4>2. Held => last = "sync"
        BY <3>4 DEF Held, Execute, Sync
      <4> QED
        BY <4>1, <4>2
    <3> QED
      BY <3>1, <3>2, <3>3, <3>4
  <2>4. CASE Held /\ Head(feq) = Execute
    <3>1. wire' = wire /\ out' = out /\ resp' = resp /\ resp # 0
      BY <1>t, <2>1, <2>4 DEF Answer, AnswerExecute, Execute, Held
    <3>2. Held'
      BY <1>1, <2>1, <2>3, <2>4, <3>1 DEF Held, Execute, Sync
    <3> QED
      BY <1>1, <2>1, <3>1, <3>2 DEF WaitInv
  <2>5. CASE Held /\ Head(feq) = Sync
    <3> DEFINE t == <<Result(resp), Ready>>
    <3>1. resp = binds /\ binds > 0 /\ resp # 0
      BY <1>t, <2>5 DEF Held
    <3>2. out' = out \o t /\ resp' = 0
      BY <2>1, <2>5, <3>1 DEF Answer, AnswerSync, Sync
    <3>3. t \in Seq(Replies) /\ Outcomes(t) = {binds}
      BY <1>t, <3>1, OutcomeReplies, ReplyAndReady DEF Positive
    <3> HIDE DEF t
    <3>4. Outcomes(out') = Outcomes(out) \union {binds}
      BY <1>t, <3>2, <3>3, JoinOutcomes
    <3>5. Settled'
      BY <1>1, <2>1, <2>3, <3>2, <3>4 DEF Settled, Sync
    <3> QED
      BY <1>1, <2>1, <3>4, <3>5 DEF WaitInv
  <2>6. CASE Settled
    <3>1. resp = 0
      BY <2>6 DEF Settled
    <3>2. out' = out /\ resp' = resp
      BY <2>1, <2>3, <3>1 DEF Answer, AnswerExecute, AnswerSync, Execute, Sync
    <3>3. Settled'
      BY <1>1, <2>1, <2>3, <2>6, <3>2 DEF Settled, Sync
    <3> QED
      BY <1>1, <2>1, <3>2, <3>3 DEF WaitInv
  <2> QED
    BY <2>2, <2>3, <2>4, <2>5, <2>6
<1> QED
  BY <1>2, <1>3

LEMMA WaitStep ==
    ASSUME StreamInv, WaitInv, FeQMax >= 3, [Next]_vars
    PROVE  WaitInv'
<1>1. CASE client # "waits"
  <2>1. client' = client
    BY DEF Next, Recv, RecvQueued, RecvAnswered, RecvBindStart, RecvBindPark, RecvEnd,
       BePartial, BackendAnswers, BeComplete, BeError, BeFail, Grant, Drain,
       DrainAnswered, DrainBindStart, DrainBindPark, DrainEnd, Sends, clientVars, vars
  <2> QED
    BY <1>1, <2>1 DEF WaitInv
<1>2. CASE client = "waits"
  <2>1. CASE Recv
    <3>1. CASE \E k \in Kinds : RecvQueued(k) \/ RecvAnswered(k)
      BY <1>2, <3>1, WaitQueued, WaitAnswered
    <3>2. CASE RecvBindStart \/ RecvBindPark
      BY <1>2, <3>2, WaitBind
    <3>3. CASE RecvEnd
      BY <1>2, <3>3, WaitDrained DEF RecvEnd
    <3> QED
      BY <2>1, <3>1, <3>2, <3>3 DEF Recv
  <2>2. CASE BePartial
    <3>1. /\ wait = "FLIGHT" /\ resp' = cur
          /\ UNCHANGED <<wait, cur, feq, gotSync, wire, out, pc, client, binds, last, mark>>
      BY <2>2 DEF BePartial, InFlight, clientVars
    <3>2. Started
      BY <1>2, <3>1, WaitTypes DEF WaitInv, Queued, Held, Settled
    <3>3. Started'
      BY <3>1, <3>2 DEF Started, BatchOpen, Awaiting, Execute, Sync
    <3> QED
      BY <1>2, <3>1, <3>3 DEF WaitInv, Awaiting
  <2>3. CASE BackendAnswers
    BY <1>2, <2>3, WaitBackend
  <2>4. CASE Grant
    <3>1. /\ wait = "PARKED" /\ pc = "loop" /\ pc' = "drain" /\ wait' = "IDLE"
          /\ UNCHANGED <<cur, feq, gotSync, resp, wire, out, client, binds, last, mark>>
      BY <2>4 DEF Grant, clientVars
    <3>2. Queued
      BY <1>2, <3>1 DEF WaitInv, Started, Held, Settled
    <3>3. Queued'
      BY <3>1, <3>2 DEF Queued, BatchOpen, Awaiting, LatestBind, Execute, Sync
    <3> QED
      BY <1>2, <3>1, <3>3 DEF WaitInv
  <2>5. CASE Drain
    <3>1. CASE DrainAnswered \/ DrainBindStart
      BY <1>2, <3>1, WaitDrain
    <3>2. CASE DrainBindPark \/ DrainEnd
      BY <1>2, <3>2, WaitDrained DEF DrainBindPark, DrainEnd
    <3> QED
      BY <2>5, <3>1, <3>2 DEF Drain
  <2>6. CASE UNCHANGED vars
    BY <2>6 DEF vars, loopVars, clientVars, WaitInv, Queued, Started, BatchOpen, Held,
       Settled, Awaiting, LatestBind, Execute, Sync
  <2> QED
    BY <2>1, <2>2, <2>3, <2>4, <2>5, <2>6 DEF Next
<1> QED
  BY <1>1, <1>2

\* When a client that waits has sent its Sync and the loop is done with it, each
\* of its Binds has been answered, with its result or with the error it failed
\* with (be_resp held until the Sync, got_sync, fe_q and the Bind put back). A
\* queue shorter than a batch would drop the Sync; FE_Q_MAX is 32.
THEOREM NoResultLost == FeQMax >= 3 => (Spec => []NoLostResult)
<1> SUFFICES ASSUME FeQMax >= 3 PROVE Spec => []NoLostResult
  OBVIOUS
<1>1. Init => WaitInv
  <2>1. SUFFICES ASSUME Init PROVE WaitInv
    OBVIOUS
  <2>2. Settled /\ pc = "loop" /\ wire = <<>> /\ binds = 0
    BY <2>1 DEF Init, Settled
  <2> QED
    BY <2>2 DEF WaitInv
<1>2. StreamInv /\ WaitInv /\ [Next]_vars => WaitInv'
  BY WaitStep
<1>3. StreamInv /\ WaitInv => NoLostResult
  <2>1. SUFFICES ASSUME StreamInv, WaitInv, client = "waits", AtRest, last = "sync",
                        NEW n \in 1 .. binds
                 PROVE  \E i \in 1 .. Len(out) : out[i].of = n
    BY DEF NoLostResult, Pipelined
  <2>2. pc = "loop" /\ wait = "IDLE" /\ feq = <<>> /\ binds \in Nat
    BY <2>1, WaitTypes DEF AtRest
  <2>3. Settled
    BY <2>1, <2>2, BatchQueue DEF WaitInv, Queued, Started, Held
  <2>4. n \in Outcomes(out)
    <3>1. CASE n = binds
      BY <2>2, <2>3, <3>1 DEF Settled
    <3>2. CASE n # binds
      BY <2>1, <2>2, <3>2 DEF WaitInv
    <3> QED
      BY <3>1, <3>2
  <2> QED
    BY <2>4 DEF Outcomes
<1> QED
  BY <1>1, <1>2, <1>3, StreamAlways, PTL DEF Spec

=============================================================================
