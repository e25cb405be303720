----------------------------- MODULE ReplyStream -----------------------------
(****************************************************************************)
(* What one client sees: the stream of replies the loop produces for the    *)
(* client's extended-protocol messages (src/src/iouring_loop.c).            *)
(*                                                                          *)
(* A Bind is run on a backend together with its own Execute and Sync; the   *)
(* client's Execute and Sync are answered by the proxy itself, from the     *)
(* reply it holds for the Bind. Replies reach the client on two paths: the  *)
(* frontend wire, which is drained when a handler ends, and the send buffer,*)
(* into which a held reply is copied at once.                               *)
(*                                                                          *)
(* Other clients appear only as the Grant that ends a park and as the pool  *)
(* that has or has not a backend (module FairScheduler). There is room for  *)
(* every reply in the send buffer; for what happens to one that does not    *)
(* fit see module ClientSocket.                                             *)
(****************************************************************************)
EXTENDS Integers, Sequences, SequencesExt

CONSTANTS
    Kinds,          \* messages the client sends
    Clients,        \* which clients there are
    ForwardQuery,   \* reject_simple_query = 0: simple Query goes to Postgres
    FeQMax,         \* FE_Q_MAX
    MaxSent,        \* bound: messages a client that waits sends
    MaxPipelined    \* bound: messages any other client sends

MessageKinds == {"parse", "bind", "execute", "sync", "query"}

\* "waits":     it awaits the reply to its Sync before it goes on
\* "pipelines": it does not wait
\* "overfills": nor does it, and its Parses may find the statement cache full
ClientKinds == {"waits", "pipelines", "overfills"}

ASSUME StreamAssumption ==
    /\ Kinds \subseteq MessageKinds
    /\ Clients \subseteq ClientKinds
    /\ ForwardQuery \in BOOLEAN
    /\ FeQMax \in Nat \ {0} /\ MaxSent \in Nat /\ MaxPipelined \in Nat

VARIABLES
    wait,     \* be_wait: "IDLE", "FLIGHT" (SENDING or READING) or "PARKED"
    cur,      \* the Bind in flight, 0 for none
    feq,      \* fe_q: records [kind, of], `of` the number of a Bind, else 0
    gotSync,  \* got_sync
    resp,     \* the Bind whose reply be_resp holds, 0 for none, Torn for bytes of another
    wire,     \* output of the frontend wire context, not drained yet
    out,      \* replies handed to the client's socket, in order
    pc,       \* "loop", "recv" (process_frontend) or "drain" (drain_fe_queue)
    client,   \* what kind of client it is (never changes)
    sent,     \* messages the client has sent
    binds,    \* Binds among them
    syncs,    \* Syncs and Queries among them: each asks for a ReadyForQuery
    last,     \* the latest of them
    mark      \* Len(out) when the client sent its latest Sync or Query

loopVars   == <<wait, cur, feq, gotSync, resp, wire, out, pc>>
clientVars == <<client, sent, binds, syncs, last, mark>>
vars       == <<loopVars, clientVars>>

Torn == -1

Pipelined == client # "waits"

Reply(tag, n) == [tag |-> tag, of |-> n]
ParseComplete == Reply("ParseComplete", 0)
BindComplete  == Reply("BindComplete", 0)
Select0       == Reply("Select0", 0)        \* the local CommandComplete
Error(n)      == Reply("Error", n)          \* n: the Bind that failed, if any
Result(n)     == Reply("Result", n)         \* rows and CommandComplete of Bind n
Ready         == Reply("Ready", 0)

Init ==
    /\ wait = "IDLE"
    /\ cur = 0
    /\ feq = <<>>
    /\ gotSync = FALSE
    /\ resp = 0
    /\ wire = <<>>
    /\ out = <<>>
    /\ pc = "loop"
    /\ client \in Clients
    /\ sent = 0
    /\ binds = 0
    /\ syncs = 0
    /\ last = "none"
    /\ mark = 0

-----------------------------------------------------------------------------
(* Messages the proxy answers alone, at once or out of the queue.           *)

AnswerParse ==
    /\ \/ wire' = Append(wire, ParseComplete)
       \/ client = "overfills" /\ wire' = wire \o <<Error(0), Ready>>
    /\ UNCHANGED <<out, resp>>

AnswerExecute ==
    /\ wire' = IF resp = 0 THEN Append(wire, Select0) ELSE wire
    /\ UNCHANGED <<out, resp>>

\* The held reply overtakes what is still on the frontend wire.
AnswerSync ==
    IF resp # 0
      THEN /\ out' = out \o <<Result(resp), Ready>>
           /\ resp' = 0
           /\ UNCHANGED wire
      ELSE /\ wire' = Append(wire, Ready)
           /\ UNCHANGED <<out, resp>>

\* exec_query reads the reply into be_resp without touching be_resp_len.
AnswerQuery ==
    \/ /\ ForwardQuery
       /\ out' = out \o <<Result(0), Ready>>
       /\ resp' = IF resp = 0 THEN 0 ELSE Torn
       /\ UNCHANGED wire
    \/ /\ wire' = wire \o <<Error(0), Ready>>
       /\ resp' \in IF ForwardQuery /\ resp # 0 THEN {resp, Torn} ELSE {resp}
       /\ UNCHANGED out

Answer(kind) ==
    \/ kind = "parse" /\ AnswerParse
    \/ kind = "execute" /\ AnswerExecute
    \/ kind = "sync" /\ AnswerSync
    \/ kind = "query" /\ AnswerQuery

\* async_begin and the first submit: the previous reply and Sync are forgotten.
StartBind(n) ==
    /\ wait' = "FLIGHT"
    /\ cur' = n
    /\ resp' = 0
    /\ gotSync' = FALSE

\* drain_frontend_out, when a handler ends.
Drained(msgs) ==
    /\ out' = out \o msgs
    /\ wire' = <<>>

-----------------------------------------------------------------------------
(* process_frontend: the messages of one read, one per step.                *)

\* libpq's order of messages; a client that does not pipeline has one Bind in
\* a batch and sends the next batch when it has seen ReadyForQuery.
Follows ==
    LET first == {"parse", "bind", "query"} IN
    [none |-> first, sync |-> first, query |-> first,
     parse |-> {"parse", "bind", "sync"},
     bind |-> {"execute"},
     execute |-> IF Pipelined THEN first \union {"sync"} ELSE {"sync"}]

Awaiting ==
    last \in {"sync", "query"} /\ ~Contains(SubSeq(out, mark + 1, Len(out)), Ready)

Sends(k) ==
    /\ pc \in {"loop", "recv"}
    /\ sent < IF Pipelined THEN MaxPipelined ELSE MaxSent
    /\ k \in Kinds
    /\ k \in Follows[last]
    /\ Pipelined \/ ~Awaiting
    /\ pc' = "recv"
    /\ sent' = sent + 1
    /\ UNCHANGED client
    /\ binds' = IF k = "bind" THEN binds + 1 ELSE binds
    /\ syncs' = IF k \in {"sync", "query"} THEN syncs + 1 ELSE syncs
    /\ last' = k
    /\ mark' = IF k \in {"sync", "query"} THEN Len(out) ELSE mark

Item(k) == [kind |-> k, of |-> IF k = "bind" THEN binds + 1 ELSE 0]

\* Faulty variant: the queue has no bound.
RecvQueuedAlways(k) ==
    /\ Sends(k)
    /\ wait # "IDLE"
    /\ gotSync' = (gotSync \/ k = "sync")
    /\ feq' = Append(feq, Item(k))
    /\ UNCHANGED <<wait, cur, resp, wire, out>>

\* A pipeline is in flight or parked: the message is queued. A full queue
\* refuses Parse, Bind and Query, and drops Execute and Sync without a word.
RecvQueued(k) ==
    /\ Sends(k)
    /\ wait # "IDLE"
    /\ gotSync' = (gotSync \/ k = "sync")
    /\ IF Len(feq) < FeQMax
         THEN feq' = Append(feq, Item(k)) /\ UNCHANGED wire
         ELSE /\ wire' = wire \o (CASE k = "parse" -> <<Error(0)>>
                                    [] k \in {"bind", "query"} ->
                                         <<Error(Item(k).of), Ready>>
                                    [] OTHER -> <<>>)
              /\ UNCHANGED feq
    /\ UNCHANGED <<wait, cur, resp, out>>

RecvAnswered(k) ==
    /\ Sends(k)
    /\ wait = "IDLE"
    /\ Answer(k)
    /\ UNCHANGED <<wait, cur, feq, gotSync>>

RecvBindStart ==
    /\ Sends("bind")
    /\ wait = "IDLE"
    /\ StartBind(binds + 1)
    /\ UNCHANGED <<feq, wire, out>>

\* No backend: the Bind is queued and the client parked.
RecvBindPark ==
    /\ Sends("bind")
    /\ wait = "IDLE"
    /\ wait' = "PARKED"
    /\ resp' = 0
    /\ gotSync' = FALSE
    /\ feq' = Append(feq, Item("bind"))
    /\ UNCHANGED <<cur, wire, out>>

RecvEnd ==
    /\ pc = "recv"
    /\ pc' = "loop"
    /\ Drained(wire)
    /\ UNCHANGED <<wait, cur, feq, gotSync, resp, clientVars>>

-----------------------------------------------------------------------------
(* The backend's answer. The loop is at rest, the frontend wire drained.    *)

InFlight == pc = "loop" /\ wait = "FLIGHT"

\* after_backend_release: the client's own queue is next.
Released ==
    /\ wait' = "IDLE"
    /\ cur' = 0
    /\ gotSync' = FALSE
    /\ pc' = "drain"

\* Part of the reply has arrived in be_resp.
BePartial ==
    /\ InFlight
    /\ resp' = cur
    /\ UNCHANGED <<wait, cur, feq, gotSync, wire, out, pc, clientVars>>

\* Faulty variant: a reply is not kept for a Sync that has yet to come.
BeCompleteForgets ==
    /\ InFlight
    /\ Drained((IF gotSync THEN <<Result(cur), Ready>> ELSE <<>>) \o <<BindComplete>>)
    /\ resp' = 0
    /\ Released
    /\ UNCHANGED <<feq, clientVars>>

\* The reply goes out at once if the client has sent its Sync; the local
\* BindComplete was put on the frontend wire, which is drained after it.
BeComplete ==
    /\ InFlight
    /\ Drained((IF gotSync THEN <<Result(cur), Ready>> ELSE <<>>) \o <<BindComplete>>)
    /\ resp' = IF gotSync THEN 0 ELSE cur
    /\ Released
    /\ UNCHANGED <<feq, clientVars>>

\* Faulty variant: the error is forwarded only if the client has sent its Sync.
BeErrorNeedsSync ==
    /\ InFlight
    /\ Drained(IF gotSync THEN <<Error(cur), Ready>> ELSE <<>>)
    /\ resp' = 0
    /\ feq' = <<>>
    /\ Released
    /\ UNCHANGED clientVars

\* A SQL error: Error and Ready are forwarded, the queue is discarded.
BeError ==
    /\ InFlight
    /\ Drained(<<Error(cur), Ready>>)
    /\ resp' = 0
    /\ feq' = <<>>
    /\ Released
    /\ UNCHANGED clientVars

\* Faulty variant: what has arrived of the reply stays in be_resp.
BeFailKeepsReply ==
    /\ InFlight
    /\ Drained(<<Error(cur), Ready>>)
    /\ Released
    /\ UNCHANGED <<resp, feq, clientVars>>

\* The backend's socket failed: the proxy's own Error and Ready.
BeFail ==
    /\ InFlight
    /\ Drained(<<Error(cur), Ready>>)
    /\ resp' = 0
    /\ Released
    /\ UNCHANGED <<feq, clientVars>>

\* Another client released a backend: the parked client tries again.
Grant ==
    /\ pc = "loop"
    /\ wait = "PARKED"
    /\ wait' = "IDLE"
    /\ pc' = "drain"
    /\ UNCHANGED <<cur, feq, gotSync, resp, wire, out, clientVars>>

-----------------------------------------------------------------------------
(* drain_fe_queue, one queued message per step.                             *)

DrainAnswered ==
    /\ pc = "drain"
    /\ feq # <<>>
    /\ Answer(Head(feq).kind)
    /\ feq' = Tail(feq)
    /\ UNCHANGED <<wait, cur, gotSync, pc, clientVars>>

DrainBindStart ==
    /\ pc = "drain"
    /\ feq # <<>>
    /\ Head(feq).kind = "bind"
    /\ StartBind(Head(feq).of)
    /\ feq' = Tail(feq)
    /\ Drained(wire)
    /\ pc' = "loop"
    /\ UNCHANGED clientVars

DrainBindPark ==
    /\ pc = "drain"
    /\ feq # <<>>
    /\ Head(feq).kind = "bind"
    /\ wait' = "PARKED"
    /\ Drained(wire)
    /\ pc' = "loop"
    /\ UNCHANGED <<cur, feq, gotSync, resp, clientVars>>

DrainEnd ==
    /\ pc = "drain"
    /\ feq = <<>>
    /\ Drained(wire)
    /\ pc' = "loop"
    /\ UNCHANGED <<wait, cur, feq, gotSync, resp, clientVars>>

-----------------------------------------------------------------------------
Recv ==
    \/ \E k \in Kinds : RecvQueued(k) \/ RecvAnswered(k)
    \/ RecvBindStart
    \/ RecvBindPark
    \/ RecvEnd

BackendAnswers == BeComplete \/ BeError \/ BeFail

Drain == DrainAnswered \/ DrainBindStart \/ DrainBindPark \/ DrainEnd

Next == Recv \/ BePartial \/ BackendAnswers \/ Grant \/ Drain

Spec == Init /\ [][Next]_vars

\* Handlers end, and a pipeline is answered or its socket fails. Whether a
\* parked client is ever tried again, and then gets a backend, is left open.
Fairness ==
    /\ WF_vars(RecvEnd)
    /\ WF_vars(BackendAnswers)
    /\ WF_vars(Drain)

FairSpec == Spec /\ Fairness

-----------------------------------------------------------------------------
TypeOK ==
    /\ wait \in {"IDLE", "FLIGHT", "PARKED"}
    /\ cur \in 0 .. binds
    /\ feq \in Seq([kind : Kinds, of : 0 .. binds])
    /\ Len(feq) <= FeQMax
    /\ gotSync \in BOOLEAN
    /\ resp \in Torn .. binds
    /\ pc \in {"loop", "recv", "drain"}
    /\ client \in Clients
    /\ sent \in Nat
    /\ mark \in 0 .. Len(out)

AtRest == pc = "loop" /\ wait = "IDLE"

\* The results reach the client in the order of its Binds, and no Bind has two
\* outcomes: a reply still held when the next Bind starts, or left over from a
\* pipeline that failed, is never taken for an answer to a later Sync.
OutcomeOnceInOrder ==
    \A i, j \in 1 .. Len(out) :
        i < j /\ out[i].of > 0 /\ out[j].of > 0 =>
            /\ out[i].of # out[j].of
            /\ out[i].tag = "Result" /\ out[j].tag = "Result" => out[i].of < out[j].of

\* When a client that waits has sent its Sync and the loop is done with it, it
\* has got the result of every Bind, or the error it failed with.
NoLostResult ==
    ~Pipelined /\ AtRest /\ last = "sync" =>
        \A n \in 1 .. binds : \E i \in 1 .. Len(out) : out[i].of = n

\* A client that waits for ReadyForQuery gets it, however its messages raced
\* with the backend's answer and whatever failed, unless its Bind is parked, and
\* each time it has been parked: only one that is parked over and over, or for
\* ever, waits on.
SyncAnswered == ~Pipelined /\ Awaiting ~> ~Awaiting \/ wait = "PARKED"

Count(tag) == Len(SelectSeq(out, LAMBDA m : m.tag = tag))

\* "ignores further messages until Sync, then ReadyForQuery. The proxy must
\* leave both FE and BE in a clean state." (ADR 002:11): also a client that does
\* not wait gets a ReadyForQuery for every Sync it sends.
EverySyncAnswered == AtRest => Count("Ready") >= syncs

\* "path ends at RFQ" (tests/load_harness.c:100): ReadyForQuery is the last
\* reply to a batch that the client has ended with a Sync.
EndsAtReady ==
    AtRest /\ last = "sync" =>
        \A i \in mark + 1 .. Len(out) : out[i] = Ready => i = Len(out)

\* "Success path: CommandComplete/DataRow/... (+ RFQ when Sync was sent)"
\* (iouring_loop.c:717): the reply sent from be_resp is the one of its Bind.
ReplyIntact == \A i \in 1 .. Len(out) : out[i] # Result(Torn)

=============================================================================
