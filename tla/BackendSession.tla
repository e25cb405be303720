--------------------------- MODULE BackendSession ---------------------------
(***************************************************************************)
(* One pooled session to PostgreSQL, at the level of its byte stream       *)
(* (backend_pool.c): the blocking login of backend_authenticate with       *)
(* trust, a cleartext password or SCRAM-SHA-256 (scram_client.c), and      *)
(* the asynchronous exchange that follows, in which a rewritten pipeline   *)
(* is sent in parts and the reply comes back in chunks that cut messages   *)
(* and their headers anywhere.                                             *)
(*                                                                         *)
(* The event loop's side is the code: async_begin, the completions of the  *)
(* send and of the receive, async_on_recv and be_filter_append, and        *)
(* async_finish, which after a failure reconnects at once.  The server is  *)
(* external: it logs the proxy in as it is set up to, and answers          *)
(* each request message in order.  A socket holds at most UpCap request     *)
(* messages and DownCap reply units, so either side can find the other one *)
(* not reading.                                                            *)
(*                                                                         *)
(* A message is cut into units; its first Header units are its type and    *)
(* length.  Both buffers of the code hold 16384 bytes, here Cap units.     *)
(***************************************************************************)
EXTENDS Integers, Sequences, FiniteSetsExt, Filters

CONSTANTS
    Methods,        \* how the server may be set up to authenticate
    Params,         \* how many ParameterStatus messages it may send
    RowSizes,       \* units of the DataRow of an answer; 0: no row
    Cap,            \* BE_RECV_CAP and PQPROXY_IO_BUF
    UpCap, DownCap, \* what the sockets hold: messages up, units down
    MaxRounds,      \* messages a login may read (64 in the code)
    MaxRequests,    \* bound: pipelines begun
    MaxLogins,      \* bound: logins tried
    MaxCuts,        \* bound: connections lost
    MaxNotices      \* bound: messages the server sends unasked

ASSUME SessionAssumption ==
    /\ Methods \subseteq {"trust", "password", "scram", "gss", "scram-plus"}
    /\ {Cap, UpCap, DownCap, MaxRounds} \subseteq Nat \ {0}
    /\ {MaxRequests, MaxLogins, MaxCuts, MaxNotices} \subseteq Nat
    /\ Params \cup RowSizes \subseteq Nat

VARIABLES
    conf,           \* the server's set-up, and whether the secrets agree
    phase,          \* "down", "login", "idle", "sending", "reading"
    login,          \* locals of backend_authenticate and the SCRAM state
    send_buf,       \* request messages not sent yet (send_buf, send_off)
    recv_acc,       \* reply units not consumed yet
    be_resp,        \* reply messages collected for the client
    up, down,       \* the sockets: request messages, reply units
    server,         \* the server process behind the connection
    said,           \* ghost: what the server answered to this request
    used            \* counters of the bounds

vars == <<conf, phase, login, send_buf, recv_acc, be_resp, up, down, server,
          said, used>>

proxy == <<phase, login, send_buf, recv_acc, be_resp>>

-----------------------------------------------------------------------------
(* Messages *)

Header == 2

Message(kind, size, data) == [kind |-> kind, size |-> size, data |-> data]

Short(kind, data) == Message(kind, Header, data)

Units(m) == [i \in 1..m.size |-> [m |-> m, at |-> i]]

Flat(ms) == Joined([i \in 1..Len(ms) |-> Units(ms[i])])

SizeOf(ms) == Len(Flat(ms))

\* Faulty variant: BindComplete passes.
FilteredParseOnly(m) == m.kind = "1"

\* pqwire_pipeline_filter_backend_type: ParseComplete and BindComplete are
\* the proxy's business.
Filtered(m) == m.kind \in {"1", "2"}

Visible(ms) ==
    Joined([i \in 1..Len(ms) |-> IF Filtered(ms[i]) THEN <<>> ELSE <<ms[i]>>])

Agree == conf.password = conf.secret

\* The messages of a login that goes well, after the authentication.
Welcome ==
    <<Short("ok", 0)>> \o [i \in 1..conf.params |-> Short("S", i)]
        \o <<Short("Z", 0)>>

DialogueLength ==
    Len(Welcome) + [trust |-> 0, password |-> 1, scram |-> 3][conf.method]

\* The set-ups in which the login goes through.
Admitted ==
    /\ conf.method \in {"trust", "password", "scram"}
    /\ conf.method # "trust" => Agree
    /\ DialogueLength <= MaxRounds

\* What the client is to see of request r: the rows, or an error.
Answers(r) ==
    {<<Message("D", n, r), Short("C", r), Short("Z", r)>> : n \in RowSizes \ {0}}
        \cup (IF 0 \in RowSizes THEN {<<Short("C", r), Short("Z", r)>>} ELSE {})
        \cup {<<Short("E", r), Short("Z", r)>>}

-----------------------------------------------------------------------------
Gone == [at |-> "gone", skip |-> FALSE, auth |-> <<>>, out |-> <<>>]

NoLogin == [rounds |-> 0, scram |-> FALSE, nonce |-> 0, auth |-> <<>>]

Init ==
    /\ conf \in [method : Methods, params : Params,
                 secret : {"a", "b"}, password : {"a"}]
    /\ phase = "down"
    /\ login = NoLogin
    /\ send_buf = <<>> /\ recv_acc = <<>> /\ be_resp = <<>>
    /\ up = <<>> /\ down = <<>>
    /\ server = Gone
    /\ said = <<>>
    /\ used = [requests |-> 0, logins |-> 0, cuts |-> 0, notices |-> 0]

\* conn_teardown_io: nothing of the old connection or its buffers is kept.
Teardown ==
    /\ send_buf' = <<>> /\ recv_acc' = <<>>
    /\ up' = <<>> /\ down' = <<>>
    /\ server' = Gone
    /\ said' = <<>>

-----------------------------------------------------------------------------
(* Login: warm_one and backend_authenticate *)

\* warm_one: connect, send the startup message, enter the loop.
Connect ==
    /\ phase = "down"
    /\ used.logins < MaxLogins
    /\ used' = [used EXCEPT !.logins = @ + 1]
    /\ phase' = "login"
    /\ login' = [NoLogin EXCEPT !.nonce = used.logins + 1]
    /\ up' = <<[kind |-> "startup", data |-> 0]>>
    /\ down' = <<>>
    /\ server' = [Gone EXCEPT !.at = "startup"]
    /\ UNCHANGED <<conf, send_buf, recv_acc, be_resp, said>>

\* Every failure of warm_one tears the connection down again.
LoginFailed ==
    /\ phase' = "down"
    /\ login' = NoLogin
    /\ Teardown

\* read_msg: exactly the next message, once all of it is there.
Arrived == down # <<>> /\ Len(down) >= down[1].m.size

Got == down[1].m

ReadMessage == down' = SubSeq(down, Got.size + 1, Len(down))

Reply(kind, data) == up' = Append(up, [kind |-> kind, data |-> data])

StayInLogin(l) ==
    /\ ReadMessage
    /\ login' = [l EXCEPT !.rounds = @ + 1]
    /\ UNCHANGED <<phase, send_buf, recv_acc, server, said>>

\* Faulty variant: one round less.
RoundsLeftOneLess == login.rounds + 1 < MaxRounds

\* The head of the loop: another message may still be read.
RoundsLeft == login.rounds < MaxRounds

Reading(kind) ==
    /\ phase = "login" /\ RoundsLeft
    /\ Arrived /\ Got.kind = kind
    /\ UNCHANGED <<conf, be_resp, used>>

\* AuthenticationOk and ParameterStatus are passed over; so is a method the
\* code does not know, on which it then waits for what never comes.
LoginContinues ==
    /\ \E kind \in {"ok", "gss", "S"} : Reading(kind)
    /\ StayInLogin(login)
    /\ UNCHANGED up

AskedForPassword ==
    /\ Reading("password")
    /\ Reply("p", conf.password)
    /\ StayInLogin(login)

(* SCRAM (scram_client.c): keys and hashes are what they are made from.      *)

\* pq_scram_init and client_first: a nonce that was never used before.
ClientFirst == login.nonce

\* What both sides sign: the server's nonce extends the client's.
AuthMessage(clientNonce, first) == <<clientNonce, first.nonce>>

Proof(password, auth) == <<"proof", password, auth>>

ServerSignature(password, auth) == <<"server", password, auth>>

AskedForScram ==
    /\ Reading("scram")
    /\ Reply("p", ClientFirst)
    /\ StayInLogin([login EXCEPT !.scram = TRUE])

\* pq_scram_handle_server_first, which refuses a nonce that is not an
\* extension of ours, and pq_scram_client_final.
ScramProof ==
    /\ Reading("first") /\ login.scram
    /\ LET auth == AuthMessage(login.nonce, Got.data)
       IN IF Got.data.nonce[1] = login.nonce
          THEN /\ Reply("p", Proof(conf.password, auth))
               /\ StayInLogin([login EXCEPT !.auth = auth])
          ELSE LoginFailed

\* pq_scram_verify_server_final: the server knows the password as well.
ScramVerified ==
    /\ Reading("final") /\ login.scram
    /\ IF Got.data = ServerSignature(conf.password, login.auth)
       THEN StayInLogin(login) /\ UNCHANGED up
       ELSE LoginFailed

\* SASL without SCRAM-SHA-256, or an ErrorResponse.
LoginRefused ==
    /\ \/ Reading("scram-plus")
       \/ Reading("E")
    /\ LoginFailed

\* ReadyForQuery ends the login: the session is alive and not busy.
LoggedIn ==
    /\ Reading("Z")
    /\ ReadMessage
    /\ phase' = "idle"
    /\ login' = NoLogin
    /\ UNCHANGED <<send_buf, recv_acc, up, server, said>>

\* The other ways out: too many messages, the read timeout or a hang-up.
LoginGivesUp ==
    /\ phase = "login"
    /\ \/ ~RoundsLeft
       \/ ~Arrived /\ server.at \in {"gone", "stuck"} /\ server.out = <<>>
    /\ LoginFailed
    /\ UNCHANGED <<conf, be_resp, used>>

Login ==
    \/ Connect \/ LoginContinues \/ AskedForPassword \/ AskedForScram
    \/ ScramProof \/ ScramVerified \/ LoginRefused \/ LoggedIn \/ LoginGivesUp

-----------------------------------------------------------------------------
(* The asynchronous exchange *)

Pipeline == [i \in 1..4 |-> [kind |-> <<"P", "B", "X", "S">>[i],
                             data |-> used.requests + 1]]

\* pqproxy_backend_async_begin: leftovers are dropped, the rewritten
\* pipeline (Parse, Bind, Execute, Sync) is prepared and its send submitted.
Begin ==
    /\ phase = "idle"
    /\ used.requests < MaxRequests
    /\ used' = [used EXCEPT !.requests = @ + 1]
    /\ send_buf' = Pipeline
    /\ recv_acc' = <<>> /\ be_resp' = <<>>
    /\ phase' = "sending"
    /\ said' = <<>>
    /\ UNCHANGED <<conf, login, up, down, server>>

\* backend_async_fail and async_finish(failed): drop what was collected,
\* tear the connection down and leave the slot to the reconnect.
ExchangeFailed ==
    /\ phase' = "down"
    /\ be_resp' = <<>>
    /\ Teardown
    /\ UNCHANGED <<conf, login, used>>

\* Faulty variant: what a partial send has left is forgotten about.
SentThenReads(n) ==
    /\ up' = up \o SubSeq(send_buf, 1, n)
    /\ send_buf' = SubSeq(send_buf, n + 1, Len(send_buf))
    /\ phase' = "reading"

\* on_be_send_cqe: a send took the first n messages; the rest is sent again,
\* and when there is none left a receive is submitted.
Sent(n) ==
    /\ up' = up \o SubSeq(send_buf, 1, n)
    /\ send_buf' = SubSeq(send_buf, n + 1, Len(send_buf))
    /\ phase' = IF n = Len(send_buf) THEN "reading" ELSE "sending"

BeSend ==
    /\ phase = "sending"
    /\ \/ \E n \in 1..Len(send_buf) :
            /\ Len(up) + n <= UpCap
            /\ Sent(n)
            /\ UNCHANGED <<conf, login, recv_acc, be_resp, down, server, said, used>>
       \/ server.at = "gone" /\ ExchangeFailed

\* Faulty variant: CommandComplete is taken for the end.
CompletesAtCommand(u) == u.m.kind \in {"C", "Z"} /\ u.at = u.m.size

\* pqwire_pipeline_feed_backend_msg: ReadyForQuery completes the pipeline.
Completes(u) == u.m.kind = "Z" /\ u.at = u.m.size

\* How far async_on_recv gets in the accumulated units: to the end of the
\* message that completes the pipeline, else to the end of the last whole one.
Consumed(acc) ==
    LET done  == {i \in DOMAIN acc : Completes(acc[i])}
        whole == {i \in DOMAIN acc : acc[i].at = acc[i].m.size}
    IN IF done # {} THEN Min(done) ELSE Max(whole \cup {0})

\* The messages that end within the first n units.
MessagesIn(acc, n) ==
    Joined([i \in 1..n |-> IF acc[i].at = acc[i].m.size THEN <<acc[i].m>> ELSE <<>>])

\* Faulty variants: a buffer one unit too small or too large.
FitsOneLess(n) == n < Cap

FitsOneMore(n) == n <= Cap + 1

Fits(n) == n <= Cap

\* Faulty variant: the beginning of the next message is dropped.
TakesAndForgets(acc, n) ==
    /\ be_resp' = be_resp \o Visible(MessagesIn(acc, n))
    /\ recv_acc' = <<>>

\* Whole messages go to be_resp, the rest to the front of recv_acc.
Takes(acc, n) ==
    /\ be_resp' = be_resp \o Visible(MessagesIn(acc, n))
    /\ recv_acc' = SubSeq(acc, n + 1, Len(acc))

\* pqproxy_backend_async_on_recv with be_filter_append, then either more is
\* read or the pipeline is finished.  What does not begin with a header, or
\* does not fit, fails the exchange.
OnRecv(chunk) ==
    LET acc   == recv_acc \o chunk
        n     == Consumed(acc)
        extra == Visible(MessagesIn(acc, n))
    IN IF Fits(Len(acc)) /\ acc[1].at = 1 /\ Fits(SizeOf(be_resp \o extra))
       THEN /\ IF n > 0 /\ Completes(acc[n])
               THEN /\ phase' = "idle"
                    /\ be_resp' = be_resp \o extra
                    /\ recv_acc' = <<>>
               ELSE Takes(acc, n) /\ UNCHANGED phase
            /\ down' = SubSeq(down, Len(chunk) + 1, Len(down))
            /\ UNCHANGED <<conf, login, send_buf, up, server, said, used>>
       ELSE ExchangeFailed

BeRecv ==
    /\ phase = "reading"
    /\ \/ \E n \in 1..Len(down) : n <= Cap /\ OnRecv(SubSeq(down, 1, n))
       \/ server.at = "gone" /\ ExchangeFailed

Exchange == Begin \/ BeSend \/ BeRecv

-----------------------------------------------------------------------------
(* The server, external *)

Says(ms) == [server EXCEPT !.out = @ \o Flat(ms)]

Hears(kind) == server.out = <<>> /\ up # <<>> /\ up[1].kind = kind

Proceeds(s) ==
    /\ server' = s
    /\ up' = Tail(up)
    /\ UNCHANGED <<conf, proxy, down, used>>

ServerGreets ==
    /\ server.at = "startup" /\ Hears("startup")
    /\ Proceeds(
         CASE conf.method = "trust" -> [Says(Welcome) EXCEPT !.at = "ready"]
           [] conf.method \in {"password", "scram"} ->
                [Says(<<Short(conf.method, 0)>>) EXCEPT !.at = conf.method]
           [] OTHER -> [Says(<<Short(conf.method, 0)>>) EXCEPT !.at = "stuck"])
    /\ UNCHANGED said

Judges(right, ms) ==
    Proceeds(IF right THEN [Says(ms \o Welcome) EXCEPT !.at = "ready"]
                      ELSE [Says(<<Short("E", 0)>>) EXCEPT !.at = "gone"])

ServerAuthenticates ==
    /\ Hears("p")
    /\ LET d == up[1].data
           first == [nonce |-> <<d, "s">>]
       IN \/ server.at = "password" /\ Judges(d = conf.secret, <<>>)
          \/ /\ server.at = "scram"
             /\ Proceeds([Says(<<Short("first", first)>>)
                            EXCEPT !.at = "proof", !.auth = AuthMessage(d, first)])
          \/ /\ server.at = "proof"
             /\ Judges(d = Proof(conf.secret, server.auth),
                       <<Short("final", ServerSignature(conf.secret, server.auth))>>)
    /\ UNCHANGED said

\* A request message is answered; after an error only Sync is.
Answered(ms, failed) ==
    /\ Proceeds([Says(ms) EXCEPT !.skip = failed])
    /\ said' = said \o ms

ServerAnswers ==
    /\ server.at = "ready" /\ server.out = <<>> /\ up # <<>>
    /\ LET r == up[1].data
           k == up[1].kind
       IN \/ k # "S" /\ server.skip /\ Answered(<<>>, TRUE)
          \/ k # "S" /\ ~server.skip /\ Answered(<<Short("E", r)>>, TRUE)
          \/ k = "P" /\ Answered(<<Short("1", r)>>, FALSE)
          \/ k = "B" /\ ~server.skip /\ Answered(<<Short("2", r)>>, FALSE)
          \/ /\ k = "X" /\ ~server.skip
             /\ \E n \in RowSizes :
                  Answered((IF n = 0 THEN <<>> ELSE <<Message("D", n, r)>>)
                              \o <<Short("C", r)>>, FALSE)
          \/ k = "S" /\ Answered(<<Short("Z", r)>>, FALSE)

ServerWrites ==
    /\ server.out # <<>> /\ Len(down) < DownCap
    /\ down' = Append(down, Head(server.out))
    /\ server' = [server EXCEPT !.out = Tail(@)]
    /\ UNCHANGED <<conf, proxy, up, said, used>>

\* A NoticeResponse or ParameterStatus outside any exchange.
ServerRemarks ==
    /\ server.at = "ready" /\ server.out = <<>> /\ ~server.skip
    /\ used.notices < MaxNotices
    /\ used' = [used EXCEPT !.notices = @ + 1]
    /\ server' = Says(<<Message("N", Header + 1, 0)>>)
    /\ UNCHANGED <<conf, proxy, up, down, said>>

\* The server ends or the network does: what was in flight still arrives.
Cut ==
    /\ server.at \notin {"gone"}
    /\ used.cuts < MaxCuts
    /\ used' = [used EXCEPT !.cuts = @ + 1]
    /\ server' = Gone
    /\ UNCHANGED <<conf, proxy, up, down, said>>

Server == ServerGreets \/ ServerAuthenticates \/ ServerAnswers \/ ServerWrites

-----------------------------------------------------------------------------
Next == Login \/ Exchange \/ Server \/ Cut

Spec == Init /\ [][Next]_vars

\* With a server that also speaks unasked.
NoticeSpec == Init /\ [][Next \/ ServerRemarks]_vars

FairSpec == Spec /\ WF_vars(Login \/ BeSend \/ BeRecv) /\ WF_vars(Server)
-----------------------------------------------------------------------------
(* Properties *)

\* The buffers keep to their sizes and the counters to their bounds
\* (BE_RECV_CAP, PQPROXY_IO_BUF, the 64 rounds of backend_authenticate).
TypeOK ==
    /\ conf \in [method : Methods, params : Params,
                 secret : {"a", "b"}, password : {"a"}]
    /\ phase \in {"down", "login", "idle", "sending", "reading"}
    /\ login.rounds \in 0..MaxRounds /\ login.scram \in BOOLEAN
    /\ Len(send_buf) <= 4 /\ Len(up) <= UpCap /\ Len(down) <= DownCap
    /\ Len(recv_acc) <= Cap /\ SizeOf(be_resp) <= Cap
    /\ server.at \in {"gone", "startup", "password", "scram", "proof", "stuck", "ready"}
    /\ used \in [requests : 0..MaxRequests, logins : 0..MaxLogins,
                 cuts : 0..MaxCuts, notices : 0..MaxNotices]

InFlight == recv_acc \o down \o server.out

\* Wherever a receive cuts the reply, no unit of it is lost, taken twice or
\* taken out of order: what the server said is what be_resp was built from,
\* followed by what still waits in recv_acc and behind it; and be_resp holds
\* the whole messages of the first part without the filtered ones
\* (async_on_recv's memmove, be_filter_append).
ReplyAccounted ==
    phase \in {"sending", "reading"} /\ server.at = "ready" =>
        LET all   == Flat(said)
            taken == Len(all) - Len(InFlight)
        IN /\ taken >= 0
           /\ taken > 0 => all[taken].at = all[taken].m.size
           /\ SubSeq(all, taken + 1, Len(all)) = InFlight
           /\ be_resp = Visible(MessagesIn(all, taken))

\* The first unit not yet read is the beginning of a message.  It need not be
\* when the server speaks unasked (NoticeSpec).
InFrame ==
    LET unread == recv_acc \o down
    IN phase = "reading" /\ unread # <<>> => unread[1].at = 1

\* A session handed back to the pool is in step with its server: nothing of
\* the login or of the last exchange is unsent, unread or half parsed, so the
\* next tenant's reply begins at the next unit (backend_authenticate reads
\* message by message, async_on_recv stops at ReadyForQuery).
IdleInStep ==
    phase = "idle" =>
        /\ send_buf = <<>> /\ up = <<>>
        /\ InFlight = <<>>
        /\ server.at \in {"ready", "gone"} /\ ~server.skip

\* The login fails only where it must: the server's set-up does not admit the
\* proxy, or the connection was lost on the way.  In particular the SCRAM
\* conversation agrees on both sides whenever the passwords do, and the limit
\* of 64 messages stops no dialogue that has 64 of them.
LoginFailsForCause ==
    [][phase = "login" /\ phase' = "down" => ~Admitted \/ server.at = "gone"]_vars

\* However it is cut into chunks, a reply of at most Cap units, the filtered
\* messages included, never fails the exchange; only a lost connection does.
SmallReplyIsServed ==
    [][phase = "reading" /\ phase' = "down" =>
         server.at = "gone" \/ SizeOf(said) > Cap]_vars

\* Every login and every exchange comes to an end, although the proxy does
\* not read while it has something to send and the server does not read while
\* it has something to say.
EveryTurnEnds ==
    phase \in {"login", "sending", "reading"} ~> phase \in {"idle", "down"}

\* The session implements BackendExchange: what the event loop is handed as
\* complete is the whole visible answer to the request just made.
Exchanges == INSTANCE BackendExchange WITH
    admitted <- Admitted,
    state    <- CASE phase \in {"down", "login"} -> "down"
                  [] phase = "idle" -> "idle"
                  [] OTHER -> "busy",
    request  <- used.requests,
    answer   <- IF phase = "idle" THEN be_resp ELSE <<>>

KeepsItsPromise == Exchanges!Spec
=============================================================================
