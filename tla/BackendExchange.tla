--------------------------- MODULE BackendExchange ---------------------------
(***************************************************************************)
(* What a pooled backend session promises to the event loop, with no       *)
(* bytes, buffers or dialogue: it is down, idle or busy with one request;  *)
(* a request ends with the whole answer to that very request or with the   *)
(* loss of the session, and a session comes up only for a server that      *)
(* lets this proxy in.  BackendSession implements it.                      *)
(***************************************************************************)
EXTENDS Naturals, Sequences

CONSTANT Answers(_) \* the complete answers the server may give to a request

VARIABLES
    admitted,       \* TRUE when the server's set-up lets the proxy log in
    state,          \* "down", "idle" or "busy"
    request,        \* number of the latest request
    answer          \* what the event loop was handed for it, <<>> if nothing

vars == <<admitted, state, request, answer>>

Init ==
    /\ admitted \in BOOLEAN
    /\ state = "down"
    /\ request = 0
    /\ answer = <<>>

LogIn ==
    /\ state = "down"
    /\ admitted
    /\ state' = "idle"
    /\ UNCHANGED <<admitted, request, answer>>

Ask ==
    /\ state = "idle"
    /\ state' = "busy"
    /\ request' = request + 1
    /\ answer' = <<>>
    /\ UNCHANGED admitted

Answer ==
    /\ state = "busy"
    /\ answer' \in Answers(request)
    /\ state' = "idle"
    /\ UNCHANGED <<admitted, request>>

Lose ==
    /\ state = "busy"
    /\ state' = "down"
    /\ UNCHANGED <<admitted, request, answer>>

Next == LogIn \/ Ask \/ Answer \/ Lose

Spec == Init /\ [][Next]_vars
=============================================================================
