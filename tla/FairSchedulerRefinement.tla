----------------------- MODULE FairSchedulerRefinement -----------------------
(****************************************************************************)
(* FairScheduler keeps the promises of FairLine: the ring rotates during a  *)
(* pass, but the waiting line behind it does not.                           *)
(****************************************************************************)
EXTENDS FairScheduler, Filters

\* Who waits for a backend: a client parked on a Bind of an unknown statement
\* does not.
Wanting == {c \in Conns : feq[c] # <<>> /\ Head(feq[c]) = "bind"}

\* In a pass the first `left` entries of the ring have not been tried yet and
\* the others were parked again behind them; the one being tried is in neither.
Ranked ==
    SubSeq(ring, left + 1, Len(ring))
        \o (IF pc = "drain" /\ cur # self THEN <<cur>> ELSE <<>>)
        \o SubSeq(ring, 1, left)

WaitingLine == Only(Ranked, Wanting)

Line == INSTANCE FairLine WITH line <- WaitingLine, holder <- be, grp <- group

\* While Postgres stays up, backends are granted in order of arrival: a release,
\* a newcomer's Bind and the releasing client's own next Bind never overtake a
\* waiter who could use the backend.
FirstComeFirstServed == Line!Spec

==============================================================================
