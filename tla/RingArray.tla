------------------------------ MODULE RingArray ------------------------------
(****************************************************************************)
(* The two rings of iouring_loop.c, kept as an array with head, tail and    *)
(* count: the wait ring of the server (waiters) and the request queue of a  *)
(* connection (fe_q). `Contents` is the sequence a ring stands for; module  *)
(* DataLemmas shows that every operation does to it what FairScheduler and  *)
(* ReplyStream, which keep sequences, say.                                  *)
(****************************************************************************)
EXTENDS Integers, Sequences

CONSTANT Size    \* PQPROXY_MAX_CONNS for the wait ring, FE_Q_MAX for fe_q

Cells == 0 .. Size - 1

\* The i-th cell behind the head, i counted from 0.
Cell(r, i) == (r.head + i) % Size

EmptyRing(x) ==
    [cell |-> [i \in Cells |-> x], head |-> 0, tail |-> 0, count |-> 0]

\* Every value the fields can take in a ring of elements of S.
Rings(S) ==
    [cell : [Cells -> S], head : Cells, tail : Cells, count : 0 .. Size]

\* The tail always is where the count says.
Exact(r) == r.tail = Cell(r, r.count)

Contents(r) == [i \in 1 .. r.count |-> r.cell[Cell(r, i - 1)]]

Holds(r, x) == \E i \in 0 .. r.count - 1 : r.cell[Cell(r, i)] = x

\* Nothing is in the ring twice.
Distinct(r) ==
    \A i, j \in 0 .. r.count - 1 :
        r.cell[Cell(r, i)] = r.cell[Cell(r, j)] => i = j

\* feq_push: refused when the ring is full (the caller sees `Full`).
Full(r) == r.count >= Size

Push(r, x) ==
    IF Full(r) THEN r
    ELSE [cell |-> [r.cell EXCEPT ![r.tail] = x],
          head |-> r.head,
          tail |-> (r.tail + 1) % Size,
          count |-> r.count + 1]

\* waiters_push: a client that already waits keeps its place.
PushOnce(r, x) == IF Holds(r, x) THEN r ELSE Push(r, x)

First(r) == r.cell[r.head]

\* feq_pop, and the head of a pass: only on a ring that is not empty.
Pop(r) ==
    [cell |-> r.cell,
     head |-> (r.head + 1) % Size,
     tail |-> r.tail,
     count |-> r.count - 1]

\* The Bind for which no backend was found goes back to the head; the cell is
\* free because it has just been popped.
PushFront(r, x) ==
    IF Full(r) THEN r
    ELSE LET h == (r.head + Size - 1) % Size
         IN  [cell |-> [r.cell EXCEPT ![h] = x],
              head |-> h,
              tail |-> r.tail,
              count |-> r.count + 1]

\* Faulty variant: the entries are moved to the front, the head is not.
TakeOutKeepsHead(r, x) ==
    IF ~Holds(r, x) THEN r
    ELSE LET k == CHOOSE i \in 0 .. r.count - 1 : r.cell[Cell(r, i)] = x
         IN  [cell |-> [i \in Cells |->
                           IF i >= r.count - 1 THEN r.cell[i]
                           ELSE r.cell[Cell(r, IF i < k THEN i ELSE i + 1)]],
              head |-> r.head,
              tail |-> (r.count - 1) % Size,
              count |-> r.count - 1]

\* waiters_remove: the other entries are copied to the beginning of the array.
\* A client is in the ring at most once, so there is one entry to leave out.
TakeOut(r, x) ==
    IF ~Holds(r, x) THEN r
    ELSE LET k == CHOOSE i \in 0 .. r.count - 1 : r.cell[Cell(r, i)] = x
         IN  [cell |-> [i \in Cells |->
                           IF i >= r.count - 1 THEN r.cell[i]
                           ELSE r.cell[Cell(r, IF i < k THEN i ELSE i + 1)]],
              head |-> 0,
              tail |-> (r.count - 1) % Size,
              count |-> r.count - 1]

==============================================================================
