------------------------------- MODULE Filters -------------------------------
(* What SelectSeq does for a membership test, and FlattenSeq, as recursive   *)
(* functions, which can be reasoned about.                                   *)
EXTENDS Integers, Sequences

\* The elements of s that are in S, in their order.
Only(s, S) ==
    LET f[i \in 0 .. Len(s)] ==
            IF i = 0 THEN <<>>
            ELSE IF s[i] \in S THEN Append(f[i - 1], s[i]) ELSE f[i - 1]
    IN  f[Len(s)]

\* The sequences in ss, one behind the other.
Joined(ss) ==
    LET f[i \in 0 .. Len(ss)] == IF i = 0 THEN <<>> ELSE f[i - 1] \o ss[i]
    IN  f[Len(ss)]

===============================================================================
