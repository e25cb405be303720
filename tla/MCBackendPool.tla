---------------------------- MODULE MCBackendPool ----------------------------
(* Small instances of BackendPool for TLC.                                  *)
EXTENDS BackendPool, TLC

CONSTANTS red, blue, postgres, f1, f2, f3

\* One login per tenant group; the rest of the slots are for lazy logins.
TenantWarm == [s \in Slots |-> CASE s = 0 -> red [] s = 1 -> blue [] OTHER -> None]

\* Every slot is red's.
RedWarm == [s \in Slots |-> red]

\* One shared user.
SharedWarm == [s \in Slots |-> postgres]

\* The callers are alike.
CallerSymmetry == Permutations({f1, f2})

==============================================================================
