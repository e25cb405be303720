--------------------------- MODULE MCFairScheduler ---------------------------
(* Small instances of FairScheduler for TLC.                                *)
EXTENDS FairSchedulerRefinement

CONSTANTS b1, b2, red, blue

\* One shared login for every group (use_group_as_user = 0).
SharedLogin == [b \in {b1, b2} |-> red]

\* One login per tenant group.
TenantLogin == [b \in {b1, b2} |-> IF b = b1 THEN red ELSE blue]

\* A single login.
SingleLogin == [b \in {b1} |-> red]

=============================================================================
