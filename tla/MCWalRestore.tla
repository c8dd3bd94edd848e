---------------------------- MODULE MCWalRestore ----------------------------
(* Instance of WalRestore for TLC: the states of the cluster of each run.   *)
EXTENDS WalRestore, TLC

State(p, r, s, t) == [primary |-> p, replica |-> r, streams |-> s, token |-> t]

\* A new cluster that is recovered.
NewCluster == State("", FALSE, FALSE, FALSE)

\* The instances of a replica cluster: a standby and the designated primary.
ReplicaStandby == State("other", TRUE, TRUE, FALSE)
DesignatedPrimary == State("me", TRUE, TRUE, FALSE)

\* The same while a promotion token waits to be used.
PromotedStandby == State("other", FALSE, TRUE, TRUE)
PromotedPrimary == State("me", FALSE, TRUE, TRUE)

RecoveryOrRoleChange == {NewCluster, ReplicaStandby, DesignatedPrimary, PromotedPrimary}
OnlyPromotedStandby == {PromotedStandby}
OnlyPromotedPrimary == {PromotedPrimary}
=============================================================================
