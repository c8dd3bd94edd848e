---------------------------- MODULE MCRecovery ----------------------------
(* Instance of Recovery for TLC: the clusters that may be created.         *)
EXTENDS Recovery

To(id, time, lsn, tli) == [id |-> id, time |-> time, lsn |-> lsn, tli |-> tli]

\* The latest backup, one by its ID, and the latest before an instant or an LSN.
SomeClusters ==
    {[target |-> NoTarget, walStorage |-> TRUE],
     [target |-> To(1, NoTime, NoLSN, Latest), walStorage |-> FALSE],
     [target |-> To(NoID, LastSecond - 1, NoLSN, Latest), walStorage |-> FALSE],
     [target |-> To(NoID, NoTime, LastSecond, 1), walStorage |-> FALSE]}
=============================================================================
