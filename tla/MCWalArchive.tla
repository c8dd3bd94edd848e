---------------------------- MODULE MCWalArchive ----------------------------
(* Small instances of WalArchive for TLC. *)
EXTENDS WalArchive, TLC

Interchangeable == Permutations(Handlers)
=============================================================================
