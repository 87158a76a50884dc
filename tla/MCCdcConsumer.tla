---------------------------- MODULE MCCdcConsumer ----------------------------
(* Small instances of CdcConsumer for TLC. *)
EXTENDS CdcConsumer, TLC

Symmetry == Permutations(Txns) \cup Permutations(Rows)
=============================================================================
