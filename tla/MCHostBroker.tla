---------------------------- MODULE MCHostBroker ----------------------------
(***************************************************************************)
(* HostBroker for TLC.  Requests are interchangeable.                      *)
(***************************************************************************)
EXTENDS HostBroker, TLC

RequestSymmetry == Permutations(Requests)
=============================================================================
