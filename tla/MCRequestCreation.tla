-------------------------- MODULE MCRequestCreation --------------------------
(***************************************************************************)
(* A small instance of RequestCreation for TLC: three processes, one user  *)
(* to moderate.                                                            *)
(***************************************************************************)
EXTENDS RequestCreation, TLC

\* Worker processes are interchangeable; no run of this module checks liveness.
MCWorkerSymmetry == Permutations(Workers)

=============================================================================
