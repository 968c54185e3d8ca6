---------------------------- MODULE MCSearchIndex ----------------------------
(***************************************************************************)
(* Small instances of SearchIndex for TLC.                                 *)
(***************************************************************************)
EXTENDS SearchIndex, TLC

\* Worker processes are interchangeable; no run of this module checks liveness.
MCWorkerSymmetry == Permutations(Workers)

=============================================================================
