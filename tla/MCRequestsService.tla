-------------------------- MODULE MCRequestsService --------------------------
(***************************************************************************)
(* Small instances of RequestsService for TLC: two users, the creator and  *)
(* the receiver, an administrator when a run asks for one, and two worker  *)
(* processes whose calls overlap.                                          *)
(***************************************************************************)
EXTENDS RequestsService, TLC

CONSTANTS alice, bob, carol

MCUsers        == {alice, bob}
MCUsersAdmin   == {alice, bob, carol}
MCReviewerSets == {{}, {carol}}
MCAlice        == {alice}
MCBob          == {bob}
MCAliceBob     == {alice, bob}
MCCarol        == {carol}
MCNobody       == {}
MCNoLists      == {}

\* Worker processes are interchangeable; no run of this module checks liveness.
MCWorkerSymmetry == Permutations(Workers)

=============================================================================
