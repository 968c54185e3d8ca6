-------------------------- MODULE MCRequestComments --------------------------
(***************************************************************************)
(* Small instances of RequestComments for TLC: a creator, a receiver and,  *)
(* when a run asks for one, an administrator; one file and two workers.    *)
(***************************************************************************)
EXTENDS RequestComments, TLC

CONSTANTS alice, bob, carol

MCUsers      == {alice, bob}
MCUsersAdmin == {alice, bob, carol}
MCAlice      == {alice}
MCBob        == {bob}
MCCarol      == {carol}
MCNobody     == {}

MCHabits == {{}, {"share", "omit", "remove"}}
MCOmit   == {{"omit"}}

\* Workers and files are interchangeable; no run of this module checks liveness.
MCSymmetry == Permutations(Workers) \cup Permutations(Files)

=============================================================================
