--------------------------- MODULE MCEventTimeline ---------------------------
(***************************************************************************)
(* Small instances of EventTimeline for TLC: one user is enough, what a    *)
(* list holds does not depend on who wrote it.                             *)
(***************************************************************************)
EXTENDS EventTimeline

CONSTANT alice

MCUsers  == {alice}
MCNobody == {}

=============================================================================
