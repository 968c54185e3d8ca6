---------------------------- MODULE MCTimelineView ----------------------------
(***************************************************************************)
(* A small instance of TimelineView for TLC: pages of two events, a list   *)
(* that is empty, starts its first page or has a page nobody has loaded.   *)
(***************************************************************************)
EXTENDS TimelineView

MCPreloaded == {0, 1, 5}

=============================================================================
