------------------------- MODULE MCEventNotifications -------------------------
(***************************************************************************)
(* A small instance of EventNotifications for TLC: the creator, a user     *)
(* with access by the topic, and the receiver, an administrator.           *)
(***************************************************************************)
EXTENDS EventNotifications

CONSTANTS alice, bob, carol

MCUsers   == {alice, bob, carol}
MCWriters == {alice, bob}
MCBob     == {bob}
MCCarol   == {carol}
MCNobody  == {}

=============================================================================
