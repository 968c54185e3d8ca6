--------------------------- MODULE MCRequestSearch ---------------------------
(***************************************************************************)
(* A small instance of RequestSearch for TLC: two users, a group and a     *)
(* community that receives requests.                                       *)
(***************************************************************************)
EXTENDS RequestSearch

CONSTANTS alice, bob, staff, community

MCUsers       == {alice, bob}
MCGroups      == {staff}
MCCommunities == {community}
MCCreators    == {alice}
MCReceivers   == {bob, staff, community}
MCReviewable  == {bob, staff}
MCSharable    == {bob, staff, community}
MCJoiners     == {bob}

=============================================================================
