--------------------------- MODULE MCRequestExpiry ---------------------------
(***************************************************************************)
(* A small instance of RequestExpiry for TLC, without symmetry, since the  *)
(* run checks liveness.  Users write one request after it was created, and *)
(* comment on both; the other is the one in the way.                       *)
(***************************************************************************)
EXTENDS RequestExpiry

CONSTANTS r1, r2

MCRequests == {r1, r2}

MCMaxRevision == [r \in MCRequests |-> IF r = r1 THEN 2 ELSE 1]

=============================================================================
