-------------------------- MODULE RequestLifecycle --------------------------
(***************************************************************************)
(* What the requests service promises of the life of a request, whoever    *)
(* calls it and however many calls run at once: the status follows the     *)
(* transitions of the action classes, one at a time, a request is decided  *)
(* at most once, and a decided request keeps its decision for ever.        *)
(*                                                                         *)
(* Nothing is said of users, permissions, transactions or the timeline:    *)
(* RequestsService implements this module with all of them.                *)
(***************************************************************************)

CONSTANT Requests

VARIABLE status  \* the status of each request, "none" before it is created

OpenStatuses   == {"submitted"}
ClosedStatuses == {"accepted", "declined", "cancelled", "expired"}
Statuses       == {"created", "submitted", "deleted"} \cup ClosedStatuses
NoStatus       == "none"

\* status_from and status_to of the actions a request type offers.
Transitions ==
  {<<NoStatus, "created">>,     \* CreateAction
   <<NoStatus, "submitted">>,   \* CreateAndSubmitAction
   <<"created", "submitted">>,  \* SubmitAction
   <<"created", "deleted">>}    \* DeleteAction
  \cup {<<"submitted", s>> : s \in ClosedStatuses}

LifecycleTypeOK == status \in [Requests -> Statuses \cup {NoStatus}]

Init == status = [r \in Requests |-> NoStatus]

Move(r) ==
  \E s \in Statuses :
    /\ <<status[r], s>> \in Transitions
    /\ status' = [status EXCEPT ![r] = s]

Next == \E r \in Requests : Move(r)

Spec == Init /\ [][Next]_status

=============================================================================
