-------------------------------- MODULE Task --------------------------------
(***************************************************************************)
(* What main relies on in each of the loops it gathers: a task runs until  *)
(* stop_event is set, whatever happens to it, and then returns.  A task    *)
(* that ended earlier would be missed by nobody, since gather keeps its    *)
(* exception to itself; one that did not return would keep gather waiting. *)
(***************************************************************************)
VARIABLES
  stop,         \* stop_event
  returned      \* the task is over

vars == <<stop, returned>>

Init == stop = FALSE /\ returned = FALSE

Signal == stop' = TRUE /\ UNCHANGED returned

Return == stop /\ returned' = TRUE /\ UNCHANGED stop

Next == Signal \/ Return

Spec == Init /\ [][Next]_vars

(* The liveness half is a leads-to and not WF(Return): an implementation   *)
(* maps returned to an expression of its own.                              *)
Returns == stop ~> returned

LiveSpec == Spec /\ Returns
=============================================================================
