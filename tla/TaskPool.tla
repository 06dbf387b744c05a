------------------------------ MODULE TaskPool ------------------------------
(***************************************************************************)
(* What DynamicThreadPool (apscheduler/threadpool.py) promises its caller, *)
(* without a queue or a thread: a task that is submitted is refused, or it *)
(* is pending until it is run, once, or cancelled.  Only a pool that is    *)
(* shut down refuses or cancels a task.                                    *)
(***************************************************************************)
CONSTANT Tasks

VARIABLES status, closed

Status == {"new", "submitted", "refused", "pending", "running", "ended", "cancelled"}

Init == status = [t \in Tasks |-> "new"] /\ closed = FALSE

Move(t, from, to) ==
  /\ status[t] = from
  /\ status' = [status EXCEPT ![t] = to]
  /\ UNCHANGED closed

Call(t)   == ~closed /\ Move(t, "new", "submitted")
Refuse(t) == closed /\ Move(t, "new", "refused")
Accept(t) == Move(t, "submitted", "pending")
Start(t)  == Move(t, "pending", "running")
End(t)    == Move(t, "running", "ended")
Cancel(t) == closed /\ Move(t, "pending", "cancelled")
Close     == ~closed /\ closed' = TRUE /\ UNCHANGED status

Step(t) == \/ Call(t) \/ Refuse(t) \/ Accept(t)
           \/ Start(t) \/ End(t) \/ Cancel(t)
Next == Close \/ \E t \in Tasks : Step(t)

Spec == Init /\ [][Next]_<<status, closed>>

=============================================================================
