--------------------------- MODULE JobStatusMachine ---------------------------
(***************************************************************************)
(* The status of a durable job record as the rest of the application may   *)
(* rely on it: the table _ALLOWED_TRANSITIONS of JobRepository, read as a  *)
(* state machine.  A row appears pending (or terminal, when the queue      *)
(* refused the job in the same transaction) and then only moves along the  *)
(* table.                                                                  *)
(***************************************************************************)

CONSTANT Jobs

VARIABLE status

Statuses == {"pending", "running", "success", "failed", "terminal"}

\* The statuses a job may move to from each status.
AllowedTransitions ==
  [s \in Statuses \cup {"absent"} |->
     CASE s = "pending" -> {"running", "terminal"}
       [] s = "running" -> {"success", "failed", "terminal"}
       [] s = "failed"  -> {"running", "terminal"}
       [] OTHER         -> {}]

CanMove(from, to) == to \in AllowedTransitions[from]

Init == status = [j \in Jobs |-> "absent"]

\* The row of job j becomes visible.
Appear(j) ==
  /\ status[j] = "absent"
  /\ \E s \in {"pending", "terminal"} : status' = [status EXCEPT ![j] = s]

\* The row of job j takes one transition of the table.
Move(j) ==
  /\ status[j] \in Statuses
  /\ \E s \in AllowedTransitions[status[j]] : status' = [status EXCEPT ![j] = s]

Next == \E j \in Jobs : Appear(j) \/ Move(j)

Spec == Init /\ [][Next]_status
===============================================================================
