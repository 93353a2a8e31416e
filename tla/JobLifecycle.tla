---------------------------- MODULE JobLifecycle ----------------------------
(***************************************************************************)
(* What a PyatsJob row promises the operator who watches the jobs view:    *)
(* its status only moves forward, "success" is reported only for a run     *)
(* that wrote its result row and "error" only for a run that wrote none.   *)
(* A row that an operator deletes may come back, and then shows how far    *)
(* its run has come.  The abstract specification that PyatsJobs implements.*)
(***************************************************************************)
CONSTANT Jobs

VARIABLES status,    \* what the jobs view shows for the job
          produced   \* whether the job has written its result row

vars == <<status, produced>>

TypeOK ==
  /\ status \in [Jobs -> {"absent", "pending", "running", "success", "error"}]
  /\ produced \in [Jobs -> BOOLEAN]

Init ==
  /\ status = [j \in Jobs |-> "absent"]
  /\ produced = [j \in Jobs |-> FALSE]

Advance(j, from, to) ==
  /\ status[j] \in {"absent", from}
  /\ status' = [status EXCEPT ![j] = to]
  /\ UNCHANGED produced

Register(j) == ~produced[j] /\ Advance(j, "absent", "pending")

Start(j) == ~produced[j] /\ Advance(j, "pending", "running")

Produce(j) ==
  /\ status[j] \in {"absent", "running"}
  /\ ~produced[j]
  /\ produced' = [produced EXCEPT ![j] = TRUE]
  /\ UNCHANGED status

Succeed(j) == produced[j] /\ Advance(j, "running", "success")

Fail(j) == ~produced[j] /\ Advance(j, "running", "error")

Delete(j) == status' = [status EXCEPT ![j] = "absent"] /\ UNCHANGED produced

Step(j) ==
  \/ Register(j) \/ Start(j) \/ Produce(j)
  \/ Succeed(j) \/ Fail(j) \/ Delete(j)

Next == \E j \in Jobs : Step(j)

Spec == Init /\ [][Next]_vars
=============================================================================
