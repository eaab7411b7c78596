------------------------------ MODULE JobLife ------------------------------
(* What the orchestrator promises of a job to those who watch it: it is      *)
(* started once, runs commands one at a time while its status is "running",  *)
(* ends once, and starts nothing afterwards.                                 *)

CONSTANTS Jobs

VARIABLES
  status,   \* the status of a job; "none" before it is submitted
  busy      \* the jobs a command is running for

jobVars == <<status, busy>>

Ended == {"completed", "completed_with_issues", "failed"}

Init ==
  /\ status = [j \in Jobs |-> "none"]
  /\ busy = {}

Submit(j) ==
  /\ status[j] = "none"
  /\ status' = [status EXCEPT ![j] = "running"]
  /\ UNCHANGED busy

Work(j) ==
  /\ status[j] = "running"
  /\ busy' \in {busy, busy \cup {j}, busy \ {j}}
  /\ UNCHANGED status

End(j) ==
  /\ status[j] = "running"
  /\ status' \in {[status EXCEPT ![j] = s] : s \in Ended}
  /\ busy' = busy \ {j}

Next == \E j \in Jobs : Submit(j) \/ Work(j) \/ End(j)

Spec == Init /\ [][Next]_jobVars
=============================================================================
