------------------------------ MODULE JobSlot ------------------------------
(***************************************************************************)
(* What stock_pipeline/task_queue.py promises to those who enqueue tasks:  *)
(* one execution slot for all of them.  Heavy reads and writes never run   *)
(* side by side, a job succeeds only out of the slot, and a job that was   *)
(* settled is run again only when somebody submits it again.               *)
(***************************************************************************)
CONSTANT Jobs

VARIABLE job

State == {"new", "waiting", "running", "succeeded", "ended"}

TypeOK == job \in [Jobs -> State]

Init == job = [j \in Jobs |-> "new"]

Move(j, from, to) ==
  /\ job[j] \in from
  /\ job' = [job EXCEPT ![j] = to]

Submit(j) == Move(j, {"new"}, "waiting")

Start(j) ==
  /\ \A k \in Jobs : job[k] # "running"
  /\ Move(j, {"waiting"}, "running")

\* The slot is given back: with success, for another attempt, or for good.
Succeed(j) == Move(j, {"running"}, "succeeded")
Requeue(j) == Move(j, {"running"}, "waiting")
End(j)     == Move(j, {"waiting", "running"}, "ended")

\* A manual retry.
Resubmit(j) == Move(j, {"succeeded", "ended"}, "waiting")

Next == \E j \in Jobs :
  Submit(j) \/ Start(j) \/ Succeed(j) \/ Requeue(j) \/ End(j) \/ Resubmit(j)

Spec == Init /\ [][Next]_job

\* The slot holds one job.
OneRunning ==
  \A j, k \in Jobs : job[j] = "running" /\ job[k] = "running" => j = k

=============================================================================
