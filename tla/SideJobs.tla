------------------------------- MODULE SideJobs -------------------------------
(* Work of the web process that does not go through the task queue but is     *)
(* shown by the task registry: crawler processes started from the admin pages *)
(* (NewsRefetchController, MarketFetchController) and background agent jobs,  *)
(* threads with a store of their own (PersistentAgentJobStore).  A crawler    *)
(* process outlives the web process; its handle and the thread do not.        *)
EXTENDS SequencesExt, FiniteSetsExt, Integers

CONSTANTS
  Controllers, \* each starts processes, one at a time
  Stoppable,   \* those with a stop button
  MaxJobs,     \* bound: jobs
  Retained,    \* entries the registry keeps, and the store
  MaxReboots   \* bound: restarts of the web process

ASSUME SideJobsAssumption ==
  /\ Stoppable \subseteq Controllers
  /\ "agent" \notin Controllers
  /\ Retained \in Nat \ {0}
  /\ MaxReboots \in Nat

VARIABLES
  jobs,        \* the jobs ever started, in order
  handle,      \* the process a controller holds, 0 for none
  shown,       \* what the controller says of it: [job, status]
  registry,    \* the tasks, the one updated last at the end: [job, status]
  store,       \* the agent jobs, likewise
  reboots      \* restarts so far

sideVars == <<jobs, handle, shown, registry, store, reboots>>

JobIds == DOMAIN jobs
Final == {"succeeded", "failed", "stopped"}
Running(j) == jobs[j].process = "running"

(***************************************************************************)
(* The registry and the store: entries in the order of their last update.  *)
(***************************************************************************)
Has(entries, j) == \E i \in DOMAIN entries : entries[i].job = j
Place(entries, j) == CHOOSE i \in DOMAIN entries : entries[i].job = j
EntryOf(entries, j) == entries[Place(entries, j)]
Others(entries, j) == IF Has(entries, j) THEN RemoveAt(entries, Place(entries, j)) ELSE entries

\* Creating an entry drops the ones updated longest ago.
Newest(entries) == SubSeq(entries, Max({1, Len(entries) - Retained + 1}), Len(entries))
Created(entries, j, status) == Newest(Append(entries, [job |-> j, status |-> status]))

\* Updating an entry that was dropped does nothing.
UpdatedAnyway(entries, j, status) == Append(Others(entries, j), [job |-> j, status |-> status])
Updated(entries, j, status) ==
  IF Has(entries, j) THEN UpdatedAnyway(entries, j, status) ELSE entries

\* A restart fails what had not ended; of those of one moment the oldest stay longest.
Open(e) == e.status \notin Final
Before(entries, i, k) ==
  \/ ~Open(entries[i]) /\ Open(entries[k])
  \/ ~Open(entries[i]) /\ ~Open(entries[k]) /\ i < k
  \/ Open(entries[i]) /\ Open(entries[k]) /\ entries[i].job > entries[k].job

InOrder(entries) == CHOOSE p \in Bijection(DOMAIN entries, DOMAIN entries) :
                      \A i, k \in DOMAIN entries : i < k => Before(entries, p[i], p[k])
Failed(e) == IF Open(e) THEN [e EXCEPT !.status = "failed"] ELSE e
Interrupted(entries) == [n \in DOMAIN entries |-> Failed(entries[InOrder(entries)[n]])]

(***************************************************************************)
(* Controllers.                                                            *)
(***************************************************************************)
\* What an ended process is said to be: a signal asked for outweighs the return code.
FinalStatusByCode(c) == IF jobs[handle[c]].process = "ok" THEN "succeeded" ELSE "failed"
FinalStatus(c) == IF shown[c].status = "stopping" THEN "stopped"
                  ELSE FinalStatusByCode(c)

EndSeen(c) == handle[c] # 0 /\ ~Running(handle[c])

\* Whoever calls the controller looks first whether its process has ended.
Refresh(c) ==
  /\ EndSeen(c)
  /\ shown' = [shown EXCEPT ![c].status = FinalStatus(c)]
  /\ registry' = Updated(registry, handle[c], FinalStatus(c))
  /\ handle' = [handle EXCEPT ![c] = 0]
  /\ UNCHANGED <<jobs, store, reboots>>

\* Only the process the controller holds stands in the way of another one.
BusyController(c) == handle[c] # 0 /\ Running(handle[c])

\* Starting looks too, before the new handle takes the place of the old one.
SeenNothing(c) == registry
Seen(c) == IF EndSeen(c) THEN Updated(registry, handle[c], FinalStatus(c)) ELSE registry

Start(c) ==
  LET j == Len(jobs) + 1
  IN /\ ~BusyController(c)
     /\ j <= MaxJobs
     /\ jobs' = Append(jobs, [kind |-> c, process |-> "running", pc |-> "none", born |-> reboots,
                              trimmed |-> FALSE])
     /\ handle' = [handle EXCEPT ![c] = j]
     /\ shown' = [shown EXCEPT ![c] = [job |-> j, status |-> "running"]]
     /\ registry' = Updated(Created(Seen(c), j, "queued"), j, "running")
     /\ UNCHANGED <<store, reboots>>

\* The signal goes to the process group; the process may have ended by itself just before.
Stop(c) ==
  /\ c \in Stoppable
  /\ handle[c] # 0 /\ Running(handle[c])
  /\ \E end \in {"running", "ok", "bad"} : jobs' = [jobs EXCEPT ![handle[c]].process = end]
  /\ shown' = [shown EXCEPT ![c].status = "stopping"]
  /\ registry' = Updated(registry, handle[c], "stopping")
  /\ UNCHANGED <<handle, store, reboots>>

ProcessEnds(j) ==
  /\ jobs[j].kind \in Controllers
  /\ Running(j)
  /\ \E end \in {"ok", "bad"} : jobs' = [jobs EXCEPT ![j].process = end]
  /\ UNCHANGED <<handle, shown, registry, store, reboots>>

(***************************************************************************)
(* Agent jobs: the store is written first, then the registry.              *)
(***************************************************************************)
IsAgent(j) == jobs[j].kind = "agent"
Goes(j, pc) == jobs' = [jobs EXCEPT ![j].pc = pc]

CreateAgentJob ==
  LET j == Len(jobs) + 1
      stored == Created(store, j, "queued")
  IN /\ j <= MaxJobs
     /\ store' = stored
     /\ jobs' = Append([i \in JobIds |-> [jobs[i] EXCEPT !.trimmed = @ \/ (IsAgent(i) /\ ~Has(stored, i))]],
                       [kind |-> "agent", process |-> "running", pc |-> "register", born |-> reboots,
                        trimmed |-> FALSE])
     /\ UNCHANGED <<handle, shown, registry, reboots>>

RegisterAgentJob(j) ==
  /\ jobs[j].pc = "register"
  /\ registry' = Created(registry, j, "queued")
  /\ Goes(j, "begin")
  /\ UNCHANGED <<handle, shown, store, reboots>>

\* A job that the store dropped reports nothing more, to nobody.
Report(j, status, told, untold) ==
  /\ store' = Updated(store, j, status)
  /\ Goes(j, IF Has(store, j) THEN told ELSE untold)
  /\ UNCHANGED <<handle, shown, registry, reboots>>

Tell(j, status, after) ==
  /\ registry' = Updated(registry, j, status)
  /\ Goes(j, after)
  /\ UNCHANGED <<handle, shown, store, reboots>>

ReportRunning(j) == jobs[j].pc = "begin" /\ Report(j, "running", "tell begin", "work")
TellRunning(j) == jobs[j].pc = "tell begin" /\ Tell(j, "running", "work")

\* The analysis returns a result or raises.
AgentWorks(j) ==
  /\ jobs[j].pc = "work"
  /\ \E end \in {"ok", "bad"} : jobs' = [jobs EXCEPT ![j].process = end, ![j].pc = "end"]
  /\ UNCHANGED <<handle, shown, registry, store, reboots>>

AgentStatus(j) == IF jobs[j].process = "ok" THEN "succeeded" ELSE "failed"
ReportEnd(j) == jobs[j].pc = "end" /\ Report(j, AgentStatus(j), "tell end", "done")
TellEnd(j) == jobs[j].pc = "tell end" /\ Tell(j, AgentStatus(j), "done")

\* A shared result is reused: a job that has ended before it is registered.
ReuseResult ==
  LET j == Len(jobs) + 1
      stored == Created(store, j, "succeeded")
  IN /\ j <= MaxJobs
     /\ store' = stored
     /\ jobs' = Append([i \in JobIds |-> [jobs[i] EXCEPT !.trimmed = @ \/ (IsAgent(i) /\ ~Has(stored, i))]],
                       [kind |-> "agent", process |-> "ok", pc |-> "reused", born |-> reboots,
                        trimmed |-> FALSE])
     /\ UNCHANGED <<handle, shown, registry, reboots>>

RegisterReused(j) ==
  /\ jobs[j].pc = "reused"
  /\ registry' = Updated(Created(registry, j, "queued"), j, "succeeded")
  /\ Goes(j, "done")
  /\ UNCHANGED <<handle, shown, store, reboots>>

(***************************************************************************)
(* A restart of the web process.                                           *)
(***************************************************************************)
Reboot ==
  /\ reboots < MaxReboots
  /\ reboots' = reboots + 1
  /\ registry' = Interrupted(registry)
  /\ store' = Interrupted(store)
  /\ handle' = [c \in Controllers |-> 0]
  /\ shown' = [c \in Controllers |-> [job |-> 0, status |-> "idle"]]
  /\ jobs' = [j \in JobIds |-> IF IsAgent(j) THEN [jobs[j] EXCEPT !.pc = "done", !.process =
                                                     IF @ = "running" THEN "bad" ELSE @]
                               ELSE jobs[j]]

SideJobsInit ==
  /\ jobs = <<>>
  /\ handle = [c \in Controllers |-> 0]
  /\ shown = [c \in Controllers |-> [job |-> 0, status |-> "idle"]]
  /\ registry = <<>> /\ store = <<>>
  /\ reboots = 0

SideJobsNext ==
  \/ \E c \in Controllers : Start(c) \/ Stop(c) \/ Refresh(c)
  \/ CreateAgentJob \/ ReuseResult \/ Reboot
  \/ \E j \in JobIds :
       \/ ProcessEnds(j) \/ RegisterAgentJob(j) \/ RegisterReused(j)
       \/ ReportRunning(j) \/ TellRunning(j) \/ AgentWorks(j) \/ ReportEnd(j) \/ TellEnd(j)

SideJobsSpec == SideJobsInit /\ [][SideJobsNext]_sideVars

(***************************************************************************)
(* Correctness.                                                            *)
(***************************************************************************)
\* Types, no more entries than are kept and none twice, and a handle only of a known job.
SideJobsTypeOK ==
  /\ \A c \in Controllers : /\ handle[c] \in {0} \cup JobIds
                            /\ handle[c] # 0 => shown[c].job = handle[c] /\ jobs[handle[c]].kind = c
  /\ \A entries \in {registry, store} :
       /\ Len(entries) <= Retained
       /\ \A i, k \in DOMAIN entries : entries[i].job = entries[k].job => i = k
       /\ \A e \in Range(entries) : e.job \in JobIds /\ e.status \in Final \cup {"queued", "running", "stopping"}

\* The registry ends up with the outcome of every job it keeps: of a process whose end was
\* seen, and of an agent job whose thread is done; except that the server was restarted since
\* the job began, or the store dropped the agent job while it was at work.
RegistryTellsOutcome ==
  \A j \in JobIds :
    LET over == IF IsAgent(j) THEN jobs[j].pc = "done" ELSE \A c \in Controllers : handle[c] # j
        outcome == AgentStatus(j)
    IN over /\ jobs[j].born = reboots /\ ~jobs[j].trimmed /\ Has(registry, j) =>
         \/ EntryOf(registry, j).status = outcome
         \/ ~IsAgent(j) /\ jobs[j].kind \in Stoppable /\ EntryOf(registry, j).status = "stopped"
=============================================================================
