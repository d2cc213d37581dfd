--------------------------- MODULE QueueRecovery ---------------------------
(***************************************************************************)
(* How the queue comes back after the service stopped, step by step.       *)
(* Module TaskQueue restarts in one step.  The code does it in many, each   *)
(* with a write of its own, and may be stopped again between any two:       *)
(* TaskRegistry.__init__ marks what was interrupted, _load_items goes       *)
(* through the queue file item by item, abandoning on the way what cannot   *)
(* be resumed, writes the file back, and _abandon_orphaned_recovering_tasks *)
(* fails the registry's tasks that have no item.                           *)
(*                                                                         *)
(* While the service is down and loads, the variables of TaskQueue keep     *)
(* their values at the moment it stopped; the last step of the load changes *)
(* them all at once.  Both files are replaced atomically (write_json), so   *)
(* a crash never leaves half a file.                                       *)
(***************************************************************************)
EXTENDS TaskQueue

CONSTANTS
  MaxLoadCrashes,   \* bound: how many loads are interrupted
  MaxQuarantines    \* bound: how often the queue file is found unreadable

ASSUME LoadAssumption == MaxLoadCrashes \in Nat /\ MaxQuarantines \in Nat

VARIABLES
  boot,         \* the load: where it is and what it has in memory
  queueFile,    \* the queue file while the service is not up
  tasksFile,    \* the registry file while the service is not up
  recovering,   \* tasks whose metadata says queue_status = "recovering"
  loadCrashes,  \* loads interrupted so far
  quarantines   \* queue files put aside so far

loadVars == <<boot, queueFile, tasksFile, recovering, loadCrashes, quarantines>>
allVars  == <<vars, loadVars>>

\* An item that is not there has the status "absent".
NoItems == [t \in Tasks |-> NewItem]
NoTasks == [t \in Tasks |-> "none"]

Up == [pc      |-> "up",
       left    |-> {},        \* items still to be looked at
       mem     |-> NoItems,   \* the items read, those not left as they are loaded
       dropped |-> {},        \* self.items: those abandoned so far
       cur     |-> NoTask]    \* abandoned, the registry is not told yet

LoadInit ==
  /\ Init
  /\ boot = Up
  /\ queueFile = NoItems
  /\ tasksFile = NoTasks
  /\ recovering = {}
  /\ loadCrashes = 0
  /\ quarantines = 0

-----------------------------------------------------------------------------
(* The service is up *)

\* The calls of the registry that set queue_status.
TellsQueueStatus(t) ==
  \/ MarkOwned(t) \/ Announce(t) \/ Report(t)
  \/ Defer(t) /\ item[t].status \in Pending
  \/ \E a \in Attempts :
       MarkThrottled(t, a) \/ MarkThrottleResumed(t, a) \/ ReportYield(t, a)
  \/ \E p \in Admins : AdminWrite(p, t)

\* Any step of TaskQueue but the restart.
Work ==
  /\ boot.pc = "up"
  /\ Next
  /\ restarts' = restarts
  /\ recovering' = recovering \ {t \in Tasks : TellsQueueStatus(t)}
  /\ UNCHANGED <<boot, queueFile, tasksFile, loadCrashes, quarantines>>

\* Every critical section wrote its file, so the files hold what memory held.
Crash ==
  /\ boot.pc = "up"
  /\ restarts < MaxRestarts
  /\ queueFile' = item
  /\ tasksFile' = registry
  /\ boot' = [Up EXCEPT !.pc = "registry"]
  /\ UNCHANGED <<vars, recovering, loadCrashes, quarantines>>

-----------------------------------------------------------------------------
(* The service loads *)

CrashAgain ==
  /\ boot.pc # "up"
  /\ loadCrashes < MaxLoadCrashes
  /\ loadCrashes' = loadCrashes + 1
  /\ boot' = [Up EXCEPT !.pc = "registry"]
  /\ UNCHANGED <<vars, queueFile, tasksFile, recovering, quarantines>>

\* Mutant: a task already queued is given queue_status "queued" whatever it was.
RecoveringForgotten == {t \in Tasks : owned[t] /\ tasksFile[t] = "running"}

\* A task already queued keeps the queue_status it has.
Recovering == recovering \cup {t \in Tasks : owned[t] /\ tasksFile[t] = "running"}

\* TaskRegistry._mark_interrupted_tasks, one write.
MarkInterruptedTasks ==
  /\ boot.pc = "registry"
  /\ tasksFile' = [t \in Tasks |-> MarkInterrupted(tasksFile[t], owned[t])]
  /\ recovering' = Recovering
  /\ boot' = [boot EXCEPT !.pc = "read"]
  /\ UNCHANGED <<vars, queueFile, loadCrashes, quarantines>>

ReadQueueFile ==
  /\ boot.pc = "read"
  /\ boot' = [boot EXCEPT !.pc = "items", !.mem = queueFile,
                          !.left = {t \in Tasks : queueFile[t].status # "absent"}]
  /\ UNCHANGED <<vars, queueFile, tasksFile, recovering, loadCrashes, quarantines>>

\* The queue file cannot be parsed: it is renamed, the queue starts empty.
\* (write_json cannot leave such a file, its disk or an editor can.)
QuarantineQueueFile ==
  /\ boot.pc = "read"
  /\ quarantines < MaxQuarantines
  /\ quarantines' = quarantines + 1
  /\ queueFile' = NoItems
  /\ boot' = [boot EXCEPT !.pc = "orphans"]
  /\ UNCHANGED <<vars, tasksFile, recovering, loadCrashes>>

\* An item that was not running is loaded as it is.
KeepItem(t) ==
  /\ boot.pc = "items" /\ t \in boot.left
  /\ boot.mem[t].status # "running"
  /\ boot' = [boot EXCEPT !.left = @ \ {t}]
  /\ UNCHANGED <<vars, queueFile, tasksFile, recovering, loadCrashes, quarantines>>

\* A running item with a checkpoint is queued again, and the registry is told.
ResumeItem(t) ==
  /\ boot.pc = "items" /\ t \in boot.left
  /\ boot.mem[t].status = "running" /\ boot.mem[t].ckpt # 0
  /\ boot' = [boot EXCEPT !.left = @ \ {t}, !.mem[t] = LoadedItem(@)]
  /\ tasksFile' = [tasksFile EXCEPT ![t] = "queued"]
  /\ recovering' = recovering \ {t}
  /\ UNCHANGED <<vars, queueFile, loadCrashes, quarantines>>

\* _abandon_item writes self.items, which holds only what this load abandoned:
\* the items already loaded or still to come are missing from the file until
\* the load ends.
Dropped(gone, mem) == [t \in Tasks |-> IF t \in gone THEN mem[t] ELSE NewItem]

\* A running item without a checkpoint is abandoned, and the file is written.
AbandonItem(t) ==
  LET gone == boot.dropped \cup {t}
      mem  == [boot.mem EXCEPT ![t] = LoadedItem(@)]
  IN  /\ boot.pc = "items" /\ t \in boot.left
      /\ boot.mem[t].status = "running" /\ boot.mem[t].ckpt = 0
      /\ queueFile' = Dropped(gone, mem)
      /\ boot' = [boot EXCEPT !.pc = "abandoning", !.left = @ \ {t}, !.mem = mem,
                              !.dropped = gone, !.cur = t]
      /\ UNCHANGED <<vars, tasksFile, recovering, loadCrashes, quarantines>>

ReportAbandoned ==
  /\ boot.pc = "abandoning"
  /\ tasksFile' = [tasksFile EXCEPT ![boot.cur] = "failed"]
  /\ recovering' = recovering \ {boot.cur}
  /\ boot' = [boot EXCEPT !.pc = "items", !.cur = NoTask]
  /\ UNCHANGED <<vars, queueFile, loadCrashes, quarantines>>

\* Mutant: what is written back is self.items, before the load assigned it.
WriteBackDropped ==
  /\ boot.pc = "items" /\ boot.left = {}
  /\ queueFile' = Dropped(boot.dropped, boot.mem)
  /\ boot' = [boot EXCEPT !.pc = "orphans"]
  /\ UNCHANGED <<vars, tasksFile, recovering, loadCrashes, quarantines>>

\* The loaded items are written back.  (The code does so only if one of them
\* changed; otherwise the file holds them already.)
WriteBack ==
  /\ boot.pc = "items" /\ boot.left = {}
  /\ queueFile' = boot.mem
  /\ boot' = [boot EXCEPT !.pc = "orphans"]
  /\ UNCHANGED <<vars, tasksFile, recovering, loadCrashes, quarantines>>

Orphans == {t \in recovering : tasksFile[t] = "queued" /\ boot.mem[t].status = "absent"}

FailOrphan(t) ==
  /\ boot.pc = "orphans"
  /\ t \in Orphans
  /\ tasksFile' = [tasksFile EXCEPT ![t] = "failed"]
  /\ recovering' = recovering \ {t}
  /\ UNCHANGED <<vars, boot, queueFile, loadCrashes, quarantines>>

\* Mutant: the new process starts from the file as it was found.
StartItemsUnloaded == item

StartItems == boot.mem

\* The handlers are registered, those of ts in another version; the threads of
\* the old process are gone.
Start(ts) ==
  /\ boot.pc = "orphans"
  /\ Orphans = {}
  /\ boot' = Up
  /\ item' = [t \in Tasks |-> [StartItems[t] EXCEPT !.compat = t \notin ts]]
  /\ registry' = tasksFile
  /\ restarts' = restarts + 1
  /\ sch' = Idle
  /\ handler' = [t \in Tasks |-> [a \in Attempts |->
       IF handler[t][a] \in Stopped THEN handler[t][a] ELSE "killed"]]
  /\ admin' = [p \in Admins |-> NoRequest]
  /\ submitter' = [t \in Tasks |->
       IF submitter[t] = "new" THEN "new" ELSE "done"]
  /\ queueFile' = NoItems
  /\ tasksFile' = NoTasks
  /\ UNCHANGED <<owned, recovering, loadCrashes, quarantines>>

LoadStep ==
  \/ MarkInterruptedTasks \/ ReadQueueFile \/ QuarantineQueueFile
  \/ \E t \in Tasks : KeepItem(t) \/ ResumeItem(t) \/ AbandonItem(t)
  \/ ReportAbandoned \/ WriteBack
  \/ \E t \in Tasks : FailOrphan(t)
  \/ \E ts \in SUBSET Tasks : Start(ts)

LoadNext == Work \/ Crash \/ CrashAgain \/ LoadStep

LoadSpec == LoadInit /\ [][LoadNext]_allVars

-----------------------------------------------------------------------------

\* As long as no load was interrupted and the file is readable, coming back is
\* the single step TaskQueue takes it for, and what holds of TaskQueue holds.
RestartIsOneStep == [][loadCrashes = 0 /\ quarantines = 0 => Next]_vars

\* However often the load is interrupted, an item of a readable file comes back
\* as one load would have made it, or it is lost; and it is lost only beside an
\* abandoned item.
LostBesideAbandoned ==
  [][restarts' # restarts /\ quarantines = 0 =>
       \A t \in Tasks :
         \/ [item'[t] EXCEPT !.compat = item[t].compat] = LoadedItem(item[t])
         \/ /\ item'[t].status = "absent"
            /\ \E u \in Tasks \ {t} :
                 item[u].status = "running" /\ item'[u].status = "abandoned"]_vars

\* However often the load is interrupted, and even if the queue file is lost, a
\* task that the registry showed as running and that left no checkpoint is in the
\* queue afterwards, or shown as failed.  (One with a checkpoint may be forgotten:
\* resuming it tells the registry "queued" before the queue file is written.)
ShownRunningIsResolved ==
  [][restarts' # restarts =>
       \A t \in Tasks :
         owned[t] /\ registry[t] = "running" /\ item[t].ckpt = 0 =>
           item'[t].status # "absent" \/ registry'[t] = "failed"]_vars

=============================================================================
