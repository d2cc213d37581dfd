----------------------------- MODULE TaskQueue -----------------------------
(***************************************************************************)
(* The resource aware task queue (stock_pipeline/task_queue.py) together   *)
(* with the task registry it reports to (TaskRegistry in web.py).          *)
(*                                                                         *)
(* Threads: the submitter of each task, one scheduler thread (_loop), one  *)
(* handler thread per attempt, and the HTTP threads of administrators.     *)
(* A step is one critical section of the queue lock, or one call of the    *)
(* registry, which the code makes after the queue lock is released.  Every *)
(* critical section that changes an item writes the queue file before it   *)
(* releases the lock, and every registry call writes the registry file, so *)
(* item and registry are also what a restart reads back.                   *)
(*                                                                         *)
(* Abstractions: the clock appears as two booleans of an item, "fresh"     *)
(* (the heartbeat is younger than the watchdog threshold) and "due"        *)
(* (run_after_epoch has passed); memory pressure is a choice; which of the  *)
(* due items is picked is left open, so what is shown here holds for every *)
(* queue order; a checkpoint is the number of the attempt that recorded it.*)
(***************************************************************************)
EXTENDS Naturals, FiniteSets

CONSTANTS
  Tasks,            \* task identifiers, each submitted at most once
  Admins,           \* HTTP threads that call manual_adjust
  Guarded,          \* tasks whose handler asks is_attempt_active before it reports
  Yielding,         \* tasks whose handler checkpoints with yield_on_pressure
  Swallowing,       \* tasks whose handler catches what a checkpoint raises
  MaxStuckRetries,  \* max_stuck_retries
  MaxCancelled,     \* MAX_CANCELLED_ATTEMPTS
  MaxAttempts,      \* bound: attempts of one task
  MaxYields,        \* bound: the attempts of a task that may meet pressure and yield
  MaxRestarts,      \* bound: restarts of the service
  NoTask            \* the scheduler holds no task

ASSUME QueueAssumption ==
  /\ MaxStuckRetries \in Nat
  /\ MaxCancelled \in Nat \ {0}
  /\ MaxAttempts \in Nat
  /\ MaxYields \in Nat
  /\ MaxRestarts \in Nat
  /\ NoTask \notin Tasks
  /\ Guarded \subseteq Tasks
  /\ Yielding \subseteq Tasks
  /\ Swallowing \subseteq Tasks

VARIABLES
  item,       \* the queue's items, by task
  registry,   \* status of the task in the registry
  owned,      \* the registry entry carries metadata queued_by = QUEUE_OWNER
  submitter,  \* how far the submitting call got
  sch,        \* the scheduler thread
  handler,    \* handler[t][a]: the thread of attempt a of task t
  admin,      \* administrators' requests in progress
  restarts    \* restarts so far

vars == <<item, registry, owned, submitter, sch, handler, admin, restarts>>

-----------------------------------------------------------------------------
(* Types *)

Attempts == 1 .. MaxAttempts
Attempt  == 0 .. MaxAttempts       \* 0: no attempt

Pending   == {"queued", "deferred"}
Terminal  == {"succeeded", "failed", "cancelled", "abandoned"}
Status    == {"absent", "running"} \cup Pending \cup Terminal
RegStatus == {"none", "queued", "running", "succeeded", "failed", "cancelled"}

Item == [status    : Status,
         attempts  : Attempt,          \* attempt_count
         active    : Attempt,          \* active_attempt_id
         cancelled : SUBSET Attempts,  \* cancelled_attempt_ids
         stuck     : 0 .. MaxStuckRetries,   \* stuck_retry_count
         ckpt      : Attempt,          \* checkpoint: who recorded it
         resume    : Attempt,          \* payload.resume_checkpoint: who recorded it
         fresh     : BOOLEAN,
         due       : BOOLEAN,
         compat    : BOOLEAN]          \* handler_version is the registered one

NewItem == [status |-> "absent", attempts |-> 0, active |-> 0, cancelled |-> {},
            stuck |-> 0, ckpt |-> 0, resume |-> 0,
            fresh |-> TRUE, due |-> TRUE, compat |-> TRUE]

SchedulerPc == {"poll", "picked", "announce", "watch", "alive", "report",
                "failing", "commit"}
Scheduler == [pc     : SchedulerPc,
              task   : Tasks \cup {NoTask},
              att    : Attempt,
              out    : RegStatus]      \* the status it is about to write

Idle == [pc |-> "poll", task |-> NoTask, att |-> 0, out |-> "none"]

Stopped   == {"none", "returned", "raised", "deferred", "killed"}
HandlerPc == Stopped \cup {"work", "hung", "gauge", "paused", "throttling",
                           "resuming", "yielding", "yielded", "reporting"}

AdminPc == {"idle", "write", "retryRunning", "retryOther", "promote"}
Admin == [pc   : AdminPc,
          todo : SUBSET Tasks,         \* the tasks the request still has to handle
          out  : RegStatus,            \* the status it is about to write
          then : {"idle", "promote"}]  \* where it goes after writing
NoRequest == [pc |-> "idle", todo |-> {}, out |-> "none", then |-> "idle"]

TypeOK ==
  /\ item \in [Tasks -> Item]
  /\ registry \in [Tasks -> RegStatus]
  /\ owned \in [Tasks -> BOOLEAN]
  /\ submitter \in [Tasks -> {"new", "created", "enqueued", "done"}]
  /\ sch \in Scheduler
  /\ handler \in [Tasks -> [Attempts -> HandlerPc]]
  /\ admin \in [Admins -> Admin]
  /\ restarts \in 0 .. MaxRestarts

Init ==
  /\ item = [t \in Tasks |-> NewItem]
  /\ registry = [t \in Tasks |-> "none"]
  /\ owned = [t \in Tasks |-> FALSE]
  /\ submitter = [t \in Tasks |-> "new"]
  /\ sch = Idle
  /\ handler = [t \in Tasks |-> [a \in Attempts |-> "none"]]
  /\ admin = [p \in Admins |-> NoRequest]
  /\ restarts = 0

-----------------------------------------------------------------------------
(* What the critical sections do to an item *)

\* cancelled_attempt_ids keeps the newest MaxCancelled identifiers.
RememberCancelled(ids, a) ==
  LET all == ids \cup {a}
  IN  IF Cardinality(all) <= MaxCancelled
      THEN all
      ELSE all \ {CHOOSE m \in all : \A n \in all : m <= n}

Enqueued == [NewItem EXCEPT !.status = "queued"]

Silent(i) == [i EXCEPT !.fresh = FALSE]
Due(i)    == [i EXCEPT !.due = TRUE]

Started(i) ==
  [i EXCEPT !.status = "running", !.attempts = i.attempts + 1,
            !.active = i.attempts + 1, !.fresh = TRUE]

Settled(i, s) == [i EXCEPT !.status = s, !.active = 0, !.fresh = TRUE]

Refreshed(i)       == [i EXCEPT !.fresh = TRUE]
Checkpointed(i, a) == [i EXCEPT !.ckpt = a, !.fresh = TRUE]

\* The item waits for its delay and resumes from the checkpoint of attempt a.
Yielded(i, a) ==
  [i EXCEPT !.status = "deferred", !.active = 0, !.resume = a, !.due = FALSE,
            !.fresh = TRUE]

IsActive(t, a)   == item[t].status = "running" /\ item[t].active = a
MayProceed(t, a) == a \notin item[t].cancelled /\ IsActive(t, a)

\* Forced retry: the running attempt is remembered as cancelled and the item
\* is queued again without its checkpoints, or failed when retries are used up.
\* Mutant: one retry too many.
ExhaustedLate(i) == i.stuck > MaxStuckRetries

Exhausted(i) == i.stuck >= MaxStuckRetries

\* Mutant: the cancelled attempt is not remembered.
ForcedRetryForgetting(i) ==
  IF Exhausted(i)
  THEN [i EXCEPT !.status = "failed", !.active = 0, !.fresh = TRUE]
  ELSE [i EXCEPT !.status = "queued", !.active = 0, !.stuck = i.stuck + 1,
                 !.ckpt = 0, !.resume = 0, !.due = TRUE, !.fresh = TRUE]

ForcedRetry(i) ==
  LET ids == RememberCancelled(i.cancelled, i.active)
  IN  IF Exhausted(i)
      THEN [i EXCEPT !.status = "failed", !.active = 0, !.cancelled = ids,
                     !.fresh = TRUE]
      ELSE [i EXCEPT !.status = "queued", !.active = 0, !.cancelled = ids,
                     !.stuck = i.stuck + 1, !.ckpt = 0, !.resume = 0,
                     !.due = TRUE, !.fresh = TRUE]

\* Mutant: the registry is told "queued" whatever happened.
ForcedOutcomeBlind(i) == "queued"

ForcedOutcome(i) == IF Exhausted(i) THEN "failed" ELSE "queued"

Promoted(i) == [i EXCEPT !.status = "queued", !.due = TRUE, !.fresh = TRUE]

Delayed(i) == [i EXCEPT !.status = "deferred", !.due = FALSE, !.fresh = TRUE]

Cancelled(i) ==
  [i EXCEPT !.status = "cancelled", !.active = 0, !.fresh = TRUE,
            !.cancelled = IF i.active = 0 THEN @
                          ELSE RememberCancelled(@, i.active)]

\* The last critical section of a manual retry does not look at the status.
Retried(i) ==
  [i EXCEPT !.status = "queued", !.active = 0, !.stuck = 0, !.ckpt = 0,
            !.resume = 0, !.due = TRUE, !.fresh = TRUE]

\* Abandoning does not look at the status and leaves active_attempt_id alone.
Abandoned(i) == [i EXCEPT !.status = "abandoned", !.fresh = TRUE]

-----------------------------------------------------------------------------
(* Submission: create_task, then enqueue, whose metadata update comes last. *)

CreateTask(t) ==
  /\ submitter[t] = "new"
  /\ submitter' = [submitter EXCEPT ![t] = "created"]
  /\ registry' = [registry EXCEPT ![t] = "queued"]
  /\ UNCHANGED <<item, owned, sch, handler, admin, restarts>>

Enqueue(t) ==
  /\ submitter[t] = "created"
  /\ submitter' = [submitter EXCEPT ![t] = "enqueued"]
  /\ item' = [item EXCEPT ![t] = Enqueued]
  /\ UNCHANGED <<registry, owned, sch, handler, admin, restarts>>

MarkOwned(t) ==
  /\ submitter[t] = "enqueued"
  /\ submitter' = [submitter EXCEPT ![t] = "done"]
  /\ owned' = [owned EXCEPT ![t] = TRUE]
  /\ UNCHANGED <<item, registry, sch, handler, admin, restarts>>

-----------------------------------------------------------------------------
(* The passage of time *)

\* No heartbeat for longer than the watchdog threshold.
Silence(t) ==
  /\ item[t].status = "running"
  /\ item[t].fresh
  /\ item' = [item EXCEPT ![t] = Silent(@)]
  /\ UNCHANGED <<registry, owned, submitter, sch, handler, admin, restarts>>

DelayElapses(t) ==
  /\ item[t].status \in Pending
  /\ ~ item[t].due
  /\ item' = [item EXCEPT ![t] = Due(@)]
  /\ UNCHANGED <<registry, owned, submitter, sch, handler, admin, restarts>>

-----------------------------------------------------------------------------
(* The scheduler thread *)

\* _next_ready_item copies one due item.  force_retry_stuck_tasks, called just
\* before, finds nothing: see SchedulerOwnsRunning.
Pick(t) ==
  /\ sch.pc = "poll"
  /\ item[t].status \in Pending
  /\ item[t].due
  /\ sch' = [Idle EXCEPT !.pc = "picked", !.task = t]
  /\ UNCHANGED <<item, registry, owned, submitter, handler, admin, restarts>>

\* The picked copy has another handler version than the registered handler.
Abandon(t) ==
  /\ sch.pc = "picked" /\ sch.task = t
  /\ ~ item[t].compat
  /\ item' = [item EXCEPT ![t] = Abandoned(@)]
  /\ sch' = [sch EXCEPT !.pc = "report", !.out = "failed"]
  /\ UNCHANGED <<registry, owned, submitter, handler, admin, restarts>>

\* Another heavy task runs or memory is short: the item waits for its delay,
\* unless an administrator changed it since it was picked.
Defer(t) ==
  /\ sch.pc = "picked" /\ sch.task = t
  /\ item[t].compat
  /\ IF item[t].status \in Pending
     THEN item' = [item EXCEPT ![t] = Delayed(@)]
     ELSE UNCHANGED item
  /\ sch' = Idle
  /\ UNCHANGED <<registry, owned, submitter, handler, admin, restarts>>

MarkRunning(t) ==
  /\ sch.pc = "picked" /\ sch.task = t
  /\ item[t].compat
  /\ item[t].status \in Pending
  /\ item[t].attempts < MaxAttempts
  /\ item' = [item EXCEPT ![t] = Started(@)]
  /\ sch' = [sch EXCEPT !.pc = "announce", !.att = item[t].attempts + 1]
  /\ UNCHANGED <<registry, owned, submitter, handler, admin, restarts>>

\* The item is no longer pending when _mark_running gets the lock.
LoseItem(t) ==
  /\ sch.pc = "picked" /\ sch.task = t
  /\ item[t].compat
  /\ item[t].status \notin Pending
  /\ sch' = Idle
  /\ UNCHANGED <<item, registry, owned, submitter, handler, admin, restarts>>

\* The registry is told, then the handler thread starts.
Announce(t) ==
  /\ sch.pc = "announce" /\ sch.task = t
  /\ registry' = [registry EXCEPT ![t] = "running"]
  /\ handler' = [handler EXCEPT ![t][sch.att] = "work"]
  /\ sch' = [sch EXCEPT !.pc = "watch"]
  /\ UNCHANGED <<item, owned, submitter, admin, restarts>>

\* The join timed out and the handler thread is still alive.
JoinTimeout(t) ==
  /\ sch.pc = "watch" /\ sch.task = t
  /\ handler[t][sch.att] \notin Stopped
  /\ sch' = [sch EXCEPT !.pc = "alive"]
  /\ UNCHANGED <<item, registry, owned, submitter, handler, admin, restarts>>

\* Mutant: an attempt that recorded a checkpoint is never held to be stuck.
WatchdogTrusting(t) ==
  /\ sch.pc = "alive" /\ sch.task = t
  /\ IF IsActive(t, sch.att) /\ ~ item[t].fresh /\ item[t].ckpt = 0
     THEN /\ item' = [item EXCEPT ![t] = ForcedRetry(@)]
          /\ sch' = [sch EXCEPT !.pc = "report", !.out = ForcedOutcome(item[t])]
     ELSE /\ sch' = [sch EXCEPT !.pc = "watch"]
          /\ UNCHANGED item
  /\ UNCHANGED <<registry, owned, submitter, handler, admin, restarts>>

\* _force_retry_stuck_item from the watchdog loop: it acts only on its own
\* attempt, and only when the heartbeat is too old; otherwise it joins again.
Watchdog(t) ==
  /\ sch.pc = "alive" /\ sch.task = t
  /\ IF IsActive(t, sch.att) /\ ~ item[t].fresh
     THEN /\ item' = [item EXCEPT ![t] = ForcedRetry(@)]
          /\ sch' = [sch EXCEPT !.pc = "report", !.out = ForcedOutcome(item[t])]
     ELSE /\ sch' = [sch EXCEPT !.pc = "watch"]
          /\ UNCHANGED item
  /\ UNCHANGED <<registry, owned, submitter, handler, admin, restarts>>

Report(t) ==
  /\ sch.pc = "report" /\ sch.task = t
  /\ registry' = [registry EXCEPT ![t] = sch.out]
  /\ sch' = Idle
  /\ UNCHANGED <<item, owned, submitter, handler, admin, restarts>>

\* Mutant: an exception that left the handler is not looked at.
ReadOutcomeIgnoringRaise(t) ==
  /\ sch.pc = "watch" /\ sch.task = t
  /\ handler[t][sch.att] \in Stopped
  /\ sch' = IF ~ IsActive(t, sch.att) THEN Idle
            ELSE [sch EXCEPT !.pc = "commit",
                             !.out = IF registry[t] = "failed" THEN "failed"
                                     ELSE "succeeded"]
  /\ UNCHANGED <<item, registry, owned, submitter, handler, admin, restarts>>

\* The handler thread ended.  What it left counts only while its attempt is
\* the active one; the final status of a normal return is read from the registry.
ReadOutcome(t) ==
  /\ sch.pc = "watch" /\ sch.task = t
  /\ handler[t][sch.att] \in Stopped
  /\ sch' = IF ~ IsActive(t, sch.att) \/ handler[t][sch.att] = "deferred"
            THEN Idle
            ELSE IF handler[t][sch.att] = "raised"
            THEN [sch EXCEPT !.pc = "failing", !.out = "failed"]
            ELSE [sch EXCEPT !.pc = "commit",
                             !.out = IF registry[t] = "failed" THEN "failed"
                                     ELSE "succeeded"]
  /\ UNCHANGED <<item, registry, owned, submitter, handler, admin, restarts>>

\* _mark_failed tells the registry before it takes the queue lock again.
ReportFailure(t) ==
  /\ sch.pc = "failing" /\ sch.task = t
  /\ registry' = [registry EXCEPT ![t] = "failed"]
  /\ sch' = [sch EXCEPT !.pc = "commit"]
  /\ UNCHANGED <<item, owned, submitter, handler, admin, restarts>>

Commit(t) ==
  /\ sch.pc = "commit" /\ sch.task = t
  /\ IF item[t].active = sch.att
     THEN item' = [item EXCEPT ![t] = Settled(@, sch.out)]
     ELSE UNCHANGED item
  /\ sch' = Idle
  /\ UNCHANGED <<registry, owned, submitter, handler, admin, restarts>>

SchedulerStep(t) ==
  \/ Pick(t) \/ Abandon(t) \/ Defer(t) \/ MarkRunning(t) \/ LoseItem(t)
  \/ Announce(t) \/ JoinTimeout(t) \/ Watchdog(t) \/ Report(t)
  \/ ReadOutcome(t) \/ ReportFailure(t) \/ Commit(t)

-----------------------------------------------------------------------------
(* The thread of attempt a of task t.  A handler that a watchdog gave up on  *)
(* keeps running until its next checkpoint: nothing kills a thread.          *)

Goto(t, a, pc) == handler' = [handler EXCEPT ![t][a] = pc]

HandlerOnly == UNCHANGED <<owned, submitter, sch, admin, restarts>>

\* A checkpoint that raises QueueTaskDeferred ends the thread, unless the handler
\* takes it for a failed stock (ths_minute.py, fetch_and_store_minutes) and goes on.
Refused(t, a) ==
  \/ Goto(t, a, "deferred")
  \/ t \in Swallowing /\ Goto(t, a, "work")

\* The work in progress never returns (a request without an answer).
Hang(t, a) ==
  /\ handler[t][a] = "work"
  /\ Goto(t, a, "hung")
  /\ UNCHANGED <<item, registry>> /\ HandlerOnly

\* checkpoint(): _raise_if_attempt_inactive and _record_checkpoint.
EnterCheckpoint(t, a) ==
  /\ handler[t][a] = "work"
  /\ IF MayProceed(t, a)
     THEN /\ item' = [item EXCEPT ![t] = Checkpointed(@, a)]
          /\ Goto(t, a, "gauge")
     ELSE /\ Refused(t, a)
          /\ UNCHANGED item
  /\ UNCHANGED registry /\ HandlerOnly

\* Top of checkpoint()'s loop: check the attempt, read the pressure.
Gauge(t, a) ==
  /\ handler[t][a] \in {"gauge", "paused"}
  /\ IF MayProceed(t, a)
     THEN \/ handler[t][a] = "gauge"  /\ Goto(t, a, "work")
          \/ handler[t][a] = "paused" /\ Goto(t, a, "resuming")
          \/ t \notin Yielding /\ Goto(t, a, "throttling")
          \/ t \in Yielding /\ a <= MaxYields /\ Goto(t, a, "yielding")
     ELSE Refused(t, a)
  /\ UNCHANGED <<item, registry>> /\ HandlerOnly

\* _mark_throttled and _mark_throttle_resumed refresh the item's heartbeat,
\* whoever its active attempt is by now.
Beat(t, a, from, to) ==
  /\ handler[t][a] = from
  /\ item' = [item EXCEPT ![t] = Refreshed(@)]
  /\ Goto(t, a, to)
  /\ UNCHANGED registry /\ HandlerOnly

MarkThrottled(t, a)       == Beat(t, a, "throttling", "paused")
MarkThrottleResumed(t, a) == Beat(t, a, "resuming", "work")

\* _yield_running_item looks at the item's status, not at its attempt.
YieldRunningItem(t, a) ==
  /\ handler[t][a] = "yielding"
  /\ IF item[t].status = "running"
     THEN /\ item' = [item EXCEPT ![t] = Yielded(@, a)]
          /\ Goto(t, a, "yielded")
     ELSE /\ Refused(t, a)
          /\ UNCHANGED item
  /\ UNCHANGED registry /\ HandlerOnly

ReportYield(t, a) ==
  /\ handler[t][a] = "yielded"
  /\ registry' = [registry EXCEPT ![t] = "queued"]
  /\ Refused(t, a)
  /\ UNCHANGED item /\ HandlerOnly

\* The work is done, or failed inside the handler: a guarded handler reports
\* it only if its attempt is still active, the others always do.
Finish(t, a) ==
  /\ handler[t][a] = "work"
  /\ Goto(t, a, IF t \in Guarded => IsActive(t, a) THEN "reporting" ELSE "returned")
  /\ UNCHANGED <<item, registry>> /\ HandlerOnly

ReportResult(t, a) ==
  /\ handler[t][a] = "reporting"
  /\ \E s \in {"succeeded", "failed"} : registry' = [registry EXCEPT ![t] = s]
  /\ Goto(t, a, "returned")
  /\ UNCHANGED item /\ HandlerOnly

\* An exception leaves the handler.
Raise(t, a) ==
  /\ handler[t][a] = "work"
  /\ Goto(t, a, "raised")
  /\ UNCHANGED <<item, registry>> /\ HandlerOnly

HandlerStep(t, a) ==
  \/ Hang(t, a) \/ EnterCheckpoint(t, a) \/ Gauge(t, a)
  \/ MarkThrottled(t, a) \/ MarkThrottleResumed(t, a)
  \/ YieldRunningItem(t, a) \/ ReportYield(t, a)
  \/ Finish(t, a) \/ ReportResult(t, a) \/ Raise(t, a)

(* Administrators: manual_adjust on an HTTP thread of its own.  Each request *)
(* changes the item under the queue lock and tells the registry afterwards.  *)

AdminOnly == UNCHANGED <<owned, submitter, sch, handler, restarts>>

TellRegistry(p, ts, s, next) ==
  admin' = [admin EXCEPT ![p] = [pc |-> "write", todo |-> ts, out |-> s, then |-> next]]

Starts(p, t) == admin[p].pc = "idle" /\ item[t].status # "absent"

\* Promotion is also the second half of retrying a running item, where it
\* raises, leaving the request unfinished, if the item is pending no more.
Promote(p, t) ==
  /\ Starts(p, t) \/ (admin[p].pc = "promote" /\ admin[p].todo = {t})
  /\ IF item[t].status \in Pending
     THEN /\ item' = [item EXCEPT ![t] = Promoted(@)]
          /\ TellRegistry(p, {t}, "queued", "idle")
     ELSE /\ admin' = [admin EXCEPT ![p] = NoRequest]
          /\ UNCHANGED item
  /\ UNCHANGED registry /\ AdminOnly

Delay(p, t) ==
  /\ Starts(p, t)
  /\ item[t].status \in Pending
  /\ item' = [item EXCEPT ![t] = Delayed(@)]
  /\ TellRegistry(p, {t}, "queued", "idle")
  /\ UNCHANGED registry /\ AdminOnly

\* The order is abstracted from; the registry hears of every task listed.
Reorder(p, ts) ==
  /\ admin[p].pc = "idle"
  /\ ts # {}
  /\ \A t \in ts : item[t].status \in Pending
  /\ TellRegistry(p, ts, "queued", "idle")
  /\ UNCHANGED <<item, registry>> /\ AdminOnly

\* Mutant: any task can be cancelled.
CancelAnyStatus(p, t) ==
  /\ Starts(p, t)
  /\ item' = [item EXCEPT ![t] = Cancelled(@)]
  /\ TellRegistry(p, {t}, "cancelled", "idle")
  /\ UNCHANGED registry /\ AdminOnly

Cancel(p, t) ==
  /\ Starts(p, t)
  /\ item[t].status \in Pending \cup {"running"}
  /\ item' = [item EXCEPT ![t] = Cancelled(@)]
  /\ TellRegistry(p, {t}, "cancelled", "idle")
  /\ UNCHANGED registry /\ AdminOnly

\* A retry reads the status, gives the lock back, and then acts on what it read.
RetryLook(p, t) ==
  LET seen == item[t].status
  IN  /\ Starts(p, t)
      /\ seen \in {"running", "failed", "cancelled"} \cup Pending
      /\ admin' = [admin EXCEPT ![p] =
                     [NoRequest EXCEPT !.todo = {t},
                                       !.pc = IF seen = "running" THEN "retryRunning"
                                              ELSE "retryOther"]]
      /\ UNCHANGED <<item, registry>> /\ AdminOnly

\* _force_retry_stuck_item without an attempt: whichever attempt is running.
RetryRunning(p, t) ==
  /\ admin[p].pc = "retryRunning" /\ admin[p].todo = {t}
  /\ IF item[t].status = "running"
     THEN /\ item' = [item EXCEPT ![t] = ForcedRetry(@)]
          /\ TellRegistry(p, {t}, ForcedOutcome(item[t]),
                          IF Exhausted(item[t]) THEN "idle" ELSE "promote")
     ELSE /\ admin' = [admin EXCEPT ![p] = NoRequest]
          /\ UNCHANGED item
  /\ UNCHANGED registry /\ AdminOnly

RetryOther(p, t) ==
  /\ admin[p].pc = "retryOther" /\ admin[p].todo = {t}
  /\ item' = [item EXCEPT ![t] = Retried(@)]
  /\ TellRegistry(p, {t}, "queued", "idle")
  /\ UNCHANGED registry /\ AdminOnly

\* The registry call of a request, for one of the tasks it still owes.
AdminWrite(p, t) ==
  LET rest == admin[p].todo \ {t}
  IN  /\ admin[p].pc = "write" /\ t \in admin[p].todo
      /\ registry' = [registry EXCEPT ![t] = admin[p].out]
      /\ admin' = [admin EXCEPT ![p] =
                     IF rest # {} THEN [@ EXCEPT !.todo = rest]
                     ELSE IF @.then = "promote"
                     THEN [NoRequest EXCEPT !.pc = "promote", !.todo = {t}]
                     ELSE NoRequest]
      /\ UNCHANGED item /\ AdminOnly

AdminStep(p, t) ==
  \/ Promote(p, t) \/ Delay(p, t) \/ Cancel(p, t)
  \/ RetryLook(p, t) \/ RetryRunning(p, t) \/ RetryOther(p, t)
  \/ AdminWrite(p, t)

-----------------------------------------------------------------------------
(* The service stops at any point and starts again from its two files.      *)
(* TaskRegistry._mark_interrupted_tasks runs first, then _load_items.  (A    *)
(* second crash while the queue loads is the subject of QueueRecovery.)     *)

\* s: the status the registry shows; own: the entry is the queue's.
MarkInterrupted(s, own) ==
  IF s \notin {"queued", "running"} THEN s ELSE IF own THEN "queued" ELSE "failed"

\* Mutant: items are loaded as they were written.
LoadedItemAsIs(i) == i

LoadedItem(i) ==
  IF i.status # "running" THEN i
  ELSE IF i.ckpt = 0 THEN Abandoned(i)
  ELSE [i EXCEPT !.status = "queued", !.active = 0, !.resume = i.ckpt,
                 !.due = TRUE, !.fresh = TRUE]

\* ts: the tasks whose handler has another version in the new process.
Restart(ts) ==
  /\ restarts < MaxRestarts
  /\ restarts' = restarts + 1
  /\ registry' = [t \in Tasks |->
       IF item[t].status = "running"
       THEN IF item[t].ckpt = 0 THEN "failed" ELSE "queued"
       ELSE MarkInterrupted(registry[t], owned[t])]
  /\ item' = [t \in Tasks |-> [LoadedItem(item[t]) EXCEPT !.compat = t \notin ts]]
  /\ sch' = Idle
  /\ handler' = [t \in Tasks |-> [a \in Attempts |->
       IF handler[t][a] \in Stopped THEN handler[t][a] ELSE "killed"]]
  /\ admin' = [p \in Admins |-> NoRequest]
  /\ submitter' = [t \in Tasks |->
       IF submitter[t] = "new" THEN "new" ELSE "done"]
  /\ UNCHANGED owned

-----------------------------------------------------------------------------

Next ==
  \/ \E t \in Tasks : CreateTask(t) \/ Enqueue(t) \/ MarkOwned(t)
  \/ \E t \in Tasks : Silence(t) \/ DelayElapses(t)
  \/ \E t \in Tasks : SchedulerStep(t)
  \/ \E t \in Tasks, a \in Attempts : HandlerStep(t, a)
  \/ \E p \in Admins, t \in Tasks : AdminStep(p, t)
  \/ \E p \in Admins, ts \in SUBSET Tasks : Reorder(p, ts)
  \/ \E ts \in SUBSET Tasks : Restart(ts)

Spec == Init /\ [][Next]_vars

-----------------------------------------------------------------------------
(* Safety *)

Serving == {"announce", "watch", "alive", "failing", "commit"}

\* Every running item belongs to the scheduler thread, which is serving that
\* very attempt: at most one item runs, no item is left running with nobody to
\* watch it, and the stuck sweep at the top of _loop never finds anything.
SchedulerOwnsRunning ==
  \A t \in Tasks : item[t].status = "running" =>
    /\ sch.task = t
    /\ sch.att = item[t].active
    /\ sch.pc \in Serving

\* A handler thread that the scheduler no longer waits for is one whose
\* attempt was cancelled and is remembered as such: no thread outlives its
\* attempt without the next checkpoint being able to tell it so.
ZombiesAreRemembered ==
  \A t \in Tasks, a \in Attempts :
    handler[t][a] \notin Stopped =>
      \/ sch.pc \in Serving /\ sch.task = t /\ sch.att = a
      \/ a \in item[t].cancelled

\* A task is recorded as succeeded only when its latest attempt returned, even
\* if an earlier attempt of it, given up by the watchdog, still runs.
SuccessIsLatestReturn ==
  \A t \in Tasks : item[t].status = "succeeded" =>
    handler[t][item[t].attempts] = "returned"

RegActive == {"queued", "running"}

\* Nothing is in progress: no scheduler step, handler, request or submission.
Quiet ==
  /\ sch.pc = "poll"
  /\ \A t \in Tasks : submitter[t] \in {"new", "done"}
  /\ \A t \in Tasks, a \in Attempts : handler[t][a] \in Stopped
  /\ \A p \in Admins : admin[p].pc = "idle"

\* When nothing is in progress, a task that the queue has settled is not
\* shown as active by the registry.  (The schedulers start no new run while
\* the registry shows their last one as active.)
SettledIsReported ==
  Quiet => \A t \in Tasks :
    item[t].status \in Terminal => registry[t] \notin RegActive

\* The same as long as the service was not restarted: a crash between the write
\* of the queue file and the call of the registry parts the two for good.
ReportedUntilRestart == restarts = 0 => SettledIsReported

(* Action properties *)

\* A task that succeeded leaves that status only through a manual retry.
SucceededIsFinal ==
  [][\A t \in Tasks :
       item[t].status = "succeeded" /\ item'[t].status # "succeeded" =>
         \E p \in Admins : admin[p].pc = "retryOther" /\ t \in admin[p].todo]_vars

-----------------------------------------------------------------------------
(* Liveness *)

\* The threads run and time passes; pressure does not last for ever; work
\* that does not hang ends.  Nothing obliges anyone to submit, administrate or
\* restart, and a handler may hang.
Fairness ==
  /\ \A t \in Tasks :
       /\ WF_vars(Enqueue(t) \/ MarkOwned(t))
       /\ WF_vars(Silence(t)) /\ WF_vars(DelayElapses(t))
       /\ WF_vars(SchedulerStep(t)) /\ SF_vars(MarkRunning(t))
  /\ \A t \in Tasks, a \in Attempts :
       /\ WF_vars(HandlerStep(t, a))
       /\ SF_vars(Finish(t, a))
       /\ SF_vars(Gauge(t, a) /\ handler'[t][a] \in {"work", "resuming"})
  /\ \A p \in Admins, t \in Tasks : WF_vars(AdminWrite(p, t))

FairSpec == Spec /\ Fairness

\* Every task that is enqueued is settled in the end, whether its handler
\* returns, raises or hangs.
EveryTaskSettles ==
  \A t \in Tasks : item[t].status = "queued" ~> item[t].status \in Terminal

\* An item in the queue is served: it does not stay queued for ever.
QueuedTaskIsServed ==
  \A t \in Tasks :
    item[t].status = "queued" /\ item[t].attempts < MaxAttempts
      ~> item[t].status # "queued"

\* The scheduler thread always comes back to look at its queue.
SchedulerReturns == []<>(sch.pc = "poll")

-----------------------------------------------------------------------------
(* What the queue promises: see JobSlot. *)

JobState(i) ==
  CASE i.status = "absent"     -> "new"
    [] i.status \in Pending    -> "waiting"
    [] i.status = "running"    -> "running"
    [] i.status = "succeeded"  -> "succeeded"
    [] OTHER                   -> "ended"

Slot == INSTANCE JobSlot WITH Jobs <- Tasks, job <- [t \in Tasks |-> JobState(item[t])]

\* Whatever threads, administrators, the watchdog and restarts do, the queue
\* is a slot that runs one job at a time: a job succeeds only from the slot,
\* and a job that ended comes back only by being submitted again.
ImplementsJobSlot == Slot!Spec

=============================================================================
