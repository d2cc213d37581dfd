-------------------------- MODULE TaskQueueProofs --------------------------
(***************************************************************************)
(* Theorems about the task queue, for any sets of tasks and administrators *)
(* and any bounds.                                                         *)
(*                                                                         *)
(* None of the invariants of TaskQueue is inductive alone.  IInv adds how  *)
(* attempts are numbered (the running attempt is the newest one, and no    *)
(* later one has a thread), what the threads know (a handler that stopped  *)
(* early is not the active attempt), and which tasks a thread may hold.    *)
(* LoadIInv, near the end, adds what a load that takes many steps holds.   *)
(***************************************************************************)
EXTENDS QueueRecovery, TLAPS, FiniteSetTheorems

\* Attempts are numbered in the order they start; the active one, if there is
\* one, is the newest, and it is not among the cancelled ones while it runs.
AttemptNumbers ==
  \A t \in Tasks :
    /\ item[t].cancelled \subseteq 1 .. item[t].attempts
    /\ item[t].active \in {0, item[t].attempts}
    /\ item[t].status = "running" =>
         item[t].active # 0 /\ item[t].active \notin item[t].cancelled

\* No thread exists for an attempt that was not started yet.
NoEarlyThread ==
  \A t \in Tasks, a \in Attempts :
    \/ item[t].status # "absent" /\ a > item[t].attempts
    \/ submitter[t] \in {"new", "created"}
    => handler[t][a] = "none"

\* A handler that left because of the queue is not the active attempt.
LeftIsInactive ==
  \A t \in Tasks, a \in Attempts :
    handler[t][a] \in {"deferred", "yielded"} => ~ IsActive(t, a)

\* A task that was not enqueued has no item yet.
NotEnqueued ==
  \A t \in Tasks : submitter[t] \in {"new", "created"} =>
    item[t].status = "absent" /\ item[t].attempts = 0

\* What the scheduler holds.
SchedulerHolds ==
  /\ sch.task # NoTask => item[sch.task].status # "absent"
  /\ sch.pc \in Serving =>
       /\ sch.task # NoTask
       /\ sch.att \in 1 .. item[sch.task].attempts
       /\ item[sch.task].active = sch.att => item[sch.task].status = "running"
  /\ sch.pc = "picked" => sch.task # NoTask /\ item[sch.task].status # "succeeded"
  /\ sch.pc = "announce" => handler[sch.task][sch.att] = "none"
  /\ sch.pc \in {"watch", "alive"} =>
       handler[sch.task][sch.att] \notin {"none", "killed"}
  /\ sch.pc \in {"failing", "commit"} =>
       /\ sch.out \in {"succeeded", "failed"}
       /\ handler[sch.task][sch.att] \in Stopped
       /\ sch.out = "succeeded" => handler[sch.task][sch.att] = "returned"
  /\ sch.pc = "failing" => sch.out = "failed"

\* What administrators hold.
AdminHolds ==
  \A p \in Admins, t \in Tasks : t \in admin[p].todo => item[t].status # "absent"

IInv ==
  /\ TypeOK
  /\ SchedulerOwnsRunning
  /\ AttemptNumbers
  /\ NoEarlyThread
  /\ LeftIsInactive
  /\ NotEnqueued
  /\ SchedulerHolds
  /\ AdminHolds

-----------------------------------------------------------------------------
(* Types of constants and of the operators on items *)

LEMMA AttemptType ==
  /\ Attempts \subseteq Attempt
  /\ 0 \in Attempt
  /\ \A a \in Attempt : a # 0 => a \in Attempts
  /\ Attempt \subseteq Nat
  BY QueueAssumption DEF Attempts, Attempt

LEMMA StatusType ==
  /\ Pending \subseteq Status /\ Terminal \subseteq Status
  /\ "queued" \in Pending /\ "deferred" \in Pending
  /\ {"running", "absent"} \subseteq Status
  /\ "running" \notin Pending /\ "running" \notin Terminal
  /\ "absent" \notin Pending /\ "absent" \notin Terminal
  /\ {"succeeded", "failed", "cancelled", "abandoned"} \subseteq Terminal
  BY DEF Status, Pending, Terminal

\* Remembering an attempt adds nothing else to what is remembered.
LEMMA RememberAdds ==
  ASSUME NEW ids, NEW a
  PROVE  RememberCancelled(ids, a) \subseteq ids \cup {a}
  BY DEF RememberCancelled

\* What an operator on items does to the fields the invariants are about.
Keeps(i, j) ==
  /\ j.status = i.status
  /\ j.attempts = i.attempts
  /\ j.active = i.active
  /\ j.cancelled = i.cancelled

\* The item is neither running nor absent afterwards, and its active attempt, if
\* it had one, may be remembered as cancelled.
Leaves(i, j) ==
  /\ j.status \notin {"running", "absent"}
  /\ j.attempts = i.attempts
  /\ j.active \in {0, i.active}
  /\ \/ j.cancelled = i.cancelled
     \/ i.active # 0 /\ j.cancelled = RememberCancelled(i.cancelled, i.active)

LEMMA KeepingOps ==
  ASSUME NEW i \in Item
  PROVE  /\ Silent(i) \in Item     /\ Keeps(i, Silent(i))
         /\ Due(i) \in Item        /\ Keeps(i, Due(i))
         /\ Refreshed(i) \in Item  /\ Keeps(i, Refreshed(i))
         /\ \A a \in Attempts :
              Checkpointed(i, a) \in Item /\ Keeps(i, Checkpointed(i, a))
  BY AttemptType DEF Silent, Due, Refreshed, Checkpointed, Keeps, Item

LEMMA EnqueuedOp ==
  /\ Enqueued \in Item
  /\ Enqueued.status = "queued"
  /\ Enqueued.attempts = 0
  /\ Enqueued.active = 0
  /\ Enqueued.cancelled = {}
  <1>1. NewItem \in Item
    BY QueueAssumption, AttemptType, StatusType DEF NewItem, Item
  <1>2. NewItem.attempts = 0 /\ NewItem.active = 0 /\ NewItem.cancelled = {}
    BY DEF NewItem
  <1> QED
    BY <1>1, <1>2, StatusType DEF Enqueued, Item

LEMMA StartedOp ==
  ASSUME NEW i \in Item, i.attempts < MaxAttempts
  PROVE  /\ Started(i) \in Item
         /\ Started(i).status = "running"
         /\ Started(i).attempts = i.attempts + 1
         /\ Started(i).active = i.attempts + 1
         /\ Started(i).cancelled = i.cancelled
  <1>1. i.attempts + 1 \in Attempt
    BY QueueAssumption DEF Item, Attempt
  <1> QED
    BY <1>1, StatusType DEF Started, Item

LEMMA SettledOp ==
  ASSUME NEW i \in Item, NEW s \in Terminal
  PROVE  /\ Settled(i, s) \in Item
         /\ Leaves(i, Settled(i, s))
         /\ Settled(i, s).status = s
         /\ Settled(i, s).active = 0
  BY AttemptType, StatusType DEF Settled, Leaves, Item

LEMMA YieldedOp ==
  ASSUME NEW i \in Item, NEW a \in Attempts
  PROVE  /\ Yielded(i, a) \in Item
         /\ Leaves(i, Yielded(i, a))
         /\ Yielded(i, a).status = "deferred"
         /\ Yielded(i, a).active = 0
  BY AttemptType, StatusType DEF Yielded, Leaves, Item

LEMMA RequeueingOps ==
  ASSUME NEW i \in Item
  PROVE  /\ Promoted(i) \in Item  /\ Leaves(i, Promoted(i))
         /\ Delayed(i) \in Item   /\ Leaves(i, Delayed(i))
         /\ Retried(i) \in Item   /\ Leaves(i, Retried(i))
         /\ Abandoned(i) \in Item /\ Leaves(i, Abandoned(i))
         /\ Promoted(i).status = "queued"
         /\ Delayed(i).status = "deferred"
         /\ Retried(i).status = "queued" /\ Retried(i).active = 0
         /\ Abandoned(i).status = "abandoned"
  <1>1. 0 \in 0 .. MaxStuckRetries
    BY QueueAssumption
  <1> QED
    BY <1>1, AttemptType, StatusType
    DEF Promoted, Delayed, Retried, Abandoned, Leaves, Item

LEMMA CancelledOp ==
  ASSUME NEW i \in Item
  PROVE  /\ Cancelled(i) \in Item
         /\ Leaves(i, Cancelled(i))
         /\ Cancelled(i).status = "cancelled"
         /\ Cancelled(i).active = 0
  <1> DEFINE ids == IF i.active = 0 THEN i.cancelled
                    ELSE RememberCancelled(i.cancelled, i.active)
  <1>1. /\ ids \in SUBSET Attempts
        /\ \/ ids = i.cancelled
           \/ i.active # 0 /\ ids = RememberCancelled(i.cancelled, i.active)
    <2>1. i.cancelled \subseteq Attempts /\ (i.active # 0 => i.active \in Attempts)
      BY AttemptType DEF Item
    <2>2. RememberCancelled(i.cancelled, i.active) \subseteq i.cancelled \cup {i.active}
      BY RememberAdds
    <2> QED
      BY <2>1, <2>2
  <1>2. Cancelled(i) = [i EXCEPT !.status = "cancelled", !.active = 0,
                                 !.fresh = TRUE, !.cancelled = ids]
    BY DEF Cancelled, Item
  <1> HIDE DEF ids
  <1> QED
    BY <1>1, <1>2, AttemptType, StatusType DEF Leaves, Item

LEMMA ForcedRetryOp ==
  ASSUME NEW i \in Item, i.active # 0
  PROVE  /\ ForcedRetry(i) \in Item
         /\ Leaves(i, ForcedRetry(i))
         /\ ForcedRetry(i).status \in {"failed", "queued"}
         /\ ForcedRetry(i).active = 0
         /\ ForcedRetry(i).cancelled = RememberCancelled(i.cancelled, i.active)
  <1> DEFINE ids == RememberCancelled(i.cancelled, i.active)
  <1>1. ids \in SUBSET Attempts
    <2>1. i.cancelled \subseteq Attempts /\ i.active \in Attempts
      BY AttemptType DEF Item
    <2>2. ids \subseteq i.cancelled \cup {i.active}
      BY RememberAdds
    <2> QED
      BY <2>1, <2>2
  <1>2. ~ Exhausted(i) => i.stuck + 1 \in 0 .. MaxStuckRetries
    BY QueueAssumption DEF Exhausted, Item
  <1>3. ForcedRetry(i) =
          IF Exhausted(i)
          THEN [i EXCEPT !.status = "failed", !.active = 0, !.cancelled = ids,
                         !.fresh = TRUE]
          ELSE [i EXCEPT !.status = "queued", !.active = 0, !.cancelled = ids,
                         !.stuck = i.stuck + 1, !.ckpt = 0, !.resume = 0,
                         !.due = TRUE, !.fresh = TRUE]
    BY DEF ForcedRetry
  <1> HIDE DEF ids
  <1>4. ForcedRetry(i) \in Item
    <2>1. "failed" \in Status /\ "queued" \in Status /\ 0 \in Attempt
      BY AttemptType, StatusType
    <2>2. [i EXCEPT !.cancelled = ids] \in Item
      BY <1>1 DEF Item
    <2>3. CASE Exhausted(i)
      <3>1. ForcedRetry(i) =
              [[i EXCEPT !.cancelled = ids] EXCEPT !.status = "failed", !.active = 0,
                                                   !.fresh = TRUE]
        BY <1>3, <2>3 DEF Item
      <3> QED
        BY <2>1, <2>2, <3>1 DEF Item
    <2>4. CASE ~ Exhausted(i)
      <3> DEFINE more == [i EXCEPT !.cancelled = ids, !.stuck = i.stuck + 1]
      <3>1. more \in Item
        BY <1>1, <1>2, <2>4 DEF Item
      <3>2. ForcedRetry(i) =
              [more EXCEPT !.status = "queued", !.active = 0, !.ckpt = 0,
                           !.resume = 0, !.due = TRUE, !.fresh = TRUE]
        BY <1>3, <2>4 DEF Item
      <3> HIDE DEF more
      <3> QED
        BY <2>1, <3>1, <3>2 DEF Item
    <2> QED
      BY <2>3, <2>4
  <1>5. ForcedRetry(i).status \in {"failed", "queued"}
    BY <1>3 DEF Item
  <1>6. /\ ForcedRetry(i).attempts = i.attempts
        /\ ForcedRetry(i).active = 0
        /\ ForcedRetry(i).cancelled = ids
    BY <1>3 DEF Item
  <1> QED
    BY <1>1, <1>4, <1>5, <1>6 DEF Leaves, ids

LEMMA LoadedOp ==
  ASSUME NEW i \in Item, NEW b \in BOOLEAN
  PROVE  LET j == [LoadedItem(i) EXCEPT !.compat = b]
         IN  /\ j \in Item
             /\ IF i.status = "running"
                THEN Leaves(i, j) /\ j.status \in {"abandoned", "queued"}
                ELSE Keeps(i, j)
  <1> DEFINE j == [LoadedItem(i) EXCEPT !.compat = b]
  <1>1. CASE i.status # "running"
    BY <1>1 DEF LoadedItem, Keeps, Item
  <1>2. CASE i.status = "running" /\ i.ckpt = 0
    <2>1. LoadedItem(i) = Abandoned(i)
      BY <1>2 DEF LoadedItem
    <2>2. Abandoned(i).status = "abandoned"
      BY DEF Abandoned, Item
    <2> QED
      BY <1>2, <2>1, <2>2, RequeueingOps DEF Leaves, Item
  <1>3. CASE i.status = "running" /\ i.ckpt # 0
    BY <1>3, AttemptType, StatusType DEF LoadedItem, Leaves, Item
  <1> QED
    BY <1>1, <1>2, <1>3

-----------------------------------------------------------------------------
(* What a step does to the items *)

LEMMA ItemSet ==
  ASSUME item \in [Tasks -> Item], NEW t \in Tasks, NEW j \in Item,
         item' = [item EXCEPT ![t] = j]
  PROVE  /\ item' \in [Tasks -> Item]
         /\ item'[t] = j
         /\ \A u \in Tasks \ {t} : item'[u] = item[u]
  OBVIOUS

\* How a step takes an item off the slot, or changes what it waits for: it has
\* succeeded only by the scheduler's commit, only a manual retry brings back one
\* that succeeded, and an attempt that ran is the active one no more.
Moves(u) ==
  /\ item[u].status # "absent"
  /\ Leaves(item[u], item'[u])
  /\ item'[u].status = "succeeded" =>
       Commit(u) /\ item[u].active = sch.att /\ sch.out = "succeeded"
  /\ item[u].status = "succeeded" =>
       /\ item'[u].status = "queued"
       /\ \E p \in Admins : admin[p].pc = "retryOther" /\ u \in admin[p].todo
  /\ item[u].status = "running" => item'[u].active = 0 \/ sch' = Idle

\* A step moves, starts or creates at most one item and keeps the others.
ItemEffect ==
  /\ item' \in [Tasks -> Item]
  /\ \A u \in Tasks :
       \/ Keeps(item[u], item'[u])
       \/ Moves(u)
       \/ MarkRunning(u) /\ item'[u] = Started(item[u])
       \/ Enqueue(u) /\ item'[u] = Enqueued
  /\ \A u, v \in Tasks :
       Keeps(item[u], item'[u]) \/ Keeps(item[v], item'[v]) \/ u = v

LEMMA OneItem ==
  ASSUME TypeOK, NEW t \in Tasks, NEW j \in Item,
         item' = [item EXCEPT ![t] = j],
         \/ Keeps(item[t], j)
         \/ item'[t] = j => Moves(t)
         \/ MarkRunning(t) /\ j = Started(item[t])
         \/ Enqueue(t) /\ j = Enqueued
  PROVE  ItemEffect
  <1>1. /\ item' \in [Tasks -> Item]
        /\ item'[t] = j
        /\ \A u \in Tasks \ {t} : item'[u] = item[u]
    BY ItemSet DEF TypeOK
  <1>2. \A u \in Tasks \ {t} : Keeps(item[u], item'[u])
    BY <1>1 DEF Keeps
  <1> QED
    BY <1>1, <1>2 DEF ItemEffect

LEMMA ItemStep ==
  ASSUME IInv, Next
  PROVE  ItemEffect
  <1> USE DEF IInv
  <1>a. TypeOK /\ \A t \in Tasks : item[t] \in Item
    BY DEF TypeOK
  <1>1. ASSUME UNCHANGED item PROVE ItemEffect
    BY <1>1, <1>a DEF TypeOK, ItemEffect, Keeps
  <1>2. ASSUME NEW t \in Tasks,
               \/ CreateTask(t) \/ MarkOwned(t) \/ Pick(t) \/ LoseItem(t)
               \/ Announce(t) \/ JoinTimeout(t) \/ Report(t)
               \/ ReadOutcome(t) \/ ReportFailure(t)
        PROVE  UNCHANGED item
    BY <1>2 DEF CreateTask, MarkOwned, Pick, LoseItem, Announce, JoinTimeout,
                Report, ReadOutcome, ReportFailure
  <1>3. ASSUME NEW t \in Tasks, NEW a \in Attempts,
               \/ Hang(t, a) \/ Gauge(t, a) \/ ReportYield(t, a)
               \/ Finish(t, a) \/ ReportResult(t, a) \/ Raise(t, a)
        PROVE  UNCHANGED item
    BY <1>3 DEF Hang, Gauge, ReportYield, Finish, ReportResult, Raise
  <1>4. ASSUME NEW p \in Admins,
               \/ \E t \in Tasks : RetryLook(p, t) \/ AdminWrite(p, t)
               \/ \E ts \in SUBSET Tasks : Reorder(p, ts)
        PROVE  UNCHANGED item
    BY <1>4 DEF RetryLook, AdminWrite, Reorder
  <1>5. ASSUME NEW t \in Tasks, Enqueue(t) PROVE ItemEffect
    BY <1>5, <1>a, EnqueuedOp, OneItem DEF Enqueue
  <1>6. ASSUME NEW t \in Tasks, Silence(t) \/ DelayElapses(t) PROVE ItemEffect
    <2>1. \/ item' = [item EXCEPT ![t] = Silent(item[t])]
          \/ item' = [item EXCEPT ![t] = Due(item[t])]
      BY <1>6 DEF Silence, DelayElapses
    <2>2. /\ Silent(item[t]) \in Item /\ Keeps(item[t], Silent(item[t]))
          /\ Due(item[t]) \in Item /\ Keeps(item[t], Due(item[t]))
      BY <1>a, KeepingOps
    <2> QED
      BY <2>1, <2>2, <1>a, OneItem
  <1>7. ASSUME NEW t \in Tasks, Abandon(t) PROVE ItemEffect
    <2>1. item' = [item EXCEPT ![t] = Abandoned(item[t])]
      BY <1>7 DEF Abandon
    <2>2. item[t].status \notin {"absent", "running", "succeeded"}
      BY <1>7, QueueAssumption DEF Abandon, SchedulerHolds, SchedulerOwnsRunning, Serving
    <2>3. item'[t] = Abandoned(item[t]) => Moves(t)
      BY <2>2, <1>a, RequeueingOps DEF Moves
    <2> QED
      BY <2>1, <2>3, <1>a, RequeueingOps, OneItem
  <1>8. ASSUME NEW t \in Tasks, Defer(t) PROVE ItemEffect
    <2>1. CASE item[t].status \in Pending
      <3>1. item' = [item EXCEPT ![t] = Delayed(item[t])]
        BY <1>8, <2>1 DEF Defer
      <3>2. item'[t] = Delayed(item[t]) => Moves(t)
        BY <2>1, <1>a, RequeueingOps DEF Moves, Pending
      <3> QED
        BY <3>1, <3>2, <1>a, RequeueingOps, OneItem
    <2>2. CASE item[t].status \notin Pending
      BY <1>8, <2>2, <1>1 DEF Defer
    <2> QED
      BY <2>1, <2>2
  <1>9. ASSUME NEW t \in Tasks, MarkRunning(t) PROVE ItemEffect
    <2>1. /\ item[t].attempts < MaxAttempts
          /\ item' = [item EXCEPT ![t] = Started(item[t])]
      BY <1>9 DEF MarkRunning
    <2> QED
      BY <2>1, <1>9, <1>a, StartedOp, OneItem
  <1>10. ASSUME NEW t \in Tasks, Watchdog(t) PROVE ItemEffect
    <2>1. CASE IsActive(t, sch.att) /\ ~ item[t].fresh
      <3>1. item' = [item EXCEPT ![t] = ForcedRetry(item[t])]
        BY <1>10, <2>1 DEF Watchdog
      <3>2. item[t].status = "running" /\ item[t].active # 0
        BY <2>1 DEF IsActive, AttemptNumbers
      <3>3. item'[t] = ForcedRetry(item[t]) => Moves(t)
        BY <3>2, <1>a, ForcedRetryOp DEF Moves
      <3> QED
        BY <3>1, <3>2, <3>3, <1>a, ForcedRetryOp, OneItem
    <2>2. CASE ~ (IsActive(t, sch.att) /\ ~ item[t].fresh)
      BY <1>10, <2>2, <1>1 DEF Watchdog
    <2> QED
      BY <2>1, <2>2
  <1>11. ASSUME NEW t \in Tasks, Commit(t) PROVE ItemEffect
    <2>1. sch.out \in Terminal
      BY <1>11, StatusType DEF Commit, SchedulerHolds, Serving
    <2>2. CASE item[t].active = sch.att
      <3>1. item' = [item EXCEPT ![t] = Settled(item[t], sch.out)]
        BY <1>11, <2>2 DEF Commit
      <3>2. item[t].status = "running"
        BY <1>11, <2>2 DEF Commit, SchedulerHolds, Serving
      <3>3. item'[t] = Settled(item[t], sch.out) => Moves(t)
        BY <1>11, <2>1, <2>2, <3>2, <1>a, SettledOp DEF Moves
      <3> QED
        BY <3>1, <3>3, <2>1, <1>a, SettledOp, OneItem
    <2>3. CASE item[t].active # sch.att
      BY <1>11, <2>3, <1>1 DEF Commit
    <2> QED
      BY <2>2, <2>3
  <1>12. ASSUME NEW t \in Tasks, NEW a \in Attempts,
                EnterCheckpoint(t, a) \/ MarkThrottled(t, a) \/ MarkThrottleResumed(t, a)
         PROVE  ItemEffect
    <2>1. \/ UNCHANGED item
          \/ item' = [item EXCEPT ![t] = Checkpointed(item[t], a)]
          \/ item' = [item EXCEPT ![t] = Refreshed(item[t])]
      BY <1>12 DEF EnterCheckpoint, MarkThrottled, MarkThrottleResumed, Beat
    <2>2. /\ Checkpointed(item[t], a) \in Item /\ Keeps(item[t], Checkpointed(item[t], a))
          /\ Refreshed(item[t]) \in Item /\ Keeps(item[t], Refreshed(item[t]))
      BY <1>a, KeepingOps
    <2> QED
      BY <2>1, <2>2, <1>1, <1>a, OneItem
  <1>13. ASSUME NEW t \in Tasks, NEW a \in Attempts, YieldRunningItem(t, a)
         PROVE  ItemEffect
    <2>1. CASE item[t].status = "running"
      <3>1. item' = [item EXCEPT ![t] = Yielded(item[t], a)]
        BY <1>13, <2>1 DEF YieldRunningItem
      <3>2. item'[t] = Yielded(item[t], a) => Moves(t)
        BY <2>1, <1>a, YieldedOp DEF Moves
      <3> QED
        BY <3>1, <3>2, <1>a, YieldedOp, OneItem
    <2>2. CASE item[t].status # "running"
      BY <1>13, <2>2, <1>1 DEF YieldRunningItem
    <2> QED
      BY <2>1, <2>2
  <1>14. ASSUME NEW p \in Admins, NEW t \in Tasks, Promote(p, t) \/ Delay(p, t)
         PROVE  ItemEffect
    <2>1. \/ UNCHANGED item
          \/ /\ item[t].status \in Pending
             /\ \/ item' = [item EXCEPT ![t] = Promoted(item[t])]
                \/ item' = [item EXCEPT ![t] = Delayed(item[t])]
      BY <1>14 DEF Promote, Delay
    <2>2. item[t].status \in Pending =>
            /\ item'[t] = Promoted(item[t]) => Moves(t)
            /\ item'[t] = Delayed(item[t]) => Moves(t)
      BY <1>a, RequeueingOps DEF Moves, Pending
    <2> QED
      BY <2>1, <2>2, <1>1, <1>a, RequeueingOps, OneItem
  <1>15. ASSUME NEW p \in Admins, NEW t \in Tasks, Cancel(p, t) PROVE ItemEffect
    <2>1. /\ item[t].status \in Pending \cup {"running"}
          /\ item' = [item EXCEPT ![t] = Cancelled(item[t])]
      BY <1>15 DEF Cancel
    <2>2. item'[t] = Cancelled(item[t]) => Moves(t)
      BY <2>1, <1>a, CancelledOp DEF Moves, Pending
    <2> QED
      BY <2>1, <2>2, <1>a, CancelledOp, OneItem
  <1>16. ASSUME NEW p \in Admins, NEW t \in Tasks, RetryRunning(p, t) PROVE ItemEffect
    <2>1. CASE item[t].status = "running"
      <3>1. item' = [item EXCEPT ![t] = ForcedRetry(item[t])]
        BY <1>16, <2>1 DEF RetryRunning
      <3>2. item[t].active # 0
        BY <2>1 DEF AttemptNumbers
      <3>3. item'[t] = ForcedRetry(item[t]) => Moves(t)
        BY <2>1, <3>2, <1>a, ForcedRetryOp DEF Moves
      <3> QED
        BY <3>1, <3>2, <3>3, <1>a, ForcedRetryOp, OneItem
    <2>2. CASE item[t].status # "running"
      BY <1>16, <2>2, <1>1 DEF RetryRunning
    <2> QED
      BY <2>1, <2>2
  <1>17. ASSUME NEW p \in Admins, NEW t \in Tasks, RetryOther(p, t) PROVE ItemEffect
    <2>1. /\ item[t].status # "absent"
          /\ admin[p].pc = "retryOther" /\ t \in admin[p].todo
          /\ item' = [item EXCEPT ![t] = Retried(item[t])]
      BY <1>17 DEF RetryOther, AdminHolds
    <2>2. item'[t] = Retried(item[t]) => Moves(t)
      BY <2>1, <1>a, RequeueingOps DEF Moves
    <2> QED
      BY <2>1, <2>2, <1>a, RequeueingOps, OneItem
  <1>18. ASSUME NEW ts \in SUBSET Tasks, Restart(ts) PROVE ItemEffect
    <2>1. /\ item' = [t \in Tasks |-> [LoadedItem(item[t]) EXCEPT !.compat = t \notin ts]]
          /\ sch' = Idle
      BY <1>18 DEF Restart
    <2>2. ASSUME NEW t \in Tasks
          PROVE  /\ item'[t] \in Item
                 /\ IF item[t].status = "running" THEN Moves(t)
                    ELSE Keeps(item[t], item'[t])
      <3> DEFINE b == t \notin ts
      <3>1. item'[t] = [LoadedItem(item[t]) EXCEPT !.compat = b]
        BY <2>1
      <3>2. b \in BOOLEAN
        OBVIOUS
      <3> HIDE DEF b
      <3>3. /\ item'[t] \in Item
            /\ IF item[t].status = "running"
               THEN /\ Leaves(item[t], item'[t])
                    /\ item'[t].status \in {"abandoned", "queued"}
               ELSE Keeps(item[t], item'[t])
        BY <3>1, <3>2, <1>a, LoadedOp
      <3> QED
        BY <3>3, <2>1 DEF Moves
    <2>3. \A u, v \in Tasks :
            item[u].status = "running" /\ item[v].status = "running" => u = v
      BY DEF SchedulerOwnsRunning
    <2>4. item' \in [Tasks -> Item]
      BY <2>1, <2>2
    <2> QED
      BY <2>2, <2>3, <2>4 DEF ItemEffect
  <1> QED
    BY <1>1, <1>2, <1>3, <1>4, <1>5, <1>6, <1>7, <1>8, <1>9, <1>10, <1>11, <1>12,
       <1>13, <1>14, <1>15, <1>16, <1>17, <1>18
    DEF Next, SchedulerStep, HandlerStep, AdminStep

-----------------------------------------------------------------------------
(* Types *)

LEMMA RecordTypes ==
  /\ Idle \in Scheduler
  /\ NoRequest \in Admin
  BY AttemptType DEF Idle, Scheduler, SchedulerPc, RegStatus, NoRequest, Admin,
                     AdminPc

\* A scheduler step of a task.
LEMMA SchedulerType ==
  ASSUME IInv, NEW t \in Tasks, SchedulerStep(t)
  PROVE  sch' \in Scheduler
  <1> USE DEF IInv
  <1>a. sch \in Scheduler /\ Idle \in Scheduler /\ item[t] \in Item
    BY RecordTypes DEF TypeOK
  <1>1. CASE Pick(t)
    BY <1>1, <1>a DEF Pick, Scheduler, SchedulerPc
  <1>2. CASE Defer(t) \/ LoseItem(t) \/ Report(t) \/ Commit(t)
    BY <1>2, <1>a DEF Defer, LoseItem, Report, Commit
  <1>3. CASE Abandon(t)
    BY <1>3, <1>a DEF Abandon, Scheduler, SchedulerPc, RegStatus
  <1>4. CASE MarkRunning(t)
    <2>1. item[t].attempts + 1 \in Attempt
      BY <1>4, <1>a, QueueAssumption DEF MarkRunning, Item, Attempt
    <2> QED
      BY <1>4, <2>1, <1>a DEF MarkRunning, Scheduler, SchedulerPc
  <1>5. CASE Announce(t) \/ JoinTimeout(t) \/ ReportFailure(t)
    BY <1>5, <1>a DEF Announce, JoinTimeout, ReportFailure, Scheduler, SchedulerPc
  <1>6. CASE Watchdog(t)
    BY <1>6, <1>a DEF Watchdog, ForcedOutcome, Scheduler, SchedulerPc, RegStatus
  <1>7. CASE ReadOutcome(t)
    BY <1>7, <1>a DEF ReadOutcome, Scheduler, SchedulerPc, RegStatus
  <1> QED
    BY <1>1, <1>2, <1>3, <1>4, <1>5, <1>6, <1>7 DEF SchedulerStep

\* A step of a handler thread moves that thread and no other.
LEMMA HandlerMove ==
  ASSUME TypeOK, NEW t \in Tasks, NEW a \in Attempts, NEW pc \in HandlerPc,
         handler' = [handler EXCEPT ![t][a] = pc]
  PROVE  /\ handler' \in [Tasks -> [Attempts -> HandlerPc]]
         /\ handler'[t][a] = pc
         /\ \A u \in Tasks, b \in Attempts :
              u # t \/ b # a => handler'[u][b] = handler[u][b]
  BY DEF TypeOK

\* Threads of the queue move one at a time, and only while they are alive; one
\* that leaves because of the queue is not the active attempt.
HandlerEffect(t, a) ==
  /\ handler' \in [Tasks -> [Attempts -> HandlerPc]]
  /\ handler[t][a] \notin Stopped
  /\ handler'[t][a] \notin {"none", "killed"}
  /\ handler'[t][a] = "deferred" => handler[t][a] = "yielded" \/ ~ MayProceed(t, a)
                                      \/ item[t].status # "running"
  /\ handler'[t][a] = "yielded" => item'[t].status # "running"
  /\ \A u \in Tasks, b \in Attempts : u # t \/ b # a => handler'[u][b] = handler[u][b]

LEMMA HandlerStepEffect ==
  ASSUME IInv, NEW t \in Tasks, NEW a \in Attempts, HandlerStep(t, a)
  PROVE  HandlerEffect(t, a)
  <1>a. TypeOK /\ item[t] \in Item
    BY DEF IInv, TypeOK
  <1>b. ASSUME NEW pc \in HandlerPc, pc \notin {"none", "killed", "deferred", "yielded"},
               Goto(t, a, pc), handler[t][a] \notin Stopped
        PROVE  HandlerEffect(t, a)
    <2>1. pc \notin {"none", "killed", "deferred", "yielded"}
      BY <1>b
    <2>2. handler' = [handler EXCEPT ![t][a] = pc]
      BY <1>b DEF Goto
    <2>3. /\ handler' \in [Tasks -> [Attempts -> HandlerPc]]
          /\ handler'[t][a] = pc
          /\ \A u \in Tasks, b \in Attempts : u # t \/ b # a => handler'[u][b] = handler[u][b]
      BY <2>2, <1>a DEF TypeOK
    <2> QED
      BY <2>1, <2>3, <1>b DEF HandlerEffect
  <1>c. ASSUME Goto(t, a, "deferred"), handler[t][a] \notin Stopped,
               handler[t][a] = "yielded" \/ ~ MayProceed(t, a) \/ item[t].status # "running"
        PROVE  HandlerEffect(t, a)
    <2>1. "deferred" \in HandlerPc
      BY DEF HandlerPc, Stopped
    <2>2. handler' = [handler EXCEPT ![t][a] = "deferred"]
      BY <1>c DEF Goto
    <2>3. /\ handler' \in [Tasks -> [Attempts -> HandlerPc]]
          /\ handler'[t][a] = "deferred"
          /\ \A u \in Tasks, b \in Attempts : u # t \/ b # a => handler'[u][b] = handler[u][b]
      BY <2>1, <2>2, <1>a DEF TypeOK
    <2> QED
      BY <2>3, <1>c DEF HandlerEffect
  <1>1. CASE Hang(t, a)
    BY <1>1, <1>b DEF Hang, Stopped, HandlerPc
  <1>2. CASE EnterCheckpoint(t, a)
    BY <1>2, <1>b, <1>c DEF EnterCheckpoint, Refused, Stopped, HandlerPc
  <1>3. CASE Gauge(t, a)
    BY <1>3, <1>b, <1>c DEF Gauge, Refused, Stopped, HandlerPc
  <1>4. CASE MarkThrottled(t, a) \/ MarkThrottleResumed(t, a)
    BY <1>4, <1>b DEF MarkThrottled, MarkThrottleResumed, Beat, Stopped, HandlerPc
  <1>5. CASE YieldRunningItem(t, a)
    <2>1. handler[t][a] \notin Stopped
      BY <1>5 DEF YieldRunningItem, Stopped
    <2>2. CASE item[t].status = "running"
      <3>1. Goto(t, a, "yielded") /\ item' = [item EXCEPT ![t] = Yielded(item[t], a)]
        BY <1>5, <2>2 DEF YieldRunningItem
      <3>2. item'[t].status # "running"
        BY <3>1, <1>a, YieldedOp DEF TypeOK, Leaves
      <3>3. "yielded" \in HandlerPc
        BY DEF HandlerPc
      <3>4. handler' = [handler EXCEPT ![t][a] = "yielded"]
        BY <3>1 DEF Goto
      <3>5. /\ handler' \in [Tasks -> [Attempts -> HandlerPc]]
            /\ handler'[t][a] = "yielded"
            /\ \A u \in Tasks, b \in Attempts : u # t \/ b # a => handler'[u][b] = handler[u][b]
        BY <3>3, <3>4, <1>a DEF TypeOK
      <3> QED
        BY <3>2, <3>5, <2>1 DEF HandlerEffect
    <2>3. CASE item[t].status # "running"
      BY <1>5, <2>1, <2>3, <1>b, <1>c DEF YieldRunningItem, Refused, HandlerPc
    <2> QED
      BY <2>2, <2>3
  <1>6. CASE ReportYield(t, a)
    BY <1>6, <1>b, <1>c DEF ReportYield, Refused, Stopped, HandlerPc
  <1>7. CASE Finish(t, a)
    BY <1>7, <1>b DEF Finish, Stopped, HandlerPc
  <1>8. CASE ReportResult(t, a)
    BY <1>8, <1>b DEF ReportResult, Stopped, HandlerPc
  <1>9. CASE Raise(t, a)
    BY <1>9, <1>b DEF Raise, Stopped, HandlerPc
  <1> QED
    BY <1>1, <1>2, <1>3, <1>4, <1>5, <1>6, <1>7, <1>8, <1>9 DEF HandlerStep

LEMMA TypeStep ==
  ASSUME IInv, Next
  PROVE  TypeOK'
  <1>a. TypeOK /\ item' \in [Tasks -> Item] /\ Idle \in Scheduler /\ NoRequest \in Admin
    BY ItemStep, RecordTypes DEF IInv, ItemEffect
  <1>1. ASSUME NEW t \in Tasks, CreateTask(t) \/ Enqueue(t) \/ MarkOwned(t)
        PROVE  TypeOK'
    BY <1>1, <1>a DEF TypeOK, CreateTask, Enqueue, MarkOwned, RegStatus
  <1>2. ASSUME NEW t \in Tasks, Silence(t) \/ DelayElapses(t)
        PROVE  TypeOK'
    BY <1>2, <1>a DEF TypeOK, Silence, DelayElapses
  <1>3. ASSUME NEW t \in Tasks, SchedulerStep(t)
        PROVE  TypeOK'
    <2>1. sch' \in Scheduler /\ sch.out \in RegStatus
      BY <1>3, <1>a, SchedulerType DEF TypeOK, Scheduler
    <2>2. UNCHANGED <<owned, submitter, admin, restarts>>
      BY <1>3 DEF SchedulerStep, Pick, Abandon, Defer, MarkRunning, LoseItem, Announce,
                  JoinTimeout, Watchdog, Report, ReadOutcome, ReportFailure, Commit
    <2>3. registry' \in [Tasks -> RegStatus]
      <3>1. \/ UNCHANGED registry
            \/ \E s \in RegStatus : registry' = [registry EXCEPT ![t] = s]
        BY <1>3, <2>1 DEF SchedulerStep, Pick, Abandon, Defer, MarkRunning, LoseItem,
                    Announce, JoinTimeout, Watchdog, Report, ReadOutcome,
                    ReportFailure, Commit, RegStatus
      <3> QED
        BY <3>1, <1>a DEF TypeOK
    <2>4. handler' \in [Tasks -> [Attempts -> HandlerPc]]
      <3>1. \/ UNCHANGED handler
            \/ /\ sch.pc = "announce"
               /\ handler' = [handler EXCEPT ![t][sch.att] = "work"]
        BY <1>3 DEF SchedulerStep, Pick, Abandon, Defer, MarkRunning, LoseItem,
                    Announce, JoinTimeout, Watchdog, Report, ReadOutcome,
                    ReportFailure, Commit
      <3>2. "work" \in HandlerPc
        BY DEF HandlerPc
      <3>3. sch.pc = "announce" => sch.att \in Attempts
        <4>1. sch.att \in Attempt
          BY <1>a DEF TypeOK, Scheduler
        <4>2. sch.pc = "announce" => sch.att # 0
          BY DEF IInv, SchedulerHolds, Serving
        <4> QED
          BY <4>1, <4>2, AttemptType
      <3>4. CASE sch.pc = "announce" /\ handler' = [handler EXCEPT ![t][sch.att] = "work"]
        <4> DEFINE a == sch.att
        <4>1. a \in Attempts /\ handler' = [handler EXCEPT ![t][a] = "work"]
          BY <3>3, <3>4
        <4> HIDE DEF a
        <4> QED
          BY <4>1, <3>2, <1>a, HandlerMove
      <3> QED
        BY <3>1, <3>4, <1>a DEF TypeOK
    <2> QED
      BY <2>1, <2>2, <2>3, <2>4, <1>a DEF TypeOK
  <1>4. ASSUME NEW t \in Tasks, NEW a \in Attempts, HandlerStep(t, a)
        PROVE  TypeOK'
    <2>1. handler' \in [Tasks -> [Attempts -> HandlerPc]]
      BY <1>4, HandlerStepEffect DEF HandlerEffect
    <2>2. UNCHANGED <<owned, submitter, sch, admin, restarts>>
      BY <1>4 DEF HandlerStep, Hang, EnterCheckpoint, Gauge, MarkThrottled,
                  MarkThrottleResumed, Beat, YieldRunningItem, ReportYield, Finish,
                  ReportResult, Raise, HandlerOnly
    <2>3. \/ UNCHANGED registry
          \/ \E s \in RegStatus : registry' = [registry EXCEPT ![t] = s]
      BY <1>4 DEF HandlerStep, Hang, EnterCheckpoint, Gauge, MarkThrottled,
                  MarkThrottleResumed, Beat, YieldRunningItem, ReportYield, Finish,
                  ReportResult, Raise, RegStatus
    <2> QED
      BY <2>1, <2>2, <2>3, <1>a DEF TypeOK
  <1>5. ASSUME NEW p \in Admins, NEW ts \in SUBSET Tasks, NEW s \in RegStatus,
               NEW next \in {"idle", "promote"}, TellRegistry(p, ts, s, next)
        PROVE  admin' \in [Admins -> Admin]
    BY <1>5, <1>a DEF TypeOK, TellRegistry, Admin, AdminPc
  <1>6. ASSUME NEW p \in Admins, NEW t \in Tasks, AdminStep(p, t)
        PROVE  TypeOK'
    <2>1. UNCHANGED <<owned, submitter, sch, handler, restarts>>
      BY <1>6 DEF AdminStep, Promote, Delay, Cancel, RetryLook, RetryRunning,
                  RetryOther, AdminWrite, AdminOnly
    <2>2. admin[p] \in Admin
      BY <1>a DEF TypeOK
    <2>3. registry' \in [Tasks -> RegStatus]
      <3>1. UNCHANGED registry \/ registry' = [registry EXCEPT ![t] = admin[p].out]
        BY <1>6 DEF AdminStep, Promote, Delay, Cancel, RetryLook, RetryRunning,
                    RetryOther, AdminWrite
      <3> QED
        BY <3>1, <2>2, <1>a DEF TypeOK, Admin
    <2>4. admin' \in [Admins -> Admin]
      <3> USE DEF RegStatus
      <3>1. CASE Promote(p, t)
        BY <3>1, <1>5, <1>a DEF Promote, TypeOK
      <3>2. CASE Delay(p, t) \/ Cancel(p, t) \/ RetryOther(p, t)
        BY <3>2, <1>5 DEF Delay, Cancel, RetryOther
      <3>3. CASE RetryLook(p, t)
        <4> DEFINE new(pc) == [NoRequest EXCEPT !.todo = {t}, !.pc = pc]
        <4>1. \A pc \in {"retryRunning", "retryOther"} : new(pc) \in Admin
          BY DEF NoRequest, Admin, AdminPc, RegStatus
        <4>2. \E pc \in {"retryRunning", "retryOther"} :
                admin' = [admin EXCEPT ![p] = new(pc)]
          BY <3>3 DEF RetryLook
        <4> HIDE DEF new
        <4> QED
          BY <4>1, <4>2, <1>a DEF TypeOK
      <3>4. CASE RetryRunning(p, t)
        BY <3>4, <1>5, <1>a DEF RetryRunning, ForcedOutcome, TypeOK
      <3>5. CASE AdminWrite(p, t)
        BY <3>5, <2>2, <1>a DEF AdminWrite, TypeOK, NoRequest, Admin, AdminPc
      <3> QED
        BY <1>6, <3>1, <3>2, <3>3, <3>4, <3>5 DEF AdminStep
    <2> QED
      BY <2>1, <2>3, <2>4, <1>a DEF TypeOK
  <1>7. ASSUME NEW p \in Admins, NEW ts \in SUBSET Tasks, Reorder(p, ts)
        PROVE  TypeOK'
    BY <1>7, <1>5, <1>a DEF Reorder, TypeOK, AdminOnly, RegStatus
  <1>8. ASSUME NEW ts \in SUBSET Tasks, Restart(ts)
        PROVE  TypeOK'
    <2>1. registry' \in [Tasks -> RegStatus]
      BY <1>8, <1>a DEF Restart, MarkInterrupted, TypeOK, RegStatus
    <2>2. handler' \in [Tasks -> [Attempts -> HandlerPc]]
      BY <1>8, <1>a DEF Restart, TypeOK, HandlerPc, Stopped
    <2>3. submitter' \in [Tasks -> {"new", "created", "enqueued", "done"}]
      BY <1>8, <1>a DEF Restart
    <2>4. restarts' \in 0 .. MaxRestarts
      BY <1>8, <1>a, QueueAssumption DEF Restart, TypeOK
    <2> QED
      BY <1>8, <2>1, <2>2, <2>3, <2>4, <1>a DEF Restart, TypeOK
  <1> QED
    BY <1>1, <1>2, <1>3, <1>4, <1>6, <1>7, <1>8 DEF Next

-----------------------------------------------------------------------------
(* The slot *)

\* An item that runs after a step ran before it, as the same attempt, unless
\* the step started it.
LEMMA RunsOn ==
  ASSUME IInv, Next, NEW u \in Tasks, item'[u].status = "running", ~ MarkRunning(u)
  PROVE  Keeps(item[u], item'[u]) /\ item[u].status = "running"
  BY ItemStep, EnqueuedOp DEF ItemEffect, Moves, Leaves, Keeps

\* Only the scheduler and a restart move the scheduler.
LEMMA SchedulerMoves ==
  ASSUME Next
  PROVE  \/ UNCHANGED sch
         \/ \E t \in Tasks : SchedulerStep(t)
         \/ \E ts \in SUBSET Tasks : Restart(ts)
  <1>1. ASSUME NEW t \in Tasks,
               \/ CreateTask(t) \/ Enqueue(t) \/ MarkOwned(t)
               \/ Silence(t) \/ DelayElapses(t)
        PROVE  UNCHANGED sch
    BY <1>1 DEF CreateTask, Enqueue, MarkOwned, Silence, DelayElapses
  <1>2. ASSUME NEW t \in Tasks, NEW a \in Attempts, HandlerStep(t, a)
        PROVE  UNCHANGED sch
    BY <1>2 DEF HandlerStep, Hang, EnterCheckpoint, Gauge, MarkThrottled,
                MarkThrottleResumed, Beat, YieldRunningItem, ReportYield, Finish,
                ReportResult, Raise, HandlerOnly
  <1>3. ASSUME NEW p \in Admins, NEW t \in Tasks, AdminStep(p, t)
        PROVE  UNCHANGED sch
    BY <1>3 DEF AdminStep, Promote, Delay, Cancel, RetryLook, RetryRunning,
                RetryOther, AdminWrite, AdminOnly
  <1>4. ASSUME NEW p \in Admins, NEW ts \in SUBSET Tasks, Reorder(p, ts)
        PROVE  UNCHANGED sch
    BY <1>4 DEF Reorder, AdminOnly
  <1> QED
    BY <1>1, <1>2, <1>3, <1>4 DEF Next

LEMMA RestartStops ==
  ASSUME IInv, NEW ts \in SUBSET Tasks, Restart(ts), NEW u \in Tasks
  PROVE  item'[u].status # "running"
  <1> DEFINE b == u \notin ts
  <1>1. item'[u] = [LoadedItem(item[u]) EXCEPT !.compat = b]
    BY DEF Restart
  <1>2. b \in BOOLEAN /\ item[u] \in Item
    BY DEF IInv, TypeOK
  <1> HIDE DEF b
  <1> QED
    BY <1>1, <1>2, LoadedOp DEF Leaves, Keeps

LEMMA SlotStep ==
  ASSUME IInv, Next
  PROVE  SchedulerOwnsRunning'
  <1> SUFFICES ASSUME NEW u \in Tasks, item'[u].status = "running"
               PROVE  /\ sch'.task = u
                      /\ sch'.att = item'[u].active
                      /\ sch'.pc \in Serving
    BY DEF SchedulerOwnsRunning
  <1>a. sch \in Scheduler /\ item[u] \in Item
    BY DEF IInv, TypeOK
  <1>1. CASE MarkRunning(u)
    <2>1. item[u].attempts < MaxAttempts /\ item'[u] = Started(item[u])
      BY <1>1 DEF MarkRunning, IInv, TypeOK
    <2>2. item'[u].active = item[u].attempts + 1
      BY <2>1, <1>a, StartedOp
    <2>3. sch' = [sch EXCEPT !.pc = "announce", !.att = item[u].attempts + 1] /\ sch.task = u
      BY <1>1 DEF MarkRunning
    <2> QED
      BY <2>2, <2>3, <1>a DEF Scheduler, Serving
  <1>2. CASE ~ MarkRunning(u)
    <2>1. Keeps(item[u], item'[u]) /\ item[u].status = "running"
      BY <1>2, RunsOn
    <2>2. sch.task = u /\ sch.att = item[u].active /\ sch.pc \in Serving
      BY <2>1 DEF IInv, SchedulerOwnsRunning
    <2>4. CASE UNCHANGED sch
      BY <2>1, <2>2, <2>4 DEF Keeps
    <2>5. CASE \E t \in Tasks : SchedulerStep(t)
      <3>1. PICK t \in Tasks : SchedulerStep(t)
        BY <2>5
      <3>2. CASE Pick(t) \/ Abandon(t) \/ Defer(t) \/ LoseItem(t) \/ MarkRunning(t) \/ Report(t)
        BY <3>2, <2>2 DEF Pick, Abandon, Defer, LoseItem, MarkRunning, Report, Serving
      <3>3. CASE Announce(t) \/ JoinTimeout(t) \/ ReportFailure(t)
        BY <3>3, <2>1, <2>2, <1>a
        DEF Announce, JoinTimeout, ReportFailure, Keeps, Scheduler, Serving
      <3>4. CASE Watchdog(t)
        <4>1. t = u
          BY <3>4, <2>2 DEF Watchdog
        <4>2. CASE item[u].fresh
          BY <3>4, <4>1, <4>2, <2>1, <2>2, <1>a DEF Watchdog, Keeps, Scheduler, Serving
        <4>3. CASE ~ item[u].fresh
          <5>1. item' = [item EXCEPT ![u] = ForcedRetry(item[u])]
            BY <3>4, <4>1, <4>3, <2>1, <2>2 DEF Watchdog, IsActive
          <5>2. item'[u] = ForcedRetry(item[u])
            BY <5>1 DEF IInv, TypeOK
          <5>3. item[u].active # 0
            BY <2>1 DEF IInv, AttemptNumbers
          <5> QED
            BY <5>2, <5>3, <1>a, ForcedRetryOp DEF Leaves
        <4> QED
          BY <4>2, <4>3
      <3>5. CASE ReadOutcome(t)
        <4>1. t = u /\ IsActive(u, sch.att)
          BY <3>5, <2>1, <2>2 DEF ReadOutcome, IsActive
        <4>2. sch.att \in Attempts
          BY <2>1, <2>2, <1>a, AttemptType DEF IInv, AttemptNumbers, Item
        <4>3. handler[u][sch.att] # "deferred"
          BY <4>1, <4>2 DEF IInv, LeftIsInactive
        <4> QED
          BY <3>5, <4>1, <4>3, <2>1, <2>2, <1>a DEF ReadOutcome, Keeps, Scheduler, Serving
      <3>6. CASE Commit(t)
        <4>1. t = u /\ item' = [item EXCEPT ![u] = Settled(item[u], sch.out)]
          BY <3>6, <2>2 DEF Commit
        <4>2. item'[u] = Settled(item[u], sch.out)
          BY <4>1 DEF IInv, TypeOK
        <4>3. sch.out \in Terminal
          BY <3>6, StatusType DEF Commit, IInv, SchedulerHolds
        <4> QED
          BY <4>2, <4>3, <1>a, SettledOp DEF Leaves
      <3> QED
        BY <3>1, <3>2, <3>3, <3>4, <3>5, <3>6 DEF SchedulerStep
    <2>6. CASE \E ts \in SUBSET Tasks : Restart(ts)
      BY <2>6, RestartStops
    <2> QED
      BY <2>4, <2>5, <2>6, SchedulerMoves
  <1> QED
    BY <1>1, <1>2

-----------------------------------------------------------------------------
(* Attempts *)

LEMMA AttemptStep ==
  ASSUME IInv, Next
  PROVE  AttemptNumbers'
  <1> SUFFICES ASSUME NEW u \in Tasks
               PROVE  /\ item'[u].cancelled \subseteq 1 .. item'[u].attempts
                      /\ item'[u].active \in {0, item'[u].attempts}
                      /\ item'[u].status = "running" =>
                           /\ item'[u].active # 0
                           /\ item'[u].active \notin item'[u].cancelled
    BY DEF AttemptNumbers
  <1>a. /\ item[u] \in Item
        /\ item[u].attempts \in Nat
        /\ item[u].cancelled \subseteq 1 .. item[u].attempts
        /\ item[u].active \in {0, item[u].attempts}
    BY AttemptType DEF IInv, TypeOK, AttemptNumbers, Item
  <1>1. CASE Keeps(item[u], item'[u])
    BY <1>1 DEF IInv, AttemptNumbers, Keeps
  <1>2. CASE Leaves(item[u], item'[u])
    <2>1. item'[u].cancelled \subseteq item[u].cancelled \cup ({item[u].active} \ {0})
      BY <1>2, RememberAdds DEF Leaves
    <2> QED
      BY <1>2, <1>a, <2>1 DEF Leaves
  <1>3. CASE MarkRunning(u) /\ item'[u] = Started(item[u])
    <2>1. item[u].attempts < MaxAttempts
      BY <1>3 DEF MarkRunning
    <2>2. /\ item'[u].attempts = item[u].attempts + 1
          /\ item'[u].active = item[u].attempts + 1
          /\ item'[u].cancelled = item[u].cancelled
      BY <1>3, <2>1, <1>a, StartedOp
    <2> QED
      BY <1>a, <2>2
  <1>4. CASE item'[u] = Enqueued
    BY <1>4, EnqueuedOp
  <1> QED
    BY <1>1, <1>2, <1>3, <1>4, ItemStep DEF ItemEffect, Moves

-----------------------------------------------------------------------------
(* Threads *)

\* Handler threads move by their own steps, when they are started, and when
\* the service stops.
LEMMA HandlerMoves ==
  ASSUME Next
  PROVE  \/ UNCHANGED handler
         \/ \E t \in Tasks, a \in Attempts : HandlerStep(t, a)
         \/ \E t \in Tasks : Announce(t)
         \/ \E ts \in SUBSET Tasks : Restart(ts)
  <1>1. ASSUME NEW t \in Tasks,
               \/ CreateTask(t) \/ Enqueue(t) \/ MarkOwned(t)
               \/ Silence(t) \/ DelayElapses(t)
        PROVE  UNCHANGED handler
    BY <1>1 DEF CreateTask, Enqueue, MarkOwned, Silence, DelayElapses
  <1>2. ASSUME NEW t \in Tasks, SchedulerStep(t), ~ Announce(t)
        PROVE  UNCHANGED handler
    BY <1>2 DEF SchedulerStep, Pick, Abandon, Defer, MarkRunning, LoseItem, JoinTimeout,
                Watchdog, Report, ReadOutcome, ReportFailure, Commit
  <1>3. ASSUME NEW p \in Admins, NEW t \in Tasks, AdminStep(p, t)
        PROVE  UNCHANGED handler
    BY <1>3 DEF AdminStep, Promote, Delay, Cancel, RetryLook, RetryRunning,
                RetryOther, AdminWrite, AdminOnly
  <1>4. ASSUME NEW p \in Admins, NEW ts \in SUBSET Tasks, Reorder(p, ts)
        PROVE  UNCHANGED handler
    BY <1>4 DEF Reorder, AdminOnly
  <1> QED
    BY <1>1, <1>2, <1>3, <1>4 DEF Next

LEMMA AnnounceStarts ==
  ASSUME IInv, NEW t \in Tasks, Announce(t)
  PROVE  /\ sch.att \in Attempts
         /\ sch.att \in 1 .. item[t].attempts
         /\ handler'[t][sch.att] = "work"
         /\ \A u \in Tasks, b \in Attempts :
              u # t \/ b # sch.att => handler'[u][b] = handler[u][b]
  <1>1. sch.pc = "announce" /\ sch.task = t
    BY DEF Announce
  <1>2. sch.att \in 1 .. item[t].attempts
    BY <1>1 DEF IInv, SchedulerHolds, Serving
  <1>3. PICK a \in Attempts : a = sch.att
    BY <1>2, AttemptType DEF IInv, TypeOK, Item, Scheduler
  <1>4. "work" \in HandlerPc /\ TypeOK /\ handler' = [handler EXCEPT ![t][a] = "work"]
    BY <1>3 DEF HandlerPc, IInv, Announce
  <1>5. /\ handler'[t][a] = "work"
        /\ \A u \in Tasks, b \in Attempts : u # t \/ b # a => handler'[u][b] = handler[u][b]
    BY <1>4 DEF TypeOK
  <1> QED
    BY <1>2, <1>3, <1>5

LEMMA RestartThreads ==
  ASSUME IInv, NEW ts \in SUBSET Tasks, Restart(ts), NEW u \in Tasks, NEW b \in Attempts
  PROVE  handler'[u][b] = IF handler[u][b] \in Stopped THEN handler[u][b] ELSE "killed"
  BY DEF Restart

\* Attempts are only counted up; an item is created once.
LEMMA AttemptsGrow ==
  ASSUME IInv, Next, NEW u \in Tasks
  PROVE  /\ item[u].attempts \in Nat /\ item'[u].attempts \in Nat
         /\ item[u].attempts <= item'[u].attempts
         /\ item[u].status # "absent" => item'[u].status # "absent"
  <1>a. item[u] \in Item /\ item'[u] \in Item
    BY ItemStep DEF IInv, TypeOK, ItemEffect
  <1>b. item[u].attempts \in Nat /\ item'[u].attempts \in Nat
    BY <1>a, AttemptType DEF Item
  <1>1. CASE Keeps(item[u], item'[u])
    BY <1>1, <1>b DEF Keeps
  <1>2. CASE Leaves(item[u], item'[u])
    BY <1>2, <1>b DEF Leaves
  <1>3. CASE MarkRunning(u) /\ item'[u] = Started(item[u])
    <2>1. item[u].attempts < MaxAttempts
      BY <1>3 DEF MarkRunning
    <2> QED
      BY <1>3, <2>1, <1>a, <1>b, StartedOp
  <1>4. CASE Enqueue(u) /\ item'[u] = Enqueued
    <2>1. item[u].attempts = 0
      BY <1>4 DEF Enqueue, IInv, NotEnqueued
    <2> QED
      BY <1>4, <2>1, <1>b, EnqueuedOp
  <1> QED
    BY <1>1, <1>2, <1>3, <1>4, ItemStep DEF ItemEffect, Moves

\* What may move a submission.
LEMMA SubmissionMoves ==
  ASSUME Next
  PROVE  \/ UNCHANGED <<submitter, owned>>
         \/ \E t \in Tasks : CreateTask(t) \/ Enqueue(t) \/ MarkOwned(t)
         \/ \E ts \in SUBSET Tasks : Restart(ts)
  <1>1. ASSUME NEW t \in Tasks, Silence(t) \/ DelayElapses(t) \/ SchedulerStep(t)
        PROVE  UNCHANGED <<submitter, owned>>
    BY <1>1 DEF Silence, DelayElapses, SchedulerStep, Pick, Abandon, Defer,
                MarkRunning, LoseItem, Announce, JoinTimeout, Watchdog, Report,
                ReadOutcome, ReportFailure, Commit
  <1>2. ASSUME NEW t \in Tasks, NEW a \in Attempts, HandlerStep(t, a)
        PROVE  UNCHANGED <<submitter, owned>>
    BY <1>2 DEF HandlerStep, Hang, EnterCheckpoint, Gauge, MarkThrottled,
                MarkThrottleResumed, Beat, YieldRunningItem, ReportYield, Finish,
                ReportResult, Raise, HandlerOnly
  <1>3. ASSUME NEW p \in Admins, NEW t \in Tasks, AdminStep(p, t)
        PROVE  UNCHANGED <<submitter, owned>>
    BY <1>3 DEF AdminStep, Promote, Delay, Cancel, RetryLook, RetryRunning,
                RetryOther, AdminWrite, AdminOnly
  <1>4. ASSUME NEW p \in Admins, NEW ts \in SUBSET Tasks, Reorder(p, ts)
        PROVE  UNCHANGED <<submitter, owned>>
    BY <1>4 DEF Reorder, AdminOnly
  <1> QED
    BY <1>1, <1>2, <1>3, <1>4 DEF Next

\* A task that is not enqueued was not before.
LEMMA SubmitterStep ==
  ASSUME IInv, Next, NEW u \in Tasks, submitter'[u] \in {"new", "created"}
  PROVE  submitter[u] \in {"new", "created"} /\ ~ Enqueue(u)
  <1> USE DEF IInv, TypeOK
  <1>1. ASSUME NEW t \in Tasks, CreateTask(t) \/ Enqueue(t) \/ MarkOwned(t)
        PROVE  submitter[u] \in {"new", "created"} /\ ~ Enqueue(u)
    BY <1>1 DEF CreateTask, Enqueue, MarkOwned
  <1>2. ASSUME UNCHANGED submitter
        PROVE  submitter[u] \in {"new", "created"} /\ ~ Enqueue(u)
    BY <1>2 DEF Enqueue
  <1>3. ASSUME NEW ts \in SUBSET Tasks, Restart(ts)
        PROVE  submitter[u] \in {"new", "created"} /\ ~ Enqueue(u)
    BY <1>3 DEF Restart, Enqueue
  <1> QED
    BY <1>1, <1>2, <1>3, SubmissionMoves

LEMMA ThreadStep ==
  ASSUME IInv, Next
  PROVE  NoEarlyThread'
  <1> SUFFICES ASSUME NEW u \in Tasks, NEW b \in Attempts,
                      \/ item'[u].status # "absent" /\ b > item'[u].attempts
                      \/ submitter'[u] \in {"new", "created"}
               PROVE  handler'[u][b] = "none"
    BY DEF NoEarlyThread
  <1>1. \/ item[u].status # "absent" /\ b > item[u].attempts
        \/ submitter[u] \in {"new", "created"}
    <2>1. CASE submitter'[u] \in {"new", "created"}
      BY <2>1, SubmitterStep
    <2>2. CASE item[u].status = "absent" /\ item'[u].status # "absent"
      <3>1. Enqueue(u)
        BY <2>2, ItemStep, StatusType DEF ItemEffect, Keeps, Moves, MarkRunning
      <3> QED
        BY <3>1 DEF Enqueue
    <2>3. CASE item[u].status # "absent" /\ b > item'[u].attempts
      BY <2>3, AttemptsGrow DEF Attempts
    <2> QED
      BY <2>1, <2>2, <2>3
  <1>2. handler[u][b] = "none"
    BY <1>1 DEF IInv, NoEarlyThread
  <1>3. CASE UNCHANGED handler
    BY <1>2, <1>3
  <1>4. CASE \E t \in Tasks, a \in Attempts : HandlerStep(t, a)
    BY <1>2, <1>4, HandlerStepEffect DEF HandlerEffect, Stopped
  <1>5. CASE \E t \in Tasks : Announce(t)
    <2>1. PICK t \in Tasks : Announce(t)
      BY <1>5
    <2>2. u # t \/ b # sch.att
      <3>1. sch.task = t /\ sch.pc = "announce" /\ item[t].status # "absent"
        BY <2>1, QueueAssumption DEF Announce, IInv, SchedulerHolds
      <3>2. submitter[t] \notin {"new", "created"}
        BY <3>1 DEF IInv, NotEnqueued
      <3> QED
        BY <2>1, <3>2, <1>1, AnnounceStarts, AttemptsGrow DEF Attempts
    <2> QED
      BY <2>1, <2>2, <1>2, AnnounceStarts
  <1>6. CASE \E ts \in SUBSET Tasks : Restart(ts)
    BY <1>2, <1>6, RestartThreads DEF Stopped
  <1> QED
    BY <1>3, <1>4, <1>5, <1>6, HandlerMoves

LEMMA LeftStep ==
  ASSUME IInv, Next
  PROVE  LeftIsInactive'
  <1> SUFFICES ASSUME NEW u \in Tasks, NEW b \in Attempts,
                      item'[u].status = "running", item'[u].active = b
               PROVE  handler'[u][b] \notin {"deferred", "yielded"}
    BY DEF LeftIsInactive, IsActive
  <1>1. CASE MarkRunning(u)
    <2>1. /\ item[u] \in Item /\ item[u].attempts < MaxAttempts
          /\ item'[u] = Started(item[u]) /\ UNCHANGED handler
      BY <1>1 DEF MarkRunning, IInv, TypeOK
    <2>2. b > item[u].attempts /\ item[u].status # "absent"
      BY <1>1, <2>1, StartedOp, AttemptsGrow, StatusType DEF MarkRunning
    <2> QED
      BY <2>1, <2>2 DEF IInv, NoEarlyThread
  <1>2. CASE ~ MarkRunning(u)
    <2>1. item[u].status = "running" /\ item[u].active = b
      BY <1>2, RunsOn DEF Keeps
    <2>2. handler[u][b] \notin {"deferred", "yielded"} /\ MayProceed(u, b)
      BY <2>1 DEF IInv, LeftIsInactive, AttemptNumbers, IsActive, MayProceed
    <2>3. CASE UNCHANGED handler
      BY <2>2, <2>3
    <2>4. CASE \E t \in Tasks, a \in Attempts : HandlerStep(t, a)
      BY <2>1, <2>2, <2>4, HandlerStepEffect DEF HandlerEffect
    <2>5. CASE \E t \in Tasks : Announce(t)
      BY <2>2, <2>5, AnnounceStarts
    <2>6. CASE \E ts \in SUBSET Tasks : Restart(ts)
      BY <2>6, RestartStops
    <2> QED
      BY <2>3, <2>4, <2>5, <2>6, HandlerMoves
  <1> QED
    BY <1>1, <1>2

-----------------------------------------------------------------------------
(* What the threads hold *)

LEMMA SubmissionStep ==
  ASSUME IInv, Next
  PROVE  NotEnqueued'
  <1> SUFFICES ASSUME NEW u \in Tasks, submitter'[u] \in {"new", "created"}
               PROVE  item'[u].status = "absent" /\ item'[u].attempts = 0
    BY DEF NotEnqueued
  <1>1. submitter[u] \in {"new", "created"} /\ ~ Enqueue(u)
    BY SubmitterStep
  <1>2. item[u].status = "absent" /\ item[u].attempts = 0
    BY <1>1 DEF IInv, NotEnqueued
  <1>3. ~ MarkRunning(u)
    BY <1>2, StatusType DEF MarkRunning
  <1> QED
    BY <1>1, <1>2, <1>3, ItemStep DEF ItemEffect, Moves, Keeps

LEMMA AdminHoldsStep ==
  ASSUME IInv, Next
  PROVE  AdminHolds'
  <1> SUFFICES ASSUME NEW q \in Admins, NEW u \in Tasks, u \in admin'[q].todo
               PROVE  item[u].status # "absent"
    BY AttemptsGrow DEF AdminHolds
  <1> USE DEF IInv, TypeOK
  <1>1. CASE UNCHANGED admin
    BY <1>1 DEF AdminHolds
  <1>2. ASSUME NEW t \in Tasks,
               \/ CreateTask(t) \/ Enqueue(t) \/ MarkOwned(t)
               \/ Silence(t) \/ DelayElapses(t) \/ SchedulerStep(t)
        PROVE  UNCHANGED admin
    BY <1>2 DEF CreateTask, Enqueue, MarkOwned, Silence, DelayElapses, SchedulerStep,
                Pick, Abandon, Defer, MarkRunning, LoseItem, Announce, JoinTimeout,
                Watchdog, Report, ReadOutcome, ReportFailure, Commit
  <1>3. ASSUME NEW t \in Tasks, NEW a \in Attempts, HandlerStep(t, a)
        PROVE  UNCHANGED admin
    BY <1>3 DEF HandlerStep, Hang, EnterCheckpoint, Gauge, MarkThrottled,
                MarkThrottleResumed, Beat, YieldRunningItem, ReportYield, Finish,
                ReportResult, Raise, HandlerOnly
  <1>4. ASSUME NEW p \in Admins, NEW t \in Tasks, AdminStep(p, t)
        PROVE  item[u].status # "absent"
    <2>1. CASE p # q
      <3>1. admin'[q] = admin[q]
        BY <1>4, <2>1 DEF AdminStep, Promote, Delay, Cancel, RetryLook, RetryRunning,
                          RetryOther, AdminWrite, TellRegistry
      <3> QED
        BY <3>1 DEF AdminHolds
    <2>2. CASE p = q
      <3>1. u = t \/ u \in admin[q].todo
        <4>1. admin[p] \in Admin
          OBVIOUS
        <4>2. CASE Promote(p, t) \/ RetryRunning(p, t)
          BY <2>2, <4>2 DEF Promote, RetryRunning, TellRegistry, NoRequest
        <4>3. CASE Delay(p, t) \/ Cancel(p, t) \/ RetryOther(p, t)
          BY <2>2, <4>3 DEF Delay, Cancel, RetryOther, TellRegistry
        <4>4. CASE RetryLook(p, t)
          BY <2>2, <4>4 DEF RetryLook, NoRequest
        <4>5. CASE AdminWrite(p, t)
          BY <2>2, <4>1, <4>5 DEF AdminWrite, NoRequest, Admin
        <4> QED
          BY <1>4, <4>2, <4>3, <4>4, <4>5 DEF AdminStep
      <3>2. item[t].status # "absent" \/ t \in admin[p].todo
        BY <1>4, StatusType DEF AdminStep, Promote, Delay, Cancel, RetryLook, RetryRunning,
                          RetryOther, AdminWrite, Starts
      <3> QED
        BY <3>1, <3>2, <2>2 DEF AdminHolds
    <2> QED
      BY <2>1, <2>2
  <1>5. ASSUME NEW p \in Admins, NEW ts \in SUBSET Tasks, Reorder(p, ts)
        PROVE  item[u].status # "absent"
    <2>1. CASE p = q
      BY <1>5, <2>1, StatusType DEF Reorder, TellRegistry
    <2>2. CASE p # q
      BY <1>5, <2>2 DEF Reorder, TellRegistry, AdminHolds
    <2> QED
      BY <2>1, <2>2
  <1>6. ASSUME NEW ts \in SUBSET Tasks, Restart(ts)
        PROVE  FALSE
    BY <1>6 DEF Restart, NoRequest
  <1> QED
    BY <1>1, <1>2, <1>3, <1>4, <1>5, <1>6 DEF Next

\* The attempt the scheduler serves is active only as long as the item runs.
LEMMA ActiveRuns ==
  ASSUME IInv, Next, NEW t \in Tasks, sch.task = t, sch.pc \in Serving, sch' # Idle,
         item'[t].active = sch.att
  PROVE  item'[t].status = "running"
  <1>1. sch.att # 0 /\ (item[t].active = sch.att => item[t].status = "running")
    BY DEF IInv, SchedulerHolds
  <1>2. CASE Keeps(item[t], item'[t])
    BY <1>1, <1>2 DEF Keeps
  <1>3. CASE Moves(t)
    BY <1>1, <1>3 DEF Moves, Leaves
  <1>4. CASE MarkRunning(t)
    BY <1>4 DEF MarkRunning, Serving
  <1>5. CASE item'[t] = Enqueued
    BY <1>1, <1>5, EnqueuedOp
  <1> QED
    BY <1>2, <1>3, <1>4, <1>5, ItemStep DEF ItemEffect

\* Success is written by the scheduler's commit only.
LEMMA SuccessIsCommitted ==
  ASSUME IInv, Next, NEW t \in Tasks, item'[t].status = "succeeded",
         item[t].status # "succeeded"
  PROVE  /\ Commit(t) /\ item[t].active = sch.att /\ sch.out = "succeeded"
         /\ item'[t].attempts = item[t].attempts
  <1>1. ~ (MarkRunning(t) /\ item'[t] = Started(item[t]))
    <2>1. ASSUME MarkRunning(t), item'[t] = Started(item[t]) PROVE FALSE
      <3>1. item[t] \in Item /\ item[t].attempts < MaxAttempts
        BY <2>1 DEF MarkRunning, IInv, TypeOK
      <3> QED
        BY <2>1, <3>1, StartedOp
    <2> QED
      BY <2>1
  <1> QED
    BY <1>1, ItemStep, EnqueuedOp DEF ItemEffect, Moves, Leaves, Keeps

LEMMA SchedulerHoldsStep ==
  ASSUME IInv, Next
  PROVE  SchedulerHolds'
  <1> USE DEF Serving
  <1>a. sch \in Scheduler /\ NoTask \notin Tasks
    BY QueueAssumption DEF IInv, TypeOK
  <1>b. Idle.pc = "poll" /\ Idle.task = NoTask
    BY DEF Idle
  <1>1. CASE sch' = Idle
    BY <1>1, <1>b DEF SchedulerHolds
  <1>2. CASE UNCHANGED sch /\ sch.task = NoTask
    BY <1>2 DEF IInv, SchedulerHolds
  <1>3. CASE UNCHANGED sch /\ sch.task # NoTask /\ ~ \E ts \in SUBSET Tasks : Restart(ts)
    <2>1. PICK t \in Tasks : t = sch.task
      BY <1>3, <1>a DEF Scheduler
    <2>2. item'[t].status # "absent"
      BY <2>1, <1>3, AttemptsGrow DEF IInv, SchedulerHolds
    <2>3. CASE sch.pc \notin Serving
      <3>1. sch.pc = "picked" => item'[t].status # "succeeded"
        BY <2>1, SuccessIsCommitted DEF Commit, IInv, SchedulerHolds
      <3> QED
        BY <2>1, <2>2, <2>3, <3>1, <1>3 DEF SchedulerHolds
    <2>4. CASE sch.pc \in Serving
      <3>1. sch.att \in 1 .. item[t].attempts /\ sch.att \in 1 .. item'[t].attempts
        BY <2>1, <2>4, AttemptsGrow DEF IInv, SchedulerHolds
      <3>2. PICK a \in Attempts : a = sch.att
        BY <3>1, <1>a, AttemptType DEF Scheduler
      <3>3. ~ \E k \in Tasks : Announce(k)
        BY <1>3, <1>a DEF Announce, Scheduler
      <3>4. \/ handler'[t][a] = handler[t][a]
            \/ handler[t][a] \notin Stopped /\ handler'[t][a] \notin {"none", "killed"}
        <4>1. ASSUME NEW k \in Tasks, NEW b \in Attempts, HandlerStep(k, b)
              PROVE  \/ handler'[t][a] = handler[t][a]
                     \/ /\ handler[t][a] \notin Stopped
                        /\ handler'[t][a] \notin {"none", "killed"}
          BY <4>1, HandlerStepEffect DEF HandlerEffect
        <4> QED
          BY <4>1, <3>3, <1>3, HandlerMoves
      <3>5. item'[t].active = sch.att => item'[t].status = "running"
        <4>1. sch' # Idle
          BY <2>4, <1>3, <1>b
        <4> QED
          BY <2>1, <2>4, <4>1, ActiveRuns
      <3> QED
        BY <2>1, <2>2, <2>4, <3>1, <3>2, <3>4, <3>5, <1>3 DEF IInv, SchedulerHolds, Stopped
    <2> QED
      BY <2>3, <2>4
  <1>4. ASSUME NEW t \in Tasks, SchedulerStep(t), sch' # Idle
        PROVE  SchedulerHolds'
    <2>a. item'[t].status # "absent" \/ item[t].status = "absent"
      BY AttemptsGrow
    <2>1. CASE Pick(t)
      <3>1. item[t].status \in Pending /\ item' = item
        BY <2>1 DEF Pick
      <3>2. sch'.pc = "picked" /\ sch'.task = t
        BY <2>1 DEF Pick, Idle
      <3> QED
        BY <3>1, <3>2, <1>a DEF SchedulerHolds, Pending
    <2>2. CASE Abandon(t) \/ (Watchdog(t) /\ sch'.pc = "report")
      <3>1. sch'.pc = "report" /\ sch'.task = t /\ sch.task = t
        BY <2>2, <1>a DEF Abandon, Watchdog, Scheduler
      <3>2. item'[t].status # "absent"
        BY <3>1, <2>a, <1>a DEF IInv, SchedulerHolds
      <3> QED
        BY <3>1, <3>2 DEF SchedulerHolds
    <2>3. CASE Defer(t) \/ LoseItem(t) \/ Report(t) \/ Commit(t)
      BY <2>3, <1>4 DEF Defer, LoseItem, Report, Commit
    <2>4. CASE MarkRunning(t)
      <3>1. /\ item[t] \in Item /\ item[t].attempts < MaxAttempts
            /\ item'[t] = Started(item[t]) /\ UNCHANGED handler
        BY <2>4 DEF MarkRunning, IInv, TypeOK
      <3>2. /\ sch'.pc = "announce" /\ sch'.task = t
            /\ sch'.att = item[t].attempts + 1
        BY <2>4, <1>a DEF MarkRunning, Scheduler
      <3>3. item'[t].attempts = item[t].attempts + 1 /\ item'[t].status = "running"
        BY <3>1, StartedOp
      <3>4. item[t].attempts \in Nat
        BY AttemptsGrow
      <3>5. PICK a \in Attempts : a = item[t].attempts + 1
        BY <3>1, <3>4, QueueAssumption DEF Attempts
      <3>6. handler'[t][a] = "none"
        BY <2>4, <3>1, <3>4, <3>5, StatusType DEF IInv, NoEarlyThread, MarkRunning
      <3> QED
        BY <3>2, <3>3, <3>4, <3>5, <3>6, <1>a DEF SchedulerHolds
    <2>5. CASE Announce(t)
      <3>1. sch'.pc = "watch" /\ sch'.task = t /\ sch'.att = sch.att
        BY <2>5, <1>a DEF Announce, Scheduler
      <3>2. /\ sch.att \in 1 .. item'[t].attempts
            /\ handler'[t][sch.att] = "work"
            /\ item[t].status # "absent"
            /\ item'[t].active = sch.att => item'[t].status = "running"
        BY <2>5, <1>4, <1>a, AnnounceStarts, AttemptsGrow, ActiveRuns
        DEF Announce, IInv, SchedulerHolds
      <3> QED
        BY <3>1, <3>2, <2>a, <1>a DEF SchedulerHolds
    <2>6. CASE JoinTimeout(t) \/ (Watchdog(t) /\ sch'.pc # "report")
      <3>1. /\ sch'.pc \in {"watch", "alive"} /\ sch'.task = t /\ sch'.att = sch.att
            /\ sch.pc \in {"watch", "alive"} /\ sch.task = t
            /\ UNCHANGED handler
        BY <2>6, <1>a DEF JoinTimeout, Watchdog, Scheduler
      <3>2. /\ sch.att \in 1 .. item'[t].attempts
            /\ handler[t][sch.att] \notin {"none", "killed"}
            /\ item'[t].status # "absent"
            /\ item'[t].active = sch.att => item'[t].status = "running"
        BY <3>1, <2>a, <1>4, <1>a, AttemptsGrow, ActiveRuns DEF IInv, SchedulerHolds
      <3> QED
        BY <3>1, <3>2, <1>a DEF SchedulerHolds
    <2>7. CASE ReadOutcome(t)
      <3>1. /\ sch.pc = "watch" /\ sch.task = t /\ handler[t][sch.att] \in Stopped
            /\ sch'.task = t /\ sch'.att = sch.att /\ UNCHANGED handler
            /\ handler[t][sch.att] # "deferred"
            /\ \/ sch'.pc = "failing" /\ sch'.out = "failed"
               \/ /\ sch'.pc = "commit" /\ handler[t][sch.att] # "raised"
                  /\ sch'.out \in {"succeeded", "failed"}
        BY <2>7, <1>4, <1>a DEF ReadOutcome, Scheduler
      <3>2. /\ sch.att \in 1 .. item'[t].attempts
            /\ handler[t][sch.att] \notin {"none", "killed"}
            /\ item'[t].status # "absent"
            /\ item'[t].active = sch.att => item'[t].status = "running"
        BY <3>1, <2>a, <1>4, <1>a, AttemptsGrow, ActiveRuns DEF IInv, SchedulerHolds
      <3> QED
        BY <3>1, <3>2, <1>a DEF SchedulerHolds, Stopped
    <2>8. CASE ReportFailure(t)
      <3>1. /\ sch.pc = "failing" /\ sch.task = t /\ sch'.pc = "commit"
            /\ sch'.task = t /\ sch'.att = sch.att /\ sch'.out = sch.out
            /\ UNCHANGED handler
        BY <2>8, <1>a DEF ReportFailure, Scheduler
      <3>2. /\ sch.att \in 1 .. item'[t].attempts
            /\ sch.out = "failed" /\ handler[t][sch.att] \in Stopped
            /\ item'[t].status # "absent"
            /\ item'[t].active = sch.att => item'[t].status = "running"
        BY <3>1, <2>a, <1>4, <1>a, AttemptsGrow, ActiveRuns DEF IInv, SchedulerHolds
      <3> QED
        BY <3>1, <3>2, <1>a DEF SchedulerHolds
    <2> QED
      BY <1>4, <2>1, <2>2, <2>3, <2>4, <2>5, <2>6, <2>7, <2>8 DEF SchedulerStep
  <1>5. ASSUME NEW ts \in SUBSET Tasks, Restart(ts)
        PROVE  sch' = Idle
    BY <1>5 DEF Restart
  <1> QED
    BY <1>1, <1>2, <1>3, <1>4, <1>5, SchedulerMoves

-----------------------------------------------------------------------------
(* The theorems *)

LEMMA InvInit == Init => IInv
  <1> SUFFICES ASSUME Init PROVE IInv
    OBVIOUS
  <1> USE DEF Init
  <1>1. /\ NewItem \in Item /\ NewItem.status = "absent" /\ NewItem.attempts = 0
        /\ NewItem.active = 0 /\ NewItem.cancelled = {}
    BY QueueAssumption, AttemptType, StatusType DEF NewItem, Item
  <1>2. TypeOK
    BY <1>1, RecordTypes, QueueAssumption DEF TypeOK, RegStatus, HandlerPc, Stopped
  <1>3. \A t \in Tasks : item[t].status = "absent" /\ item[t].attempts = 0
                         /\ item[t].active = 0 /\ item[t].cancelled = {}
    BY <1>1
  <1>4. SchedulerOwnsRunning /\ AttemptNumbers /\ NotEnqueued
    BY <1>3 DEF SchedulerOwnsRunning, AttemptNumbers, NotEnqueued
  <1>5. NoEarlyThread /\ LeftIsInactive
    BY DEF NoEarlyThread, LeftIsInactive
  <1>6. SchedulerHolds /\ AdminHolds
    BY DEF SchedulerHolds, Idle, Serving, AdminHolds, NoRequest
  <1> QED
    BY <1>2, <1>4, <1>5, <1>6 DEF IInv

LEMMA InvStep == IInv /\ [Next]_vars => IInv'
  <1>1. ASSUME IInv, Next PROVE IInv'
    BY <1>1, TypeStep, SlotStep, AttemptStep, ThreadStep, LeftStep, SubmissionStep,
       SchedulerHoldsStep, AdminHoldsStep DEF IInv
  <1>2. ASSUME IInv, UNCHANGED vars PROVE IInv'
    BY <1>2 DEF vars, IInv, TypeOK, SchedulerOwnsRunning, AttemptNumbers, NoEarlyThread,
                LeftIsInactive, IsActive, NotEnqueued, SchedulerHolds, AdminHolds
  <1> QED
    BY <1>1, <1>2

\* The inductive invariant: who may own an attempt number, an item, a thread.
THEOREM InvCorrect == Spec => []IInv
  BY InvInit, InvStep, PTL DEF Spec

\* Every state the queue reaches is well typed: a forced retry, an abandonment
\* or a restart leaves no field out of its range.
THEOREM TypeCorrect == Spec => []TypeOK
  <1>1. IInv => TypeOK
    BY DEF IInv
  <1> QED
    BY <1>1, InvCorrect, PTL

\* There is one slot: a running item is the one the scheduler thread serves, in
\* that very attempt, whatever administrators, watchdog and restarts do.
THEOREM SlotCorrect == Spec => []SchedulerOwnsRunning
  <1>1. IInv => SchedulerOwnsRunning
    BY DEF IInv
  <1> QED
    BY <1>1, InvCorrect, PTL

-----------------------------------------------------------------------------
(* Success *)

\* A thread that stopped stays as it is, unless its attempt is yet to start.
LEMMA StoppedStays ==
  ASSUME IInv, Next, NEW u \in Tasks, NEW b \in Attempts,
         handler[u][b] \in Stopped \ {"none"}
  PROVE  handler'[u][b] = handler[u][b]
  <1>1. CASE \E t \in Tasks, a \in Attempts : HandlerStep(t, a)
    BY <1>1, HandlerStepEffect DEF HandlerEffect
  <1>2. CASE \E t \in Tasks : Announce(t)
    <2>1. PICK t \in Tasks : Announce(t)
      BY <1>2
    <2>2. sch.task = t /\ handler[t][sch.att] = "none"
      BY <2>1 DEF Announce, IInv, SchedulerHolds
    <2> QED
      BY <2>1, <2>2, AnnounceStarts
  <1>3. CASE \E ts \in SUBSET Tasks : Restart(ts)
    BY <1>3, RestartThreads
  <1> QED
    BY <1>1, <1>2, <1>3, HandlerMoves

\* The latest attempt of an item that succeeded exists and has returned.
SuccessInv ==
  \A t \in Tasks : item[t].status = "succeeded" =>
    item[t].attempts \in Attempts /\ handler[t][item[t].attempts] = "returned"

LEMMA SuccessStep ==
  ASSUME IInv, SuccessInv, Next
  PROVE  SuccessInv'
  <1> SUFFICES ASSUME NEW u \in Tasks, item'[u].status = "succeeded"
               PROVE  /\ item'[u].attempts \in Attempts
                      /\ handler'[u][item'[u].attempts] = "returned"
    BY DEF SuccessInv
  <1>1. CASE item[u].status = "succeeded"
    <2>1. ~ MarkRunning(u) /\ ~ Moves(u) /\ item'[u] # Enqueued
      BY <1>1, EnqueuedOp DEF MarkRunning, Pending, Moves
    <2>2. item'[u].attempts = item[u].attempts
      BY <2>1, ItemStep DEF ItemEffect, Keeps
    <2>3. PICK a \in Attempts : a = item[u].attempts
      BY <1>1 DEF SuccessInv
    <2>4. handler[u][a] = "returned"
      BY <1>1, <2>3 DEF SuccessInv
    <2> QED
      BY <2>2, <2>3, <2>4, StoppedStays DEF Stopped
  <1>2. CASE item[u].status # "succeeded"
    <2>1. /\ Commit(u) /\ item[u].active = sch.att /\ sch.out = "succeeded"
          /\ item'[u].attempts = item[u].attempts
      BY <1>2, SuccessIsCommitted
    <2>2. /\ sch.att \in 1 .. item[u].attempts
          /\ handler[u][sch.att] = "returned"
          /\ UNCHANGED handler
      BY <2>1 DEF Commit, IInv, SchedulerHolds, Serving
    <2>3. item[u].attempts = sch.att /\ item[u] \in Item
      BY <2>1, <2>2 DEF IInv, AttemptNumbers, TypeOK
    <2>4. sch.att \in Attempts
      BY <2>2, <2>3, AttemptType DEF Item
    <2> QED
      BY <2>1, <2>2, <2>3, <2>4
  <1> QED
    BY <1>1, <1>2

\* A task is recorded as succeeded only when its latest attempt returned: no
\* answer of an attempt the watchdog or an administrator gave up counts.
THEOREM SuccessCorrect == Spec => []SuccessIsLatestReturn
  <1>1. Init => SuccessInv
    BY DEF Init, SuccessInv, NewItem
  <1>2. IInv /\ SuccessInv /\ [Next]_vars => SuccessInv'
    <2>1. ASSUME SuccessInv, UNCHANGED vars PROVE SuccessInv'
      BY <2>1 DEF vars, SuccessInv
    <2> QED
      BY <2>1, SuccessStep
  <1>3. SuccessInv => SuccessIsLatestReturn
    BY DEF SuccessInv, SuccessIsLatestReturn
  <1> QED
    BY <1>1, <1>2, <1>3, InvCorrect, PTL DEF Spec

\* A task that succeeded leaves that status only by a manual retry.
THEOREM SuccessFinal == Spec => SucceededIsFinal
  <1>1. ASSUME IInv, Next, NEW t \in Tasks,
               item[t].status = "succeeded", item'[t].status # "succeeded"
        PROVE  \E p \in Admins : admin[p].pc = "retryOther" /\ t \in admin[p].todo
    <2>1. ~ MarkRunning(t) /\ ~ Keeps(item[t], item'[t]) /\ ~ Enqueue(t)
      BY <1>1 DEF MarkRunning, Pending, Keeps, Enqueue, IInv, NotEnqueued
    <2> QED
      BY <1>1, <2>1, ItemStep DEF ItemEffect, Moves
  <1>2. IInv /\ [Next]_vars =>
          [\A t \in Tasks :
             item[t].status = "succeeded" /\ item'[t].status # "succeeded" =>
               \E p \in Admins : admin[p].pc = "retryOther" /\ t \in admin[p].todo]_vars
    BY <1>1
  <1> QED
    BY <1>2, InvCorrect, PTL DEF Spec, SucceededIsFinal

-----------------------------------------------------------------------------
(* Threads nobody waits for *)

\* As long as no identifier has to be dropped, remembering adds the attempt.
LEMMA RememberAll ==
  ASSUME MaxAttempts <= MaxCancelled,
         NEW ids \in SUBSET Attempts, NEW a \in Attempts
  PROVE  RememberCancelled(ids, a) = ids \cup {a}
  <1>1. IsFiniteSet(Attempts) /\ Cardinality(Attempts) = MaxAttempts
    BY FS_Interval, QueueAssumption DEF Attempts
  <1>2. ids \cup {a} \subseteq Attempts
    OBVIOUS
  <1>3. Cardinality(ids \cup {a}) <= Cardinality(Attempts)
    BY <1>1, <1>2, FS_Subset
  <1>4. IsFiniteSet(ids \cup {a})
    BY <1>1, <1>2, FS_Subset
  <1>5. Cardinality(ids \cup {a}) <= MaxCancelled
    BY <1>1, <1>3, <1>4, QueueAssumption, FS_CardinalityType
  <1> QED
    BY <1>5 DEF RememberCancelled

LEMMA ZombieStep ==
  ASSUME MaxAttempts <= MaxCancelled, IInv, ZombiesAreRemembered, Next
  PROVE  ZombiesAreRemembered'
  <1> SUFFICES ASSUME NEW u \in Tasks, NEW b \in Attempts, handler'[u][b] \notin Stopped
               PROVE  \/ sch'.pc \in Serving /\ sch'.task = u /\ sch'.att = b
                      \/ b \in item'[u].cancelled
    BY DEF ZombiesAreRemembered
  <1>a. sch \in Scheduler /\ item[u] \in Item
    BY DEF IInv, TypeOK
  <1>1. CASE \E t \in Tasks : Announce(t)
                /\ t = u /\ sch.att = b
    <2>1. Announce(u) /\ sch.att = b
      BY <1>1
    <2> QED
      BY <2>1, <1>a DEF Announce, Scheduler, Serving
  <1>2. CASE ~ \E t \in Tasks : Announce(t) /\ t = u /\ sch.att = b
    <2>1. handler[u][b] \notin Stopped
      <3>1. CASE \E t \in Tasks, a \in Attempts : HandlerStep(t, a)
        BY <3>1 , HandlerStepEffect DEF HandlerEffect
      <3>2. CASE \E t \in Tasks : Announce(t)
        BY <1>2, <3>2, AnnounceStarts
      <3>3. CASE \E ts \in SUBSET Tasks : Restart(ts)
        BY <3>3, RestartThreads DEF Stopped
      <3> QED
        BY <3>1, <3>2, <3>3, HandlerMoves
    <2>2. CASE b \in item[u].cancelled
      <3>1. CASE Keeps(item[u], item'[u])
        BY <2>2, <3>1 DEF Keeps
      <3>2. CASE Moves(u)
        <4>1. item[u].active # 0 => item[u].active \in Attempts
          BY <1>a, AttemptType DEF Item
        <4>2. item[u].cancelled \in SUBSET Attempts
          BY <1>a DEF Item
        <4> QED
          BY <2>2, <3>2, <4>1, <4>2, RememberAll DEF Moves, Leaves
      <3>3. CASE MarkRunning(u) /\ item'[u] = Started(item[u])
        <4>1. item[u].attempts < MaxAttempts
          BY <3>3 DEF MarkRunning
        <4> QED
          BY <2>2, <3>3, <4>1, <1>a, StartedOp
      <3>4. CASE Enqueue(u)
        BY <2>2, <3>4, <1>a DEF Enqueue, IInv, NotEnqueued, AttemptNumbers
      <3> QED
        BY <3>1, <3>2, <3>3, <3>4, ItemStep DEF ItemEffect
    <2>3. CASE sch.pc \in Serving /\ sch.task = u /\ sch.att = b
      <3>1. CASE UNCHANGED sch
        BY <2>3, <3>1
      <3>2. CASE \E ts \in SUBSET Tasks : Restart(ts)
        BY <2>1, <3>2, RestartThreads, RestartStops DEF Stopped
      <3>3. CASE \E t \in Tasks : SchedulerStep(t)
        <4>1. PICK t \in Tasks : SchedulerStep(t)
          BY <3>3
        <4>2. CASE Pick(t) \/ Abandon(t) \/ Defer(t) \/ LoseItem(t) \/ MarkRunning(t) \/ Report(t)
          BY <4>2, <2>3 DEF Pick, Abandon, Defer, LoseItem, MarkRunning, Report, Serving
        <4>3. CASE Announce(t)
          BY <4>3, <2>3, <1>2 DEF Announce
        <4>4. CASE JoinTimeout(t)
          BY <4>4, <2>3, <1>a DEF JoinTimeout, Scheduler, Serving
        <4>5. CASE Watchdog(t)
          <5>1. t = u
            BY <4>5, <2>3 DEF Watchdog
          <5>2. CASE IsActive(u, b) /\ ~ item[u].fresh
            <6>1. item' = [item EXCEPT ![u] = ForcedRetry(item[u])]
              BY <4>5, <5>1, <5>2, <2>3 DEF Watchdog
            <6>2. item'[u] = ForcedRetry(item[u]) /\ item[u].active = b /\ b # 0
              BY <6>1, <5>2, AttemptType DEF IInv, TypeOK, IsActive, Attempts
            <6>3. item[u].cancelled \in SUBSET Attempts
              BY <1>a DEF Item
            <6>4. item'[u].cancelled = RememberCancelled(item[u].cancelled, b)
              BY <6>2, <1>a, ForcedRetryOp
            <6> QED
              BY <6>3, <6>4, RememberAll
          <5>3. CASE ~ (IsActive(u, b) /\ ~ item[u].fresh)
            BY <4>5, <5>1, <5>3, <2>3, <1>a DEF Watchdog, Scheduler, Serving
          <5> QED
            BY <5>2, <5>3
        <4>6. CASE ReadOutcome(t)
          BY <4>6, <2>1, <2>3 DEF ReadOutcome
        <4>7. CASE ReportFailure(t) \/ Commit(t)
          BY <4>7, <2>1, <2>3 DEF ReportFailure, Commit, IInv, SchedulerHolds
        <4> QED
          BY <4>1, <4>2, <4>3, <4>4, <4>5, <4>6, <4>7 DEF SchedulerStep
      <3> QED
        BY <3>1, <3>2, <3>3, SchedulerMoves
    <2> QED
      BY <2>1, <2>2, <2>3 DEF ZombiesAreRemembered
  <1> QED
    BY <1>1, <1>2

\* A thread the scheduler no longer waits for can be told so at its next
\* checkpoint, as long as the list of cancelled attempts has room for all.
THEOREM ZombiesCorrect ==
  ASSUME MaxAttempts <= MaxCancelled
  PROVE  Spec => []ZombiesAreRemembered
  <1>1. Init => ZombiesAreRemembered
    BY DEF Init, ZombiesAreRemembered, Stopped
  <1>2. IInv /\ ZombiesAreRemembered /\ [Next]_vars => ZombiesAreRemembered'
    <2>1. ASSUME ZombiesAreRemembered, UNCHANGED vars PROVE ZombiesAreRemembered'
      BY <2>1 DEF vars, ZombiesAreRemembered
    <2> QED
      BY <2>1, ZombieStep
  <1> QED
    BY <1>1, <1>2, InvCorrect, PTL DEF Spec

-----------------------------------------------------------------------------
(* The queue implements the slot *)

\* The job of a task, and that the mapping depends on the status alone.
Job(t) == JobState(item[t])

LEMMA JobStates ==
  ASSUME NEW t \in Tasks, item[t].status \in Status
  PROVE  /\ item[t].status = "absent"    => Job(t) = "new"
         /\ item[t].status \in Pending   => Job(t) = "waiting"
         /\ item[t].status = "running"   => Job(t) = "running"
         /\ item[t].status = "succeeded" => Job(t) = "succeeded"
         /\ item[t].status \in {"failed", "cancelled", "abandoned"} => Job(t) = "ended"
  BY DEF Job, JobState, Status, Pending, Terminal

LEMMA JobStatesNext ==
  ASSUME NEW t \in Tasks, item'[t].status \in Status
  PROVE  /\ item'[t].status \in Pending   => Job(t)' = "waiting"
         /\ item'[t].status = "running"   => Job(t)' = "running"
         /\ item'[t].status = "succeeded" => Job(t)' = "succeeded"
         /\ item'[t].status \in {"failed", "cancelled", "abandoned"} => Job(t)' = "ended"
  BY DEF Job, JobState, Status, Pending, Terminal

\* What a step may do to one job while the others stay.
LEMMA SlotMove ==
  ASSUME NEW u \in Tasks,
         \A v \in Tasks \ {u} : Job(v)' = Job(v),
         \/ Job(u)' = Job(u)
         \/ Job(u) = "new" /\ Job(u)' = "waiting"
         \/ /\ Job(u) = "waiting" /\ Job(u)' = "running"
            /\ \A v \in Tasks : Job(v) # "running"
         \/ Job(u) = "running" /\ Job(u)' \in {"succeeded", "waiting", "ended"}
         \/ Job(u) = "waiting" /\ Job(u)' = "ended"
         \/ Job(u) \in {"succeeded", "ended"} /\ Job(u)' = "waiting"
  PROVE  [Slot!Next]_([t \in Tasks |-> JobState(item[t])])
  <1> DEFINE jobs == [t \in Tasks |-> JobState(item[t])]
  <1>1. /\ jobs' = [jobs EXCEPT ![u] = Job(u)']
        /\ \A v \in Tasks : jobs[v] = Job(v)
        /\ jobs[u] = Job(u)
        /\ Job(u)' = Job(u) => jobs' = jobs
    BY DEF Job
  <1>2. CASE Job(u)' = Job(u)
    BY <1>1, <1>2
  <1>3. CASE Job(u) = "new" /\ Job(u)' = "waiting"
    <2>1. Slot!Submit(u)
      BY <1>1, <1>3 DEF Slot!Submit, Slot!Move
    <2> QED
      BY <2>1 DEF Slot!Next
  <1>4. CASE /\ Job(u) = "waiting" /\ Job(u)' = "running"
             /\ \A v \in Tasks : Job(v) # "running"
    <2>1. Slot!Start(u)
      BY <1>1, <1>4 DEF Slot!Start, Slot!Move
    <2> QED
      BY <2>1 DEF Slot!Next
  <1>5. CASE Job(u) = "running" /\ Job(u)' \in {"succeeded", "waiting", "ended"}
    <2>1. Slot!Succeed(u) \/ Slot!Requeue(u) \/ Slot!End(u)
      BY <1>1, <1>5 DEF Slot!Succeed, Slot!Requeue, Slot!End, Slot!Move
    <2> QED
      BY <2>1 DEF Slot!Next
  <1>6. CASE Job(u) = "waiting" /\ Job(u)' = "ended"
    <2>1. Slot!End(u)
      BY <1>1, <1>6 DEF Slot!End, Slot!Move
    <2> QED
      BY <2>1 DEF Slot!Next
  <1>7. CASE Job(u) \in {"succeeded", "ended"} /\ Job(u)' = "waiting"
    <2>1. Slot!Resubmit(u)
      BY <1>1, <1>7 DEF Slot!Resubmit, Slot!Move
    <2> QED
      BY <2>1 DEF Slot!Next
  <1> QED
    BY <1>2, <1>3, <1>4, <1>5, <1>6, <1>7

\* What a step does to one job.
LEMMA JobStep ==
  ASSUME IInv, Next, ItemEffect, NEW u \in Tasks
  PROVE  \/ Job(u)' = Job(u)
         \/ Job(u) = "new" /\ Job(u)' = "waiting"
         \/ /\ Job(u) = "waiting" /\ Job(u)' = "running"
            /\ \A v \in Tasks : Job(v) # "running"
         \/ Job(u) = "running" /\ Job(u)' \in {"succeeded", "waiting", "ended"}
         \/ Job(u) = "waiting" /\ Job(u)' = "ended"
         \/ Job(u) \in {"succeeded", "ended"} /\ Job(u)' = "waiting"
  <1>a. /\ item[u] \in Item /\ item'[u] \in Item
        /\ item[u].status \in Status /\ item'[u].status \in Status
    BY DEF IInv, TypeOK, ItemEffect, Item
  <1>b. Status = {"absent", "running"} \cup Pending
                   \cup {"succeeded", "failed", "cancelled", "abandoned"}
    BY DEF Status, Pending, Terminal
  <1>1. CASE Keeps(item[u], item'[u])
    BY <1>1 DEF Keeps, Job, JobState
  <1>2. CASE Moves(u)
    <2>1. /\ item[u].status # "absent"
          /\ item'[u].status \notin {"running", "absent"}
      BY <1>2 DEF Moves, Leaves
    <2>2. CASE item'[u].status = "succeeded"
      <3>1. Commit(u) /\ item[u].active = sch.att
        BY <1>2, <2>2 DEF Moves
      <3>2. item[u].status = "running"
        BY <3>1 DEF Commit, IInv, SchedulerHolds, Serving
      <3> QED
        BY <2>2, <3>2, <1>a, JobStates, JobStatesNext
    <2>3. CASE item[u].status = "succeeded"
      <3>1. item'[u].status = "queued"
        BY <1>2, <2>3 DEF Moves
      <3> QED
        BY <2>3, <3>1, <1>a, JobStates, JobStatesNext, StatusType
    <2>4. CASE item[u].status # "succeeded" /\ item'[u].status # "succeeded"
      <3>1. Job(u) \in {"waiting", "running", "ended"}
        BY <2>1, <2>4, <1>a, <1>b, JobStates
      <3>2. Job(u)' \in {"waiting", "ended"}
        BY <2>1, <2>4, <1>a, <1>b, JobStatesNext
      <3> QED
        BY <3>1, <3>2
    <2> QED
      BY <2>2, <2>3, <2>4
  <1>3. CASE MarkRunning(u) /\ item'[u] = Started(item[u])
    <2>1. item[u].status \in Pending /\ item[u].attempts < MaxAttempts
      BY <1>3 DEF MarkRunning
    <2>2. item'[u].status = "running"
      BY <1>3, <2>1, <1>a, StartedOp
    <2>3. ASSUME NEW v \in Tasks PROVE Job(v) # "running"
      <3>1. item[v].status # "running"
        BY <1>3 DEF MarkRunning, IInv, SchedulerOwnsRunning, Serving
      <3> QED
        BY <3>1 DEF Job, JobState
    <2> QED
      BY <2>1, <2>2, <2>3, <1>a, JobStates, JobStatesNext
  <1>4. CASE Enqueue(u) /\ item'[u] = Enqueued
    <2>1. item[u].status = "absent"
      BY <1>4 DEF Enqueue, IInv, NotEnqueued
    <2>2. item'[u].status = "queued"
      BY <1>4, EnqueuedOp
    <2> QED
      BY <2>1, <2>2, <1>a, JobStates, JobStatesNext, StatusType
  <1> QED
    BY <1>1, <1>2, <1>3, <1>4 DEF ItemEffect

\* The queue implements the slot: whatever threads, administrators, the watchdog
\* and restarts do, one job runs at a time, it succeeds only out of the slot, and
\* one that ended comes back only by being submitted again.
THEOREM QueueImplementsSlot == Spec => ImplementsJobSlot
  <1>1. Init => Slot!Init
    <2> SUFFICES ASSUME Init PROVE Slot!Init
      OBVIOUS
    <2>1. NewItem.status = "absent"
      BY DEF NewItem
    <2>2. JobState(NewItem) = "new"
      BY <2>1 DEF JobState, Pending
    <2>3. \A t \in Tasks : item[t] = NewItem
      BY DEF Init
    <2> QED
      BY <2>2, <2>3 DEF Slot!Init
  <1>2. IInv /\ [Next]_vars => [Slot!Next]_([t \in Tasks |-> JobState(item[t])])
    <2>1. ASSUME UNCHANGED vars
          PROVE  UNCHANGED [t \in Tasks |-> JobState(item[t])]
      BY <2>1 DEF vars
    <2>2. ASSUME IInv, Next
          PROVE  [Slot!Next]_([t \in Tasks |-> JobState(item[t])])
      <3>1. ItemEffect
        BY <2>2, ItemStep
      <3>2. CASE \A v \in Tasks : Job(v)' = Job(v)
        BY <3>2 DEF Job
      <3>3. CASE \E u \in Tasks : Job(u)' # Job(u)
        <4>1. PICK u \in Tasks : Job(u)' # Job(u)
          BY <3>3
        <4>2. ASSUME NEW v \in Tasks \ {u} PROVE Job(v)' = Job(v)
          <5>1. ~ Keeps(item[u], item'[u])
            BY <4>1 DEF Keeps, Job, JobState
          <5>2. Keeps(item[v], item'[v])
            BY <5>1, <3>1 DEF ItemEffect
          <5> QED
            BY <5>2 DEF Keeps, Job, JobState
        <4> QED
          BY <2>2, <3>1, <4>2, JobStep, SlotMove
      <3> QED
        BY <3>2, <3>3
    <2> QED
      BY <2>1, <2>2
  <1> QED
    BY <1>1, <1>2, InvCorrect, PTL DEF Spec, ImplementsJobSlot, Slot!Spec

\* What the slot says of itself holds of the queue: two items never run together.
THEOREM QueueRunsOne == Spec => []Slot!OneRunning
  <1>1. SchedulerOwnsRunning => Slot!OneRunning
    <2>1. ASSUME NEW t \in Tasks, JobState(item[t]) = "running"
          PROVE  item[t].status = "running"
      BY <2>1 DEF JobState, Pending
    <2>2. ASSUME SchedulerOwnsRunning,
                 NEW t \in Tasks, JobState(item[t]) = "running",
                 NEW u \in Tasks, JobState(item[u]) = "running"
          PROVE  t = u
      BY <2>1, <2>2 DEF SchedulerOwnsRunning
    <2> QED
      BY <2>2 DEF Slot!OneRunning
  <1> QED
    BY <1>1, SlotCorrect, PTL

-----------------------------------------------------------------------------
(* What the registry is told, in a queue left to itself *)

\* Nobody administrates the queue and no handler gives way under pressure.  (Either
\* may part the two stores for good: an administrator's answer can be overtaken by
\* "running", and the answer of a late thread that gave way by a later attempt.)
LeftToItself == Admins = {} /\ Yielding = {}

\* Until a restart the scheduler serves the active attempt of its task, and whoever
\* settles a task told the registry before or is about to.
ReportsOwed ==
  restarts = 0 =>
    /\ \A t \in Tasks, a \in Attempts : handler[t][a] \notin {"yielding", "yielded"}
    /\ sch.pc \in Serving => IsActive(sch.task, sch.att)
    /\ sch.pc \in {"watch", "alive"} /\ handler[sch.task][sch.att] = "returned" =>
         registry[sch.task] \notin RegActive
    /\ sch.pc = "commit" => registry[sch.task] \notin RegActive
    /\ sch.pc = "report" =>
         sch.task # NoTask /\ (item[sch.task].status \in Terminal => sch.out \notin RegActive)
    /\ \A t \in Tasks : item[t].status \in Terminal /\ registry[t] \in RegActive =>
         sch.pc = "report" /\ sch.task = t

\* The steps of a queue left to itself, before a restart.
LEMMA CalmCases ==
  ASSUME LeftToItself, IInv, Next, restarts' = 0
  PROVE  /\ restarts = 0
         /\ \/ \E t \in Tasks : CreateTask(t) \/ Enqueue(t) \/ MarkOwned(t)
            \/ \E t \in Tasks : Silence(t) \/ DelayElapses(t)
            \/ \E t \in Tasks : SchedulerStep(t)
            \/ \E t \in Tasks, a \in Attempts : HandlerStep(t, a)
  <1>1. ASSUME NEW ts \in SUBSET Tasks, Restart(ts) PROVE FALSE
    BY <1>1, QueueAssumption DEF Restart, IInv, TypeOK
  <1>2. \/ \E t \in Tasks : CreateTask(t) \/ Enqueue(t) \/ MarkOwned(t)
        \/ \E t \in Tasks : Silence(t) \/ DelayElapses(t)
        \/ \E t \in Tasks : SchedulerStep(t)
        \/ \E t \in Tasks, a \in Attempts : HandlerStep(t, a)
    BY <1>1 DEF Next, LeftToItself
  <1>3. ASSUME NEW t \in Tasks,
               CreateTask(t) \/ Enqueue(t) \/ MarkOwned(t) \/ Silence(t) \/ DelayElapses(t)
        PROVE  UNCHANGED restarts
    BY <1>3 DEF CreateTask, Enqueue, MarkOwned, Silence, DelayElapses
  <1>4. ASSUME NEW t \in Tasks, SchedulerStep(t) PROVE UNCHANGED restarts
    BY <1>4 DEF SchedulerStep, Pick, Abandon, Defer, MarkRunning, LoseItem, Announce,
                JoinTimeout, Watchdog, Report, ReadOutcome, ReportFailure, Commit
  <1>5. ASSUME NEW t \in Tasks, NEW a \in Attempts, HandlerStep(t, a) PROVE UNCHANGED restarts
    BY <1>5 DEF HandlerStep, Hang, EnterCheckpoint, Gauge, MarkThrottled, MarkThrottleResumed,
                Beat, YieldRunningItem, ReportYield, Finish, ReportResult, Raise, HandlerOnly
  <1> QED
    BY <1>2, <1>3, <1>4, <1>5

\* Submissions and time leave the scheduler alone, and settle nothing.
LEMMA SubmissionReports ==
  ASSUME IInv, ReportsOwed, restarts = 0, NEW t \in Tasks,
         CreateTask(t) \/ Enqueue(t) \/ MarkOwned(t) \/ Silence(t) \/ DelayElapses(t)
  PROVE  ReportsOwed'
  <1>a. TypeOK /\ item[t] \in Item /\ NotEnqueued /\ sch \in Scheduler
    BY DEF IInv, TypeOK
  <1>1. UNCHANGED <<sch, handler>>
    BY DEF CreateTask, Enqueue, MarkOwned, Silence, DelayElapses
  <1>2. ASSUME NEW u \in Tasks
        PROVE  \/ Keeps(item[u], item'[u])
               \/ item[u].status = "absent" /\ item'[u].status = "queued"
    <2>1. CASE CreateTask(t) \/ MarkOwned(t)
      BY <2>1 DEF CreateTask, MarkOwned, Keeps
    <2>2. CASE Enqueue(t)
      BY <2>2, <1>a, EnqueuedOp DEF Enqueue, NotEnqueued, TypeOK, Keeps
    <2>3. CASE Silence(t) \/ DelayElapses(t)
      BY <2>3, <1>a, KeepingOps DEF Silence, DelayElapses, TypeOK, Keeps
    <2> QED BY <2>1, <2>2, <2>3
  <1>3. ASSUME NEW u \in Tasks PROVE registry'[u] = registry[u] \/ item[u].status = "absent"
    BY <1>a DEF CreateTask, Enqueue, MarkOwned, Silence, DelayElapses, NotEnqueued, TypeOK
  <1>4. sch.pc \in Serving \cup {"report"} => sch.task \in Tasks /\ item[sch.task].status # "absent"
    BY <1>a DEF IInv, SchedulerHolds, ReportsOwed, Scheduler
  <1>5. \A u \in Tasks : /\ item[u].status # "absent" => /\ item'[u].status = item[u].status
                                                         /\ item'[u].active = item[u].active
                                                         /\ registry'[u] = registry[u]
                         /\ item[u].status = "absent" => item'[u].status \notin Terminal
    BY <1>2, <1>3 DEF Keeps, Terminal
  <1> QED
    BY <1>1, <1>4, <1>5 DEF ReportsOwed, IsActive, Serving, CreateTask, Enqueue, MarkOwned, Silence, DelayElapses

\* A handler that does not give way keeps the items, and what it tells the registry
\* when it returns is final, unless its attempt is no longer the active one.
LEMMA HandlerReports ==
  ASSUME LeftToItself, IInv, ReportsOwed, restarts = 0, NEW t \in Tasks, NEW a \in Attempts,
         HandlerStep(t, a)
  PROVE  ReportsOwed'
  <1>a. TypeOK /\ item[t] \in Item /\ sch \in Scheduler /\ t \notin Yielding
    BY DEF IInv, TypeOK, LeftToItself
  <1>b. handler[t][a] \notin {"yielding", "yielded"}
    BY DEF ReportsOwed
  <1>1. HandlerEffect(t, a)
    BY HandlerStepEffect
  <1>2. UNCHANGED <<sch, restarts>>
    BY DEF HandlerStep, Hang, EnterCheckpoint, Gauge, MarkThrottled, MarkThrottleResumed,
           Beat, YieldRunningItem, ReportYield, Finish, ReportResult, Raise, HandlerOnly
  <1>3. \A u \in Tasks : Keeps(item[u], item'[u])
    <2>1. \/ UNCHANGED item
          \/ item' = [item EXCEPT ![t] = Checkpointed(item[t], a)]
          \/ item' = [item EXCEPT ![t] = Refreshed(item[t])]
      BY <1>b DEF HandlerStep, Hang, EnterCheckpoint, Gauge, MarkThrottled, MarkThrottleResumed,
           Beat, YieldRunningItem, ReportYield, Finish, ReportResult, Raise
    <2>2. Keeps(item[t], Checkpointed(item[t], a)) /\ Keeps(item[t], Refreshed(item[t]))
      BY <1>a, KeepingOps
    <2> QED BY <2>1, <2>2, <1>a DEF TypeOK, Keeps
  <1>4. handler'[t][a] \notin {"yielding", "yielded"}
    BY <1>a, <1>b, HandlerMove, SMTT(20) DEF HandlerStep, Hang, EnterCheckpoint, Gauge, MarkThrottled, MarkThrottleResumed,
           Beat, YieldRunningItem, ReportYield, Finish, ReportResult, Raise, Goto, Refused, HandlerPc, Stopped, TypeOK
  <1>5. /\ \A u \in Tasks : registry'[u] = registry[u] \/ registry'[u] \notin RegActive
        /\ handler'[t][a] = "returned" => ~ IsActive(t, a) \/ registry'[t] \notin RegActive
    <2>1. CASE Finish(t, a)
      <3>1. UNCHANGED registry
        BY <2>1 DEF Finish
      <3>2. handler'[t][a] = IF t \in Guarded => IsActive(t, a) THEN "reporting" ELSE "returned"
        BY <2>1, <1>a DEF Finish, Goto, TypeOK
      <3> QED BY <3>1, <3>2
    <2>2. CASE ReportResult(t, a)
      BY <2>2, <1>a DEF ReportResult, TypeOK, RegActive
    <2>3. CASE ~ Finish(t, a) /\ ~ ReportResult(t, a)
      <3>1. UNCHANGED registry
        BY <2>3, <1>b DEF HandlerStep, Hang, EnterCheckpoint, Gauge, MarkThrottled, MarkThrottleResumed,
           Beat, YieldRunningItem, ReportYield, Raise
      <3>2. handler'[t][a] # "returned"
        BY <2>3, <1>a DEF HandlerStep, Hang, EnterCheckpoint, Gauge, MarkThrottled, MarkThrottleResumed,
           Beat, YieldRunningItem, ReportYield, Raise, Goto, Refused, TypeOK
      <3> QED BY <3>1, <3>2
    <2> QED BY <2>1, <2>2, <2>3
  <1>6. sch.pc \in Serving \cup {"report"} => sch.task \in Tasks
    BY <1>a DEF IInv, SchedulerHolds, ReportsOwed, Scheduler
  <1>6a. sch.pc \in {"watch", "alive"} => sch.att \in Attempts
    BY <1>a, <1>6, AttemptType DEF IInv, SchedulerHolds, Scheduler, Serving, Attempt, Attempts
  <1>7. sch.pc \in {"watch", "alive"} /\ handler'[sch.task][sch.att] = "returned" =>
          registry'[sch.task] \notin RegActive
    <2>1. CASE sch.task = t /\ sch.att = a
      BY <2>1, <1>5 DEF ReportsOwed, Serving
    <2>2. CASE ~ (sch.task = t /\ sch.att = a)
      BY <2>2, <1>1, <1>5, <1>6, <1>6a DEF ReportsOwed, Serving, HandlerEffect
    <2> QED BY <2>1, <2>2
  <1>8. \A u \in Tasks, b \in Attempts : handler'[u][b] \notin {"yielding", "yielded"}
    BY <1>1, <1>4 DEF HandlerEffect, ReportsOwed
  <1> QED
    BY <1>2, <1>3, <1>5, <1>6, <1>7, <1>8 DEF ReportsOwed, IsActive, Keeps, Serving

\* The scheduler tells the registry before it settles a task that ended, and next
\* after it gave one up.
LEMMA SchedulerReports ==
  ASSUME IInv, ReportsOwed, restarts = 0, NEW t \in Tasks, SchedulerStep(t)
  PROVE  ReportsOwed'
  <1>a. TypeOK /\ item[t] \in Item /\ sch \in Scheduler /\ t # NoTask
    BY QueueAssumption DEF IInv, TypeOK
  <1>b. Idle.pc = "poll"
    BY DEF Idle
  <1>1. UNCHANGED restarts
    BY DEF SchedulerStep, Pick, Abandon, Defer, MarkRunning, LoseItem, Announce,
           JoinTimeout, Watchdog, Report, ReadOutcome, ReportFailure, Commit
  <1>2. CASE Pick(t)
    <2>1. UNCHANGED <<item, registry, handler>> /\ sch'.pc = "picked" /\ sch.pc = "poll"
      BY <1>2 DEF Pick, Idle
    <2> QED BY <2>1, <1>1 DEF ReportsOwed, Serving
  <1>3. CASE Abandon(t)
    <2>1. /\ UNCHANGED <<registry, handler>> /\ sch.pc = "picked"
          /\ sch'.pc = "report" /\ sch'.task = t /\ sch'.out = "failed"
      BY <1>3, <1>a DEF Abandon, Scheduler
    <2>2. \A u \in Tasks \ {t} : item'[u] = item[u]
      BY <1>3, <1>a DEF Abandon, TypeOK
    <2> QED BY <2>1, <2>2, <1>1, <1>a DEF ReportsOwed, Serving, RegActive
  <1>4. CASE Defer(t) \/ LoseItem(t)
    <2>1. UNCHANGED <<registry, handler>> /\ sch' = Idle /\ sch.pc = "picked"
      BY <1>4 DEF Defer, LoseItem
    <2>2. \A u \in Tasks : item'[u] = item[u] \/ item'[u].status \notin Terminal
      BY <1>4, <1>a, RequeueingOps, StatusType DEF Defer, LoseItem, TypeOK, Terminal
    <2> QED BY <2>1, <2>2, <1>1, <1>b DEF ReportsOwed, Serving
  <1>5. CASE MarkRunning(t)
    <2>1. /\ UNCHANGED <<registry, handler>> /\ sch.pc = "picked"
          /\ sch'.pc = "announce" /\ sch'.task = t /\ sch'.att = item[t].attempts + 1
      BY <1>5, <1>a DEF MarkRunning, Scheduler
    <2>2. /\ \A u \in Tasks \ {t} : item'[u] = item[u]
          /\ item'[t].status = "running" /\ item'[t].active = item[t].attempts + 1
      BY <1>5, <1>a, StartedOp DEF MarkRunning, TypeOK
    <2> QED BY <2>1, <2>2, <1>1, StatusType DEF ReportsOwed, Serving, IsActive
  <1>6. CASE Announce(t)
    <2>1. /\ UNCHANGED item /\ sch.pc = "announce" /\ sch.task = t
          /\ sch'.pc = "watch" /\ sch'.task = t /\ sch'.att = sch.att
          /\ \A u \in Tasks \ {t} : registry'[u] = registry[u]
      BY <1>6, <1>a DEF Announce, Scheduler, TypeOK
    <2>2. /\ sch.att \in Attempts /\ handler'[t][sch.att] = "work"
          /\ \A u \in Tasks, b \in Attempts : u # t \/ b # sch.att => handler'[u][b] = handler[u][b]
      BY <1>6, AnnounceStarts
    <2>3. \A u \in Tasks, b \in Attempts : handler'[u][b] \notin {"yielding", "yielded"}
      BY <2>2 DEF ReportsOwed
    <2>4. item[t].status = "running" /\ item[t].active = sch.att
      BY <2>1 DEF ReportsOwed, Serving, IsActive
    <2> QED BY <2>1, <2>2, <2>3, <2>4, <1>1, StatusType DEF ReportsOwed, Serving, IsActive
  <1>7. CASE JoinTimeout(t)
    <2>1. /\ UNCHANGED <<item, registry, handler>> /\ sch.pc = "watch" /\ sch.task = t
          /\ sch'.pc = "alive" /\ sch'.task = t /\ sch'.att = sch.att
      BY <1>7, <1>a DEF JoinTimeout, Scheduler
    <2> QED BY <2>1, <1>1 DEF ReportsOwed, Serving, IsActive
  <1>8. CASE Watchdog(t)
    <2>1. UNCHANGED <<registry, handler>> /\ sch.pc = "alive" /\ sch.task = t
      BY <1>8 DEF Watchdog
    <2>2. CASE item[t].fresh
      <3>1. UNCHANGED item /\ sch'.pc = "watch" /\ sch'.task = t /\ sch'.att = sch.att
        BY <1>8, <2>2, <1>a DEF Watchdog, Scheduler
      <3> QED BY <2>1, <3>1, <1>1 DEF ReportsOwed, Serving, IsActive
    <2>3. CASE ~ item[t].fresh
      <3>1. IsActive(t, sch.att)
        BY <2>1 DEF ReportsOwed, Serving
      <3>2. /\ item' = [item EXCEPT ![t] = ForcedRetry(item[t])]
            /\ sch' = [sch EXCEPT !.pc = "report", !.out = ForcedOutcome(item[t])]
        BY <1>8, <2>3, <3>1 DEF Watchdog
      <3>3. /\ \A u \in Tasks \ {t} : item'[u] = item[u]
            /\ sch'.pc = "report" /\ sch'.task = t /\ sch'.out = ForcedOutcome(item[t])
        BY <3>2, <2>1, <1>a DEF TypeOK, Scheduler
      <3>4. item'[t].status \in Terminal => sch'.out \notin RegActive
        <4>1. item'[t] = ForcedRetry(item[t])
          BY <3>2, <1>a DEF TypeOK
        <4>2. CASE Exhausted(item[t])
          BY <4>2, <3>3 DEF ForcedOutcome, RegActive
        <4>3. CASE ~ Exhausted(item[t])
          <5>1. item'[t].status = "queued"
            BY <4>1, <4>3, <1>a DEF ForcedRetry, Item
          <5> QED BY <5>1 DEF Terminal
        <4> QED BY <4>2, <4>3
      <3> QED BY <2>1, <3>3, <3>4, <1>1, <1>a DEF ReportsOwed, Serving
    <2> QED BY <2>2, <2>3
  <1>9. CASE Report(t)
    <2>1. /\ UNCHANGED <<item, handler>> /\ sch.pc = "report" /\ sch.task = t /\ sch' = Idle
          /\ registry'[t] = sch.out /\ \A u \in Tasks \ {t} : registry'[u] = registry[u]
      BY <1>9, <1>a DEF Report, TypeOK
    <2> QED BY <2>1, <1>1, <1>b DEF ReportsOwed, Serving
  <1>10. CASE ReadOutcome(t)
    <2>1. /\ UNCHANGED <<item, registry, handler>> /\ sch.pc = "watch" /\ sch.task = t
          /\ handler[t][sch.att] \in Stopped
      BY <1>10 DEF ReadOutcome
    <2>2. IsActive(t, sch.att)
      BY <2>1 DEF ReportsOwed, Serving
    <2>3. sch.att \in Attempts
      BY <2>1, <1>a, AttemptType DEF IInv, SchedulerHolds, Scheduler, Serving, Attempt, Attempts
    <2>4. handler[t][sch.att] \in {"returned", "raised"}
      BY <2>1, <2>2, <2>3 DEF IInv, LeftIsInactive, SchedulerHolds, Stopped
    <2>5. /\ sch'.task = t /\ sch'.att = sch.att
          /\ \/ handler[t][sch.att] = "raised" /\ sch'.pc = "failing"
             \/ handler[t][sch.att] = "returned" /\ sch'.pc = "commit"
      BY <1>10, <2>1, <2>2, <2>4, <1>a DEF ReadOutcome, Scheduler
    <2> QED BY <2>1, <2>2, <2>5, <1>1 DEF ReportsOwed, Serving, IsActive
  <1>11. CASE ReportFailure(t)
    <2>1. /\ UNCHANGED <<item, handler>> /\ sch.pc = "failing" /\ sch.task = t
          /\ sch'.pc = "commit" /\ sch'.task = t /\ sch'.att = sch.att
          /\ registry'[t] = "failed" /\ \A u \in Tasks \ {t} : registry'[u] = registry[u]
      BY <1>11, <1>a DEF ReportFailure, TypeOK, Scheduler
    <2> QED BY <2>1, <1>1 DEF ReportsOwed, Serving, IsActive, RegActive
  <1>12. CASE Commit(t)
    <2>1. UNCHANGED <<registry, handler>> /\ sch.pc = "commit" /\ sch.task = t /\ sch' = Idle
      BY <1>12 DEF Commit
    <2>2. \A u \in Tasks \ {t} : item'[u] = item[u]
      BY <1>12, <1>a DEF Commit, TypeOK
    <2>3. registry[t] \notin RegActive
      BY <2>1 DEF ReportsOwed
    <2> QED BY <2>1, <2>2, <2>3, <1>1, <1>b DEF ReportsOwed, Serving
  <1> QED
    BY <1>2, <1>3, <1>4, <1>5, <1>6, <1>7, <1>8, <1>9, <1>10, <1>11, <1>12 DEF SchedulerStep

\* Before the first restart, when nothing is in progress, no task that the queue has
\* settled is shown as active: late threads, given up by the watchdog, only tell
\* the registry that they ended.
THEOREM ReportedCorrect ==
  ASSUME LeftToItself PROVE Spec => []ReportedUntilRestart
  <1>1. Init => ReportsOwed
    <2> SUFFICES ASSUME Init PROVE ReportsOwed
      OBVIOUS
    <2>1. sch.pc = "poll"
      BY DEF Init, Idle
    <2>2. \A t \in Tasks : item[t].status \notin Terminal
      BY DEF Init, NewItem, Terminal
    <2>3. \A t \in Tasks, a \in Attempts : handler[t][a] = "none"
      BY DEF Init
    <2> QED BY <2>1, <2>2, <2>3 DEF ReportsOwed, Serving
  <1>2. IInv /\ ReportsOwed /\ [Next]_vars => ReportsOwed'
    <2> SUFFICES ASSUME IInv, ReportsOwed, [Next]_vars, restarts' = 0 PROVE ReportsOwed'
      BY DEF ReportsOwed
    <2>1. CASE UNCHANGED vars
      BY <2>1 DEF vars, ReportsOwed, IsActive
    <2>2. CASE Next
      BY <2>2, CalmCases, SubmissionReports, HandlerReports, SchedulerReports
    <2> QED BY <2>1, <2>2
  <1>3. ReportsOwed => ReportedUntilRestart
    BY DEF ReportsOwed, ReportedUntilRestart, SettledIsReported, Quiet
  <1> QED
    BY <1>1, <1>2, <1>3, InvCorrect, PTL DEF Spec

-----------------------------------------------------------------------------
(* Coming back (module QueueRecovery).  The load works on copies: the files  *)
(* and the items in memory.  LoadIInv relates them to what the service left, *)
(* and IInv, which speaks of the queue alone, survives every load, also one  *)
(* that lost items: it is what makes the next stretch of work safe.          *)

LoadPc == {"up", "registry", "read", "items", "abandoning", "orphans"}
Boot == [pc      : LoadPc,
         left    : SUBSET Tasks,
         mem     : [Tasks -> Item],
         dropped : SUBSET Tasks,
         cur     : Tasks \cup {NoTask}]

LoadTypes ==
  /\ boot \in Boot
  /\ queueFile \in [Tasks -> Item] /\ tasksFile \in [Tasks -> RegStatus]
  /\ recovering \subseteq Tasks
  /\ loadCrashes \in Nat /\ quarantines \in Nat

\* The service loads; the items were read.
Loading == boot.pc # "up"
Reading == boot.pc \in {"items", "abandoning", "orphans"}

\* The item of t was running without a checkpoint when the service stopped.
Bare(t) == item[t].status = "running" /\ item[t].ckpt = 0

\* What f, a file or the memory, holds of t is the item the service left, or what
\* a load makes of it.
Came(f, t) == f[t] = item[t] \/ f[t] = LoadedItem(item[t])

\* f holds nothing else than what came back, and nothing for what is lost.
FromItems(f) == \A t \in Tasks : Came(f, t) \/ f[t] = NewItem

\* What is missing in f is missing beside an item that f shows and that had to be
\* abandoned.
Beside(f) == \A t \in Tasks : Came(f, t) \/ \E u \in Tasks \ {t} : Bare(u) /\ Came(f, u)

\* How far the load is, and what is settled of the items it looked at.
LoadsOn == Loading =>
  /\ restarts < MaxRestarts
  /\ FromItems(queueFile) /\ FromItems(boot.mem)
  /\ boot.pc \in {"registry", "read", "orphans"} => boot.left = {}
  /\ boot.pc \in {"registry", "read"} => boot.dropped = {}
  /\ \A t \in Tasks \ boot.left : boot.mem[t].status # "running"
  /\ \A t \in boot.dropped : Bare(t) /\ boot.mem[t] = LoadedItem(item[t]) /\ t \notin boot.left
  /\ boot.pc = "abandoning" => boot.cur \in boot.dropped

\* A readable file loses items only beside an abandoned one.
LosesBeside == Loading /\ quarantines = 0 => Beside(queueFile) /\ (Reading => Beside(boot.mem))

\* What the registry showed as running when the service stopped is shown as failed,
\* or is marked as recovering, so that the end of the load finds it.
Shown(t) == owned[t] /\ registry[t] = "running" /\ item[t].ckpt = 0
Resolves == Loading => \A t \in Tasks : Shown(t) =>
  \/ tasksFile[t] = "failed"
  \/ tasksFile[t] = "queued" /\ t \in recovering
  \/ tasksFile[t] = "running" /\ boot.pc = "registry"

\* What one restart tells the registry of t, and the tasks it has yet to tell it of.
Told(t) ==
  IF item[t].status = "running" THEN IF item[t].ckpt = 0 THEN "failed" ELSE "queued"
  ELSE MarkInterrupted(registry[t], owned[t])
Pended(t) == t \in boot.left \/ (boot.pc = "abandoning" /\ t = boot.cur)

OwnedHasItem ==
  \A t \in Tasks : owned[t] \/ submitter[t] = "enqueued" => item[t].status # "absent"

\* While no load was interrupted and the file is readable, each item in memory and
\* each status is what one restart makes of it, as soon as the load was there.
Clean == loadCrashes = 0 /\ quarantines = 0
CleanLoad == Clean =>
  /\ OwnedHasItem
  /\ \A t \in recovering : owned[t]
  /\ boot.pc \in {"registry", "read"} => queueFile = item
  /\ boot.pc = "registry" => tasksFile = registry
  /\ boot.pc = "read" => \A t \in Tasks : tasksFile[t] = MarkInterrupted(registry[t], owned[t])
  /\ Reading => \A t \in Tasks :
       /\ boot.mem[t] = IF t \in boot.left THEN item[t] ELSE LoadedItem(item[t])
       /\ tasksFile[t] = IF Pended(t) THEN MarkInterrupted(registry[t], owned[t]) ELSE Told(t)

LoadIInv == IInv /\ LoadTypes /\ LoadsOn /\ LosesBeside /\ Resolves /\ CleanLoad

\* What is loaded of an item.
LEMMA LoadedFields ==
  ASSUME NEW i \in Item
  PROVE  /\ LoadedItem(i) \in Item /\ LoadedItem(i).status # "running"
         /\ i.status # "running" => LoadedItem(i) = i
         /\ LoadedItem(i).compat = i.compat /\ LoadedItem(i).ckpt = i.ckpt
         /\ LoadedItem(i).attempts = i.attempts /\ LoadedItem(i).cancelled = i.cancelled
         /\ LoadedItem(i).active \in {0, i.active}
         /\ LoadedItem(i).status = "absent" => i.status = "absent"
         /\ i.status = "running" /\ i.ckpt = 0 => LoadedItem(i).status = "abandoned"
  <1>1. CASE i.status # "running"
    BY <1>1 DEF LoadedItem
  <1>2. CASE i.status = "running" /\ i.ckpt = 0
    <2>1. LoadedItem(i) = Abandoned(i)
      BY <1>2 DEF LoadedItem
    <2> QED
      BY <1>2, <2>1, StatusType DEF Abandoned, Item
  <1>3. CASE i.status = "running" /\ i.ckpt # 0
    BY <1>3, AttemptType, StatusType DEF LoadedItem, Item
  <1> QED
    BY <1>1, <1>2, <1>3

\* An item that is not there.
LEMMA NewItemFields ==
  /\ NewItem \in Item /\ NewItem.status = "absent" /\ NewItem.attempts = 0
  /\ NewItem.active = 0 /\ NewItem.cancelled = {} /\ NewItem.ckpt = 0
  BY QueueAssumption, AttemptType, StatusType DEF NewItem, Item

\* What came back of an item is loaded as the item itself would be.
LEMMA CameBack ==
  ASSUME TypeOK, NEW t \in Tasks, NEW f, Came(f, t)
  PROVE  /\ f[t] \in Item
         /\ LoadedItem(f[t]) = LoadedItem(item[t])
         /\ f[t].status = "running" => f[t] = item[t]
         /\ f[t].status # "running" => f[t] = LoadedItem(item[t])
         /\ f[t].ckpt = item[t].ckpt
         /\ f[t].status = "absent" => item[t].status = "absent"
  <1>1. item[t] \in Item /\ LoadedItem(item[t]) \in Item
    BY LoadedFields DEF TypeOK
  <1>2. LoadedItem(LoadedItem(item[t])) = LoadedItem(item[t])
    BY <1>1, LoadedFields
  <1> QED
    BY <1>1, <1>2, LoadedFields DEF Came

\* What a step leaves of the load in memory.
BootIs(pc, left, mem, dropped, cur) ==
  /\ boot'.pc = pc /\ boot'.left = left /\ boot'.mem = mem
  /\ boot'.dropped = dropped /\ boot'.cur = cur

LEMMA BootEffect ==
  ASSUME LoadTypes
  PROVE  /\ Crash \/ CrashAgain => BootIs("registry", {}, NoItems, {}, NoTask)
         /\ MarkInterruptedTasks => BootIs("read", boot.left, boot.mem, boot.dropped, boot.cur)
         /\ ReadQueueFile =>
              BootIs("items", {t \in Tasks : queueFile[t].status # "absent"}, queueFile, boot.dropped, boot.cur)
         /\ QuarantineQueueFile \/ WriteBack => BootIs("orphans", boot.left, boot.mem, boot.dropped, boot.cur)
         /\ ReportAbandoned => BootIs("items", boot.left, boot.mem, boot.dropped, NoTask)
         /\ \A ts \in SUBSET Tasks : Start(ts) => BootIs("up", {}, NoItems, {}, NoTask)
  <1>1. Crash \/ CrashAgain => BootIs("registry", {}, NoItems, {}, NoTask)
    BY DEF BootIs, Crash, CrashAgain, Up
  <1>2. MarkInterruptedTasks => BootIs("read", boot.left, boot.mem, boot.dropped, boot.cur)
    BY DEF LoadTypes, Boot, BootIs, MarkInterruptedTasks
  <1>3. ReadQueueFile =>
          BootIs("items", {t \in Tasks : queueFile[t].status # "absent"}, queueFile, boot.dropped, boot.cur)
    BY DEF LoadTypes, Boot, BootIs, ReadQueueFile
  <1>4. QuarantineQueueFile \/ WriteBack => BootIs("orphans", boot.left, boot.mem, boot.dropped, boot.cur)
    BY DEF LoadTypes, Boot, BootIs, QuarantineQueueFile, WriteBack
  <1>5. ReportAbandoned => BootIs("items", boot.left, boot.mem, boot.dropped, NoTask)
    BY DEF LoadTypes, Boot, BootIs, ReportAbandoned
  <1>6. \A ts \in SUBSET Tasks : Start(ts) => BootIs("up", {}, NoItems, {}, NoTask)
    BY DEF BootIs, Start, Up
  <1> QED
    BY <1>1, <1>2, <1>3, <1>4, <1>5, <1>6

\* The items in memory once t is loaded.
LoadedAt(t) == [boot.mem EXCEPT ![t] = LoadedItem(@)]

LEMMA ItemEffects ==
  ASSUME LoadTypes, NEW t \in Tasks
  PROVE  /\ KeepItem(t) => BootIs("items", boot.left \ {t}, boot.mem, boot.dropped, boot.cur)
         /\ ResumeItem(t) => BootIs("items", boot.left \ {t}, LoadedAt(t), boot.dropped, boot.cur)
         /\ AbandonItem(t) =>
              /\ BootIs("abandoning", boot.left \ {t}, LoadedAt(t), boot.dropped \cup {t}, t)
              /\ queueFile' = Dropped(boot.dropped \cup {t}, LoadedAt(t))
  <1>1. KeepItem(t) => BootIs("items", boot.left \ {t}, boot.mem, boot.dropped, boot.cur)
    BY DEF LoadTypes, Boot, BootIs, KeepItem
  <1>2. ASSUME ResumeItem(t) PROVE BootIs("items", boot.left \ {t}, LoadedAt(t), boot.dropped, boot.cur)
    <2>1. boot.pc = "items" /\ boot' = [boot EXCEPT !.left = @ \ {t}, !.mem = LoadedAt(t)]
      BY <1>2 DEF ResumeItem, LoadedAt, LoadTypes, Boot
    <2> QED
      BY <2>1 DEF LoadTypes, Boot, BootIs
  <1>3. ASSUME AbandonItem(t)
        PROVE  /\ BootIs("abandoning", boot.left \ {t}, LoadedAt(t), boot.dropped \cup {t}, t)
               /\ queueFile' = Dropped(boot.dropped \cup {t}, LoadedAt(t))
    BY <1>3 DEF LoadedAt, LoadTypes, Boot, BootIs, AbandonItem
  <1> QED
    BY <1>1, <1>2, <1>3

\* All steps but those of the queue at work and the last of the load leave the queue as it was.
Loads ==
  \/ Crash \/ CrashAgain \/ MarkInterruptedTasks \/ ReadQueueFile \/ QuarantineQueueFile
  \/ ReportAbandoned \/ WriteBack
  \/ \E t \in Tasks : KeepItem(t) \/ ResumeItem(t) \/ AbandonItem(t) \/ FailOrphan(t)
  \/ UNCHANGED allVars

LEMMA LoadCases ==
  ASSUME [LoadNext]_allVars
  PROVE  /\ Work \/ Loads \/ \E ts \in SUBSET Tasks : Start(ts)
         /\ Loads => UNCHANGED vars
  BY DEF LoadNext, LoadStep, Loads, Crash, CrashAgain, MarkInterruptedTasks, ReadQueueFile, QuarantineQueueFile,
     ReportAbandoned, WriteBack, KeepItem, ResumeItem, AbandonItem, FailOrphan, allVars

\* What is counted is never uncounted.
LEMMA CountersMove ==
  ASSUME [LoadNext]_allVars
  PROVE  /\ loadCrashes' = loadCrashes \/ (loadCrashes' = loadCrashes + 1 /\ CrashAgain)
         /\ quarantines' = quarantines \/ (quarantines' = quarantines + 1 /\ QuarantineQueueFile)
  <1>1. CASE Work \/ \E ts \in SUBSET Tasks : Start(ts)
    BY <1>1 DEF Work, Start
  <1>2. CASE \/ Crash \/ MarkInterruptedTasks \/ ReadQueueFile \/ ReportAbandoned \/ WriteBack
             \/ \E t \in Tasks : KeepItem(t) \/ ResumeItem(t) \/ AbandonItem(t) \/ FailOrphan(t)
             \/ UNCHANGED allVars
    BY <1>2, ZenonT(30) DEF Crash, MarkInterruptedTasks, ReadQueueFile, ReportAbandoned, WriteBack, KeepItem,
       ResumeItem, AbandonItem, FailOrphan, allVars, loadVars
  <1>3. CASE CrashAgain \/ QuarantineQueueFile
    BY <1>3, ZenonT(30) DEF CrashAgain, QuarantineQueueFile
  <1> QED
    BY LoadCases, <1>1, <1>2, <1>3 DEF Loads

\* Memory and files keep their types, whatever they hold.
LEMMA LoadTypesStep ==
  ASSUME LoadTypes, IInv, [LoadNext]_allVars
  PROVE  LoadTypes'
  <1>a. /\ NoItems \in [Tasks -> Item] /\ NoTasks \in [Tasks -> RegStatus]
        /\ item \in [Tasks -> Item] /\ registry \in [Tasks -> RegStatus]
        /\ {"queued", "failed"} \subseteq RegStatus
    BY NewItemFields DEF NoItems, NoTasks, RegStatus, IInv, TypeOK
  <1>b. /\ boot.pc \in LoadPc /\ boot.left \subseteq Tasks /\ boot.mem \in [Tasks -> Item] /\ boot.dropped \subseteq Tasks
        /\ boot.cur \in Tasks \cup {NoTask}
    BY DEF LoadTypes, Boot
  <1>1. boot' \in Boot
    <2>1. CASE Work \/ UNCHANGED allVars \/ \E t \in Tasks : FailOrphan(t)
      BY <2>1 DEF Work, allVars, loadVars, FailOrphan, LoadTypes
    <2>2. CASE Crash \/ CrashAgain \/ \E ts \in SUBSET Tasks : Start(ts)
      BY <1>a, <2>2 DEF Crash, CrashAgain, Start, Up, Boot, LoadPc
    <2>3. CASE MarkInterruptedTasks \/ QuarantineQueueFile \/ ReportAbandoned \/ WriteBack
      BY <1>b, <2>3 DEF MarkInterruptedTasks, QuarantineQueueFile, ReportAbandoned, WriteBack, LoadTypes, Boot, LoadPc
    <2>4. CASE ReadQueueFile
      BY <1>b, <2>4 DEF ReadQueueFile, LoadTypes, Boot, LoadPc
    <2>5. ASSUME NEW t \in Tasks, KeepItem(t) PROVE boot' \in Boot
      BY <1>b, <2>5 DEF KeepItem, LoadTypes, Boot, LoadPc
    <2>6. ASSUME NEW t \in Tasks, ResumeItem(t) \/ AbandonItem(t) PROVE boot' \in Boot
      <3>1. LoadedAt(t) \in [Tasks -> Item]
        BY <1>b, LoadedFields DEF LoadedAt
      <3>2. CASE ResumeItem(t)
        <4>1. boot' = [boot EXCEPT !.left = @ \ {t}, !.mem = LoadedAt(t)]
          BY <3>2 DEF ResumeItem, LoadedAt, LoadTypes, Boot
        <4> QED
          BY <1>b, <3>1, <4>1 DEF LoadTypes, Boot
      <3>3. CASE AbandonItem(t)
        BY <1>b, <3>1, <3>3 DEF AbandonItem, LoadedAt, LoadTypes, Boot, LoadPc
      <3> QED
        BY <2>6, <3>2, <3>3
    <2> QED
      BY LoadCases, <2>1, <2>2, <2>3, <2>4, <2>5, <2>6 DEF Loads
  <1>2. queueFile' \in [Tasks -> Item]
    <2>1. CASE \/ Work \/ CrashAgain \/ MarkInterruptedTasks \/ ReadQueueFile \/ ReportAbandoned \/ UNCHANGED allVars
               \/ \E t \in Tasks : KeepItem(t) \/ ResumeItem(t) \/ FailOrphan(t)
      BY <2>1 DEF Work, CrashAgain, MarkInterruptedTasks, ReadQueueFile, ReportAbandoned, allVars, loadVars, KeepItem,
                  ResumeItem, FailOrphan, LoadTypes
    <2>2. CASE Crash \/ QuarantineQueueFile \/ WriteBack \/ \E ts \in SUBSET Tasks : Start(ts)
      BY <1>a, <1>b, <2>2 DEF Crash, QuarantineQueueFile, WriteBack, Start
    <2>3. ASSUME NEW t \in Tasks, AbandonItem(t) PROVE queueFile' \in [Tasks -> Item]
      <3>1. LoadedAt(t) \in [Tasks -> Item]
        BY <1>b, LoadedFields DEF LoadedAt
      <3>2. queueFile' = Dropped(boot.dropped \cup {t}, LoadedAt(t))
        BY <2>3, ItemEffects
      <3> QED
        BY <3>1, <3>2, NewItemFields DEF Dropped
    <2> QED
      BY LoadCases, <2>1, <2>2, <2>3 DEF Loads
  <1>3. tasksFile' \in [Tasks -> RegStatus] /\ recovering' \subseteq Tasks
    <2>1. CASE \/ Work \/ CrashAgain \/ ReadQueueFile \/ QuarantineQueueFile \/ WriteBack \/ UNCHANGED allVars
               \/ \E t \in Tasks : KeepItem(t) \/ AbandonItem(t)
      BY <2>1 DEF Work, CrashAgain, ReadQueueFile, QuarantineQueueFile, WriteBack, allVars, loadVars, KeepItem,
                  AbandonItem, LoadTypes
    <2>2. CASE Crash \/ \E ts \in SUBSET Tasks : Start(ts)
      BY <1>a, <2>2 DEF Crash, Start, LoadTypes
    <2>3. CASE MarkInterruptedTasks
      BY <1>a, <2>3 DEF MarkInterruptedTasks, MarkInterrupted, Recovering, LoadTypes
    <2>4. CASE ReportAbandoned \/ \E t \in Tasks : ResumeItem(t) \/ FailOrphan(t)
      <3>1. \E u, s : /\ s \in {"queued", "failed"} /\ tasksFile' = [tasksFile EXCEPT ![u] = s]
                      /\ recovering' \subseteq recovering
        BY <2>4 DEF ReportAbandoned, ResumeItem, FailOrphan
      <3> QED
        BY <1>a, <3>1 DEF LoadTypes
    <2> QED
      BY LoadCases, <2>1, <2>2, <2>3, <2>4 DEF Loads
  <1>4. loadCrashes' \in Nat /\ quarantines' \in Nat
    BY CountersMove DEF LoadTypes
  <1> QED
    BY <1>1, <1>2, <1>3, <1>4 DEF LoadTypes

\* An item that the load changes is the one the service left.
LEMMA ItemsLoaded ==
  ASSUME LoadTypes, TypeOK, LoadsOn, NEW t \in Tasks, ResumeItem(t) \/ AbandonItem(t)
  PROVE  /\ t \in boot.left /\ boot.mem[t] = item[t] /\ item[t].status = "running"
         /\ LoadedAt(t)[t] = LoadedItem(item[t]) /\ LoadedAt(t)[t].status # "running"
         /\ \A u \in Tasks \ {t} : LoadedAt(t)[u] = boot.mem[u]
  <1>1. t \in boot.left /\ boot.mem[t].status = "running" /\ Loading
    BY DEF ResumeItem, AbandonItem, Loading
  <1>2. boot.mem[t] = item[t]
    <2>1. Came(boot.mem, t)
      BY <1>1, NewItemFields DEF LoadsOn, FromItems
    <2> QED
      BY <1>1, <2>1, CameBack
  <1> QED
    BY <1>1, <1>2, LoadedFields DEF LoadedAt, LoadTypes, Boot

\* The load goes on from what the files and the items hold.
LEMMA LoadsOnStep ==
  ASSUME LoadTypes, LoadTypes', IInv, LoadsOn, [LoadNext]_allVars
  PROVE  LoadsOn'
  <1> SUFFICES ASSUME Loading' PROVE LoadsOn'
    BY DEF LoadsOn
  <1>a. TypeOK /\ NoItems = [t \in Tasks |-> NewItem]
    BY DEF IInv, NoItems
  <1>b. FromItems(item) /\ FromItems(NoItems)
    BY <1>a DEF FromItems, Came
  <1>c. ~ Work /\ ~ \E ts \in SUBSET Tasks : Start(ts)
    BY BootEffect DEF Work, Loading, BootIs
  <1>d. Loads /\ UNCHANGED vars
    BY <1>c, LoadCases
  <1>e. \A f : FromItems(f) <=> \A t \in Tasks : f[t] = item'[t] \/ f[t] = LoadedItem(item'[t]) \/ f[t] = NewItem
    BY <1>d DEF FromItems, Came, vars
  <1>f. boot.mem \in [Tasks -> Item] /\ queueFile \in [Tasks -> Item] /\ boot.dropped \subseteq Tasks
    BY DEF LoadTypes, Boot
  <1> DEFINE Fits(pc, left, mem, gone, cur) ==
        /\ FromItems(mem)
        /\ pc \in {"registry", "read", "orphans"} => left = {}
        /\ pc \in {"registry", "read"} => gone = {}
        /\ \A t \in Tasks \ left : mem[t].status # "running"
        /\ \A t \in gone : Bare(t) /\ mem[t] = LoadedItem(item[t]) /\ t \notin left
        /\ pc = "abandoning" => cur \in gone
  <1>g. ASSUME NEW pc, NEW left, NEW mem, NEW gone, NEW cur, BootIs(pc, left, mem, gone, cur), Fits(pc, left, mem, gone, cur),
               restarts < MaxRestarts, FromItems(queueFile')
        PROVE  LoadsOn'
    BY <1>d, <1>e, <1>g DEF LoadsOn, BootIs, FromItems, Came, Bare, vars
  <1>1. CASE Crash \/ CrashAgain
    <2>1. BootIs("registry", {}, NoItems, {}, NoTask)
      BY <1>1, BootEffect
    <2>2. Fits("registry", {}, NoItems, {}, NoTask)
      BY <1>a, <1>b, NewItemFields
    <2>3. restarts < MaxRestarts /\ FromItems(queueFile')
      BY <1>1, <1>b DEF Crash, CrashAgain, LoadsOn, Loading
    <2> QED
      BY <1>g, <2>1, <2>2, <2>3
  <1>h. CASE boot.pc # "up"
    <2>a. /\ restarts < MaxRestarts /\ FromItems(queueFile)
          /\ Fits(boot.pc, boot.left, boot.mem, boot.dropped, boot.cur)
      BY <1>h DEF LoadsOn, Loading
    <2>1. CASE MarkInterruptedTasks
      <3>1. BootIs("read", boot.left, boot.mem, boot.dropped, boot.cur) /\ boot.pc = "registry"
        BY <2>1, BootEffect DEF MarkInterruptedTasks
      <3>2. queueFile' = queueFile
        BY <2>1 DEF MarkInterruptedTasks
      <3> QED
        BY <1>g, <2>a, <3>1, <3>2
    <2>2. CASE ReadQueueFile
      <3> DEFINE left == {t \in Tasks : queueFile[t].status # "absent"}
      <3>1. BootIs("items", left, queueFile, boot.dropped, boot.cur) /\ queueFile' = queueFile
        BY <2>2, BootEffect DEF ReadQueueFile
      <3>2. boot.dropped = {}
        BY <2>2, <2>a DEF ReadQueueFile
      <3> QED
        BY <1>g, <2>a, <3>1, <3>2
    <2>3. CASE QuarantineQueueFile
      <3>1. BootIs("orphans", boot.left, boot.mem, boot.dropped, boot.cur) /\ boot.pc = "read" /\ queueFile' = NoItems
        BY <2>3, BootEffect DEF QuarantineQueueFile
      <3> QED
        BY <1>b, <1>g, <2>a, <3>1
    <2>4. CASE ReportAbandoned
      <3>1. BootIs("items", boot.left, boot.mem, boot.dropped, NoTask) /\ queueFile' = queueFile
        BY <2>4, BootEffect DEF ReportAbandoned
      <3> QED
        BY <1>g, <2>a, <3>1
    <2>5. CASE WriteBack
      <3>1. BootIs("orphans", boot.left, boot.mem, boot.dropped, boot.cur) /\ boot.left = {} /\ queueFile' = boot.mem
        BY <2>5, BootEffect DEF WriteBack
      <3> QED
        BY <1>g, <2>a, <3>1
    <2>6. ASSUME NEW t \in Tasks, KeepItem(t) PROVE LoadsOn'
      <3>1. BootIs("items", boot.left \ {t}, boot.mem, boot.dropped, boot.cur) /\ boot.mem[t].status # "running"
            /\ queueFile' = queueFile
        BY <2>6, ItemEffects DEF KeepItem
      <3> QED
        BY <1>g, <2>a, <3>1
    <2>7. ASSUME NEW t \in Tasks, ResumeItem(t) \/ AbandonItem(t) PROVE LoadsOn'
      <3>2. /\ t \in boot.left /\ boot.mem[t] = item[t]
            /\ LoadedAt(t)[t] = LoadedItem(item[t]) /\ LoadedAt(t)[t].status # "running"
            /\ \A u \in Tasks \ {t} : LoadedAt(t)[u] = boot.mem[u]
        BY <1>a, <2>7, ItemsLoaded
      <3>4. FromItems(LoadedAt(t))
        BY <2>a, <3>2 DEF FromItems, Came
      <3>5. CASE ResumeItem(t)
        <4>1. BootIs("items", boot.left \ {t}, LoadedAt(t), boot.dropped, boot.cur) /\ queueFile' = queueFile
          BY <3>5, ItemEffects DEF ResumeItem
        <4>2. Fits("items", boot.left \ {t}, LoadedAt(t), boot.dropped, boot.cur)
          BY <1>f, <2>a, <3>2, <3>4
        <4> QED
          BY <1>g, <2>a, <4>1, <4>2
      <3>6. CASE AbandonItem(t)
        <4>1. /\ BootIs("abandoning", boot.left \ {t}, LoadedAt(t), boot.dropped \cup {t}, t)
              /\ queueFile' = Dropped(boot.dropped \cup {t}, LoadedAt(t))
          BY <3>6, ItemEffects
        <4>2. Bare(t)
          BY <3>2, <3>6 DEF AbandonItem, Bare
        <4>3. Fits("abandoning", boot.left \ {t}, LoadedAt(t), boot.dropped \cup {t}, t)
          BY <1>f, <2>a, <3>2, <3>4, <4>2
        <4>4. FromItems(queueFile')
          BY <3>4, <4>1 DEF Dropped, FromItems, Came
        <4>5. restarts < MaxRestarts
          BY <2>a
        <4> QED
          <5> HIDE DEF Fits
          <5> QED
            BY <1>g, <4>1, <4>3, <4>4, <4>5
      <3> QED
        BY <2>7, <3>5, <3>6
    <2>8. ASSUME NEW t \in Tasks, FailOrphan(t) PROVE LoadsOn'
      <3>1. BootIs(boot.pc, boot.left, boot.mem, boot.dropped, boot.cur) /\ queueFile' = queueFile
        BY <2>8 DEF FailOrphan, BootIs
      <3> QED
        BY <1>g, <2>a, <3>1
    <2>9. CASE UNCHANGED allVars
      <3>1. BootIs(boot.pc, boot.left, boot.mem, boot.dropped, boot.cur) /\ queueFile' = queueFile
        BY <2>9 DEF allVars, loadVars, BootIs
      <3> QED
        BY <1>g, <2>a, <3>1
    <2> QED
      BY <1>d, <1>1, <2>1, <2>2, <2>3, <2>4, <2>5, <2>6, <2>7, <2>8, <2>9 DEF Loads
  <1>i. CASE boot.pc = "up"
    BY <1>i, <1>d, <1>1 DEF Loads, Loading, allVars, loadVars, MarkInterruptedTasks, ReadQueueFile, QuarantineQueueFile,
       ReportAbandoned, WriteBack, KeepItem, ResumeItem, AbandonItem, FailOrphan
  <1> QED
    BY <1>h, <1>i

\* What is lost is lost beside an item that is abandoned.
LEMMA LosesBesideStep ==
  ASSUME LoadTypes, IInv, LoadsOn, LosesBeside, [LoadNext]_allVars
  PROVE  LosesBeside'
  <1> SUFFICES ASSUME Loading', quarantines' = 0 PROVE LosesBeside'
    BY DEF LosesBeside
  <1>a. TypeOK
    BY DEF IInv
  <1>b. Loads /\ UNCHANGED vars
    BY LoadCases, BootEffect DEF Work, Loading, BootIs
  <1>c. quarantines = 0 /\ ~ QuarantineQueueFile
    BY CountersMove DEF LoadTypes, QuarantineQueueFile
  <1>d. ASSUME NEW pc, NEW left, NEW mem, NEW gone, NEW cur, BootIs(pc, left, mem, gone, cur),
               Beside(queueFile'), pc \in {"registry", "read"} \/ Beside(mem)
        PROVE  LosesBeside'
    BY <1>b, <1>d DEF LosesBeside, Reading, BootIs, Beside, Came, Bare, vars
  <1>1. CASE Crash \/ CrashAgain
    <2>1. BootIs("registry", {}, NoItems, {}, NoTask)
      BY <1>1, BootEffect
    <2>2. Beside(queueFile')
      BY <1>1, <1>c DEF Crash, CrashAgain, LosesBeside, Loading, Beside, Came
    <2> QED
      BY <1>d, <2>1, <2>2
  <1>2. CASE MarkInterruptedTasks \/ ReadQueueFile
    <2>1. queueFile' = queueFile /\ Beside(queueFile)
      BY <1>2, <1>c DEF MarkInterruptedTasks, ReadQueueFile, LosesBeside, Loading
    <2>2. CASE MarkInterruptedTasks
      <3>1. BootIs("read", boot.left, boot.mem, boot.dropped, boot.cur)
        BY <2>2, BootEffect
      <3> QED
        BY <1>d, <2>1, <3>1
    <2>3. CASE ReadQueueFile
      <3>1. BootIs("items", {t \in Tasks : queueFile[t].status # "absent"}, queueFile, boot.dropped, boot.cur)
        BY <2>3, BootEffect
      <3> QED
        BY <1>d, <2>1, <3>1
    <2> QED
      BY <1>2, <2>2, <2>3
  <1>3. CASE ReportAbandoned \/ WriteBack
    <2>1. Beside(queueFile) /\ Beside(boot.mem) /\ queueFile' \in {queueFile, boot.mem}
      BY <1>3, <1>c DEF ReportAbandoned, WriteBack, LosesBeside, Loading, Reading
    <2>2. \E pc, cur : BootIs(pc, boot.left, boot.mem, boot.dropped, cur)
      BY <1>3, BootEffect
    <2> QED
      BY <1>d, <2>1, <2>2
  <1>4. ASSUME NEW t \in Tasks, KeepItem(t) \/ FailOrphan(t) PROVE LosesBeside'
    <2>1. Beside(queueFile) /\ Beside(boot.mem) /\ queueFile' = queueFile
      BY <1>4, <1>c DEF KeepItem, FailOrphan, LosesBeside, Loading, Reading
    <2>2. \E pc, left : BootIs(pc, left, boot.mem, boot.dropped, boot.cur)
      BY <1>4, ItemEffects DEF FailOrphan, BootIs
    <2> QED
      BY <1>d, <2>1, <2>2
  <1>5. ASSUME NEW t \in Tasks, ResumeItem(t) \/ AbandonItem(t) PROVE LosesBeside'
    <2>1. Beside(queueFile) /\ Beside(boot.mem)
      BY <1>5, <1>c DEF ResumeItem, AbandonItem, LosesBeside, Loading, Reading
    <2>2. /\ LoadedAt(t)[t] = LoadedItem(item[t]) /\ item[t].status = "running"
          /\ \A u \in Tasks \ {t} : LoadedAt(t)[u] = boot.mem[u]
          /\ boot.mem[t] = item[t]
      BY <1>a, <1>5, ItemsLoaded
    <2>3. Beside(LoadedAt(t))
      BY <2>1, <2>2 DEF Beside, Came
    <2>4. CASE ResumeItem(t)
      <3>1. BootIs("items", boot.left \ {t}, LoadedAt(t), boot.dropped, boot.cur) /\ queueFile' = queueFile
        BY <2>4, ItemEffects DEF ResumeItem
      <3> QED
        BY <1>d, <2>1, <2>3, <3>1
    <2>5. CASE AbandonItem(t)
      <3>1. /\ BootIs("abandoning", boot.left \ {t}, LoadedAt(t), boot.dropped \cup {t}, t)
            /\ queueFile' = Dropped(boot.dropped \cup {t}, LoadedAt(t))
        BY <2>5, ItemEffects
      <3>2. Bare(t)
        BY <2>2, <2>5 DEF AbandonItem, Bare
      <3>3. \A u \in boot.dropped : u \in Tasks /\ u # t /\ boot.mem[u] = LoadedItem(item[u])
        <4>1. boot.pc = "items" /\ t \in boot.left
          BY <2>5 DEF AbandonItem
        <4> QED
          BY <4>1 DEF LoadsOn, Loading, LoadTypes, Boot
      <3>4. \A u \in boot.dropped \cup {t} : Came(queueFile', u)
        BY <2>2, <3>1, <3>3 DEF Dropped, Came
      <3> QED
        <4>1. Beside(queueFile')
          BY <3>2, <3>4 DEF Beside
        <4> QED
          BY <1>d, <2>3, <3>1, <4>1
    <2> QED
      BY <1>5, <2>4, <2>5
  <1>6. CASE UNCHANGED allVars
    BY <1>6, <1>b, <1>c DEF LosesBeside, Loading, Reading, Beside, Came, Bare, allVars, loadVars, vars
  <1> QED
    BY <1>b, <1>c, <1>1, <1>2, <1>3, <1>4, <1>5, <1>6 DEF Loads

\* What the registry showed as running stays marked until it is shown as failed.
LEMMA ResolvesStep ==
  ASSUME LoadTypes, IInv, LoadsOn, Resolves, [LoadNext]_allVars
  PROVE  Resolves'
  <1> SUFFICES ASSUME Loading' PROVE Resolves'
    BY DEF Resolves
  <1>a. TypeOK
    BY DEF IInv
  <1>b. Loads /\ UNCHANGED vars
    BY LoadCases, BootEffect DEF Work, Loading, BootIs
  <1>c. boot.pc # "up" => \A t \in Tasks : Shown(t) =>
          \/ tasksFile[t] = "failed"
          \/ tasksFile[t] = "queued" /\ t \in recovering
          \/ tasksFile[t] = "running" /\ boot.pc = "registry"
    BY DEF Resolves, Loading
  <1>d. SUFFICES ASSUME NEW t \in Tasks, Shown(t)
                 PROVE  \/ tasksFile'[t] = "failed"
                        \/ tasksFile'[t] = "queued" /\ t \in recovering'
                        \/ tasksFile'[t] = "running" /\ boot'.pc = "registry"
    BY <1>b DEF Resolves, Shown, vars
  <1>e. owned[t] /\ registry[t] = "running" /\ item[t].ckpt = 0 /\ tasksFile \in [Tasks -> RegStatus]
    BY <1>d DEF Shown, LoadTypes
  <1>f. boot.pc \in {"items", "abandoning", "orphans"} =>
          tasksFile[t] = "failed" \/ (tasksFile[t] = "queued" /\ t \in recovering)
    <2>1. ASSUME boot.pc # "up", boot.pc # "registry"
          PROVE  tasksFile[t] = "failed" \/ (tasksFile[t] = "queued" /\ t \in recovering)
      BY <1>c, <1>d, <2>1, Zenon
    <2> QED
      BY <2>1
  <1>1. CASE Crash \/ CrashAgain
    <2>1. boot'.pc = "registry"
      BY <1>1, BootEffect DEF BootIs
    <2> QED
      BY <1>1, <1>c, <1>d, <1>e, <2>1 DEF Crash, CrashAgain
  <1>2. CASE MarkInterruptedTasks
    BY <1>2, <1>c, <1>d, <1>e DEF MarkInterruptedTasks, MarkInterrupted, Recovering
  <1>3. CASE ReadQueueFile \/ QuarantineQueueFile \/ WriteBack
    BY <1>3, <1>c, <1>d DEF ReadQueueFile, QuarantineQueueFile, WriteBack
  <1>4. CASE ReportAbandoned
    BY <1>4, <1>c, <1>d, <1>e DEF ReportAbandoned
  <1>5. ASSUME NEW u \in Tasks, KeepItem(u) \/ AbandonItem(u)
        PROVE  tasksFile'[t] = "failed" \/ (tasksFile'[t] = "queued" /\ t \in recovering')
    <2>1. boot.pc = "items" /\ tasksFile' = tasksFile /\ recovering' = recovering
      BY <1>5 DEF KeepItem, AbandonItem
    <2> QED
      BY <1>f, <2>1
  <1>6. ASSUME NEW u \in Tasks, ResumeItem(u)
        PROVE  tasksFile'[t] = "failed" \/ (tasksFile'[t] = "queued" /\ t \in recovering')
    <2>1. u # t
      BY <1>a, <1>e, <1>6, ItemsLoaded DEF ResumeItem
    <2>2. boot.pc = "items" /\ tasksFile' = [tasksFile EXCEPT ![u] = "queued"] /\ recovering' = recovering \ {u}
      BY <1>6 DEF ResumeItem
    <2> QED
      BY <1>e, <1>f, <2>1, <2>2
  <1>7. ASSUME NEW u \in Tasks, FailOrphan(u)
        PROVE  tasksFile'[t] = "failed" \/ (tasksFile'[t] = "queued" /\ t \in recovering')
    <2>1. boot.pc = "orphans" /\ tasksFile' = [tasksFile EXCEPT ![u] = "failed"] /\ recovering' = recovering \ {u}
      BY <1>7 DEF FailOrphan
    <2>2. boot.pc \in {"items", "abandoning", "orphans"}
      BY <2>1
    <2>3. CASE u = t
      BY <1>e, <2>1, <2>3
    <2>4. CASE u # t
      BY <1>e, <1>f, <2>1, <2>2, <2>4
    <2> QED
      BY <2>3, <2>4
  <1>8. CASE UNCHANGED allVars
    BY <1>8, <1>c, <1>d DEF Loading, allVars, loadVars
  <1> QED
    BY <1>b, <1>1, <1>2, <1>3, <1>4, <1>5, <1>6, <1>7, <1>8 DEF Loads

\* While the queue works, a task that the registry knows as the queue's has an item.
LEMMA OwnedStep ==
  ASSUME IInv, Next, restarts' = restarts, OwnedHasItem
  PROVE  OwnedHasItem' /\ \A t \in Tasks : owned[t] => owned'[t]
  <1>1. ASSUME NEW u \in Tasks
        PROVE  owned'[u] \/ submitter'[u] = "enqueued" => owned[u] \/ submitter[u] = "enqueued" \/ Enqueue(u)
    <2>1. ASSUME NEW t \in Tasks, CreateTask(t) \/ Enqueue(t) \/ MarkOwned(t)
          PROVE  owned'[u] \/ submitter'[u] = "enqueued" => owned[u] \/ submitter[u] = "enqueued" \/ Enqueue(u)
      <3>1. CASE u = t
        BY <2>1, <3>1 DEF CreateTask, MarkOwned, IInv, TypeOK
      <3>2. CASE u # t
        BY <2>1, <3>2 DEF CreateTask, Enqueue, MarkOwned, IInv, TypeOK
      <3> QED
        BY <3>1, <3>2
    <2>2. ASSUME NEW ts \in SUBSET Tasks, Restart(ts) PROVE FALSE
      BY <2>2 DEF Restart, IInv, TypeOK
    <2> QED
      BY <2>1, <2>2, SubmissionMoves
  <1>2. ASSUME NEW u \in Tasks, item[u].status # "absent" \/ Enqueue(u) PROVE item'[u].status # "absent"
    <2>1. CASE Enqueue(u)
      BY <2>1, EnqueuedOp DEF Enqueue, IInv, TypeOK
    <2> QED
      BY <1>2, <2>1, AttemptsGrow
  <1>3. \A t \in Tasks : owned[t] => owned'[t]
    <2>1. ASSUME NEW t \in Tasks, CreateTask(t) \/ Enqueue(t) \/ MarkOwned(t)
          PROVE  \A u \in Tasks : owned[u] => owned'[u]
      BY <2>1 DEF CreateTask, Enqueue, MarkOwned, IInv, TypeOK
    <2>2. ASSUME NEW ts \in SUBSET Tasks, Restart(ts) PROVE FALSE
      BY <2>2 DEF Restart, IInv, TypeOK
    <2> QED
      BY <2>1, <2>2, SubmissionMoves
  <1> QED
    BY <1>1, <1>2, <1>3 DEF OwnedHasItem

\* A load that nothing disturbs holds, item by item, what a restart makes of the
\* queue and of the registry.
LEMMA CleanLoadStep ==
  ASSUME LoadTypes, IInv, LoadsOn, CleanLoad, [LoadNext]_allVars
  PROVE  CleanLoad'
  <1> SUFFICES ASSUME Clean' PROVE CleanLoad'
    BY DEF CleanLoad
  <1>a. TypeOK /\ Clean /\ ~ CrashAgain /\ ~ QuarantineQueueFile
    BY CountersMove DEF Clean, LoadTypes, IInv, CrashAgain, QuarantineQueueFile
  <1>b. /\ OwnedHasItem /\ \A t \in recovering : owned[t]
        /\ boot.pc \in {"registry", "read"} => queueFile = item
        /\ boot.pc = "registry" => tasksFile = registry
    BY <1>a DEF CleanLoad
  <1>1. CASE Work
    <2>1. OwnedHasItem' /\ \A t \in Tasks : owned[t] => owned'[t]
      BY <1>1, <1>b, OwnedStep DEF Work
    <2>2. boot'.pc = "up" /\ recovering' \subseteq recovering
      BY <1>1 DEF Work
    <2> QED
      BY <1>b, <2>1, <2>2 DEF CleanLoad, Reading, LoadTypes
  <1>2. ASSUME NEW ts \in SUBSET Tasks, Start(ts) PROVE CleanLoad'
    <2>1. boot'.pc = "up"
      BY <1>2, BootEffect DEF BootIs
    <2>2. OwnedHasItem'
      <3> SUFFICES ASSUME NEW t \in Tasks, owned[t] PROVE item'[t].status # "absent"
        BY <1>2 DEF Start, OwnedHasItem, IInv, TypeOK
      <3>1. item'[t].status = boot.mem[t].status
        BY <1>2 DEF Start, StartItems, LoadTypes, Boot, Item
      <3>2. boot.mem[t] = LoadedItem(item[t])
        BY <1>2, <1>a DEF Start, CleanLoad, Reading, LoadsOn, Loading
      <3>3. item[t] \in Item /\ item[t].status # "absent"
        BY <1>a, <1>b DEF OwnedHasItem, TypeOK
      <3> QED
        BY <3>1, <3>2, <3>3, LoadedFields
    <2>3. owned' = owned /\ recovering' = recovering
      BY <1>2 DEF Start
    <2> QED
      BY <1>b, <2>1, <2>2, <2>3 DEF CleanLoad, Reading
  <1>3. CASE Loads
    <2>a. UNCHANGED vars
      BY <1>3, LoadCases
    <2> DEFINE Told1(t, pending) == IF pending THEN MarkInterrupted(registry[t], owned[t]) ELSE Told(t)
               Item1(t, pending) == IF pending THEN item[t] ELSE LoadedItem(item[t])
    <2>b. ASSUME NEW pc, NEW left, NEW mem, NEW gone, NEW cur, BootIs(pc, left, mem, gone, cur),
                 pc \in {"registry", "read"} => queueFile' = item,
                 pc = "registry" => tasksFile' = registry,
                 pc = "read" => \A t \in Tasks : tasksFile'[t] = MarkInterrupted(registry[t], owned[t]),
                 pc \in {"items", "abandoning", "orphans"} =>
                   \A t \in Tasks : /\ mem[t] = Item1(t, t \in left)
                                    /\ tasksFile'[t] = Told1(t, t \in left \/ (pc = "abandoning" /\ t = cur)),
                 \A t \in recovering' : owned[t]
          PROVE  CleanLoad'
      BY <1>b, <2>a, <2>b DEF CleanLoad, Reading, BootIs, OwnedHasItem, Pended, Told, vars
    <2>c. boot.pc \in {"items", "abandoning", "orphans"} =>
            \A t \in Tasks : /\ boot.mem[t] = Item1(t, t \in boot.left)
                             /\ tasksFile[t] = Told1(t, t \in boot.left \/ (boot.pc = "abandoning" /\ t = boot.cur))
      BY <1>a DEF CleanLoad, Reading, Pended
    <2>d. ASSUME NEW t \in Tasks, item[t].status # "running"
          PROVE  LoadedItem(item[t]) = item[t] /\ Told(t) = MarkInterrupted(registry[t], owned[t])
      BY <2>d DEF LoadedItem, Told
    <2>1. CASE Crash
      <3>1. BootIs("registry", {}, NoItems, {}, NoTask)
        BY <2>1, BootEffect
      <3>2. queueFile' = item /\ tasksFile' = registry /\ recovering' = recovering
        BY <2>1 DEF Crash
      <3> QED
        BY <1>b, <2>b, <3>1, <3>2
    <2>2. CASE MarkInterruptedTasks
      <3>1. BootIs("read", boot.left, boot.mem, boot.dropped, boot.cur)
        BY <2>2, BootEffect
      <3>2. /\ queueFile' = item /\ \A t \in recovering' : owned[t]
            /\ \A t \in Tasks : tasksFile'[t] = MarkInterrupted(registry[t], owned[t])
        BY <1>b, <2>2 DEF MarkInterruptedTasks, Recovering
      <3> QED
        BY <2>b, <3>1, <3>2
    <2>3. CASE ReadQueueFile
      <3> DEFINE left == {t \in Tasks : queueFile[t].status # "absent"}
      <3>1. BootIs("items", left, queueFile, boot.dropped, boot.cur)
        BY <2>3, BootEffect
      <3>2. /\ queueFile = item /\ tasksFile' = tasksFile /\ recovering' = recovering
            /\ \A t \in Tasks : tasksFile[t] = MarkInterrupted(registry[t], owned[t])
        BY <1>a, <1>b, <2>3 DEF ReadQueueFile, CleanLoad
      <3>3. \A t \in Tasks : item[t] = Item1(t, t \in left) /\ tasksFile[t] = Told1(t, t \in left)
        BY <2>d, <3>2
      <3> QED
        <4> HIDE DEF left
        <4> QED
          BY <1>b, <2>b, <3>1, <3>2, <3>3
    <2>4. CASE ReportAbandoned
      <3>1. BootIs("items", boot.left, boot.mem, boot.dropped, NoTask)
        BY <2>4, BootEffect
      <3>2. boot.pc = "abandoning" /\ boot.cur \in Tasks /\ Bare(boot.cur) /\ boot.cur \notin boot.left
        BY <2>4 DEF ReportAbandoned, LoadsOn, Loading, LoadTypes, Boot
      <3>3. Told(boot.cur) = "failed"
        BY <3>2 DEF Told, Bare
      <3>4. tasksFile' = [tasksFile EXCEPT ![boot.cur] = "failed"] /\ recovering' \subseteq recovering
        BY <2>4 DEF ReportAbandoned
      <3>5. \A t \in Tasks : tasksFile'[t] = Told1(t, t \in boot.left)
        BY <2>c, <3>2, <3>3, <3>4 DEF LoadTypes
      <3> QED
        BY <1>b, <2>b, <2>c, <3>1, <3>2, <3>4, <3>5
    <2>5. CASE WriteBack
      <3>1. /\ BootIs("orphans", boot.left, boot.mem, boot.dropped, boot.cur) /\ boot.pc = "items"
            /\ tasksFile' = tasksFile /\ recovering' = recovering
        BY <2>5, BootEffect DEF WriteBack
      <3> QED
        BY <1>b, <2>b, <2>c, <3>1
    <2>6. ASSUME NEW t \in Tasks, KeepItem(t) PROVE CleanLoad'
      <3>1. /\ BootIs("items", boot.left \ {t}, boot.mem, boot.dropped, boot.cur) /\ boot.pc = "items"
            /\ tasksFile' = tasksFile /\ recovering' = recovering
            /\ t \in boot.left /\ boot.mem[t].status # "running"
        BY <2>6, ItemEffects DEF KeepItem
      <3>2. boot.mem[t] = LoadedItem(item[t]) /\ tasksFile[t] = Told(t)
        BY <2>c, <2>d, <3>1
      <3> QED
        BY <1>b, <2>b, <2>c, <3>1, <3>2
    <2>7. ASSUME NEW t \in Tasks, ResumeItem(t) PROVE CleanLoad'
      <3>1. /\ BootIs("items", boot.left \ {t}, LoadedAt(t), boot.dropped, boot.cur) /\ boot.pc = "items"
            /\ tasksFile' = [tasksFile EXCEPT ![t] = "queued"] /\ recovering' \subseteq recovering
            /\ boot.mem[t].ckpt # 0
        BY <2>7, ItemEffects DEF ResumeItem
      <3>2. /\ LoadedAt(t)[t] = LoadedItem(item[t])
            /\ \A u \in Tasks \ {t} : LoadedAt(t)[u] = boot.mem[u]
            /\ Told(t) = "queued"
        BY <1>a, <2>7, <3>1, ItemsLoaded DEF Told
      <3>3. \A u \in Tasks : /\ LoadedAt(t)[u] = Item1(u, u \in boot.left \ {t})
                             /\ tasksFile'[u] = Told1(u, u \in boot.left \ {t})
        BY <2>c, <3>1, <3>2 DEF LoadTypes
      <3> QED
        BY <1>b, <2>b, <3>1, <3>3
    <2>8. ASSUME NEW t \in Tasks, AbandonItem(t) PROVE CleanLoad'
      <3>1. /\ BootIs("abandoning", boot.left \ {t}, LoadedAt(t), boot.dropped \cup {t}, t) /\ boot.pc = "items"
            /\ tasksFile' = tasksFile /\ recovering' = recovering
        BY <2>8, ItemEffects DEF AbandonItem
      <3>2. /\ LoadedAt(t)[t] = LoadedItem(item[t]) /\ t \in boot.left
            /\ \A u \in Tasks \ {t} : LoadedAt(t)[u] = boot.mem[u]
        BY <1>a, <2>8, ItemsLoaded
      <3>3. \A u \in Tasks : /\ LoadedAt(t)[u] = Item1(u, u \in boot.left \ {t})
                             /\ tasksFile'[u] = Told1(u, u \in boot.left \ {t} \/ u = t)
        BY <2>c, <3>1, <3>2
      <3> QED
        BY <1>b, <2>b, <3>1, <3>3
    <2>9. ASSUME NEW t \in Tasks, FailOrphan(t) PROVE FALSE
      <3>1. boot.pc = "orphans" /\ t \in recovering /\ boot.mem[t].status = "absent" /\ boot.left = {}
        BY <2>9 DEF FailOrphan, Orphans, LoadsOn, Loading
      <3>2. boot.mem[t] = LoadedItem(item[t]) /\ item[t] \in Item /\ item[t].status # "absent"
        BY <1>a, <1>b, <2>c, <3>1 DEF OwnedHasItem, TypeOK
      <3> QED
        BY <3>1, <3>2, LoadedFields
    <2>10. CASE UNCHANGED allVars
      BY <1>a, <2>10 DEF CleanLoad, Reading, OwnedHasItem, Pended, Told, allVars, loadVars, vars
    <2> QED
      BY <1>3, <1>a, <2>1, <2>2, <2>3, <2>4, <2>5, <2>6, <2>7, <2>8, <2>9, <2>10 DEF Loads
  <1> QED
    BY <1>1, <1>2, <1>3, LoadCases

\* The new process starts in a state the queue may be in, whatever the load lost.
LEMMA StartKeeps ==
  ASSUME LoadTypes, IInv, LoadsOn, NEW ts \in SUBSET Tasks, Start(ts)
  PROVE  IInv'
  <1>a. TypeOK /\ restarts < MaxRestarts /\ boot.mem \in [Tasks -> Item]
    BY DEF IInv, LoadTypes, Boot, Start, LoadsOn, Loading
  <1>b. ASSUME NEW t \in Tasks
        PROVE  /\ item'[t] \in Item /\ item'[t].status # "running"
               /\ \/ item'[t].status = "absent" /\ item'[t].attempts = 0 /\ item'[t].active = 0
                     /\ item'[t].cancelled = {}
                  \/ /\ item'[t].attempts = item[t].attempts /\ item'[t].cancelled = item[t].cancelled
                     /\ item'[t].active \in {0, item[t].active}
                     /\ item[t].status = "absent" <=> item'[t].status = "absent"
    <2> DEFINE i == boot.mem[t]
    <2>1. i \in Item /\ item'[t] = [i EXCEPT !.compat = t \notin ts]
      BY <1>a DEF Start, StartItems
    <2>2. i.status # "running" /\ (Came(boot.mem, t) \/ i = NewItem)
      BY DEF Start, LoadsOn, Loading, FromItems
    <2>3. /\ item'[t] \in Item /\ item'[t].status = i.status /\ item'[t].attempts = i.attempts
          /\ item'[t].active = i.active /\ item'[t].cancelled = i.cancelled
      <3> HIDE DEF i
      <3> QED
        BY <2>1 DEF Item
    <2>4. CASE Came(boot.mem, t)
      <3>1. i = LoadedItem(item[t]) /\ item[t] \in Item
        BY <1>a, <2>2, <2>4, CameBack DEF TypeOK
      <3>2. i.attempts = item[t].attempts /\ i.cancelled = item[t].cancelled /\ i.active \in {0, item[t].active}
        BY <3>1, LoadedFields
      <3>3. i.status = "absent" <=> item[t].status = "absent"
        BY <3>1, LoadedFields
      <3> QED
        <4> HIDE DEF i
        <4> QED
          BY <2>2, <2>3, <3>2, <3>3
    <2>5. CASE i = NewItem
      <3> HIDE DEF i
      <3> QED
        BY <2>2, <2>3, <2>5, NewItemFields
    <2> QED
      BY <2>2, <2>4, <2>5
  <1>c. /\ \A t \in Tasks : submitter'[t] \in {"new", "created"} => submitter[t] = "new"
        /\ \A t \in Tasks, a \in Attempts : handler[t][a] = "none" => handler'[t][a] = "none"
    BY <1>a DEF Start, Stopped
  <1>1. TypeOK'
    <2>1. item' \in [Tasks -> Item]
      <3>1. item' = [t \in Tasks |-> [StartItems[t] EXCEPT !.compat = t \notin ts]]
        BY DEF Start
      <3>2. \A t \in Tasks : item'[t] \in Item
        BY <1>b
      <3> QED
        BY <3>1, <3>2
    <2>2. handler' \in [Tasks -> [Attempts -> HandlerPc]]
      BY <1>a DEF Start, TypeOK, HandlerPc, Stopped
    <2>3. restarts' \in 0 .. MaxRestarts
      BY <1>a, QueueAssumption DEF Start, TypeOK
    <2> QED
      BY <1>a, <2>1, <2>2, <2>3, RecordTypes DEF Start, TypeOK, LoadTypes
  <1>2. SchedulerOwnsRunning' /\ LeftIsInactive'
    BY <1>b DEF SchedulerOwnsRunning, LeftIsInactive, IsActive
  <1>3. AttemptNumbers'
    <2> SUFFICES ASSUME NEW t \in Tasks
                 PROVE  /\ item'[t].cancelled \subseteq 1 .. item'[t].attempts
                        /\ item'[t].active \in {0, item'[t].attempts}
      BY <1>b DEF AttemptNumbers
    <2>1. item[t].cancelled \subseteq 1 .. item[t].attempts /\ item[t].active \in {0, item[t].attempts}
      BY DEF IInv, AttemptNumbers
    <2> QED
      BY <1>b, <2>1
  <1>4. NoEarlyThread'
    <2> SUFFICES ASSUME NEW t \in Tasks, NEW a \in Attempts,
                        \/ item'[t].status # "absent" /\ a > item'[t].attempts
                        \/ submitter'[t] \in {"new", "created"}
                 PROVE  handler[t][a] = "none"
      BY <1>c DEF NoEarlyThread
    <2>1. \/ item[t].status # "absent" /\ a > item[t].attempts
          \/ submitter[t] \in {"new", "created"}
      BY <1>b, <1>c
    <2> QED
      BY <2>1 DEF IInv, NoEarlyThread
  <1>5. NotEnqueued'
    <2> SUFFICES ASSUME NEW t \in Tasks, submitter'[t] \in {"new", "created"}
                 PROVE  item'[t].status = "absent" /\ item'[t].attempts = 0
      BY DEF NotEnqueued
    <2>1. item[t].status = "absent" /\ item[t].attempts = 0
      BY <1>c DEF IInv, NotEnqueued
    <2> QED
      BY <1>b, <2>1
  <1>6. SchedulerHolds' /\ AdminHolds'
    BY DEF Start, SchedulerHolds, Idle, Serving, AdminHolds, NoRequest
  <1> QED
    BY <1>1, <1>2, <1>3, <1>4, <1>5, <1>6 DEF IInv

\* What the load adds to the queue, step by step.
LEMMA LoadInvInit == LoadInit => LoadIInv
  <1> SUFFICES ASSUME LoadInit PROVE LoadIInv
    OBVIOUS
  <1>1. IInv
    BY InvInit DEF LoadInit
  <1>2. boot.pc = "up" /\ recovering = {}
    BY DEF LoadInit, Up
  <1>3. LoadTypes
    BY NewItemFields, QueueAssumption DEF LoadInit, LoadTypes, Up, Boot, LoadPc, NoItems, NoTasks, RegStatus
  <1>4. LoadsOn /\ LosesBeside /\ Resolves
    BY <1>2 DEF LoadsOn, LosesBeside, Resolves, Loading
  <1>5. CleanLoad
    BY <1>2 DEF CleanLoad, OwnedHasItem, Reading, LoadInit, Init
  <1> QED
    BY <1>1, <1>3, <1>4, <1>5 DEF LoadIInv

LEMMA LoadInvStep == LoadIInv /\ [LoadNext]_allVars => LoadIInv'
  <1> SUFFICES ASSUME LoadIInv, [LoadNext]_allVars PROVE LoadIInv'
    OBVIOUS
  <1> USE DEF LoadIInv
  <1>1. IInv'
    <2>1. CASE Work
      BY <2>1, InvStep DEF Work
    <2>2. CASE Loads
      BY <2>2, LoadCases, InvStep
    <2>3. ASSUME NEW ts \in SUBSET Tasks, Start(ts) PROVE IInv'
      BY <2>3, StartKeeps
    <2> QED
      BY LoadCases, <2>1, <2>2, <2>3
  <1>2. LoadTypes'
    BY LoadTypesStep
  <1> QED
    BY <1>1, <1>2, LoadsOnStep, LosesBesideStep, ResolvesStep, CleanLoadStep

\* However often the service stops and the load is interrupted, the invariant of the
\* queue holds, and with it what the load has in memory and in its files.
THEOREM LoadInvCorrect == LoadSpec => []LoadIInv
  <1> QED
    BY LoadInvInit, LoadInvStep, PTL DEF LoadSpec

\* There is one slot also under a load that takes many steps, is interrupted or loses
\* the queue file: no item comes back running with nobody to serve it.
THEOREM LoadSlotCorrect == LoadSpec => []SchedulerOwnsRunning
  <1>1. LoadIInv => SchedulerOwnsRunning
    BY DEF LoadIInv, IInv
  <1> QED
    BY <1>1, LoadInvCorrect, PTL

\* Only the last step of a load counts a restart.
LEMMA RestartsAreStarts ==
  ASSUME LoadIInv, [LoadNext]_allVars, restarts' # restarts
  PROVE  \E ts \in SUBSET Tasks : Start(ts)
  BY LoadCases DEF Work, vars

\* As long as no load is interrupted and the queue file is readable, a load of many
\* steps is the one step that TaskQueue takes for a restart.
THEOREM LoadIsOneStep == LoadSpec => RestartIsOneStep
  <1>1. ASSUME LoadIInv, [LoadNext]_allVars
        PROVE  [loadCrashes = 0 /\ quarantines = 0 => Next]_vars
    <2> SUFFICES ASSUME Clean, ~ UNCHANGED vars PROVE Next
      BY DEF Clean
    <2>1. CASE Work
      BY <2>1 DEF Work
    <2>2. ASSUME NEW ts \in SUBSET Tasks, Start(ts) PROVE Next
      <3>a. /\ boot.pc = "orphans" /\ boot.left = {} /\ restarts < MaxRestarts
            /\ \A t \in Tasks : boot.mem[t] = LoadedItem(item[t]) /\ tasksFile[t] = Told(t)
            /\ tasksFile \in [Tasks -> RegStatus]
        BY <1>1, <2>2 DEF LoadIInv, LoadsOn, Loading, CleanLoad, Reading, Pended, LoadTypes, Start
      <3>1. item' = [t \in Tasks |-> [LoadedItem(item[t]) EXCEPT !.compat = t \notin ts]]
        BY <2>2, <3>a DEF Start, StartItems
      <3>2. registry' = [t \in Tasks |-> Told(t)]
        BY <2>2, <3>a DEF Start
      <3>3. Restart(ts)
        BY <2>2, <3>a, <3>1, <3>2 DEF Start, Restart, Told
      <3> QED
        BY <3>3 DEF Next
    <2> QED
      BY <1>1, <2>1, <2>2, LoadCases
  <1> QED
    BY <1>1, LoadInvCorrect, PTL DEF LoadSpec, RestartIsOneStep

\* What is lost however often the load is interrupted is lost beside an item that the
\* same load abandons: _abandon_item writes only the items abandoned so far.
THEOREM LossesCorrect == LoadSpec => LostBesideAbandoned
  <1>1. ASSUME LoadIInv, [LoadNext]_allVars
        PROVE  [restarts' # restarts /\ quarantines = 0 =>
                  \A t \in Tasks :
                    \/ [item'[t] EXCEPT !.compat = item[t].compat] = LoadedItem(item[t])
                    \/ /\ item'[t].status = "absent"
                       /\ \E u \in Tasks \ {t} :
                            item[u].status = "running" /\ item'[u].status = "abandoned"]_vars
    <2> SUFFICES ASSUME restarts' # restarts, quarantines = 0, NEW t \in Tasks
                 PROVE  \/ [item'[t] EXCEPT !.compat = item[t].compat] = LoadedItem(item[t])
                        \/ /\ item'[t].status = "absent"
                           /\ \E u \in Tasks \ {t} :
                                item[u].status = "running" /\ item'[u].status = "abandoned"
      OBVIOUS
    <2>1. PICK ts \in SUBSET Tasks : Start(ts)
      BY <1>1, RestartsAreStarts
    <2>2. /\ TypeOK /\ boot.mem \in [Tasks -> Item] /\ FromItems(boot.mem) /\ Beside(boot.mem)
          /\ \A u \in Tasks : boot.mem[u].status # "running"
      BY <1>1, <2>1 DEF LoadIInv, IInv, LoadTypes, Boot, LoadsOn, LosesBeside, Loading, Reading, Start
    <2>3. ASSUME NEW u \in Tasks PROVE item'[u] = [boot.mem[u] EXCEPT !.compat = u \notin ts]
      BY <2>1 DEF Start, StartItems
    <2>4. ASSUME NEW u \in Tasks, Came(boot.mem, u) PROVE boot.mem[u] = LoadedItem(item[u]) /\ item[u] \in Item
      BY <2>2, <2>4, CameBack DEF TypeOK
    <2>5. CASE Came(boot.mem, t)
      <3> DEFINE i == item[t]  j == LoadedItem(item[t])
      <3>1. item'[t] = [j EXCEPT !.compat = t \notin ts] /\ j \in Item /\ j.compat = i.compat
        BY <2>3, <2>4, <2>5, LoadedFields
      <3>2. [item'[t] EXCEPT !.compat = i.compat] = j
        <4> HIDE DEF j
        <4> QED
          BY <3>1 DEF Item
      <3> QED
        BY <3>2
    <2>6. CASE ~ Came(boot.mem, t)
      <3>1. boot.mem[t] = NewItem
        BY <2>2, <2>6 DEF FromItems
      <3>2. item'[t].status = "absent"
        BY <2>3, <3>1, NewItemFields DEF Item
      <3>3. PICK u \in Tasks \ {t} : Bare(u) /\ Came(boot.mem, u)
        BY <2>2, <2>6 DEF Beside
      <3>4. boot.mem[u].status = "abandoned"
        BY <2>4, <3>3, LoadedFields DEF Bare
      <3>5. item'[u].status = "abandoned"
        <4>1. boot.mem[u] \in Item /\ item'[u] = [boot.mem[u] EXCEPT !.compat = u \notin ts]
          BY <2>2, <2>3
        <4> QED
          BY <3>4, <4>1 DEF Item
      <3> QED
        BY <3>2, <3>3, <3>5 DEF Bare
    <2> QED
      BY <2>5, <2>6
  <1> QED
    BY <1>1, LoadInvCorrect, PTL DEF LoadSpec, LostBesideAbandoned

\* A task that was shown as running and left no checkpoint is in the queue after the
\* load or shown as failed, however often the load is interrupted.
THEOREM ResolvedCorrect == LoadSpec => ShownRunningIsResolved
  <1>1. ASSUME LoadIInv, [LoadNext]_allVars
        PROVE  [restarts' # restarts =>
                  \A t \in Tasks :
                    owned[t] /\ registry[t] = "running" /\ item[t].ckpt = 0 =>
                      item'[t].status # "absent" \/ registry'[t] = "failed"]_vars
    <2> SUFFICES ASSUME restarts' # restarts, NEW t \in Tasks, Shown(t)
                 PROVE  item'[t].status # "absent" \/ registry'[t] = "failed"
      BY DEF Shown
    <2>1. PICK ts \in SUBSET Tasks : Start(ts)
      BY <1>1, RestartsAreStarts
    <2>2. /\ tasksFile[t] = "failed" \/ (tasksFile[t] = "queued" /\ t \in recovering)
          /\ boot.mem \in [Tasks -> Item]
      BY <1>1, <2>1 DEF LoadIInv, LoadTypes, Boot, Resolves, Loading, Start
    <2>3. item'[t] = [boot.mem[t] EXCEPT !.compat = t \notin ts] /\ registry' = tasksFile /\ Orphans = {}
      BY <2>1 DEF Start, StartItems
    <2>4. item'[t].status = boot.mem[t].status
      BY <2>2, <2>3 DEF Item
    <2> QED
      BY <2>2, <2>3, <2>4 DEF Orphans
  <1> QED
    BY <1>1, LoadInvCorrect, PTL DEF LoadSpec, ShownRunningIsResolved

=============================================================================
