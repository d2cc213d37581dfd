----------------------------- MODULE Schedulers -----------------------------
(***************************************************************************)
(* The periodic schedulers of stock_pipeline/web.py: idle prefetch, random  *)
(* audit, storage health, daily market and Kaipanla.  Each has a thread    *)
(* that decides every half minute whether its kind of task is to be         *)
(* started, lets administrators start one at any time, and runs it as a     *)
(* handler of the task queue.                                              *)
(*                                                                         *)
(* What keeps a kind from running twice is a look at the registry's entry   *)
(* of the last task; the entry is created after the scheduler's lock was    *)
(* released, and is closed by the handler before the scheduler's own record *)
(* of the run is.  The queue is the abstract one of module JobSlot, which   *)
(* module TaskQueue implements, with its watchdog and its restart.         *)
(***************************************************************************)
EXTENDS Naturals, FiniteSets

CONSTANTS
  Kinds,        \* the schedulers
  Dated,        \* those that run once a day: daily market, Kaipanla
  Backfilling,  \* those of them whose date is chosen from the stored rows
  Spaced,       \* those that keep a distance between runs: audit, health
  Guarded,      \* those whose handler asks is_attempt_active before it reports
  Ids,          \* task ids of a kind; one that nothing refers to is used again
  NoId,
  Callers,      \* threads of administrators who press "run now"
  MaxDay,       \* bound: days
  MaxCrashes,   \* bound: crashes of the service
  MaxGiveUps    \* how often the watchdog retries a task

ASSUME SchedulerAssumption ==
  /\ Backfilling \subseteq Dated /\ Dated \subseteq Kinds
  /\ Spaced \subseteq Kinds /\ Dated \cap Spaced = {} /\ Guarded \subseteq Kinds
  /\ NoId \notin Ids /\ "loop" \notin Callers
  /\ MaxDay \in Nat \ {0} /\ MaxCrashes \in Nat /\ MaxGiveUps \in Nat

VARIABLES
  enabled,   \* config["enabled"]
  last,      \* config["last_task_id"]
  lastDate,  \* config["last_run_date"], 0 for none
  resting,   \* next_retry_epoch, last_run_epoch + interval or next_run_epoch is ahead
  starter,   \* the threads in _loop and _start_run
  reg,       \* the registry's status of a run
  date,      \* target_date or trade_date in the payload
  job,       \* the queue's items
  thread,    \* the handler's threads: of the newest attempt, and a late one
  giveUps,   \* forced retries of a run
  today, due,   \* the day, and whether the schedule time is past
  crashes,
  excused    \* history: kinds for which two runs at once are explained

vars == <<enabled, last, lastDate, resting, starter, reg, date, job, thread,
          giveUps, today, due, crashes, excused>>

config == <<enabled, last, lastDate, resting>>
clock  == <<today, due>>

Runs     == Kinds \X Ids
Starters == Callers \cup {"loop"}
Slot     == INSTANCE JobSlot WITH Jobs <- Runs

Active   == {"queued", "running"}
Final    == {"succeeded", "failed"}
\* A thread works, has found its attempt active, has reported, or is gone.
Reported    == {"ok", "bad"}
ThreadState == {"gone", "work", "clear"} \cup Reported
NoThread    == [new |-> "gone", late |-> "gone"]
Idle     == [pc |-> "idle", id |-> NoId]

TypeOK ==
  /\ enabled \in [Kinds -> BOOLEAN]
  /\ last \in [Kinds -> Ids \cup {NoId}]
  /\ lastDate \in [Kinds -> 0 .. MaxDay]
  /\ resting \in [Kinds -> BOOLEAN]
  /\ starter \in [Kinds \X Starters ->
       [pc : {"idle", "decided", "claimed", "created"}, id : Ids \cup {NoId}]]
  /\ reg \in [Runs -> {"none"} \cup Active \cup Final]
  /\ date \in [Runs -> 0 .. MaxDay]
  /\ Slot!TypeOK
  /\ thread \in [Runs -> [new : ThreadState, late : ThreadState]]
  /\ giveUps \in [Runs -> 0 .. MaxGiveUps]
  /\ today \in 1 .. MaxDay /\ due \in BOOLEAN
  /\ crashes \in 0 .. MaxCrashes
  /\ excused \subseteq Kinds

Init ==
  /\ enabled \in [Kinds -> BOOLEAN]
  /\ last = [k \in Kinds |-> NoId]
  /\ lastDate = [k \in Kinds |-> 0]
  /\ resting = [k \in Kinds |-> FALSE]
  /\ starter = [s \in Kinds \X Starters |-> Idle]
  /\ reg = [r \in Runs |-> "none"]
  /\ date = [r \in Runs |-> 0]
  /\ Slot!Init
  /\ thread = [r \in Runs |-> NoThread]
  /\ giveUps = [r \in Runs |-> 0]
  /\ today = 1 /\ due = FALSE
  /\ crashes = 0
  /\ excused = {}

\* Mutant: a queued task does not count.
BusyRunning(k) == last[k] # NoId /\ reg[<<k, last[k]>>] = "running"

\* Mutant: a task the registry does not know counts as active.
BusyUnknown(k) == last[k] # NoId /\ reg[<<k, last[k]>>] \notin Final

\* _task_registry_active of the last task: an unknown id is not active.
Busy(k) == last[k] # NoId /\ reg[<<k, last[k]>>] \in Active

\* The queue still has to deal with the run.
Unsettled(r) == job[r] \in {"waiting", "running"}

\* Some thread holds the id between _start_run's lock and the registry.
Claimed(k, i) == \E p \in Starters :
  starter[<<k, p>>].pc \in {"claimed", "created"} /\ starter[<<k, p>>].id = i

-----------------------------------------------------------------------------
(* Starting *)

Configure(k) ==
  /\ enabled' = [enabled EXCEPT ![k] = ~@]
  /\ UNCHANGED <<last, lastDate, resting, starter, reg, date, job, thread,
                 giveUps, clock, crashes, excused>>

\* Once a day, from the schedule time on.
DueToday(k) == due /\ lastDate[k] # today

\* The interval, the drawn time of the next run, or the retry time is over.
Rested(k) == ~resting[k]

\* The conditions _loop reads under the lock, and those it reads after it.
\* (Whether the site was idle long enough is left open.)
Wants(k) ==
  /\ enabled[k] /\ ~Busy(k) /\ Rested(k)
  /\ k \in Dated => DueToday(k)

Decide(k) ==
  /\ starter[<<k, "loop">>].pc = "idle"
  /\ Wants(k)
  /\ starter' = [starter EXCEPT ![<<k, "loop">>].pc = "decided"]
  /\ UNCHANGED <<config, reg, date, job, thread, giveUps, clock, crashes, excused>>

MayClaim(k, p) == starter[<<k, p>>].pc = IF p = "loop" THEN "decided" ELSE "idle"

\* _start_run finds the last task active after all: the loop records the error,
\* and the health scheduler moves its next run.  (An administrator is told.)
Refused(k) ==
  /\ starter[<<k, "loop">>].pc = "decided"
  /\ Busy(k)
  /\ starter' = [starter EXCEPT ![<<k, "loop">>] = Idle]
  /\ \/ UNCHANGED resting
     \/ k \in Spaced /\ resting' = [resting EXCEPT ![k] = TRUE]
  /\ UNCHANGED <<enabled, last, lastDate, reg, date, job, thread, giveUps,
                 clock, crashes, excused>>

Fresh(k, i) ==
  /\ last[k] # i /\ ~Claimed(k, i)
  /\ reg[<<k, i>>] \notin Active /\ ~Unsettled(<<k, i>>)
  /\ thread[<<k, i>>] = NoThread

\* The critical section of _start_run, with the id and the day it picks.
ClaimAs(k, p, i, d) ==
  /\ MayClaim(k, p)
  /\ ~Busy(k)
  /\ Fresh(k, i)
  /\ d <= today /\ (k \notin Backfilling => d = today)
  /\ starter' = [starter EXCEPT ![<<k, p>>] = [pc |-> "claimed", id |-> i]]
  /\ last' = [last EXCEPT ![k] = i]
  /\ resting' = [resting EXCEPT ![k] = @ /\ k \notin Dated]
  /\ date' = [date EXCEPT ![<<k, i>>] = d]
  /\ reg' = [reg EXCEPT ![<<k, i>>] = "none"]
  /\ giveUps' = [giveUps EXCEPT ![<<k, i>>] = 0]
  /\ excused' = IF \E q \in Starters : starter[<<k, q>>].pc = "claimed"
                THEN excused \cup {k} ELSE excused
  /\ UNCHANGED <<enabled, lastDate, job, thread, clock, crashes>>

Claim(k, p) == \E i \in Ids, d \in 1 .. MaxDay : ClaimAs(k, p, i, d)

Create(k, p) ==
  /\ starter[<<k, p>>].pc = "claimed"
  /\ starter' = [starter EXCEPT ![<<k, p>>].pc = "created"]
  /\ reg' = [reg EXCEPT ![<<k, starter[<<k, p>>].id>>] = "queued"]
  /\ UNCHANGED <<config, date, job, thread, giveUps, clock, crashes, excused>>

\* A recycled id is to the queue a job submitted anew.
Enqueue(k, p) ==
  /\ starter[<<k, p>>].pc = "created"
  /\ LET r == <<k, starter[<<k, p>>].id>> IN Slot!Submit(r) \/ Slot!Resubmit(r)
  /\ starter' = [starter EXCEPT ![<<k, p>>] = Idle]
  /\ UNCHANGED <<config, reg, date, thread, giveUps, clock, crashes, excused>>

-----------------------------------------------------------------------------
(* The queue, as JobSlot promises, with what it tells the registry *)

Tell(r, s) == reg' = [reg EXCEPT ![r] = s]

Begin(r) ==
  /\ Slot!Start(r)
  /\ Tell(r, "running")
  /\ thread' = [thread EXCEPT ![r].new = "work"]
  /\ UNCHANGED <<config, starter, date, giveUps, clock, crashes, excused>>

\* QueueTaskDeferred: the handler steps back at a checkpoint.
Yield(r) ==
  /\ thread[r].new = "work"
  /\ Slot!Requeue(r)
  /\ Tell(r, "queued")
  /\ thread' = [thread EXCEPT ![r].new = "gone"]
  /\ UNCHANGED <<config, starter, date, giveUps, clock, crashes, excused>>

\* The watchdog: the thread stays, its task is retried or fails for good.
GiveUp(r) ==
  /\ thread[r].new # "gone" /\ thread[r].late = "gone"
  /\ thread' = [thread EXCEPT ![r] = [new |-> "gone", late |-> @.new]]
  /\ \/ /\ giveUps[r] < MaxGiveUps
        /\ Slot!Requeue(r) /\ Tell(r, "queued")
        /\ giveUps' = [giveUps EXCEPT ![r] = @ + 1]
     \/ /\ giveUps[r] = MaxGiveUps
        /\ Slot!End(r) /\ Tell(r, "failed")
        /\ giveUps' = giveUps
  /\ excused' = excused \cup {r[1]}
  /\ UNCHANGED <<config, starter, date, clock, crashes>>

\* The handler returned; the queue takes the outcome from the registry.
Commit(r) ==
  /\ thread[r].new = "gone"
  /\ \/ reg[r] # "failed" /\ Slot!Succeed(r) /\ Tell(r, "succeeded")
     \/ reg[r] = "failed" /\ job[r] = "running" /\ Slot!End(r) /\ reg' = reg
  /\ UNCHANGED <<config, starter, date, thread, giveUps, clock, crashes, excused>>

-----------------------------------------------------------------------------
(* The handlers: _run_task *)

Threads == {"new", "late"}

\* is_attempt_active, before anything is reported.
Check(r, x) ==
  /\ r[1] \in Guarded
  /\ thread[r][x] = "work"
  /\ thread' = [thread EXCEPT ![r][x] = IF x = "new" THEN "clear" ELSE "gone"]
  /\ UNCHANGED <<config, starter, reg, date, job, giveUps, clock, crashes, excused>>

\* update_task with the final status.
Finish(r, x, outcome) ==
  /\ thread[r][x] = IF r[1] \in Guarded THEN "clear" ELSE "work"
  /\ Tell(r, IF outcome = "ok" THEN "succeeded" ELSE "failed")
  /\ thread' = [thread EXCEPT ![r][x] = outcome]
  /\ UNCHANGED <<config, starter, date, job, giveUps, clock, crashes, excused>>

\* Mutant: the day that comes next is written down.
DatesNext(r, ok) ==
  /\ lastDate' = IF ok THEN [lastDate EXCEPT ![r[1]] = date[r] + 1] ELSE lastDate
  /\ resting' = [resting EXCEPT ![r[1]] = ~ok]

\* The scheduler's own record.  A day is done, or is retried after a while;
Dates(r, ok) ==
  /\ lastDate' = IF ok THEN [lastDate EXCEPT ![r[1]] = date[r]] ELSE lastDate
  /\ resting' = [resting EXCEPT ![r[1]] = ~ok]

\* an audit or health check rests whatever came out; a prefetch does not rest.
Spaces(r) ==
  /\ resting' = [resting EXCEPT ![r[1]] = @ \/ r[1] \in Spaced]
  /\ lastDate' = lastDate

Remember(r, x) ==
  /\ thread[r][x] \in Reported
  /\ IF r[1] \in Dated THEN Dates(r, thread[r][x] = "ok") ELSE Spaces(r)
  /\ thread' = [thread EXCEPT ![r][x] = "gone"]
  /\ UNCHANGED <<enabled, last, starter, reg, date, job, giveUps, clock, crashes, excused>>

-----------------------------------------------------------------------------
(* Time and crashes *)

DelayElapses(k) ==
  /\ resting[k]
  /\ resting' = [resting EXCEPT ![k] = FALSE]
  /\ UNCHANGED <<enabled, last, lastDate, starter, reg, date, job, thread, giveUps,
                 clock, crashes, excused>>

TimeReached ==
  /\ ~due /\ due' = TRUE
  /\ UNCHANGED <<config, starter, reg, date, job, thread, giveUps, today, crashes, excused>>

NextDay ==
  /\ today < MaxDay
  /\ today' = today + 1 /\ due' = FALSE
  /\ UNCHANGED <<config, starter, reg, date, job, thread, giveUps, crashes, excused>>

\* Mutant: a task the queue never got keeps its status across a restart.
InterruptedKept(r, resumed) ==
  IF job[r] = "running" THEN IF r \in resumed THEN "queued" ELSE "failed" ELSE reg[r]

\* The registry's entry after a restart (module QueueRecovery has it in steps).
Interrupted(r, resumed) ==
  IF job[r] = "running" THEN IF r \in resumed THEN "queued" ELSE "failed"
  ELSE IF reg[r] \in Active /\ job[r] # "waiting" THEN "failed" ELSE reg[r]

\* The settings file is written in every critical section, so the settings
\* survive; of the running tasks, those with a checkpoint are queued again.
Crash == \E resumed \in SUBSET {r \in Runs : job[r] = "running"} :
  /\ crashes < MaxCrashes
  /\ crashes' = crashes + 1
  /\ starter' = [s \in Kinds \X Starters |-> Idle]
  /\ thread' = [r \in Runs |-> NoThread]
  /\ reg' = [r \in Runs |-> Interrupted(r, resumed)]
  /\ job' = [r \in Runs |-> IF job[r] # "running" THEN job[r]
                            ELSE IF r \in resumed THEN "waiting" ELSE "ended"]
  /\ excused' = excused \cup {r[1] : r \in {q \in resumed : reg[q] \in Final}}
  /\ UNCHANGED <<config, date, giveUps, clock>>

LoopStep(k)  == Decide(k) \/ Refused(k) \/ Claim(k, "loop")
StartStep(k) == \E p \in Starters : Create(k, p) \/ Enqueue(k, p)
HandlerStep(r) == \E x \in Threads :
  Check(r, x) \/ Remember(r, x) \/ \E o \in Reported : Finish(r, x, o)
QueueStep(r) == Begin(r) \/ Yield(r) \/ GiveUp(r) \/ Commit(r)

Next ==
  \/ \E k \in Kinds : Configure(k) \/ LoopStep(k) \/ StartStep(k) \/ DelayElapses(k)
  \/ \E k \in Kinds, p \in Callers : Claim(k, p)
  \/ \E r \in Runs : HandlerStep(r) \/ QueueStep(r)
  \/ TimeReached \/ NextDay \/ Crash

Spec == Init /\ [][Next]_vars

\* Threads run, the slot is given away, time passes, and of the runs that are
\* tried again and again one succeeds.
FairSpec ==
  /\ Spec
  /\ WF_vars(TimeReached)
  /\ \A k \in Kinds :
       SF_vars(LoopStep(k)) /\ WF_vars(StartStep(k)) /\ WF_vars(DelayElapses(k))
  /\ SF_vars(\E r \in Runs : Begin(r)) /\ WF_vars(\E r \in Runs : Commit(r))
  /\ SF_vars(\E r \in Runs : HandlerStep(r))
  /\ SF_vars(\E r \in Runs : Check(r, "new"))
  /\ SF_vars(\E r \in Runs, x \in Threads : Finish(r, x, "ok"))

-----------------------------------------------------------------------------

\* A kind waits for its last task only while somebody is going to settle it:
\* an entry that stayed active without a queue item or a starting thread would
\* stop the kind, manual starts included, for ever.
ActiveIsCarried ==
  \A r \in Runs : reg[r] \in Active => Unsettled(r) \/ Claimed(r[1], r[2])

\* Two runs of a kind are never both at work, unless a start met another one
\* between its lock and the registry, the watchdog gave up a thread, or a
\* restart queued a run again that had already reported.
OneAtWork ==
  \A k \in Kinds \ excused : \A i, j \in Ids :
    Unsettled(<<k, i>>) /\ Unsettled(<<k, j>>) /\ i # j =>
      reg[<<k, i>>] \in Final \/ reg[<<k, j>>] \in Final

\* The day a kind counts as done never goes back, on the same conditions, for a
\* kind that always runs for the current day.
DoneDayAdvances ==
  [][\A k \in Kinds \ (Backfilling \cup excused') : lastDate'[k] >= lastDate[k]]_vars

\* A kind that is due today and stays enabled is done today (or the day ends),
\* whatever was interrupted, given up, refused or failed on the way.
DayIsCaughtUp ==
  \A k \in Dated \ Backfilling : \A d \in 1 .. MaxDay :
    enabled[k] /\ due /\ today = d ~> lastDate[k] = d \/ today # d \/ ~enabled[k]

=============================================================================
