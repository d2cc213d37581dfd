-------------------------- MODULE SchedulersProofs --------------------------
(***************************************************************************)
(* Theorems about the periodic schedulers, for any kinds, ids and callers  *)
(* and any bounds.                                                         *)
(*                                                                         *)
(* That one run of a kind is at work at a time is not inductive: Busy only *)
(* reads the registry's entry of the last run.  IInv adds what a thread    *)
(* between the lock and the queue may rely on (HeldIsNew, HeldByOne), that *)
(* without an excuse the entry follows the job and its one thread          *)
(* (EntryFollows), and from these that whatever is about to run is the     *)
(* last run (LiveIsLast).  The order of days needs all of it.              *)
(***************************************************************************)
EXTENDS Schedulers, TLAPS

\* Between the scheduler's lock and the queue, a thread in _start_run holds a run
\* that is not at work yet, and that no other thread holds.
Holds(k, p)   == starter[<<k, p>>].pc \in {"claimed", "created"}
HeldRun(k, p) == <<k, starter[<<k, p>>].id>>

HeldIsNew ==
  \A k \in Kinds, p \in Starters : Holds(k, p) =>
    /\ HeldRun(k, p) \in Runs
    /\ ~Unsettled(HeldRun(k, p)) /\ thread[HeldRun(k, p)] = NoThread
    /\ reg[HeldRun(k, p)] = IF starter[<<k, p>>].pc = "claimed" THEN "none" ELSE "queued"

HeldByOne ==
  \A k \in Kinds : \A p, q \in Starters :
    Holds(k, p) /\ Holds(k, q) /\ HeldRun(k, p) = HeldRun(k, q) => p = q

\* A new thread has the slot.
ThreadHasSlot == \A r \in Runs : thread[r].new # "gone" => job[r] = "running"

\* The registry knows what the queue has.
QueuedIsKnown == \A r \in Runs : Unsettled(r) => reg[r] # "none"

\* Without an excuse the registry's entry of a run follows the queue and the
\* handler's only thread.
EntryFollows ==
  \A r \in Runs : r[1] \notin excused =>
    /\ thread[r].late = "gone"
    /\ job[r] = "waiting" => reg[r] = "queued"
    /\ thread[r].new \in {"work", "clear"} => reg[r] = "running"

\* A run that somebody is about to start, or that has not reported yet.
Live(k, i) == Claimed(k, i) \/ (Unsettled(<<k, i>>) /\ reg[<<k, i>>] \notin Final)

LiveIsLast == \A k \in Kinds \ excused, i \in Ids : Live(k, i) => i = last[k]

\* The step is the claim of run i.
ClaimsNow(k, i) == \E p \in Starters, d \in 1 .. MaxDay : ClaimAs(k, p, i, d)

\* What is live after a step was the live last run before, or is claimed by it.
LiveKept ==
  \A k \in Kinds \ excused', i \in Ids : Live(k, i)' =>
    \/ ClaimsNow(k, i)
    \/ k \notin excused /\ Live(k, i) /\ last'[k] = last[k]

\* Nothing is dated ahead of the day.
DatesPast ==
  /\ \A r \in Runs : date[r] <= today
  /\ \A k \in Kinds : lastDate[k] <= today

\* What is still to be written down is not older than what was: the live run
\* and the run of a new thread, than the day that is done; the live run, than
\* the run of a new thread.
DaysInOrder ==
  \A k \in Kinds \ (Backfilling \cup excused) : \A i, j \in Ids :
    /\ Live(k, i) \/ thread[<<k, i>>].new # "gone" => date[<<k, i>>] >= lastDate[k]
    /\ Live(k, i) /\ thread[<<k, j>>].new # "gone" => date[<<k, i>>] >= date[<<k, j>>]

IInv ==
  /\ TypeOK /\ ActiveIsCarried /\ Slot!OneRunning
  /\ HeldIsNew /\ HeldByOne /\ ThreadHasSlot /\ QueuedIsKnown /\ EntryFollows
  /\ LiveIsLast /\ DatesPast /\ DaysInOrder

-----------------------------------------------------------------------------

\* The steps of the system, one disjunct per action.
LEMMA NextCases ==
  ASSUME [Next]_vars
  PROVE  \/ \E k \in Kinds : Configure(k) \/ Decide(k) \/ Refused(k) \/ DelayElapses(k)
         \/ \E k \in Kinds, p \in Starters : Claim(k, p) \/ Create(k, p) \/ Enqueue(k, p)
         \/ \E r \in Runs : Begin(r) \/ Yield(r) \/ GiveUp(r) \/ Commit(r)
         \/ \E r \in Runs, x \in Threads :
              Check(r, x) \/ Remember(r, x) \/ \E o \in Reported : Finish(r, x, o)
         \/ TimeReached \/ NextDay \/ Crash \/ UNCHANGED vars
BY DEF Next, LoopStep, StartStep, HandlerStep, QueueStep, Starters

\* Every step keeps every field in its range; the day of a new run is one that
\* the bound allows, and a report only copies a day that some run has.
LEMMA TypeStep ==
  ASSUME TypeOK, [Next]_vars
  PROVE  TypeOK'
<1> USE SchedulerAssumption DEF SchedulerAssumption
<1>Configure. ASSUME NEW k \in Kinds, Configure(k)
      PROVE  TypeOK'
  BY <1>Configure DEF Configure, TypeOK, config, clock, Slot!TypeOK
<1>Decide. ASSUME NEW k \in Kinds, Decide(k)
      PROVE  TypeOK'
  BY <1>Decide DEF Decide, TypeOK, config, clock, Slot!TypeOK, Starters
<1>Refused. ASSUME NEW k \in Kinds, Refused(k)
      PROVE  TypeOK'
  BY <1>Refused DEF Refused, TypeOK, config, clock, Slot!TypeOK, Starters, Idle
<1>Claim. ASSUME NEW k \in Kinds, NEW p \in Starters, Claim(k, p)
      PROVE  TypeOK'
  <2>0. PICK i \in Ids, d \in 1 .. MaxDay : ClaimAs(k, p, i, d)
    BY <1>Claim DEF Claim, ClaimAs
  <2>1. <<k, i>> \in Runs  BY DEF Runs
  <2>2. last' \in [Kinds -> Ids \cup {NoId}]  BY <2>0 DEF ClaimAs, TypeOK
  <2>3. resting' \in [Kinds -> BOOLEAN]  BY <2>0 DEF ClaimAs, TypeOK
  <2>a. d \in 0 .. MaxDay /\ 0 \in 0 .. MaxGiveUps  BY <2>0
  <2>4. date' \in [Runs -> 0 .. MaxDay]  BY <2>0, <2>a DEF ClaimAs, TypeOK
  <2>5. reg' \in [Runs -> {"none"} \cup Active \cup Final]  BY <2>0 DEF ClaimAs, TypeOK
  <2>6. giveUps' \in [Runs -> 0 .. MaxGiveUps]  BY <2>0, <2>a DEF ClaimAs, TypeOK
  <2>7. excused' \subseteq Kinds  BY <2>0 DEF ClaimAs, TypeOK
  <2>8. starter' \in [Kinds \X Starters -> 
          [pc : {"idle", "decided", "claimed", "created"}, id : Ids \cup {NoId}]]
    BY <2>0 DEF ClaimAs, TypeOK
  <2>q. QED
    BY <2>0, <2>2, <2>3, <2>4, <2>5, <2>6, <2>7, <2>8
    DEF ClaimAs, TypeOK, clock, Slot!TypeOK
<1>Create. ASSUME NEW k \in Kinds, NEW p \in Starters, Create(k, p)
      PROVE  TypeOK'
  BY <1>Create, ZenonT(40) DEF Create, TypeOK, config, clock, Slot!TypeOK, Runs, Active
<1>Enqueue. ASSUME NEW k \in Kinds, NEW p \in Starters, Enqueue(k, p)
      PROVE  TypeOK'
  BY <1>Enqueue
  DEF Enqueue, TypeOK, config, clock, Slot!TypeOK, Idle, Slot!Submit, Slot!Resubmit,
      Slot!Move, Slot!State, Runs
<1>DelayElapses. ASSUME NEW k \in Kinds, DelayElapses(k)
      PROVE  TypeOK'
  BY <1>DelayElapses DEF DelayElapses, TypeOK, config, clock, Slot!TypeOK
<1>Begin. ASSUME NEW r \in Runs, Begin(r)
      PROVE  TypeOK'
  BY <1>Begin
  DEF Begin, TypeOK, config, clock, Slot!TypeOK, Tell, Slot!Start, Slot!Move,
      Slot!State, Active, ThreadState
<1>Yield. ASSUME NEW r \in Runs, Yield(r)
      PROVE  TypeOK'
  BY <1>Yield
  DEF Yield, TypeOK, config, clock, Slot!TypeOK, Tell, Slot!Requeue, Slot!Move,
      Slot!State, Active, ThreadState
<1>GiveUp. ASSUME NEW r \in Runs, GiveUp(r)
      PROVE  TypeOK'
  <2>1. thread' \in [Runs -> [new : ThreadState, late : ThreadState]]
    BY <1>GiveUp DEF GiveUp, TypeOK, ThreadState
  <2>2. giveUps' \in [Runs -> 0 .. MaxGiveUps]  BY <1>GiveUp DEF GiveUp, TypeOK
  <2>3. reg' \in [Runs -> {"none"} \cup Active \cup Final]
    BY <1>GiveUp DEF GiveUp, Tell, TypeOK, Active, Final
  <2>4. Slot!TypeOK'
    BY <1>GiveUp
    DEF GiveUp, TypeOK, Slot!TypeOK, Slot!State, Slot!Requeue, Slot!End, Slot!Move
  <2>5. excused' \subseteq Kinds  BY <1>GiveUp DEF GiveUp, TypeOK, Runs
  <2>q. QED  BY <1>GiveUp, <2>1, <2>2, <2>3, <2>4, <2>5 DEF GiveUp, TypeOK, config, clock
<1>Commit. ASSUME NEW r \in Runs, Commit(r)
      PROVE  TypeOK'
  BY <1>Commit
  DEF Commit, TypeOK, config, clock, Slot!TypeOK, Tell, Slot!Succeed, Slot!End,
      Slot!Move, Slot!State, Final
<1>Check. ASSUME NEW r \in Runs, NEW x \in Threads, Check(r, x)
      PROVE  TypeOK'
  BY <1>Check DEF Check, TypeOK, config, clock, Slot!TypeOK, Threads, ThreadState
<1>Finish. ASSUME NEW r \in Runs, NEW x \in Threads, NEW o \in Reported, Finish(r, x, o)
      PROVE  TypeOK'
  BY <1>Finish
  DEF Finish, TypeOK, config, clock, Slot!TypeOK, Tell, Reported, Final, Threads,
      ThreadState
<1>Remember. ASSUME NEW r \in Runs, NEW x \in Threads, Remember(r, x)
      PROVE  TypeOK'
  <2>1. thread' \in [Runs -> [new : ThreadState, late : ThreadState]]
    BY <1>Remember DEF Remember, TypeOK, ThreadState, Threads
  <2>a. date[r] \in 0 .. MaxDay  BY <1>Remember DEF TypeOK
  <2>2. lastDate' \in [Kinds -> 0 .. MaxDay]
    BY <1>Remember, <2>a DEF Remember, Dates, Spaces, TypeOK, Runs
  <2>3. resting' \in [Kinds -> BOOLEAN]
    BY <1>Remember DEF Remember, Dates, Spaces, TypeOK, Runs
  <2>q. QED  BY <1>Remember, <2>1, <2>2, <2>3 DEF Remember, TypeOK, clock, Slot!TypeOK
<1>TimeReached. ASSUME TimeReached
      PROVE  TypeOK'
  BY <1>TimeReached DEF TimeReached, TypeOK, config, clock, Slot!TypeOK
<1>NextDay. ASSUME NextDay
      PROVE  TypeOK'
  <2>1. today' \in 1 .. MaxDay  BY <1>NextDay DEF NextDay, TypeOK
  <2>q. QED  BY <1>NextDay, <2>1 DEF NextDay, TypeOK, config, Slot!TypeOK
<1>Crash. ASSUME Crash
      PROVE  TypeOK'
  BY <1>Crash
  DEF Crash, TypeOK, config, clock, Slot!TypeOK, Interrupted, Active, Final, Slot!State,
      Idle, NoThread, ThreadState, Runs
<1>UNCHANGED. ASSUME UNCHANGED vars
      PROVE  TypeOK'
  BY <1>UNCHANGED DEF vars, TypeOK, config, clock, Slot!TypeOK
<1>q. QED
  BY NextCases, <1>Configure, <1>Decide, <1>Refused, <1>Claim, <1>Create, <1>Enqueue,
     <1>DelayElapses, <1>Begin, <1>Yield, <1>GiveUp, <1>Commit, <1>Check, <1>Finish,
     <1>Remember, <1>TimeReached, <1>NextDay, <1>Crash, <1>UNCHANGED

\* An entry of the registry becomes active only in Create, whose thread goes on
\* to the queue, or with the queue's own item; and who takes the item away
\* closes the entry, or takes an id that nothing refers to (Fresh).
LEMMA ActiveStep ==
  ASSUME TypeOK, ActiveIsCarried, [Next]_vars
  PROVE  ActiveIsCarried'
<1>u. ASSUME UNCHANGED <<reg, job, starter>>
      PROVE  ActiveIsCarried'
  BY <1>u DEF ActiveIsCarried, Active, Unsettled, Claimed, TypeOK, Runs, Slot!TypeOK
<1>Decide. ASSUME NEW k \in Kinds, Decide(k)
      PROVE  ActiveIsCarried'
  BY <1>Decide
  DEF Decide, ActiveIsCarried, Active, Unsettled, Claimed, TypeOK, Runs, Slot!TypeOK
<1>Refused. ASSUME NEW k \in Kinds, Refused(k)
      PROVE  ActiveIsCarried'
  BY <1>Refused
  DEF Refused, ActiveIsCarried, Active, Unsettled, Claimed, TypeOK, Runs, Slot!TypeOK,
      Idle
<1>Claim. ASSUME NEW k \in Kinds, NEW p \in Starters, Claim(k, p)
      PROVE  ActiveIsCarried'
  <2> SUFFICES ASSUME NEW r \in Runs, reg'[r] \in Active
              PROVE  Unsettled(r)' \/ Claimed(r[1], r[2])'
    BY DEF ActiveIsCarried
  <2>0. r = <<r[1], r[2]>> /\ r[1] \in Kinds /\ r[2] \in Ids  BY DEF Runs
  <2>1. PICK i \in Ids, d \in 1 .. MaxDay : ClaimAs(k, p, i, d)  BY <1>Claim DEF Claim
  <2>2. r # <<k, i>> /\ reg'[r] = reg[r]  BY <2>1 DEF ClaimAs, TypeOK, Active
  <2>3. CASE Unsettled(r)  BY <2>1, <2>3 DEF ClaimAs, Unsettled
  <2>4. CASE Claimed(r[1], r[2])
    <3>1. PICK q \in Starters : /\ starter[<<r[1], q>>].pc \in {"claimed", "created"}
                               /\ starter[<<r[1], q>>].id = r[2]
      BY <2>4 DEF Claimed
    <3>2. <<r[1], q>> # <<k, p>>  BY <2>1, <3>1 DEF ClaimAs, MayClaim
    <3>3. starter'[<<r[1], q>>] = starter[<<r[1], q>>]
      BY <2>0, <2>1, <3>2 DEF ClaimAs, TypeOK
    <3>q. QED  BY <3>1, <3>3 DEF Claimed
  <2>q. QED  BY <2>2, <2>3, <2>4 DEF ActiveIsCarried
<1>Create. ASSUME NEW k \in Kinds, NEW p \in Starters, Create(k, p)
      PROVE  ActiveIsCarried'
  <2> SUFFICES ASSUME NEW r \in Runs, reg'[r] \in Active
              PROVE  Unsettled(r)' \/ Claimed(r[1], r[2])'
    BY DEF ActiveIsCarried
  <2>0. r = <<r[1], r[2]>> /\ r[1] \in Kinds /\ r[2] \in Ids  BY DEF Runs
  <2>1. starter'[<<k, p>>].pc = "created" /\ starter'[<<k, p>>].id = starter[<<k, p>>].id
    BY <1>Create DEF Create, TypeOK
  <2>2. CASE r = <<k, starter[<<k, p>>].id>>  BY <2>1, <2>2 DEF Claimed
  <2>3. CASE r # <<k, starter[<<k, p>>].id>>
    <3>1. reg[r] \in Active  BY <1>Create, <2>3 DEF Create, TypeOK
    <3>2. CASE Unsettled(r)  BY <1>Create, <3>2 DEF Create, Unsettled
    <3>3. CASE Claimed(r[1], r[2])
      <4>1. PICK q \in Starters : /\ starter[<<r[1], q>>].pc \in {"claimed", "created"}
                                 /\ starter[<<r[1], q>>].id = r[2]
        BY <3>3 DEF Claimed
      <4>2. <<r[1], q>> # <<k, p>>  BY <2>0, <2>3, <4>1
      <4>3. starter'[<<r[1], q>>] = starter[<<r[1], q>>]
        BY <1>Create, <2>0, <4>2 DEF Create, TypeOK
      <4>q. QED  BY <4>1, <4>3 DEF Claimed
    <3>q. QED  BY <3>1, <3>2, <3>3 DEF ActiveIsCarried
  <2>q. QED  BY <2>2, <2>3
<1>Enqueue. ASSUME NEW k \in Kinds, NEW p \in Starters, Enqueue(k, p)
      PROVE  ActiveIsCarried'
  <2> SUFFICES ASSUME NEW r \in Runs, reg'[r] \in Active
              PROVE  Unsettled(r)' \/ Claimed(r[1], r[2])'
    BY DEF ActiveIsCarried
  <2>0. r = <<r[1], r[2]>> /\ r[1] \in Kinds /\ r[2] \in Ids  BY DEF Runs
  <2> DEFINE s == <<k, starter[<<k, p>>].id>>
  <2>1. job[s] \in {"new", "succeeded", "ended"} /\ job' = [job EXCEPT ![s] = "waiting"]
    BY <1>Enqueue DEF Enqueue, Slot!Submit, Slot!Resubmit, Slot!Move
  <2>2. CASE r = s  BY <2>1, <2>2 DEF Unsettled, TypeOK, Slot!TypeOK
  <2>3. CASE r # s
    <3>1. reg[r] \in Active /\ job'[r] = job[r]
      BY <1>Enqueue, <2>1, <2>3 DEF Enqueue, TypeOK, Slot!TypeOK
    <3>2. CASE Unsettled(r)  BY <3>1, <3>2 DEF Unsettled
    <3>3. CASE Claimed(r[1], r[2])
      <4>1. PICK q \in Starters : /\ starter[<<r[1], q>>].pc \in {"claimed", "created"}
                                 /\ starter[<<r[1], q>>].id = r[2]
        BY <3>3 DEF Claimed
      <4>2. <<r[1], q>> # <<k, p>>  BY <2>0, <2>3, <4>1
      <4>3. starter'[<<r[1], q>>] = starter[<<r[1], q>>]
        BY <1>Enqueue, <2>0, <4>2 DEF Enqueue, TypeOK
      <4>q. QED  BY <4>1, <4>3 DEF Claimed
    <3>q. QED  BY <3>1, <3>2, <3>3 DEF ActiveIsCarried
  <2>q. QED  BY <2>2, <2>3
<1>Begin. ASSUME NEW r \in Runs, Begin(r)
      PROVE  ActiveIsCarried'
  BY <1>Begin
  DEF Begin, ActiveIsCarried, Active, Unsettled, Claimed, TypeOK, Runs, Slot!TypeOK,
      Tell, Slot!Start, Slot!Move
<1>Yield. ASSUME NEW r \in Runs, Yield(r)
      PROVE  ActiveIsCarried'
  BY <1>Yield
  DEF Yield, ActiveIsCarried, Active, Unsettled, Claimed, TypeOK, Runs, Slot!TypeOK,
      Tell, Slot!Requeue, Slot!Move
<1>GiveUp. ASSUME NEW r \in Runs, GiveUp(r)
      PROVE  ActiveIsCarried'
  BY <1>GiveUp, ZenonT(40)
  DEF GiveUp, ActiveIsCarried, Active, Unsettled, Claimed, TypeOK, Runs, Slot!TypeOK,
      Tell, Slot!Requeue, Slot!End, Slot!Move
<1>Commit. ASSUME NEW r \in Runs, Commit(r)
      PROVE  ActiveIsCarried'
  BY <1>Commit, ZenonT(40)
  DEF Commit, ActiveIsCarried, Active, Unsettled, Claimed, TypeOK, Runs, Slot!TypeOK,
      Tell, Slot!Succeed, Slot!End, Slot!Move
<1>Finish. ASSUME NEW r \in Runs, NEW x \in Threads, NEW o \in Reported, Finish(r, x, o)
      PROVE  ActiveIsCarried'
  BY <1>Finish
  DEF Finish, ActiveIsCarried, Active, Unsettled, Claimed, TypeOK, Runs, Slot!TypeOK,
      Tell
<1>Crash. ASSUME Crash
      PROVE  ActiveIsCarried'
  BY <1>Crash
  DEF Crash, ActiveIsCarried, Active, Unsettled, Claimed, TypeOK, Runs, Slot!TypeOK,
      Interrupted, Idle
<1>1. ASSUME NEW k \in Kinds, Configure(k) \/ DelayElapses(k)
      PROVE  ActiveIsCarried'
  BY <1>1, <1>u DEF Configure, DelayElapses
<1>2. ASSUME NEW r \in Runs, NEW x \in Threads, Check(r, x) \/ Remember(r, x)
      PROVE  ActiveIsCarried'
  BY <1>2, <1>u DEF Check, Remember, Dates, Spaces
<1>3. ASSUME TimeReached \/ NextDay \/ UNCHANGED vars
      PROVE  ActiveIsCarried'
  BY <1>3, <1>u DEF TimeReached, NextDay, vars
<1>q. QED
  BY NextCases, <1>u, <1>Decide, <1>Refused, <1>Claim, <1>Create, <1>Enqueue, <1>Begin,
     <1>Yield, <1>GiveUp, <1>Commit, <1>Finish, <1>Crash, <1>1, <1>2, <1>3

\* What the schedulers do to the queue are steps of the abstract slot, which has
\* one job running at most.
LEMMA SlotStep ==
  ASSUME TypeOK, Slot!OneRunning, [Next]_vars
  PROVE  Slot!OneRunning'
<1>u. ASSUME UNCHANGED <<job>>
      PROVE  Slot!OneRunning'
  BY <1>u DEF Slot!OneRunning, TypeOK, Slot!TypeOK
<1>Enqueue. ASSUME NEW k \in Kinds, NEW p \in Starters, Enqueue(k, p)
      PROVE  Slot!OneRunning'
  BY <1>Enqueue
  DEF Enqueue, Slot!OneRunning, TypeOK, Slot!TypeOK, Slot!Submit, Slot!Resubmit,
      Slot!Move
<1>Begin. ASSUME NEW r \in Runs, Begin(r)
      PROVE  Slot!OneRunning'
  BY <1>Begin DEF Begin, Slot!OneRunning, TypeOK, Slot!TypeOK, Slot!Start, Slot!Move
<1>Yield. ASSUME NEW r \in Runs, Yield(r)
      PROVE  Slot!OneRunning'
  BY <1>Yield DEF Yield, Slot!OneRunning, TypeOK, Slot!TypeOK, Slot!Requeue, Slot!Move
<1>GiveUp. ASSUME NEW r \in Runs, GiveUp(r)
      PROVE  Slot!OneRunning'
  BY <1>GiveUp
  DEF GiveUp, Slot!OneRunning, TypeOK, Slot!TypeOK, Slot!Requeue, Slot!End, Slot!Move
<1>Commit. ASSUME NEW r \in Runs, Commit(r)
      PROVE  Slot!OneRunning'
  BY <1>Commit
  DEF Commit, Slot!OneRunning, TypeOK, Slot!TypeOK, Slot!Succeed, Slot!End, Slot!Move
<1>Crash. ASSUME Crash
      PROVE  Slot!OneRunning'
  BY <1>Crash DEF Crash, Slot!OneRunning, TypeOK, Slot!TypeOK
<1>1. ASSUME NEW k \in Kinds, Configure(k) \/ Decide(k) \/ Refused(k) \/ DelayElapses(k)
      PROVE  Slot!OneRunning'
  BY <1>1, <1>u DEF Configure, Decide, Refused, DelayElapses
<1>2. ASSUME NEW k \in Kinds, NEW p \in Starters, Claim(k, p) \/ Create(k, p)
      PROVE  Slot!OneRunning'
  BY <1>2, <1>u DEF Claim, Create, ClaimAs
<1>3. ASSUME NEW r \in Runs, NEW x \in Threads, Check(r, x) \/ Remember(r, x)
      PROVE  Slot!OneRunning'
  BY <1>3, <1>u DEF Check, Remember, Dates, Spaces
<1>4. ASSUME NEW r \in Runs, NEW x \in Threads, NEW o \in Reported, Finish(r, x, o)
      PROVE  Slot!OneRunning'
  BY <1>4, <1>u DEF Finish
<1>5. ASSUME TimeReached \/ NextDay \/ UNCHANGED vars
      PROVE  Slot!OneRunning'
  BY <1>5, <1>u DEF TimeReached, NextDay, vars
<1>q. QED
  BY NextCases, <1>u, <1>Enqueue, <1>Begin, <1>Yield, <1>GiveUp, <1>Commit, <1>Crash,
     <1>1, <1>2, <1>3, <1>4, <1>5

\* The newest thread of a run keeps the slot: whatever ends or requeues the job
\* makes that thread late or waits until it is gone.
LEMMA ThreadStep ==
  ASSUME TypeOK, ThreadHasSlot, Slot!OneRunning, [Next]_vars
  PROVE  ThreadHasSlot'
<1>u. ASSUME UNCHANGED <<job, thread>>
      PROVE  ThreadHasSlot'
  BY <1>u DEF ThreadHasSlot, TypeOK, Slot!TypeOK
<1>Enqueue. ASSUME NEW k \in Kinds, NEW p \in Starters, Enqueue(k, p)
      PROVE  ThreadHasSlot'
  BY <1>Enqueue
  DEF Enqueue, ThreadHasSlot, TypeOK, Slot!TypeOK, Slot!Submit, Slot!Resubmit, Slot!Move
<1>Begin. ASSUME NEW r \in Runs, Begin(r)
      PROVE  ThreadHasSlot'
  BY <1>Begin DEF Begin, ThreadHasSlot, TypeOK, Slot!TypeOK, Slot!Start, Slot!Move
<1>Yield. ASSUME NEW r \in Runs, Yield(r)
      PROVE  ThreadHasSlot'
  BY <1>Yield DEF Yield, ThreadHasSlot, TypeOK, Slot!TypeOK, Slot!Requeue, Slot!Move
<1>GiveUp. ASSUME NEW r \in Runs, GiveUp(r)
      PROVE  ThreadHasSlot'
  BY <1>GiveUp
  DEF GiveUp, ThreadHasSlot, TypeOK, Slot!TypeOK, Slot!Requeue, Slot!End, Slot!Move
<1>Commit. ASSUME NEW r \in Runs, Commit(r)
      PROVE  ThreadHasSlot'
  BY <1>Commit
  DEF Commit, ThreadHasSlot, TypeOK, Slot!TypeOK, Slot!Succeed, Slot!End, Slot!Move
<1>Check. ASSUME NEW r \in Runs, NEW x \in Threads, Check(r, x)
      PROVE  ThreadHasSlot'
  BY <1>Check DEF Check, ThreadHasSlot, TypeOK, Slot!TypeOK, Threads
<1>Finish. ASSUME NEW r \in Runs, NEW x \in Threads, NEW o \in Reported, Finish(r, x, o)
      PROVE  ThreadHasSlot'
  BY <1>Finish DEF Finish, ThreadHasSlot, TypeOK, Slot!TypeOK, Threads
<1>Remember. ASSUME NEW r \in Runs, NEW x \in Threads, Remember(r, x)
      PROVE  ThreadHasSlot'
  BY <1>Remember DEF Remember, ThreadHasSlot, TypeOK, Slot!TypeOK, Threads
<1>Crash. ASSUME Crash
      PROVE  ThreadHasSlot'
  BY <1>Crash DEF Crash, ThreadHasSlot, TypeOK, Slot!TypeOK, NoThread
<1>1. ASSUME NEW k \in Kinds, Configure(k) \/ Decide(k) \/ Refused(k) \/ DelayElapses(k)
      PROVE  ThreadHasSlot'
  BY <1>1, <1>u DEF Configure, Decide, Refused, DelayElapses
<1>2. ASSUME NEW k \in Kinds, NEW p \in Starters, Claim(k, p) \/ Create(k, p)
      PROVE  ThreadHasSlot'
  BY <1>2, <1>u DEF Claim, Create, ClaimAs
<1>3. ASSUME TimeReached \/ NextDay \/ UNCHANGED vars
      PROVE  ThreadHasSlot'
  BY <1>3, <1>u DEF TimeReached, NextDay, vars
<1>q. QED
  BY NextCases, <1>u, <1>Enqueue, <1>Begin, <1>Yield, <1>GiveUp, <1>Commit, <1>Check,
     <1>Finish, <1>Remember, <1>Crash, <1>1, <1>2, <1>3

\* Between lock and queue nothing happens to a run: it has no job and no thread,
\* so the queue, the watchdog and the handlers cannot touch it, and no other
\* thread picks its id.
LEMMA HeldStep ==
  ASSUME TypeOK, HeldIsNew, HeldByOne, ThreadHasSlot, [Next]_vars
  PROVE  HeldIsNew'
<1>u. ASSUME UNCHANGED <<reg, job, starter, thread>>
      PROVE  HeldIsNew'
  BY <1>u DEF HeldIsNew, Holds, HeldRun, Unsettled
<1>Decide. ASSUME NEW k \in Kinds, Decide(k)
      PROVE  HeldIsNew'
  <2> SUFFICES ASSUME NEW kk \in Kinds, NEW pp \in Starters, Holds(kk, pp)'
              PROVE  /\ HeldRun(kk, pp)' \in Runs
                     /\ ~Unsettled(HeldRun(kk, pp))' /\ thread'[HeldRun(kk, pp)'] = NoThread
                     /\ reg'[HeldRun(kk, pp)'] =
                          IF starter'[<<kk, pp>>].pc = "claimed" THEN "none" ELSE "queued"
    BY DEF HeldIsNew
  <2> DEFINE h == HeldRun(kk, pp)
  <2>1. starter'[<<kk, pp>>] = starter[<<kk, pp>>]
    BY <1>Decide DEF Decide, TypeOK, Holds, Starters
  <2>2. Holds(kk, pp) /\ HeldRun(kk, pp)' = h  BY <2>1 DEF Holds, HeldRun
  <2>q. QED  BY <1>Decide, <2>1, <2>2 DEF Decide, HeldIsNew, Unsettled
<1>Refused. ASSUME NEW k \in Kinds, Refused(k)
      PROVE  HeldIsNew'
  <2> SUFFICES ASSUME NEW kk \in Kinds, NEW pp \in Starters, Holds(kk, pp)'
              PROVE  /\ HeldRun(kk, pp)' \in Runs
                     /\ ~Unsettled(HeldRun(kk, pp))' /\ thread'[HeldRun(kk, pp)'] = NoThread
                     /\ reg'[HeldRun(kk, pp)'] =
                          IF starter'[<<kk, pp>>].pc = "claimed" THEN "none" ELSE "queued"
    BY DEF HeldIsNew
  <2> DEFINE h == HeldRun(kk, pp)
  <2>1. starter'[<<kk, pp>>] = starter[<<kk, pp>>]
    BY <1>Refused DEF Refused, TypeOK, Holds, Idle, Starters
  <2>2. Holds(kk, pp) /\ HeldRun(kk, pp)' = h  BY <2>1 DEF Holds, HeldRun
  <2>q. QED  BY <1>Refused, <2>1, <2>2 DEF Refused, HeldIsNew, Unsettled
<1>Claim. ASSUME NEW k \in Kinds, NEW p \in Starters, Claim(k, p)
      PROVE  HeldIsNew'
  <2> SUFFICES ASSUME NEW kk \in Kinds, NEW pp \in Starters, Holds(kk, pp)'
              PROVE  /\ HeldRun(kk, pp)' \in Runs
                     /\ ~Unsettled(HeldRun(kk, pp))' /\ thread'[HeldRun(kk, pp)'] = NoThread
                     /\ reg'[HeldRun(kk, pp)'] =
                          IF starter'[<<kk, pp>>].pc = "claimed" THEN "none" ELSE "queued"
    BY DEF HeldIsNew
  <2> DEFINE h == HeldRun(kk, pp)
  <2>1. PICK i \in Ids, d \in 1 .. MaxDay : ClaimAs(k, p, i, d)  BY <1>Claim DEF Claim
  <2>2. CASE <<kk, pp>> = <<k, p>>
    <3>1. starter'[<<kk, pp>>] = [pc |-> "claimed", id |-> i]
      BY <2>1, <2>2 DEF ClaimAs, TypeOK
    <3>2. HeldRun(kk, pp)' = <<k, i>> /\ <<k, i>> \in Runs
      BY <2>2, <3>1 DEF HeldRun, Runs
    <3>q. QED  BY <2>1, <3>1, <3>2 DEF ClaimAs, Fresh, Unsettled, TypeOK
  <2>3. CASE <<kk, pp>> # <<k, p>>
    <3>1. starter'[<<kk, pp>>] = starter[<<kk, pp>>]  BY <2>1, <2>3 DEF ClaimAs, TypeOK
    <3>2. Holds(kk, pp) /\ HeldRun(kk, pp)' = h  BY <3>1 DEF Holds, HeldRun
    <3>3. h # <<k, i>>  BY <2>1, <3>2 DEF ClaimAs, Fresh, Claimed, Holds, HeldRun
    <3>4. reg'[h] = reg[h]  BY <2>1, <3>2, <3>3 DEF ClaimAs, TypeOK, HeldIsNew
    <3>q. QED  BY <2>1, <3>1, <3>2, <3>4 DEF ClaimAs, HeldIsNew, Unsettled
  <2>q. QED  BY <2>2, <2>3
<1>Create. ASSUME NEW k \in Kinds, NEW p \in Starters, Create(k, p)
      PROVE  HeldIsNew'
  <2> SUFFICES ASSUME NEW kk \in Kinds, NEW pp \in Starters, Holds(kk, pp)'
              PROVE  /\ HeldRun(kk, pp)' \in Runs
                     /\ ~Unsettled(HeldRun(kk, pp))' /\ thread'[HeldRun(kk, pp)'] = NoThread
                     /\ reg'[HeldRun(kk, pp)'] =
                          IF starter'[<<kk, pp>>].pc = "claimed" THEN "none" ELSE "queued"
    BY DEF HeldIsNew
  <2> DEFINE h == HeldRun(kk, pp)
  <2>1. Holds(k, p) /\ HeldRun(k, p) \in Runs  BY <1>Create DEF Create, Holds, HeldIsNew
  <2>2. CASE <<kk, pp>> = <<k, p>>
    <3>1. starter'[<<kk, pp>>] = [starter[<<k, p>>] EXCEPT !.pc = "created"]
      BY <1>Create, <2>2 DEF Create, TypeOK
    <3>2. HeldRun(kk, pp)' = HeldRun(k, p) /\ starter'[<<kk, pp>>].pc = "created"
      BY <2>2, <3>1 DEF HeldRun, TypeOK
    <3>3. reg'[HeldRun(k, p)] = "queued"  BY <1>Create, <2>1 DEF Create, TypeOK, HeldRun
    <3>q. QED  BY <1>Create, <2>1, <3>2, <3>3 DEF Create, HeldIsNew, Unsettled
  <2>3. CASE <<kk, pp>> # <<k, p>>
    <3>1. starter'[<<kk, pp>>] = starter[<<kk, pp>>]
      BY <1>Create, <2>3 DEF Create, TypeOK
    <3>2. Holds(kk, pp) /\ HeldRun(kk, pp)' = h  BY <3>1 DEF Holds, HeldRun
    <3>3. h # HeldRun(k, p)  BY <2>1, <2>3, <3>2 DEF HeldRun, HeldByOne
    <3>4. reg'[h] = reg[h]
      BY <1>Create, <3>2, <3>3 DEF Create, TypeOK, HeldIsNew, HeldRun
    <3>q. QED  BY <1>Create, <3>1, <3>2, <3>4 DEF Create, HeldIsNew, Unsettled
  <2>q. QED  BY <2>2, <2>3
<1>Enqueue. ASSUME NEW k \in Kinds, NEW p \in Starters, Enqueue(k, p)
      PROVE  HeldIsNew'
  <2> SUFFICES ASSUME NEW kk \in Kinds, NEW pp \in Starters, Holds(kk, pp)'
              PROVE  /\ HeldRun(kk, pp)' \in Runs
                     /\ ~Unsettled(HeldRun(kk, pp))' /\ thread'[HeldRun(kk, pp)'] = NoThread
                     /\ reg'[HeldRun(kk, pp)'] =
                          IF starter'[<<kk, pp>>].pc = "claimed" THEN "none" ELSE "queued"
    BY DEF HeldIsNew
  <2> DEFINE h == HeldRun(kk, pp)
  <2>1. Holds(k, p) /\ HeldRun(k, p) \in Runs  BY <1>Enqueue DEF Enqueue, Holds, HeldIsNew
  <2>2. <<kk, pp>> # <<k, p>>  BY <1>Enqueue DEF Enqueue, Idle, Holds, TypeOK
  <2>3. starter'[<<kk, pp>>] = starter[<<kk, pp>>]
    BY <1>Enqueue, <2>2 DEF Enqueue, TypeOK
  <2>4. Holds(kk, pp) /\ HeldRun(kk, pp)' = h  BY <2>3 DEF Holds, HeldRun
  <2>5. h # HeldRun(k, p)  BY <2>1, <2>2, <2>4 DEF HeldRun, HeldByOne
  <2>6. job'[h] = job[h]
    BY <1>Enqueue, <2>4, <2>5
    DEF Enqueue, HeldRun, HeldIsNew, Slot!Submit, Slot!Resubmit, Slot!Move, TypeOK,
        Slot!TypeOK
  <2>q. QED  BY <1>Enqueue, <2>3, <2>4, <2>6 DEF Enqueue, HeldIsNew, Unsettled
<1>Begin. ASSUME NEW r \in Runs, Begin(r)
      PROVE  HeldIsNew'
  <2> SUFFICES ASSUME NEW kk \in Kinds, NEW pp \in Starters, Holds(kk, pp)'
              PROVE  /\ HeldRun(kk, pp)' \in Runs
                     /\ ~Unsettled(HeldRun(kk, pp))' /\ thread'[HeldRun(kk, pp)'] = NoThread
                     /\ reg'[HeldRun(kk, pp)'] =
                          IF starter'[<<kk, pp>>].pc = "claimed" THEN "none" ELSE "queued"
    BY DEF HeldIsNew
  <2> DEFINE h == HeldRun(kk, pp)
  <2>1. Holds(kk, pp) /\ HeldRun(kk, pp)' = h /\ h \in Runs
    BY <1>Begin DEF Begin, Holds, HeldRun, HeldIsNew
  <2>2. r # h
    BY <1>Begin, <2>1 DEF Begin, HeldIsNew, Unsettled, NoThread, Slot!Start, Slot!Move
  <2>3. job'[h] = job[h] /\ reg'[h] = reg[h] /\ thread'[h] = thread[h]
    BY <1>Begin, <2>1, <2>2 DEF Begin, TypeOK, Slot!TypeOK, Tell, Slot!Start, Slot!Move
  <2>4. starter' = starter  BY <1>Begin DEF Begin
  <2>q. QED  BY <2>1, <2>3, <2>4 DEF HeldIsNew, Unsettled
<1>Yield. ASSUME NEW r \in Runs, Yield(r)
      PROVE  HeldIsNew'
  <2> SUFFICES ASSUME NEW kk \in Kinds, NEW pp \in Starters, Holds(kk, pp)'
              PROVE  /\ HeldRun(kk, pp)' \in Runs
                     /\ ~Unsettled(HeldRun(kk, pp))' /\ thread'[HeldRun(kk, pp)'] = NoThread
                     /\ reg'[HeldRun(kk, pp)'] =
                          IF starter'[<<kk, pp>>].pc = "claimed" THEN "none" ELSE "queued"
    BY DEF HeldIsNew
  <2> DEFINE h == HeldRun(kk, pp)
  <2>1. Holds(kk, pp) /\ HeldRun(kk, pp)' = h /\ h \in Runs
    BY <1>Yield DEF Yield, Holds, HeldRun, HeldIsNew
  <2>2. r # h
    BY <1>Yield, <2>1 DEF Yield, HeldIsNew, Unsettled, NoThread, Slot!Requeue, Slot!Move
  <2>3. job'[h] = job[h] /\ reg'[h] = reg[h] /\ thread'[h] = thread[h]
    BY <1>Yield, <2>1, <2>2 DEF Yield, TypeOK, Slot!TypeOK, Tell, Slot!Requeue, Slot!Move
  <2>4. starter' = starter  BY <1>Yield DEF Yield
  <2>q. QED  BY <2>1, <2>3, <2>4 DEF HeldIsNew, Unsettled
<1>GiveUp. ASSUME NEW r \in Runs, GiveUp(r)
      PROVE  HeldIsNew'
  <2> SUFFICES ASSUME NEW kk \in Kinds, NEW pp \in Starters, Holds(kk, pp)'
              PROVE  /\ HeldRun(kk, pp)' \in Runs
                     /\ ~Unsettled(HeldRun(kk, pp))' /\ thread'[HeldRun(kk, pp)'] = NoThread
                     /\ reg'[HeldRun(kk, pp)'] =
                          IF starter'[<<kk, pp>>].pc = "claimed" THEN "none" ELSE "queued"
    BY DEF HeldIsNew
  <2> DEFINE h == HeldRun(kk, pp)
  <2>1. Holds(kk, pp) /\ HeldRun(kk, pp)' = h /\ h \in Runs
    BY <1>GiveUp DEF GiveUp, Holds, HeldRun, HeldIsNew
  <2>2. r # h
    BY <1>GiveUp, <2>1 DEF GiveUp, HeldIsNew, Unsettled, NoThread, ThreadHasSlot
  <2>3. job'[h] = job[h] /\ reg'[h] = reg[h] /\ thread'[h] = thread[h]
    BY <1>GiveUp, <2>1, <2>2
    DEF GiveUp, TypeOK, Slot!TypeOK, Tell, Slot!Requeue, Slot!End, Slot!Move
  <2>4. starter' = starter  BY <1>GiveUp DEF GiveUp
  <2>q. QED  BY <2>1, <2>3, <2>4 DEF HeldIsNew, Unsettled
<1>Commit. ASSUME NEW r \in Runs, Commit(r)
      PROVE  HeldIsNew'
  <2> SUFFICES ASSUME NEW kk \in Kinds, NEW pp \in Starters, Holds(kk, pp)'
              PROVE  /\ HeldRun(kk, pp)' \in Runs
                     /\ ~Unsettled(HeldRun(kk, pp))' /\ thread'[HeldRun(kk, pp)'] = NoThread
                     /\ reg'[HeldRun(kk, pp)'] =
                          IF starter'[<<kk, pp>>].pc = "claimed" THEN "none" ELSE "queued"
    BY DEF HeldIsNew
  <2> DEFINE h == HeldRun(kk, pp)
  <2>1. Holds(kk, pp) /\ HeldRun(kk, pp)' = h /\ h \in Runs
    BY <1>Commit DEF Commit, Holds, HeldRun, HeldIsNew
  <2>2. r # h
    BY <1>Commit, <2>1
    DEF Commit, HeldIsNew, Unsettled, NoThread, Slot!Succeed, Slot!End, Slot!Move
  <2>3. job'[h] = job[h] /\ reg'[h] = reg[h] /\ thread'[h] = thread[h]
    BY <1>Commit, <2>1, <2>2
    DEF Commit, TypeOK, Slot!TypeOK, Tell, Slot!Succeed, Slot!End, Slot!Move
  <2>4. starter' = starter  BY <1>Commit DEF Commit
  <2>q. QED  BY <2>1, <2>3, <2>4 DEF HeldIsNew, Unsettled
<1>Check. ASSUME NEW r \in Runs, NEW x \in Threads, Check(r, x)
      PROVE  HeldIsNew'
  <2> SUFFICES ASSUME NEW kk \in Kinds, NEW pp \in Starters, Holds(kk, pp)'
              PROVE  /\ HeldRun(kk, pp)' \in Runs
                     /\ ~Unsettled(HeldRun(kk, pp))' /\ thread'[HeldRun(kk, pp)'] = NoThread
                     /\ reg'[HeldRun(kk, pp)'] =
                          IF starter'[<<kk, pp>>].pc = "claimed" THEN "none" ELSE "queued"
    BY DEF HeldIsNew
  <2> DEFINE h == HeldRun(kk, pp)
  <2>0. NoThread[x] = "gone"
    <3>1. x = "new" \/ x = "late"  BY DEF Threads
    <3>q. QED  BY <3>1 DEF NoThread
  <2>1. Holds(kk, pp) /\ HeldRun(kk, pp)' = h /\ h \in Runs
    BY <1>Check DEF Check, Holds, HeldRun, HeldIsNew
  <2>2. r # h  BY <1>Check, <2>0, <2>1 DEF Check, HeldIsNew
  <2>3. job'[h] = job[h] /\ reg'[h] = reg[h] /\ thread'[h] = thread[h]
    BY <1>Check, <2>1, <2>2 DEF Check, TypeOK, Slot!TypeOK
  <2>4. starter' = starter  BY <1>Check DEF Check
  <2>q. QED  BY <2>1, <2>3, <2>4 DEF HeldIsNew, Unsettled
<1>Finish. ASSUME NEW r \in Runs, NEW x \in Threads, NEW o \in Reported, Finish(r, x, o)
      PROVE  HeldIsNew'
  <2> SUFFICES ASSUME NEW kk \in Kinds, NEW pp \in Starters, Holds(kk, pp)'
              PROVE  /\ HeldRun(kk, pp)' \in Runs
                     /\ ~Unsettled(HeldRun(kk, pp))' /\ thread'[HeldRun(kk, pp)'] = NoThread
                     /\ reg'[HeldRun(kk, pp)'] =
                          IF starter'[<<kk, pp>>].pc = "claimed" THEN "none" ELSE "queued"
    BY DEF HeldIsNew
  <2> DEFINE h == HeldRun(kk, pp)
  <2>0. NoThread[x] = "gone"
    <3>1. x = "new" \/ x = "late"  BY DEF Threads
    <3>q. QED  BY <3>1 DEF NoThread
  <2>1. Holds(kk, pp) /\ HeldRun(kk, pp)' = h /\ h \in Runs
    BY <1>Finish DEF Finish, Holds, HeldRun, HeldIsNew
  <2>2. r # h  BY <1>Finish, <2>0, <2>1 DEF Finish, HeldIsNew
  <2>3. job'[h] = job[h] /\ reg'[h] = reg[h] /\ thread'[h] = thread[h]
    BY <1>Finish, <2>1, <2>2 DEF Finish, TypeOK, Slot!TypeOK, Tell
  <2>4. starter' = starter  BY <1>Finish DEF Finish
  <2>q. QED  BY <2>1, <2>3, <2>4 DEF HeldIsNew, Unsettled
<1>Remember. ASSUME NEW r \in Runs, NEW x \in Threads, Remember(r, x)
      PROVE  HeldIsNew'
  <2> SUFFICES ASSUME NEW kk \in Kinds, NEW pp \in Starters, Holds(kk, pp)'
              PROVE  /\ HeldRun(kk, pp)' \in Runs
                     /\ ~Unsettled(HeldRun(kk, pp))' /\ thread'[HeldRun(kk, pp)'] = NoThread
                     /\ reg'[HeldRun(kk, pp)'] =
                          IF starter'[<<kk, pp>>].pc = "claimed" THEN "none" ELSE "queued"
    BY DEF HeldIsNew
  <2> DEFINE h == HeldRun(kk, pp)
  <2>0. NoThread[x] = "gone"
    <3>1. x = "new" \/ x = "late"  BY DEF Threads
    <3>q. QED  BY <3>1 DEF NoThread
  <2>1. Holds(kk, pp) /\ HeldRun(kk, pp)' = h /\ h \in Runs
    BY <1>Remember DEF Remember, Holds, HeldRun, HeldIsNew
  <2>2. r # h  BY <1>Remember, <2>0, <2>1 DEF Remember, HeldIsNew, Reported
  <2>3. job'[h] = job[h] /\ reg'[h] = reg[h] /\ thread'[h] = thread[h]
    BY <1>Remember, <2>1, <2>2 DEF Remember, TypeOK, Slot!TypeOK
  <2>4. starter' = starter  BY <1>Remember DEF Remember
  <2>q. QED  BY <2>1, <2>3, <2>4 DEF HeldIsNew, Unsettled
<1>Crash. ASSUME Crash
      PROVE  HeldIsNew'
  BY <1>Crash DEF Crash, HeldIsNew, Holds, Idle
<1>1. ASSUME NEW k \in Kinds, Configure(k) \/ DelayElapses(k)
      PROVE  HeldIsNew'
  BY <1>1, <1>u DEF Configure, DelayElapses
<1>2. ASSUME TimeReached \/ NextDay \/ UNCHANGED vars
      PROVE  HeldIsNew'
  BY <1>2, <1>u DEF TimeReached, NextDay, vars
<1>q. QED
  BY NextCases, <1>u, <1>Decide, <1>Refused, <1>Claim, <1>Create, <1>Enqueue, <1>Begin,
     <1>Yield, <1>GiveUp, <1>Commit, <1>Check, <1>Finish, <1>Remember, <1>Crash, <1>1,
     <1>2

\* Two threads of _start_run never hold the same id, although one may claim
\* while the other is on its way.
LEMMA OneStep ==
  ASSUME TypeOK, HeldByOne, [Next]_vars
  PROVE  HeldByOne'
<1>u. ASSUME UNCHANGED <<starter>>
      PROVE  HeldByOne'
  BY <1>u DEF HeldByOne, Holds, HeldRun
<1>Decide. ASSUME NEW k \in Kinds, Decide(k)
      PROVE  HeldByOne'
  BY <1>Decide DEF Decide, HeldByOne, Holds, HeldRun, TypeOK, Starters
<1>Refused. ASSUME NEW k \in Kinds, Refused(k)
      PROVE  HeldByOne'
  BY <1>Refused DEF Refused, HeldByOne, Holds, HeldRun, TypeOK, Starters, Idle
<1>Claim. ASSUME NEW k \in Kinds, NEW p \in Starters, Claim(k, p)
      PROVE  HeldByOne'
  <2> SUFFICES ASSUME NEW kk \in Kinds, NEW pp \in Starters, NEW qq \in Starters,
                      Holds(kk, pp)', Holds(kk, qq)', HeldRun(kk, pp)' = HeldRun(kk, qq)'
              PROVE  pp = qq
    BY DEF HeldByOne
  <2>1. PICK i \in Ids, d \in 1 .. MaxDay : ClaimAs(k, p, i, d)  BY <1>Claim DEF Claim
  <2>2. ASSUME NEW s \in Starters, Holds(kk, s)', <<kk, s>> # <<k, p>>
        PROVE  Holds(kk, s) /\ HeldRun(kk, s)' = HeldRun(kk, s) /\ HeldRun(kk, s) # <<k, i>>
    <3>1. starter'[<<kk, s>>] = starter[<<kk, s>>]  BY <2>1, <2>2 DEF ClaimAs, TypeOK
    <3>q. QED  BY <2>1, <2>2, <3>1 DEF ClaimAs, Fresh, Claimed, Holds, HeldRun
  <2>3. <<kk, pp>> = <<k, p>> => HeldRun(kk, pp)' = <<k, i>>
    BY <2>1 DEF ClaimAs, TypeOK, HeldRun
  <2>4. <<kk, qq>> = <<k, p>> => HeldRun(kk, qq)' = <<k, i>>
    BY <2>1 DEF ClaimAs, TypeOK, HeldRun
  <2>q. QED  BY <2>2, <2>3, <2>4 DEF HeldByOne
<1>Create. ASSUME NEW k \in Kinds, NEW p \in Starters, Create(k, p)
      PROVE  HeldByOne'
  BY <1>Create DEF Create, HeldByOne, Holds, HeldRun, TypeOK
<1>Enqueue. ASSUME NEW k \in Kinds, NEW p \in Starters, Enqueue(k, p)
      PROVE  HeldByOne'
  BY <1>Enqueue DEF Enqueue, HeldByOne, Holds, HeldRun, TypeOK, Idle
<1>Crash. ASSUME Crash
      PROVE  HeldByOne'
  BY <1>Crash DEF Crash, HeldByOne, Holds, HeldRun, Idle
<1>1. ASSUME NEW k \in Kinds, Configure(k) \/ DelayElapses(k)
      PROVE  HeldByOne'
  BY <1>1, <1>u DEF Configure, DelayElapses
<1>2. ASSUME NEW r \in Runs, Begin(r) \/ Yield(r) \/ GiveUp(r) \/ Commit(r)
      PROVE  HeldByOne'
  BY <1>2, <1>u DEF Begin, Yield, GiveUp, Commit
<1>3. ASSUME NEW r \in Runs, NEW x \in Threads, Check(r, x) \/ Remember(r, x)
      PROVE  HeldByOne'
  BY <1>3, <1>u DEF Check, Remember, Dates, Spaces
<1>4. ASSUME NEW r \in Runs, NEW x \in Threads, NEW o \in Reported, Finish(r, x, o)
      PROVE  HeldByOne'
  BY <1>4, <1>u DEF Finish
<1>5. ASSUME TimeReached \/ NextDay \/ UNCHANGED vars
      PROVE  HeldByOne'
  BY <1>5, <1>u DEF TimeReached, NextDay, vars
<1>q. QED
  BY NextCases, <1>u, <1>Decide, <1>Refused, <1>Claim, <1>Create, <1>Enqueue, <1>Crash,
     <1>1, <1>2, <1>3, <1>4, <1>5

\* What is in the queue has an entry in the registry, since the entry is created
\* before the item.
LEMMA KnownStep ==
  ASSUME TypeOK, HeldIsNew, QueuedIsKnown, [Next]_vars
  PROVE  QueuedIsKnown'
<1>u. ASSUME UNCHANGED <<reg, job>>
      PROVE  QueuedIsKnown'
  BY <1>u DEF QueuedIsKnown, Unsettled, TypeOK, Runs, Slot!TypeOK
<1>Claim. ASSUME NEW k \in Kinds, NEW p \in Starters, Claim(k, p)
      PROVE  QueuedIsKnown'
  BY <1>Claim
  DEF Claim, QueuedIsKnown, Unsettled, TypeOK, Runs, Slot!TypeOK, ClaimAs, MayClaim,
      Fresh
<1>Create. ASSUME NEW k \in Kinds, NEW p \in Starters, Create(k, p)
      PROVE  QueuedIsKnown'
  BY <1>Create DEF Create, QueuedIsKnown, Unsettled, TypeOK, Runs, Slot!TypeOK
<1>Enqueue. ASSUME NEW k \in Kinds, NEW p \in Starters, Enqueue(k, p)
      PROVE  QueuedIsKnown'
  BY <1>Enqueue
  DEF Enqueue, QueuedIsKnown, Unsettled, TypeOK, Runs, Slot!TypeOK, HeldIsNew, Holds,
      HeldRun, Idle, Slot!Submit, Slot!Resubmit, Slot!Move
<1>Begin. ASSUME NEW r \in Runs, Begin(r)
      PROVE  QueuedIsKnown'
  BY <1>Begin
  DEF Begin, QueuedIsKnown, Unsettled, TypeOK, Runs, Slot!TypeOK, Tell, Slot!Start,
      Slot!Move
<1>Yield. ASSUME NEW r \in Runs, Yield(r)
      PROVE  QueuedIsKnown'
  BY <1>Yield
  DEF Yield, QueuedIsKnown, Unsettled, TypeOK, Runs, Slot!TypeOK, Tell, Slot!Requeue,
      Slot!Move
<1>GiveUp. ASSUME NEW r \in Runs, GiveUp(r)
      PROVE  QueuedIsKnown'
  BY <1>GiveUp
  DEF GiveUp, QueuedIsKnown, Unsettled, TypeOK, Runs, Slot!TypeOK, Tell, Slot!Requeue,
      Slot!End, Slot!Move
<1>Commit. ASSUME NEW r \in Runs, Commit(r)
      PROVE  QueuedIsKnown'
  BY <1>Commit
  DEF Commit, QueuedIsKnown, Unsettled, TypeOK, Runs, Slot!TypeOK, Tell, Slot!Succeed,
      Slot!End, Slot!Move
<1>Finish. ASSUME NEW r \in Runs, NEW x \in Threads, NEW o \in Reported, Finish(r, x, o)
      PROVE  QueuedIsKnown'
  BY <1>Finish DEF Finish, QueuedIsKnown, Unsettled, TypeOK, Runs, Slot!TypeOK, Tell
<1>Crash. ASSUME Crash
      PROVE  QueuedIsKnown'
  BY <1>Crash DEF Crash, QueuedIsKnown, Unsettled, TypeOK, Runs, Slot!TypeOK, Interrupted
<1>1. ASSUME NEW k \in Kinds, Configure(k) \/ Decide(k) \/ Refused(k) \/ DelayElapses(k)
      PROVE  QueuedIsKnown'
  BY <1>1, <1>u DEF Configure, Decide, Refused, DelayElapses
<1>2. ASSUME NEW r \in Runs, NEW x \in Threads, Check(r, x) \/ Remember(r, x)
      PROVE  QueuedIsKnown'
  BY <1>2, <1>u DEF Check, Remember, Dates, Spaces
<1>3. ASSUME TimeReached \/ NextDay \/ UNCHANGED vars
      PROVE  QueuedIsKnown'
  BY <1>3, <1>u DEF TimeReached, NextDay, vars
<1>q. QED
  BY NextCases, <1>u, <1>Claim, <1>Create, <1>Enqueue, <1>Begin, <1>Yield, <1>GiveUp,
     <1>Commit, <1>Finish, <1>Crash, <1>1, <1>2, <1>3

\* The queue tells the registry of every start and requeue, and a handler that
\* was not given up is the only one to write beside it.  Where a restart queues
\* a closed run again, its kind is excused.
LEMMA EntryStep ==
  ASSUME TypeOK, HeldIsNew, ThreadHasSlot, EntryFollows, [Next]_vars
  PROVE  EntryFollows'
<1>u. ASSUME UNCHANGED <<reg, job, thread, excused>>
      PROVE  EntryFollows'
  BY <1>u DEF EntryFollows, TypeOK, Runs, Slot!TypeOK
<1>Claim. ASSUME NEW k \in Kinds, NEW p \in Starters, Claim(k, p)
      PROVE  EntryFollows'
  <2>1. PICK i \in Ids, d \in 1 .. MaxDay : ClaimAs(k, p, i, d)  BY <1>Claim DEF Claim
  <2>2. ASSUME NEW r \in Runs, r # <<k, i>> PROVE reg'[r] = reg[r]
    BY <2>1, <2>2 DEF ClaimAs, TypeOK
  <2>3. job[<<k, i>>] # "waiting" /\ thread[<<k, i>>] = NoThread
    BY <2>1 DEF ClaimAs, Fresh, Unsettled
  <2>4. excused \subseteq excused'  BY <2>1 DEF ClaimAs
  <2>q. QED  BY <2>1, <2>2, <2>3, <2>4 DEF ClaimAs, EntryFollows, NoThread
<1>Create. ASSUME NEW k \in Kinds, NEW p \in Starters, Create(k, p)
      PROVE  EntryFollows'
  BY <1>Create
  DEF Create, EntryFollows, TypeOK, Runs, Slot!TypeOK, HeldIsNew, Holds, HeldRun,
      Unsettled, NoThread
<1>Enqueue. ASSUME NEW k \in Kinds, NEW p \in Starters, Enqueue(k, p)
      PROVE  EntryFollows'
  BY <1>Enqueue
  DEF Enqueue, EntryFollows, TypeOK, Runs, Slot!TypeOK, HeldIsNew, Holds, HeldRun, Idle,
      Slot!Submit, Slot!Resubmit, Slot!Move
<1>Begin. ASSUME NEW r \in Runs, Begin(r)
      PROVE  EntryFollows'
  BY <1>Begin
  DEF Begin, EntryFollows, TypeOK, Runs, Slot!TypeOK, Tell, Slot!Start, Slot!Move
<1>Yield. ASSUME NEW r \in Runs, Yield(r)
      PROVE  EntryFollows'
  BY <1>Yield
  DEF Yield, EntryFollows, TypeOK, Runs, Slot!TypeOK, Tell, Slot!Requeue, Slot!Move
<1>GiveUp. ASSUME NEW r \in Runs, GiveUp(r)
      PROVE  EntryFollows'
  BY <1>GiveUp
  DEF GiveUp, EntryFollows, TypeOK, Runs, Slot!TypeOK, Tell, Slot!Requeue, Slot!End,
      Slot!Move
<1>Commit. ASSUME NEW r \in Runs, Commit(r)
      PROVE  EntryFollows'
  BY <1>Commit
  DEF Commit, EntryFollows, TypeOK, Runs, Slot!TypeOK, Tell, Slot!Succeed, Slot!End,
      Slot!Move
<1>Check. ASSUME NEW r \in Runs, NEW x \in Threads, Check(r, x)
      PROVE  EntryFollows'
  BY <1>Check DEF Check, EntryFollows, TypeOK, Runs, Slot!TypeOK, Threads
<1>Finish. ASSUME NEW r \in Runs, NEW x \in Threads, NEW o \in Reported, Finish(r, x, o)
      PROVE  EntryFollows'
  BY <1>Finish
  DEF Finish, EntryFollows, TypeOK, Runs, Slot!TypeOK, Tell, Threads, Reported,
      ThreadHasSlot
<1>Remember. ASSUME NEW r \in Runs, NEW x \in Threads, Remember(r, x)
      PROVE  EntryFollows'
  BY <1>Remember DEF Remember, EntryFollows, TypeOK, Runs, Slot!TypeOK, Threads, Reported
<1>Crash. ASSUME Crash
      PROVE  EntryFollows'
  BY <1>Crash DEF Crash, EntryFollows, TypeOK, Runs, Slot!TypeOK, Interrupted, NoThread
<1>1. ASSUME NEW k \in Kinds, Configure(k) \/ Decide(k) \/ Refused(k) \/ DelayElapses(k)
      PROVE  EntryFollows'
  BY <1>1, <1>u DEF Configure, Decide, Refused, DelayElapses
<1>2. ASSUME TimeReached \/ NextDay \/ UNCHANGED vars
      PROVE  EntryFollows'
  BY <1>2, <1>u DEF TimeReached, NextDay, vars
<1>q. QED
  BY NextCases, <1>u, <1>Claim, <1>Create, <1>Enqueue, <1>Begin, <1>Yield, <1>GiveUp,
     <1>Commit, <1>Check, <1>Finish, <1>Remember, <1>Crash, <1>1, <1>2

\* Nothing becomes live but by a claim, and a claim finds nothing live: the last
\* run was the only candidate, and Busy has looked at its entry.  A thread that
\* was past the lock, with no entry yet, is what excuses the kind.
LEMMA LiveBefore ==
  ASSUME TypeOK, HeldIsNew, ThreadHasSlot, QueuedIsKnown, EntryFollows, LiveIsLast, [Next]_vars
  PROVE  LiveKept
<1>u. ASSUME UNCHANGED <<reg, job, starter, last, excused>>
      PROVE  LiveKept
  BY <1>u DEF LiveKept, Live, Claimed, Unsettled
<1>Decide. ASSUME NEW k \in Kinds, Decide(k)
      PROVE  LiveKept
  BY <1>Decide, ZenonT(40) DEF Decide, LiveKept, Live, Claimed, Unsettled, TypeOK, config
<1>Refused. ASSUME NEW k \in Kinds, Refused(k)
      PROVE  LiveKept
  <2> SUFFICES ASSUME NEW kk \in Kinds \ excused', NEW j \in Ids, Live(kk, j)'
              PROVE  kk \notin excused /\ Live(kk, j) /\ last'[kk] = last[kk]
    BY DEF LiveKept
  <2>1. Claimed(kk, j)' => Claimed(kk, j)
    BY <1>Refused DEF Refused, Claimed, Idle, TypeOK
  <2>q. QED  BY <1>Refused, <2>1 DEF Refused, Live, Unsettled
<1>Claim. ASSUME NEW k \in Kinds, NEW p \in Starters, Claim(k, p)
      PROVE  LiveKept
  <2>1. PICK i \in Ids, d \in 1 .. MaxDay : ClaimAs(k, p, i, d)  BY <1>Claim DEF Claim
  <2> SUFFICES ASSUME NEW kk \in Kinds \ excused', NEW j \in Ids, Live(kk, j)',
                      <<kk, j>> # <<k, i>>
              PROVE  kk \notin excused /\ Live(kk, j) /\ last'[kk] = last[kk]
    BY <2>1 DEF LiveKept, ClaimsNow
  <2>2. kk \notin excused  BY <2>1 DEF ClaimAs
  <2>3. Unsettled(<<kk, j>>)' = Unsettled(<<kk, j>>) /\ reg'[<<kk, j>>] = reg[<<kk, j>>]
    BY <2>1 DEF ClaimAs, Unsettled, TypeOK
  <2>4. ASSUME NEW q \in Starters, starter'[<<kk, q>>].pc \in {"claimed", "created"},
               starter'[<<kk, q>>].id = j
        PROVE  starter[<<kk, q>>] = starter'[<<kk, q>>]
    BY <2>1, <2>4 DEF ClaimAs, TypeOK
  <2>5. Live(kk, j)  BY <2>3, <2>4 DEF Live, Claimed
  <2>6. last[kk] = j  BY <2>2, <2>5 DEF LiveIsLast
  <2>7. CASE kk # k  BY <2>1, <2>2, <2>5, <2>7 DEF ClaimAs, TypeOK
  <2>8. CASE kk = k
    <3>1. reg[<<k, j>>] \notin Active
      BY <2>1, <2>6, <2>8, SchedulerAssumption DEF ClaimAs, Busy, SchedulerAssumption
    <3>2. CASE Claimed(k, j)
      <4>1. PICK q \in Starters : Holds(k, q) /\ HeldRun(k, q) = <<k, j>>
        BY <3>2 DEF Claimed, Holds, HeldRun
      <4>2. starter[<<k, q>>].pc = "claimed"  BY <3>1, <4>1 DEF HeldIsNew, Active
      <4>q. QED  BY <2>1, <2>8, <4>2 DEF ClaimAs
    <3>3. CASE Unsettled(<<k, j>>) /\ reg[<<k, j>>] \notin Final
      <4>1. <<k, j>> \in Runs  BY DEF Runs
      <4>q. QED  BY <3>1, <3>3, <4>1 DEF QueuedIsKnown, Active, Final, TypeOK
    <3>q. QED  BY <2>5, <2>8, <3>2, <3>3 DEF Live
  <2>q. QED  BY <2>7, <2>8
<1>Create. ASSUME NEW k \in Kinds, NEW p \in Starters, Create(k, p)
      PROVE  LiveKept
  <2> SUFFICES ASSUME NEW kk \in Kinds \ excused', NEW j \in Ids, Live(kk, j)'
              PROVE  kk \notin excused /\ Live(kk, j) /\ last'[kk] = last[kk]
    BY DEF LiveKept
  <2>1. Holds(k, p) /\ HeldRun(k, p) \in Runs  BY <1>Create DEF Create, Holds, HeldIsNew
  <2>2. Claimed(kk, j)' => Claimed(kk, j)  BY <1>Create DEF Create, Claimed, TypeOK
  <2>3. Unsettled(<<kk, j>>)' => <<kk, j>> # HeldRun(k, p)
    BY <1>Create, <2>1 DEF Create, HeldIsNew, Unsettled
  <2>4. <<kk, j>> # HeldRun(k, p) => reg'[<<kk, j>>] = reg[<<kk, j>>]
    BY <1>Create DEF Create, TypeOK, HeldRun
  <2>q. QED  BY <1>Create, <2>2, <2>3, <2>4 DEF Create, config, Live, Unsettled
<1>Enqueue. ASSUME NEW k \in Kinds, NEW p \in Starters, Enqueue(k, p)
      PROVE  LiveKept
  <2> SUFFICES ASSUME NEW kk \in Kinds \ excused', NEW j \in Ids, Live(kk, j)'
              PROVE  kk \notin excused /\ Live(kk, j) /\ last'[kk] = last[kk]
    BY DEF LiveKept
  <2>1. Holds(k, p) /\ HeldRun(k, p) \in Runs  BY <1>Enqueue DEF Enqueue, Holds, HeldIsNew
  <2>2. Claimed(kk, j)' => Claimed(kk, j)
    BY <1>Enqueue DEF Enqueue, Claimed, Idle, TypeOK
  <2>3. <<kk, j>> = HeldRun(k, p) => Claimed(kk, j)  BY <2>1 DEF Claimed, Holds, HeldRun
  <2>4. <<kk, j>> # HeldRun(k, p) => job'[<<kk, j>>] = job[<<kk, j>>]
    <3>1. <<kk, j>> \in Runs  BY DEF Runs
    <3>2. job' = [job EXCEPT ![HeldRun(k, p)] = "waiting"]
      BY <1>Enqueue DEF Enqueue, HeldRun, Slot!Submit, Slot!Resubmit, Slot!Move
    <3>q. QED  BY <3>1, <3>2 DEF TypeOK, Slot!TypeOK
  <2>q. QED  BY <1>Enqueue, <2>2, <2>3, <2>4 DEF Enqueue, config, Live, Unsettled
<1>Begin. ASSUME NEW r \in Runs, Begin(r)
      PROVE  LiveKept
  <2> SUFFICES ASSUME NEW kk \in Kinds \ excused', NEW j \in Ids, Live(kk, j)'
              PROVE  kk \notin excused /\ Live(kk, j) /\ last'[kk] = last[kk]
    BY DEF LiveKept
  <2> DEFINE s == <<kk, j>>
  <2>1. s \in Runs  BY DEF Runs
  <2>2. UNCHANGED <<starter, last>> /\ excused \subseteq excused'
    BY <1>Begin DEF Begin, config
  <2>3. CASE s # r
    <3>1. job'[s] = job[s] /\ reg'[s] = reg[s]
      BY <1>Begin, <2>1, <2>3 DEF Begin, TypeOK, Slot!TypeOK, Slot!Start, Slot!Move, Tell
    <3>q. QED  BY <2>2, <3>1 DEF Live, Claimed, Unsettled
  <2>4. CASE s = r
    <3>1. Live(kk, j)
      BY <1>Begin, <2>1, <2>2, <2>4
      DEF Begin, Live, Claimed, Unsettled, EntryFollows, ThreadHasSlot, Final,
          Slot!Start, Slot!Move
    <3>q. QED  BY <2>2, <3>1
  <2>q. QED  BY <2>3, <2>4
<1>Yield. ASSUME NEW r \in Runs, Yield(r)
      PROVE  LiveKept
  <2> SUFFICES ASSUME NEW kk \in Kinds \ excused', NEW j \in Ids, Live(kk, j)'
              PROVE  kk \notin excused /\ Live(kk, j) /\ last'[kk] = last[kk]
    BY DEF LiveKept
  <2> DEFINE s == <<kk, j>>
  <2>1. s \in Runs  BY DEF Runs
  <2>2. UNCHANGED <<starter, last>> /\ excused \subseteq excused'
    BY <1>Yield DEF Yield, config
  <2>3. CASE s # r
    <3>1. job'[s] = job[s] /\ reg'[s] = reg[s]
      BY <1>Yield, <2>1, <2>3
      DEF Yield, TypeOK, Slot!TypeOK, Slot!Requeue, Slot!Move, Tell
    <3>q. QED  BY <2>2, <3>1 DEF Live, Claimed, Unsettled
  <2>4. CASE s = r
    <3>1. Live(kk, j)
      BY <1>Yield, <2>1, <2>2, <2>4
      DEF Yield, Live, Claimed, Unsettled, EntryFollows, ThreadHasSlot, Final,
          Slot!Requeue, Slot!Move
    <3>q. QED  BY <2>2, <3>1
  <2>q. QED  BY <2>3, <2>4
<1>GiveUp. ASSUME NEW r \in Runs, GiveUp(r)
      PROVE  LiveKept
  <2> SUFFICES ASSUME NEW kk \in Kinds \ excused', NEW j \in Ids, Live(kk, j)'
              PROVE  kk \notin excused /\ Live(kk, j) /\ last'[kk] = last[kk]
    BY DEF LiveKept
  <2> DEFINE s == <<kk, j>>
  <2>1. s \in Runs  BY DEF Runs
  <2>2. UNCHANGED <<starter, last>> /\ excused \subseteq excused'
    BY <1>GiveUp DEF GiveUp, config
  <2>3. CASE s # r
    <3>1. job'[s] = job[s] /\ reg'[s] = reg[s]
      BY <1>GiveUp, <2>1, <2>3
      DEF GiveUp, TypeOK, Slot!TypeOK, Slot!Requeue, Slot!End, Slot!Move, Tell
    <3>q. QED  BY <2>2, <3>1 DEF Live, Claimed, Unsettled
  <2>4. CASE s = r
    BY <1>GiveUp, <2>4 DEF GiveUp
  <2>q. QED  BY <2>3, <2>4
<1>Commit. ASSUME NEW r \in Runs, Commit(r)
      PROVE  LiveKept
  <2> SUFFICES ASSUME NEW kk \in Kinds \ excused', NEW j \in Ids, Live(kk, j)'
              PROVE  kk \notin excused /\ Live(kk, j) /\ last'[kk] = last[kk]
    BY DEF LiveKept
  <2> DEFINE s == <<kk, j>>
  <2>1. s \in Runs  BY DEF Runs
  <2>2. UNCHANGED <<starter, last>> /\ excused \subseteq excused'
    BY <1>Commit DEF Commit, config
  <2>3. CASE s # r
    <3>1. job'[s] = job[s] /\ reg'[s] = reg[s]
      BY <1>Commit, <2>1, <2>3
      DEF Commit, TypeOK, Slot!TypeOK, Slot!Succeed, Slot!End, Slot!Move, Tell
    <3>q. QED  BY <2>2, <3>1 DEF Live, Claimed, Unsettled
  <2>4. CASE s = r
    <3>1. Claimed(kk, j)
      BY <1>Commit, <2>1, <2>2, <2>4
      DEF Commit, Live, Claimed, Unsettled, Slot!Succeed, Slot!End, Slot!Move,
          TypeOK, Slot!TypeOK
    <3>q. QED  BY <2>2, <3>1 DEF Live
  <2>q. QED  BY <2>3, <2>4
<1>Finish. ASSUME NEW r \in Runs, NEW x \in Threads, NEW o \in Reported, Finish(r, x, o)
      PROVE  LiveKept
  <2> SUFFICES ASSUME NEW kk \in Kinds \ excused', NEW j \in Ids, Live(kk, j)'
              PROVE  kk \notin excused /\ Live(kk, j) /\ last'[kk] = last[kk]
    BY DEF LiveKept
  <2> DEFINE s == <<kk, j>>
  <2>1. s \in Runs  BY DEF Runs
  <2>2. UNCHANGED <<starter, last>> /\ excused \subseteq excused'
    BY <1>Finish DEF Finish, config
  <2>3. CASE s # r
    <3>1. job'[s] = job[s] /\ reg'[s] = reg[s]
      BY <1>Finish, <2>1, <2>3 DEF Finish, TypeOK, Slot!TypeOK, Tell
    <3>q. QED  BY <2>2, <3>1 DEF Live, Claimed, Unsettled
  <2>4. CASE s = r
    <3>1. Claimed(kk, j)
      BY <1>Finish, <2>1, <2>2, <2>4 DEF Finish, Tell, Live, Claimed, Final, TypeOK
    <3>q. QED  BY <2>2, <3>1 DEF Live
  <2>q. QED  BY <2>3, <2>4
<1>Crash. ASSUME Crash
      PROVE  LiveKept
  <2> SUFFICES ASSUME NEW kk \in Kinds \ excused', NEW j \in Ids, Live(kk, j)'
              PROVE  kk \notin excused /\ Live(kk, j) /\ last'[kk] = last[kk]
    BY DEF LiveKept
  <2> DEFINE s == <<kk, j>>
  <2>1. s \in Runs  BY DEF Runs
  <2>2. ~Claimed(kk, j)'
    <3>1. ASSUME NEW q \in Starters PROVE starter'[<<kk, q>>].pc = "idle"
      BY <1>Crash DEF Crash, Idle
    <3>q. QED  BY <3>1 DEF Claimed
  <2>3. PICK resumed \in SUBSET {r \in Runs : job[r] = "running"} :
          /\ reg'[s] = Interrupted(s, resumed)
          /\ job'[s] = IF job[s] # "running" THEN job[s] 
                       ELSE IF s \in resumed THEN "waiting" ELSE "ended"
          /\ excused' = excused \cup {r[1] : r \in {q \in resumed : reg[q] \in Final}}
    BY <1>Crash, <2>1 DEF Crash
  <2>4. s \in resumed => reg[s] \notin Final  BY <2>3
  <2>5. Unsettled(s) /\ reg[s] \notin Final
    BY <2>2, <2>3, <2>4 DEF Live, Unsettled, Interrupted
  <2>q. QED  BY <1>Crash, <2>3, <2>5 DEF Crash, config, Live
<1>1. ASSUME NEW k \in Kinds, Configure(k) \/ DelayElapses(k)
      PROVE  LiveKept
  BY <1>1, <1>u DEF Configure, DelayElapses, config
<1>2. ASSUME NEW r \in Runs, NEW x \in Threads, Check(r, x) \/ Remember(r, x)
      PROVE  LiveKept
  BY <1>2, <1>u DEF Check, Remember, Dates, Spaces, config
<1>3. ASSUME TimeReached \/ NextDay \/ UNCHANGED vars
      PROVE  LiveKept
  BY <1>3, <1>u DEF TimeReached, NextDay, vars, config
<1>q. QED
  BY NextCases, <1>u, <1>Decide, <1>Refused, <1>Claim, <1>Create, <1>Enqueue, <1>Begin,
     <1>Yield, <1>GiveUp, <1>Commit, <1>Finish, <1>Crash, <1>1, <1>2, <1>3

\* Whatever is live is the kind's last run.
LEMMA LiveStep ==
  ASSUME TypeOK, LiveIsLast, LiveKept
  PROVE  LiveIsLast'
<1> SUFFICES ASSUME NEW k \in Kinds \ excused', NEW i \in Ids, Live(k, i)'
             PROVE  i = last'[k]
  BY DEF LiveIsLast
<1>1. CASE ClaimsNow(k, i)  BY <1>1 DEF ClaimsNow, ClaimAs, TypeOK
<1>2. CASE k \notin excused /\ Live(k, i) /\ last'[k] = last[k]  BY <1>2 DEF LiveIsLast
<1>q. QED  BY <1>1, <1>2 DEF LiveKept

\* Days are taken from the clock, and the clock does not go back.
LEMMA PastStep ==
  ASSUME TypeOK, DatesPast, [Next]_vars
  PROVE  DatesPast'
<1>u. ASSUME UNCHANGED <<date, lastDate, today>>
      PROVE  DatesPast'
  BY <1>u DEF DatesPast, TypeOK
<1>Claim. ASSUME NEW k \in Kinds, NEW p \in Starters, Claim(k, p)
      PROVE  DatesPast'
  <2>1. PICK i \in Ids, d \in 1 .. MaxDay : ClaimAs(k, p, i, d)  BY <1>Claim DEF Claim
  <2>2. ASSUME NEW r \in Runs PROVE date'[r] = date[r] \/ date'[r] = d
    BY <2>1 DEF ClaimAs, TypeOK
  <2>q. QED  BY <2>1, <2>2 DEF ClaimAs, DatesPast, TypeOK, clock
<1>Remember. ASSUME NEW r \in Runs, NEW x \in Threads, Remember(r, x)
      PROVE  DatesPast'
  BY <1>Remember DEF Remember, DatesPast, TypeOK, Dates, Spaces, clock, Runs
<1>NextDay. ASSUME NextDay
      PROVE  DatesPast'
  BY <1>NextDay DEF NextDay, DatesPast, TypeOK, config
<1>1. ASSUME NEW k \in Kinds, Configure(k) \/ Decide(k) \/ Refused(k) \/ DelayElapses(k)
      PROVE  DatesPast'
  BY <1>1, <1>u DEF Configure, Decide, Refused, DelayElapses, config, clock
<1>2. ASSUME NEW k \in Kinds, NEW p \in Starters, Create(k, p) \/ Enqueue(k, p)
      PROVE  DatesPast'
  BY <1>2, <1>u DEF Create, Enqueue, config, clock
<1>3. ASSUME NEW r \in Runs, Begin(r) \/ Yield(r) \/ GiveUp(r) \/ Commit(r)
      PROVE  DatesPast'
  BY <1>3, <1>u DEF Begin, Yield, GiveUp, Commit, config, clock
<1>4. ASSUME NEW r \in Runs, NEW x \in Threads, Check(r, x)
      PROVE  DatesPast'
  BY <1>4, <1>u DEF Check, config, clock
<1>5. ASSUME NEW r \in Runs, NEW x \in Threads, NEW o \in Reported, Finish(r, x, o)
      PROVE  DatesPast'
  BY <1>5, <1>u DEF Finish, config, clock
<1>6. ASSUME TimeReached \/ Crash \/ UNCHANGED vars
      PROVE  DatesPast'
  BY <1>6, <1>u DEF TimeReached, Crash, vars, config, clock
<1>q. QED
  BY NextCases, <1>u, <1>Claim, <1>Remember, <1>NextDay, <1>1, <1>2, <1>3, <1>4, <1>5,
     <1>6

\* A step that claims run i of k claims nothing else.
LEMMA ClaimsOnce ==
  ASSUME TypeOK, NEW k \in Kinds, NEW p \in Starters, NEW i \in Ids, NEW d \in 1 .. MaxDay,
         ClaimAs(k, p, i, d), NEW kk \in Kinds, NEW j \in Ids, ClaimsNow(kk, j)
  PROVE  kk = k /\ j = i
<1>1. last'[kk] = j /\ last[kk] # j  BY DEF ClaimsNow, ClaimAs, Fresh, TypeOK
<1>q. QED  BY <1>1 DEF ClaimAs, TypeOK

\* A step that leaves last alone claims nothing.
LEMMA NoClaim ==
  ASSUME TypeOK, UNCHANGED last, NEW k \in Kinds, NEW i \in Ids
  PROVE  ~ClaimsNow(k, i)
BY DEF ClaimsNow, ClaimAs, Fresh, TypeOK

\* The days stay in order where no day, last run or thread is new.
LEMMA DaysKept ==
  ASSUME TypeOK, DaysInOrder, LiveKept, UNCHANGED <<last, lastDate, date>>,
         excused \subseteq excused',
         \A r \in Runs : thread'[r].new # "gone" => thread[r].new # "gone"
  PROVE  DaysInOrder'
<1> SUFFICES ASSUME NEW k \in Kinds \ (Backfilling \cup excused'), NEW i \in Ids, NEW j \in Ids
    PROVE  /\ Live(k, i)' \/ thread'[<<k, i>>].new # "gone" => date[<<k, i>>] >= lastDate[k]
           /\ Live(k, i)' /\ thread'[<<k, j>>].new # "gone" => date[<<k, i>>] >= date[<<k, j>>]
  BY DEF DaysInOrder
<1>1. Live(k, i)' => Live(k, i)  BY NoClaim DEF LiveKept
<1>2. <<k, i>> \in Runs /\ <<k, j>> \in Runs  BY DEF Runs
<1>q. QED  BY <1>1, <1>2 DEF DaysInOrder

\* A claim takes the current day, a start makes a thread of the live run, and
\* the thread that reports is the only one there is: whatever is live or still
\* to be written down stays at or after the day already done.
LEMMA DaysStep ==
  ASSUME TypeOK, Slot!OneRunning, ThreadHasSlot, EntryFollows, LiveIsLast, DatesPast,
         DaysInOrder, LiveKept, [Next]_vars
  PROVE  DaysInOrder'
<1>Configure. ASSUME NEW k \in Kinds, Configure(k)
      PROVE  DaysInOrder'
  <2>1. UNCHANGED <<last, lastDate, date>> /\ excused \subseteq excused'
    BY <1>Configure DEF Configure, config
  <2>2. \A s \in Runs : thread'[s].new # "gone" => thread[s].new # "gone"
    BY <1>Configure DEF Configure, TypeOK
  <2>q. QED  BY <2>1, <2>2, DaysKept
<1>Decide. ASSUME NEW k \in Kinds, Decide(k)
      PROVE  DaysInOrder'
  <2>1. UNCHANGED <<last, lastDate, date>> /\ excused \subseteq excused'
    BY <1>Decide DEF Decide, config
  <2>2. \A s \in Runs : thread'[s].new # "gone" => thread[s].new # "gone"
    BY <1>Decide DEF Decide, TypeOK
  <2>q. QED  BY <2>1, <2>2, DaysKept
<1>Refused. ASSUME NEW k \in Kinds, Refused(k)
      PROVE  DaysInOrder'
  <2>1. UNCHANGED <<last, lastDate, date>> /\ excused \subseteq excused'
    BY <1>Refused DEF Refused, config
  <2>2. \A s \in Runs : thread'[s].new # "gone" => thread[s].new # "gone"
    BY <1>Refused DEF Refused, TypeOK
  <2>q. QED  BY <2>1, <2>2, DaysKept
<1>Claim. ASSUME NEW k \in Kinds, NEW p \in Starters, Claim(k, p)
      PROVE  DaysInOrder'
  <2> SUFFICES ASSUME NEW kk \in Kinds \ (Backfilling \cup excused'),
                      NEW m \in Ids, NEW j \in Ids
    PROVE  /\ Live(kk, m)' \/ thread'[<<kk, m>>].new # "gone"
                => date'[<<kk, m>>] >= lastDate'[kk]
           /\ Live(kk, m)' /\ thread'[<<kk, j>>].new # "gone"
                => date'[<<kk, m>>] >= date'[<<kk, j>>]
    BY DEF DaysInOrder
  <2>r. <<kk, m>> \in Runs /\ <<kk, j>> \in Runs  BY DEF Runs
  <2>1. PICK i \in Ids, d \in 1 .. MaxDay : ClaimAs(k, p, i, d)  BY <1>Claim DEF Claim
  <2>2. UNCHANGED <<lastDate, thread>> /\ kk \notin Backfilling \cup excused
    BY <2>1 DEF ClaimAs
  <2>3. thread[<<k, i>>].new = "gone"  BY <2>1 DEF ClaimAs, Fresh, NoThread
  <2>4. ASSUME NEW n \in Ids, <<kk, n>> # <<k, i>>
    PROVE  date'[<<kk, n>>] = date[<<kk, n>>]
    <3>1. <<kk, n>> \in Runs  BY DEF Runs
    <3>q. QED  BY <2>1, <2>4, <3>1 DEF ClaimAs, TypeOK
  <2>5. CASE <<kk, m>> = <<k, i>>
    <3>1. date'[<<kk, m>>] = today  BY <2>1, <2>2, <2>5, <2>r DEF ClaimAs, TypeOK
    <3>2. lastDate[kk] <= today /\ date[<<kk, j>>] <= today  BY <2>r DEF DatesPast
    <3>3. today \in Nat /\ lastDate[kk] \in Nat /\ date[<<kk, j>>] \in Nat
      BY <2>r DEF TypeOK
    <3>4. date'[<<kk, j>>] = date[<<kk, j>>] \/ <<kk, j>> = <<kk, m>>  BY <2>4, <2>5
    <3>q. QED  BY <2>2, <3>1, <3>2, <3>3, <3>4
  <2>6. CASE <<kk, m>> # <<k, i>>
    <3>1. ~ClaimsNow(kk, m)  BY <2>1, <2>6, ClaimsOnce
    <3>2. Live(kk, m)' => Live(kk, m)  BY <3>1 DEF LiveKept
    <3>3. thread[<<kk, j>>].new # "gone" => date'[<<kk, j>>] = date[<<kk, j>>]
      BY <2>3, <2>4
    <3>q. QED  BY <2>2, <2>4, <2>6, <3>2, <3>3 DEF DaysInOrder
  <2>q. QED  BY <2>5, <2>6
<1>Create. ASSUME NEW k \in Kinds, NEW p \in Starters, Create(k, p)
      PROVE  DaysInOrder'
  <2>1. UNCHANGED <<last, lastDate, date>> /\ excused \subseteq excused'
    BY <1>Create DEF Create, config
  <2>2. \A s \in Runs : thread'[s].new # "gone" => thread[s].new # "gone"
    BY <1>Create DEF Create, TypeOK
  <2>q. QED  BY <2>1, <2>2, DaysKept
<1>Enqueue. ASSUME NEW k \in Kinds, NEW p \in Starters, Enqueue(k, p)
      PROVE  DaysInOrder'
  <2>1. UNCHANGED <<last, lastDate, date>> /\ excused \subseteq excused'
    BY <1>Enqueue DEF Enqueue, config
  <2>2. \A s \in Runs : thread'[s].new # "gone" => thread[s].new # "gone"
    BY <1>Enqueue DEF Enqueue, TypeOK
  <2>q. QED  BY <2>1, <2>2, DaysKept
<1>DelayElapses. ASSUME NEW k \in Kinds, DelayElapses(k)
      PROVE  DaysInOrder'
  <2>1. UNCHANGED <<last, lastDate, date>> /\ excused \subseteq excused'
    BY <1>DelayElapses DEF DelayElapses, config
  <2>2. \A s \in Runs : thread'[s].new # "gone" => thread[s].new # "gone"
    BY <1>DelayElapses DEF DelayElapses, TypeOK
  <2>q. QED  BY <2>1, <2>2, DaysKept
<1>Begin. ASSUME NEW r \in Runs, Begin(r)
      PROVE  DaysInOrder'
  <2> SUFFICES ASSUME NEW kk \in Kinds \ (Backfilling \cup excused'),
                      NEW m \in Ids, NEW j \in Ids
    PROVE  /\ Live(kk, m)' \/ thread'[<<kk, m>>].new # "gone"
                => date'[<<kk, m>>] >= lastDate'[kk]
           /\ Live(kk, m)' /\ thread'[<<kk, j>>].new # "gone"
                => date'[<<kk, m>>] >= date'[<<kk, j>>]
    BY DEF DaysInOrder
  <2>r. <<kk, m>> \in Runs /\ <<kk, j>> \in Runs  BY DEF Runs
  <2>1. UNCHANGED <<last, lastDate, date, excused>>  BY <1>Begin DEF Begin, config
  <2>2. Live(kk, m)' => Live(kk, m)  BY <2>1, NoClaim DEF LiveKept
  <2>3. ASSUME NEW n \in Ids, thread'[<<kk, n>>].new # "gone"
        PROVE  thread[<<kk, n>>].new # "gone" \/ Live(kk, n)
    <3>1. <<kk, n>> \in Runs  BY DEF Runs
    <3>2. CASE <<kk, n>> # r  BY <1>Begin, <2>3, <3>1, <3>2 DEF Begin, TypeOK
    <3>3. CASE <<kk, n>> = r
      <4>1. job[r] = "waiting"  BY <1>Begin DEF Begin, Slot!Start, Slot!Move
      <4>2. reg[r] = "queued"  BY <2>1, <3>1, <3>3, <4>1 DEF EntryFollows
      <4>q. QED  BY <3>3, <4>1, <4>2 DEF Live, Unsettled, Final
    <3>q. QED  BY <3>2, <3>3
  <2>4. kk \notin Backfilling \cup excused  BY <2>1
  <2>5. Live(kk, m) \/ thread[<<kk, m>>].new # "gone" => date[<<kk, m>>] >= lastDate[kk]
    BY <2>4 DEF DaysInOrder
  <2>6. Live(kk, m) /\ thread[<<kk, j>>].new # "gone" => date[<<kk, m>>] >= date[<<kk, j>>]
    BY <2>4 DEF DaysInOrder
  <2>7. Live(kk, m) /\ Live(kk, j) => m = j  BY <2>4 DEF LiveIsLast
  <2>8. date[<<kk, m>>] \in Nat  BY <2>r DEF TypeOK
  <2>q. QED  BY <2>1, <2>2, <2>3, <2>5, <2>6, <2>7, <2>8
<1>Yield. ASSUME NEW r \in Runs, Yield(r)
      PROVE  DaysInOrder'
  <2>1. UNCHANGED <<last, lastDate, date>> /\ excused \subseteq excused'
    BY <1>Yield DEF Yield, config
  <2>2. \A s \in Runs : thread'[s].new # "gone" => thread[s].new # "gone"
    BY <1>Yield DEF Yield, TypeOK
  <2>q. QED  BY <2>1, <2>2, DaysKept
<1>GiveUp. ASSUME NEW r \in Runs, GiveUp(r)
      PROVE  DaysInOrder'
  <2>1. UNCHANGED <<last, lastDate, date>> /\ excused \subseteq excused'
    BY <1>GiveUp DEF GiveUp, config
  <2>2. \A s \in Runs : thread'[s].new # "gone" => thread[s].new # "gone"
    BY <1>GiveUp DEF GiveUp, TypeOK
  <2>q. QED  BY <2>1, <2>2, DaysKept
<1>Commit. ASSUME NEW r \in Runs, Commit(r)
      PROVE  DaysInOrder'
  <2>1. UNCHANGED <<last, lastDate, date>> /\ excused \subseteq excused'
    BY <1>Commit DEF Commit, config
  <2>2. \A s \in Runs : thread'[s].new # "gone" => thread[s].new # "gone"
    BY <1>Commit DEF Commit, TypeOK
  <2>q. QED  BY <2>1, <2>2, DaysKept
<1>Check. ASSUME NEW r \in Runs, NEW x \in Threads, Check(r, x)
      PROVE  DaysInOrder'
  <2>1. UNCHANGED <<last, lastDate, date>> /\ excused \subseteq excused'
    BY <1>Check DEF Check, config
  <2>2. \A s \in Runs : thread'[s].new # "gone" => thread[s].new # "gone"
    BY <1>Check DEF Check, TypeOK, Threads
  <2>q. QED  BY <2>1, <2>2, DaysKept
<1>Finish. ASSUME NEW r \in Runs, NEW x \in Threads, NEW o \in Reported, Finish(r, x, o)
      PROVE  DaysInOrder'
  <2>1. UNCHANGED <<last, lastDate, date>> /\ excused \subseteq excused'
    BY <1>Finish DEF Finish, config
  <2>2. \A s \in Runs : thread'[s].new # "gone" => thread[s].new # "gone"
    BY <1>Finish DEF Finish, TypeOK, Threads
  <2>q. QED  BY <2>1, <2>2, DaysKept
<1>Remember. ASSUME NEW r \in Runs, NEW x \in Threads, Remember(r, x)
      PROVE  DaysInOrder'
  <2> SUFFICES ASSUME NEW kk \in Kinds \ (Backfilling \cup excused'),
                      NEW m \in Ids, NEW j \in Ids
    PROVE  /\ Live(kk, m)' \/ thread'[<<kk, m>>].new # "gone"
                => date'[<<kk, m>>] >= lastDate'[kk]
           /\ Live(kk, m)' /\ thread'[<<kk, j>>].new # "gone"
                => date'[<<kk, m>>] >= date'[<<kk, j>>]
    BY DEF DaysInOrder
  <2>r. <<kk, m>> \in Runs /\ <<kk, j>> \in Runs  BY DEF Runs
  <2>1. UNCHANGED <<last, date, excused>>  BY <1>Remember DEF Remember
  <2>2. Live(kk, m)' => Live(kk, m)  BY <2>1, NoClaim DEF LiveKept
  <2>3. \A s \in Runs : thread'[s].new # "gone" => thread[s].new # "gone"
    BY <1>Remember DEF Remember, TypeOK, Threads
  <2>4. CASE kk # r[1]
    <3>1. lastDate'[kk] = lastDate[kk]
      BY <1>Remember, <2>4 DEF Remember, Dates, Spaces, TypeOK
    <3>q. QED  BY <2>1, <2>2, <2>3, <2>r, <3>1 DEF DaysInOrder
  <2>5. CASE kk = r[1]
    <3>1. r = <<kk, r[2]>> /\ r[2] \in Ids  BY <2>5 DEF Runs
    <3>2. x = "new" /\ thread[r].new # "gone"
      BY <1>Remember, <2>1, <2>5 DEF Remember, EntryFollows, Reported, Threads
    <3>3. thread'[<<kk, m>>].new = "gone"
      <4>1. CASE <<kk, m>> = r  BY <1>Remember, <3>2, <4>1, ZenonT(40) DEF Remember, TypeOK
      <4>2. CASE <<kk, m>> # r
        BY <2>3, <2>r, <3>2, <4>2 DEF ThreadHasSlot, Slot!OneRunning
      <4>q. QED  BY <4>1, <4>2
    <3>4. lastDate'[kk] = lastDate[kk] \/ lastDate'[kk] = date[r]
      BY <1>Remember, <2>5 DEF Remember, Dates, Spaces, TypeOK
    <3>5. Live(kk, m) => date[<<kk, m>>] >= date[r]  BY <2>1, <3>1, <3>2 DEF DaysInOrder
    <3>q. QED  BY <2>1, <2>2, <2>3, <2>r, <3>3, <3>4, <3>5 DEF DaysInOrder
  <2>q. QED  BY <2>4, <2>5
<1>TimeReached. ASSUME TimeReached
      PROVE  DaysInOrder'
  <2>1. UNCHANGED <<last, lastDate, date>> /\ excused \subseteq excused'
    BY <1>TimeReached DEF TimeReached, config
  <2>2. \A s \in Runs : thread'[s].new # "gone" => thread[s].new # "gone"
    BY <1>TimeReached DEF TimeReached, TypeOK
  <2>q. QED  BY <2>1, <2>2, DaysKept
<1>NextDay. ASSUME NextDay
      PROVE  DaysInOrder'
  <2>1. UNCHANGED <<last, lastDate, date>> /\ excused \subseteq excused'
    BY <1>NextDay DEF NextDay, config
  <2>2. \A s \in Runs : thread'[s].new # "gone" => thread[s].new # "gone"
    BY <1>NextDay DEF NextDay, TypeOK
  <2>q. QED  BY <2>1, <2>2, DaysKept
<1>Crash. ASSUME Crash
      PROVE  DaysInOrder'
  <2>1. UNCHANGED <<last, lastDate, date>> /\ excused \subseteq excused'
    BY <1>Crash DEF Crash, config
  <2>2. \A s \in Runs : thread'[s].new # "gone" => thread[s].new # "gone"
    BY <1>Crash DEF Crash, TypeOK, NoThread
  <2>q. QED  BY <2>1, <2>2, DaysKept
<1>UNCHANGED. ASSUME UNCHANGED vars
      PROVE  DaysInOrder'
  <2>1. UNCHANGED <<last, lastDate, date, excused, thread>>  BY <1>UNCHANGED DEF vars
  <2>q. QED  BY <2>1, DaysKept
<1>q. QED
  BY NextCases, <1>Configure, <1>Decide, <1>Refused, <1>Claim, <1>Create, <1>Enqueue,
     <1>DelayElapses, <1>Begin, <1>Yield, <1>GiveUp, <1>Commit, <1>Check, <1>Finish,
     <1>Remember, <1>TimeReached, <1>NextDay, <1>Crash, <1>UNCHANGED

-----------------------------------------------------------------------------

\* Initially nothing runs, is held or is dated.
LEMMA InvInit == Init => IInv
<1> SUFFICES ASSUME Init PROVE IInv
  OBVIOUS
<1>1. TypeOK
  <2>1. /\ 0 \in 0 .. MaxDay /\ 1 \in 1 .. MaxDay
        /\ 0 \in 0 .. MaxCrashes /\ 0 \in 0 .. MaxGiveUps
    BY SchedulerAssumption DEF SchedulerAssumption
  <2>2. starter \in [Kinds \X Starters ->
          [pc : {"idle", "decided", "claimed", "created"}, id : Ids \cup {NoId}]]
    BY DEF Init, Idle
  <2>3. thread \in [Runs -> [new : ThreadState, late : ThreadState]]
    BY DEF Init, NoThread, ThreadState
  <2>4. Slot!TypeOK
    BY DEF Init, Slot!Init, Slot!TypeOK, Slot!State
  <2>q. QED
    BY <2>1, <2>2, <2>3, <2>4 DEF Init, TypeOK
<1>2. \A r \in Runs : job[r] = "new" /\ thread[r].new = "gone" /\ thread[r].late = "gone"
  BY DEF Init, Slot!Init, NoThread
<1>3. \A k \in Kinds, p \in Starters : ~Holds(k, p)
  BY DEF Init, Holds, Idle
<1>4. \A k \in Kinds, i \in Ids : ~Live(k, i)
  <2> SUFFICES ASSUME NEW k \in Kinds, NEW i \in Ids PROVE ~Live(k, i)
    OBVIOUS
  <2>1. ~Claimed(k, i)
    BY <1>3 DEF Claimed, Holds
  <2>2. ~Unsettled(<<k, i>>)
    BY <1>2 DEF Unsettled, Runs
  <2>q. QED
    BY <2>1, <2>2 DEF Live
<1>5. ActiveIsCarried
  BY DEF Init, ActiveIsCarried, Active
<1>6. Slot!OneRunning /\ ThreadHasSlot /\ QueuedIsKnown /\ EntryFollows
  BY <1>2 DEF Slot!OneRunning, ThreadHasSlot, QueuedIsKnown, EntryFollows, Unsettled
<1>7. HeldIsNew /\ HeldByOne
  BY <1>3 DEF HeldIsNew, HeldByOne
<1>8. LiveIsLast
  BY <1>4 DEF LiveIsLast
<1>9. DatesPast
  BY DEF Init, DatesPast
<1>10. DaysInOrder
  BY <1>2, <1>4 DEF DaysInOrder, Runs
<1>q. QED
  BY <1>1, <1>5, <1>6, <1>7, <1>8, <1>9, <1>10 DEF IInv

\* The invariant's parts support each other: no step breaks it.
LEMMA InvStep == IInv /\ [Next]_vars => IInv'
<1> SUFFICES ASSUME IInv, [Next]_vars PROVE IInv'
  OBVIOUS
<1> USE DEF IInv
<1>1. TypeOK' /\ ActiveIsCarried' /\ Slot!OneRunning' /\ ThreadHasSlot'
  BY TypeStep, ActiveStep, SlotStep, ThreadStep
<1>2. HeldIsNew' /\ HeldByOne' /\ QueuedIsKnown' /\ EntryFollows'
  BY HeldStep, OneStep, KnownStep, EntryStep
<1>3. LiveKept
  BY LiveBefore
<1>4. LiveIsLast' /\ DatesPast' /\ DaysInOrder'
  BY <1>3, LiveStep, PastStep, DaysStep
<1>q. QED
  BY <1>1, <1>2, <1>4

\* The inductive invariant holds in every state the schedulers reach.
THEOREM InvCorrect == Spec => []IInv
BY InvInit, InvStep, PTL DEF Spec

\* Every state the schedulers reach is well typed: no day lies outside the
\* calendar and no entry has a status the registry does not have.
THEOREM TypeCorrect == Spec => []TypeOK
<1>1. IInv => TypeOK  BY DEF IInv
<1>q. QED  BY <1>1, InvCorrect, PTL

\* No crash, watchdog or interleaving leaves an active entry that nobody will
\* settle, so no kind waits for ever for its last task.
THEOREM ActiveCorrect == Spec => []ActiveIsCarried
<1>1. IInv => ActiveIsCarried  BY DEF IInv
<1>q. QED  BY <1>1, InvCorrect, PTL

\* A kind has one run at work at a time unless one of the three gaps was met:
\* two starts at once, a thread given up, a closed run queued again.
THEOREM OneAtWorkCorrect == Spec => []OneAtWork
<1>1. IInv => OneAtWork
  <2> SUFFICES ASSUME IInv, NEW k \in Kinds \ excused, NEW i \in Ids, NEW j \in Ids,
                      Unsettled(<<k, i>>), Unsettled(<<k, j>>),
                      reg[<<k, i>>] \notin Final, reg[<<k, j>>] \notin Final
               PROVE  i = j
    BY DEF OneAtWork
  <2>1. Live(k, i) /\ Live(k, j)
    BY DEF Live
  <2>q. QED
    BY <2>1 DEF IInv, LiveIsLast
<1>q. QED
  BY <1>1, InvCorrect, PTL

\* The day that counts as done never goes back, though runs report late, fail
\* and are interrupted, and administrators start more of them.
THEOREM DayCorrect == Spec => DoneDayAdvances
<1>1. ASSUME IInv, Next, NEW k \in Kinds \ (Backfilling \cup excused')
      PROVE  lastDate'[k] >= lastDate[k]
  <2>1. lastDate[k] \in Nat
    BY <1>1 DEF IInv, TypeOK
  <2>2. CASE \E r \in Runs, x \in Threads : Remember(r, x)
    <3>1. PICK r \in Runs, x \in Threads : Remember(r, x)
      BY <2>2
    <3>2. CASE r[1] # k
      BY <1>1, <2>1, <3>1, <3>2 DEF Remember, Dates, Spaces, IInv, TypeOK
    <3>3. CASE r[1] = k
      <4>1. r = <<k, r[2]>> /\ r[2] \in Ids /\ k \notin excused
        BY <1>1, <3>1, <3>3 DEF Runs, Remember
      <4>2. x = "new" /\ thread[r].new # "gone"
        BY <1>1, <3>1, <4>1 DEF Remember, EntryFollows, Reported, Threads, IInv
      <4>3. date[r] >= lastDate[k]
        BY <1>1, <4>1, <4>2 DEF DaysInOrder, IInv
      <4>4. lastDate'[k] = lastDate[k] \/ lastDate'[k] = date[r]
        BY <1>1, <3>1, <3>3 DEF Remember, Dates, Spaces, IInv, TypeOK
      <4>q. QED
        BY <2>1, <4>3, <4>4
    <3>q. QED
      BY <3>2, <3>3
  <2>3. CASE ~ \E r \in Runs, x \in Threads : Remember(r, x)
    <3>1. lastDate' = lastDate
      BY <1>1, <2>3, ZenonT(40)
      DEF Next, LoopStep, StartStep, HandlerStep, QueueStep, Configure, Decide, Refused,
          Claim, ClaimAs, Create, Enqueue, DelayElapses, Begin, Yield, GiveUp, Commit,
          Check, Finish, TimeReached, NextDay, Crash, config
    <3>q. QED
      BY <2>1, <3>1
  <2>q. QED
    BY <2>2, <2>3
<1>2. IInv /\ [Next]_vars =>
        [\A k \in Kinds \ (Backfilling \cup excused') : lastDate'[k] >= lastDate[k]]_vars
  BY <1>1
<1>q. QED
  BY <1>2, InvCorrect, PTL DEF Spec, DoneDayAdvances
=============================================================================
