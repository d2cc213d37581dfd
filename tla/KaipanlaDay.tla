---------------------------- MODULE KaipanlaDay ----------------------------
(***************************************************************************)
(* The records of kaipanla.py: the batch that collects the features of a    *)
(* trading day, the repair of a day's history, and the overview, which      *)
(* shows of each feature the record saved last.                            *)
(*                                                                         *)
(* Records are only added, or marked as archived.  The batch has no place   *)
(* to resume at: when it gave way, was given up or was interrupted it       *)
(* begins with the first feature again, and a thread the watchdog gave up   *)
(* may still save what it is reading.  The repair runs in another process.  *)
(***************************************************************************)
EXTENDS Naturals, FiniteSets, FiniteSetsExt, Sequences, KaipanlaEndpoints

CONSTANTS
  Days,        \* trading days, in their order
  Occupied,    \* the heights at which some stock stands, every day
  Selections,  \* the lists of features the batch may be configured with
  MaxClock,    \* bound: seconds at which something is saved
  MaxStarts,   \* bound: batches, crashes, giving way or up, together
  MaxRepairs,  \* bound: repairs
  RepairDays   \* bound: the days that are repaired

ASSUME KaipanlaAssumption ==
  /\ Days \subseteq Nat \ {0} /\ IsFiniteSet(Days) /\ Cardinality(Days) > 1
  /\ Occupied \subseteq Nat \ {0} /\ IsFiniteSet(Occupied) /\ Occupied # {}
  /\ \A q \in Selections : DOMAIN q = 1 .. Len(q) /\ Len(q) > 0
  /\ MaxClock \in Nat /\ MaxStarts \in Nat /\ MaxRepairs \in Nat /\ RepairDays \subseteq Days

VARIABLES
  records,   \* the collection
  batch,     \* the batch: its newest thread, and one that was given up
  repair,    \* the repair
  Selected,  \* the features of the batch, in order, as configured
  done,      \* days the scheduler counts as done
  today, now, starts, repairs

vars == <<records, batch, repair, Selected, done, today, now, starts, repairs>>

RepairFeatures == <<"consecutive_limit_up", "market_limit_up_ladder",
                    "new_high_data", "sharp_withdrawal">>
Features == (UNION {{q[i] : i \in DOMAIN q} : q \in Selections})
            \cup {RepairFeatures[i] : i \in DOMAIN RepairFeatures}
            \cup {"realtime_sharp_withdrawal", "daily_data"}
Top   == Max(Occupied)
\* The number in a result that a figure of the overview is read from, if any.
Value == {{}} \cup {{n} : n \in 0 .. Top}
Record == [feature : Features, day : Days, value : Value, at : 0 .. MaxClock,
           run : 0 .. MaxStarts + MaxRepairs, archived : BOOLEAN, exact : BOOLEAN]
Batches == {"new", "late"}
\* A thread of the batch: its day and run, the feature it has come to, whether one has
\* failed, the numbers it has read.
Thread == [pc : {"idle", "queued", "check", "save"}, day : Days \cup {0}, run : 0 .. MaxStarts,
           i : Nat \ {0}, failed : BOOLEAN, value : Value]
Idle   == [pc |-> "idle", day |-> 0, run |-> 0, i |-> 1, failed |-> FALSE, value |-> {}]
\* The repair: likewise, the numbers of its four features and the records they replace.
Mender == [pc : {"idle", "save", "archive"}, day : Days \cup {0}, run : 0 .. MaxStarts + MaxRepairs,
           i : 1 .. Len(RepairFeatures) + 1, live : {<<>>} \cup (Value \X Value \X Value \X Value),
           old : SUBSET Record]
Rested == [pc |-> "idle", day |-> 0, run |-> 0, i |-> 1, live |-> <<>>, old |-> {}]

TypeOK ==
  /\ records \subseteq Record
  /\ batch \in [Batches -> Thread] /\ \A t \in Batches : batch[t].i <= Len(Selected) + 1
  /\ repair \in Mender
  /\ Selected \in Selections /\ done \subseteq Days
  /\ today \in Days /\ now \in 0 .. MaxClock /\ starts \in 0 .. MaxStarts
  /\ repairs \in 0 .. MaxRepairs

Fact(f, d, v, t) == [feature |-> f, day |-> d, value |-> {v}, at |-> t,
                     run |-> 0, archived |-> FALSE, exact |-> TRUE]

\* A live record from before the days were written down: its day was taken from
\* the time of saving.
Derived == [Fact("realtime_sharp_withdrawal", Min(Days), 1, 0) EXCEPT !.exact = FALSE]

Init ==
  /\ records = {Derived, Fact("daily_data", Min(Days), 1, 0),
                Fact("consecutive_limit_up", Min(Days), Top, 0),
                Fact("sharp_withdrawal", Min(Days), 1, 0)}
  /\ batch = [t \in Batches |-> Idle]
  /\ repair = Rested
  /\ Selected \in Selections /\ done = {}
  /\ today = Min(Days \ {Min(Days)}) /\ now = 0 /\ starts = 0 /\ repairs = 0

-----------------------------------------------------------------------------
(* The overview: kaipanla_daily_overview *)

Visible == {r \in records : ~r.archived}

\* _kaipanla_records_for_date: a derived day is not believed.
OfDay(d) == {r \in Visible : r.day = d /\ r.exact}

\* The record saved last; of several in one second, any.
Newest(d, f) == {r \in OfDay(d) : r.feature = f /\ \A s \in OfDay(d) : s.feature = f => s.at <= r.at}
Values(d, f) == IF Newest(d, f) = {} THEN {{}} ELSE {r.value : r \in Newest(d, f)}

HasPacket(d) == \E r \in OfDay(d) : r.feature = "daily_data"

\* Mutant: the fallback forgets the day that was asked for.
LatestDayEver(upper, packet) ==
  LET from(p) == {r.day : r \in {x \in Visible : p => x.feature = "daily_data"}} IN
  IF from(packet) # {} THEN Max(from(packet)) ELSE IF from(FALSE) # {} THEN Max(from(FALSE)) ELSE 0

\* The last day up to a bound with a daily packet, else with any record, else
\* the last day of all.
LatestDay(upper, packet) ==
  LET from(u, p) == {r.day : r \in {x \in Visible : x.day <= u /\ (p => x.feature = "daily_data")}} IN
  IF from(upper, packet) # {} THEN Max(from(upper, packet))
  ELSE IF from(upper, FALSE) # {} THEN Max(from(upper, FALSE))
  ELSE IF from(Max(Days), FALSE) # {} THEN Max(from(Max(Days), FALSE))
  ELSE 0

\* The day shown when one is asked for; 0 asks for the latest.
ShownFor(asked) ==
  IF asked = 0 THEN LatestDay(Max(Days), TRUE)
  ELSE IF HasPacket(asked) \/ LatestDay(asked, TRUE) = 0 THEN asked ELSE LatestDay(asked, TRUE)

\* The figures of a day: every number that may be shown.
Highest(a, b) ==
  IF a \cap Occupied # {} THEN a ELSE IF b \cap Occupied # {} THEN b ELSE a \cup b
Kpi(label, d) ==
  CASE label = "up"   -> Values(d, "daily_data")
    [] label = "top"  -> {Highest(a, b) : a \in Values(d, "consecutive_limit_up"),
                                          b \in Values(d, "market_limit_up_ladder")}
    [] label = "high" -> Values(d, "new_high_data")
    [] label = "back" -> IF Newest(d, "sharp_withdrawal") = {}
                         THEN Values(d, "realtime_sharp_withdrawal")
                         ELSE Values(d, "sharp_withdrawal")

\* A figure is certain to be there and not zero.
Solid(label, d) == \A v \in Kpi(label, d) : v # {} /\ 0 \notin v

-----------------------------------------------------------------------------
(* Collecting: run_kaipanla_feature *)

Number(result) == CASE result = "rows" -> {1} [] result = "raises" -> {} [] OTHER -> {0}

\* The numbers the overview may find in a result.
Reading(f) ==
  CASE f = "daily_data" ->
         {Number(DailyData([i \in 1 .. 1 |-> a])) : a \in Answers}
    [] f = "consecutive_limit_up" ->
         {{ConsecutiveLimitUp(s, Occupied)} : s \in SUBSET Occupied}
    [] f = "market_limit_up_ladder" ->
         {IF MarketLimitUpLadder(a) = "rows" THEN {Top} ELSE {0} : a \in Answers}
    [] f = "realtime_sharp_withdrawal" ->
         {IF RealtimeWithdrawal(a) = "blank" THEN {} ELSE Number(RealtimeWithdrawal(a)) : a \in Answers}
    [] OTHER -> {Number(Single(f, a)) : a \in {x \in Answers : Single(f, x) # "raises"}}

MayRaise(f) == f \in SingleFeatures /\ \E a \in Answers : Single(f, a) = "raises"

\* save_kaipanla_record: the id is made of feature, second and run.
Saved(f, w, v) ==
  {r \in records : r.feature # f \/ r.at # now \/ r.run # w.run}
  \cup {[feature |-> f, day |-> w.day, value |-> v, at |-> now, run |-> w.run,
         archived |-> FALSE, exact |-> TRUE]}

-----------------------------------------------------------------------------
(* The batch: run_kaipanla_batch under KaipanlaScheduler._run_task *)

SetBatch(t, b) == batch' = [batch EXCEPT ![t] = b]
\* Mutant: the feature is counted by its save, and by the loop.
NextFeatureTwice(b) == [b EXCEPT !.pc = "check", !.i = @ + 2, !.value = {}]

NextFeature(b) == [b EXCEPT !.pc = "check", !.i = @ + 1, !.value = {}]

Counted1 == starts < MaxStarts /\ starts' = starts + 1

StartBatch ==
  /\ batch["new"].pc = "idle" /\ Counted1
  /\ SetBatch("new", [Idle EXCEPT !.pc = "queued", !.day = today, !.run = starts'])
  /\ UNCHANGED <<records, repair, done, today, now, repairs, Selected>>

\* Nothing of an earlier attempt is remembered.
RunBatch ==
  /\ batch["new"].pc = "queued"
  /\ SetBatch("new", [batch["new"] EXCEPT !.pc = "check", !.i = 1, !.failed = FALSE,
                                               !.value = {}])
  /\ UNCHANGED <<records, repair, done, today, now, starts, repairs, Selected>>

Failed(b) == [NextFeature(b) EXCEPT !.failed = TRUE]

\* The checkpoint before a feature, and the reading of it, which touches nothing
\* shared; or the batch gives way, or finds its attempt given up.
Collect(t) ==
  LET b == batch[t] IN
  /\ b.pc = "check" /\ b.i <= Len(Selected)
  /\ \/ t = "late" /\ SetBatch(t, Idle) /\ UNCHANGED starts
     \/ t = "new" /\ SetBatch(t, [b EXCEPT !.pc = "queued"]) /\ Counted1
     \/ /\ t = "new" /\ UNCHANGED starts
        /\ \/ \E v \in Reading(Selected[b.i]) : SetBatch(t, [b EXCEPT !.pc = "save", !.value = v])
           \/ MayRaise(Selected[b.i]) /\ SetBatch(t, Failed(b))
  /\ UNCHANGED <<records, repair, done, today, now, repairs, Selected>>

\* save_kaipanla_result; an exception of MongoDB is one of the feature.
SaveFeature(t) ==
  LET b == batch[t] IN
  /\ b.pc = "save"
  /\ \/ /\ records' = Saved(Selected[b.i], b, b.value)
        /\ SetBatch(t, NextFeature(b))
     \/ /\ records' = records
        /\ SetBatch(t, Failed(b))
  /\ UNCHANGED <<repair, done, today, now, starts, repairs, Selected>>

\* Mutant: every result but an exception of the batch itself is a success.
BatchOkAlways(b) == TRUE

BatchOk(b) == ~b.failed

FinishBatch(t) ==
  LET b == batch[t] IN
  /\ b.pc = "check" /\ b.i > Len(Selected)
  /\ SetBatch(t, Idle)
  /\ done' = IF t = "new" /\ BatchOk(b) THEN done \cup {b.day} ELSE done
  /\ UNCHANGED <<records, repair, today, now, starts, repairs, Selected>>

\* The watchdog: the item is queued again, the thread stays.
GiveUp ==
  /\ batch["new"].pc = "save" /\ batch["late"].pc = "idle" /\ Counted1
  /\ batch' = [new |-> [batch["new"] EXCEPT !.pc = "queued"], late |-> batch["new"]]
  /\ UNCHANGED <<records, repair, done, today, now, repairs, Selected>>

-----------------------------------------------------------------------------
(* The repair: repair_kaipanla_overview_history *)

\* Mutant: the figures are not looked at.
ValidAlways(l) == TRUE

\* Every figure has to be there, whichever record the height is from.
Valid(l) == \A v \in {Highest(l[1], l[2]), l[3], l[4]} : v # {} /\ 0 \notin v

\* The four features are read, their figures looked up by the overview's own code,
\* and the records to replace noted.  A dry run, or a bad figure, ends here.
StartRepair ==
  \E d \in RepairDays, l \in Reading(RepairFeatures[1]) \X Reading(RepairFeatures[2])
                     \X Reading(RepairFeatures[3]) \X Reading(RepairFeatures[4]) :
    /\ d <= today
    /\ repair.pc = "idle" /\ Valid(l)
    /\ repairs < MaxRepairs /\ repairs' = repairs + 1
    /\ repair' = [pc |-> "save", day |-> d, run |-> MaxStarts + repairs', i |-> 1, live |-> l,
                  old |-> {r \in OfDay(d) : \E i \in 1 .. 4 : r.feature = RepairFeatures[i]}]
    /\ UNCHANGED <<records, batch, done, today, now, starts, Selected>>

SaveRepaired ==
  /\ repair.pc = "save"
  /\ \/ /\ records' = Saved(RepairFeatures[repair.i], repair, repair.live[repair.i])
        /\ repair' = [repair EXCEPT !.i = @ + 1, !.pc = IF repair.i = 4 THEN "archive" ELSE @]
     \/ /\ records' = records /\ repair' = Rested
  /\ UNCHANGED <<batch, done, today, now, starts, repairs, Selected>>

\* Mutant: what is archived is looked up again.
ToArchiveNow == {r \in OfDay(repair.day) : \E i \in 1 .. 4 : r.feature = RepairFeatures[i]}

ToArchive == repair.old

ArchiveOld ==
  /\ repair.pc = "archive"
  /\ records' = {IF r \in ToArchive THEN [r EXCEPT !.archived = TRUE] ELSE r : r \in records}
  /\ repair' = Rested
  /\ UNCHANGED <<batch, done, today, now, starts, repairs, Selected>>

-----------------------------------------------------------------------------

Tick    == /\ now < MaxClock /\ now' = now + 1
           /\ UNCHANGED <<records, batch, repair, done, today, starts, repairs, Selected>>
NextDay == /\ today < Max(Days) /\ today' = Min({d \in Days : d > today})
           /\ UNCHANGED <<records, batch, repair, done, now, starts, repairs, Selected>>

\* A batch that had passed a checkpoint is queued again.
Crash ==
  /\ Counted1
  /\ batch' = [new |-> IF batch["new"].pc \in {"idle", "queued"} THEN batch["new"]
                       ELSE [batch["new"] EXCEPT !.pc = "queued"],
               late |-> Idle]
  /\ repair' = Rested
  /\ UNCHANGED <<records, done, today, now, repairs, Selected>>

Repair == StartRepair \/ SaveRepaired \/ ArchiveOld
Next ==
  \/ StartBatch \/ RunBatch \/ GiveUp
  \/ \E t \in Batches : Collect(t) \/ SaveFeature(t) \/ FinishBatch(t)
  \/ Repair \/ Tick \/ NextDay \/ Crash

Spec == Init /\ [][Next]_vars

-----------------------------------------------------------------------------

\* A day that was asked for is shown by a daily packet, and none later than it,
\* as soon as there is a packet of that day or an earlier one; however records
\* without a day of their own lie about.
PacketIsShown ==
  \A d \in Days : (\E r \in Visible : r.feature = "daily_data" /\ r.day <= d) =>
    HasPacket(ShownFor(d)) /\ ShownFor(d) <= d

\* A feature that raises whenever it has no rows.
GivesRows(f) == f \in SingleFeatures /\ \A a \in Answers : Single(f, a) \in {"rows", "raises"}

\* A day the scheduler counts as done has a record of every feature the batch was
\* to collect, and rows of those whose failures are all seen; the others may have
\* failed and left zeros.
DoneDayIsRecorded ==
  \A d \in done, f \in {Selected[i] : i \in DOMAIN Selected} :
    \E r \in OfDay(d) : r.feature = f /\ (GivesRows(f) => r.value = {1})

\* Nothing is archived but for a record of the same feature and day that is
\* visible and was not saved earlier, whatever the batch saves meanwhile and
\* wherever the repair is cut short.
ArchivedIsReplaced ==
  \A r \in records : r.archived =>
    \E s \in OfDay(r.day) : s.feature = r.feature /\ s.at >= r.at

\* Another run saved the heights of the day after the repair did, or in the same second.
Overtaken == \E r \in Newest(repair.day, "consecutive_limit_up") : r.run # repair.run

\* A repair never takes a figure away that was certain; only the height of its day may be
\* gone between its two ladders, and after them if the first was overtaken: the two were
\* found good together.
RepairKeepsFigures ==
  [][repair' # repair => \A d \in Days, label \in {"up", "top", "high", "back"} :
       Solid(label, d) => \/ Solid(label, d)'
                          \/ /\ label = "top" /\ d = repair.day
                             /\ repair'.i = 2 \/ (repair'.i = 3 /\ Overtaken)]_vars

=============================================================================
