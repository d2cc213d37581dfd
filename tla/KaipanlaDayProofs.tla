--------------------------- MODULE KaipanlaDayProofs ---------------------------
(***************************************************************************)
(* Proofs about KaipanlaDay.                                               *)
(*                                                                         *)
(* A save replaces the record of the same feature, second and run.  That    *)
(* this takes nothing from a day rests on a run being of one day (OneDay):  *)
(* the record that gives way is of the day of the one that comes.  Between  *)
(* its first save and its end the repair depends on records it saved (they  *)
(* are to replace the ones it noted), and the batch on records it is past;  *)
(* RepairFollows and Progress say which, and that they are there still.     *)
(***************************************************************************)
EXTENDS KaipanlaDay, SetLemmas

\* What the constants are, as far as the proofs need it.
LEMMA KaipanlaFacts ==
  /\ Top \in Nat /\ Top >= 1 /\ Top \in Occupied /\ \A h \in Occupied : h <= Top /\ h \in Nat
  /\ Days \in SUBSET Nat /\ 0 \notin Days /\ IsFiniteSet(Days)
  /\ MaxClock \in Nat /\ MaxStarts \in Nat /\ MaxRepairs \in Nat /\ RepairDays \subseteq Days
  /\ \A q \in Selections : Len(q) \in Nat /\ DOMAIN q = 1 .. Len(q)
  /\ \A q \in Selections : \A i \in DOMAIN q : q[i] \in Features
  /\ Len(RepairFeatures) = 4 /\ DOMAIN RepairFeatures = 1 .. 4
  /\ \A i \in 1 .. 4 : RepairFeatures[i] \in Features
  /\ \A i, j \in 1 .. 4 : RepairFeatures[i] = RepairFeatures[j] => i = j
<1>1. Top \in Nat /\ Top >= 1 /\ Top \in Occupied /\ \A h \in Occupied : h <= Top /\ h \in Nat
  <2>1. Occupied \in SUBSET Nat /\ Occupied # {} /\ IsFiniteSet(Occupied) /\ 0 \notin Occupied
    BY KaipanlaAssumption DEF KaipanlaAssumption
  <2>2. Top \in Occupied /\ \A h \in Occupied : Top >= h
    BY <2>1, MaxIsGreatest DEF Top
  <2>3. Top \in Nat /\ Top # 0
    BY <2>1, <2>2
  <2> QED BY <2>1, <2>2, <2>3
<1>2. /\ Days \in SUBSET Nat /\ 0 \notin Days /\ IsFiniteSet(Days)
      /\ MaxClock \in Nat /\ MaxStarts \in Nat /\ MaxRepairs \in Nat /\ RepairDays \subseteq Days
  BY KaipanlaAssumption DEF KaipanlaAssumption
<1>3. \A q \in Selections : Len(q) \in Nat /\ DOMAIN q = 1 .. Len(q)
  BY KaipanlaAssumption DEF KaipanlaAssumption
<1>4. ASSUME NEW q \in Selections, NEW i \in DOMAIN q PROVE q[i] \in Features
  <2>1. {q[j] : j \in DOMAIN q} \subseteq Features
    BY DEF Features
  <2> QED BY <2>1
<1>5. Len(RepairFeatures) = 4 /\ DOMAIN RepairFeatures = 1 .. 4
  BY DEF RepairFeatures
<1>6. \A i \in 1 .. 4 : RepairFeatures[i] \in Features
  BY <1>5 DEF Features
<1>7. \A i, j \in 1 .. 4 : RepairFeatures[i] = RepairFeatures[j] => i = j
  BY DEF RepairFeatures
<1> QED BY <1>1, <1>2, <1>3, <1>4, <1>5, <1>6, <1>7

\* The number of a result is one a record may hold.
LEMMA Numbers == \A x : Number(x) \in Value
<1>1. \A x : Number(x) \in {{1}, {}, {0}}
  BY DEF Number
<1>2. {1} \in Value /\ {} \in Value /\ {0} \in Value
  BY KaipanlaFacts DEF Value
<1> QED BY <1>1, <1>2

\* What a feature may read is a number or none.
LEMMA ReadingIsValue ==
  ASSUME NEW f
  PROVE  Reading(f) \subseteq Value
<1>1. ASSUME NEW s \in SUBSET Occupied PROVE {ConsecutiveLimitUp(s, Occupied)} \in Value
  <2> DEFINE seen == s \cap Occupied
             h == ConsecutiveLimitUp(s, Occupied)
  <2>1. CASE seen = {}
    <3>1. h = 0
      BY <2>1 DEF ConsecutiveLimitUp
    <3> QED BY <3>1, KaipanlaFacts DEF Value
  <2>2. CASE seen # {}
    <3>1. seen \in SUBSET Nat /\ IsFiniteSet(seen) /\ seen \subseteq Occupied
      BY KaipanlaAssumption, FS_Subset DEF KaipanlaAssumption
    <3>2. \E g \in seen : \A k \in seen : k <= g
      <4> HIDE DEF seen
      <4>1. PICK g \in seen : \A k \in seen : g >= k
        BY <2>2, <3>1, GreatestExists
      <4> QED BY <4>1, <3>1
    <3>3. h \in seen
      BY <2>2, <3>2 DEF ConsecutiveLimitUp
    <3>4. h \in 0 .. Top
      <4> HIDE DEF h, seen
      <4> QED BY <3>1, <3>3, KaipanlaFacts
    <3> QED BY <3>4 DEF Value
  <2> QED BY <2>1, <2>2
<1>2. {} \in Value /\ {0} \in Value /\ {Top} \in Value
  BY KaipanlaFacts DEF Value
<1>3. CASE f = "daily_data"
  BY <1>3, Numbers DEF Reading
<1>4. CASE f = "consecutive_limit_up"
  BY <1>1, <1>4 DEF Reading
<1>5. CASE f = "market_limit_up_ladder"
  BY <1>2, <1>5 DEF Reading
<1>6. CASE f = "realtime_sharp_withdrawal"
  BY <1>2, <1>6, Numbers DEF Reading
<1>7. CASE f \notin {"daily_data", "consecutive_limit_up", "market_limit_up_ladder", "realtime_sharp_withdrawal"}
  BY <1>7, Numbers DEF Reading
<1> QED BY <1>3, <1>4, <1>5, <1>6, <1>7

\* A feature that raises unless it has rows reads rows.
LEMMA RowsAreRead ==
  ASSUME NEW f, GivesRows(f), NEW v \in Reading(f)
  PROVE  v = {1}
<1>1. "bare" \in Answers /\ "failed" \in Answers
  BY DEF Answers
<1>2. f # "daily_data" /\ f # "consecutive_limit_up"
  BY DEF GivesRows, SingleFeatures
<1>3. f # "market_limit_up_ladder"
  BY <1>1 DEF GivesRows, Single, MarketLimitUpLadder, Zeroed
<1>4. f # "realtime_sharp_withdrawal"
  BY <1>1 DEF GivesRows, Single, RealtimeWithdrawal, Counted
<1>5. PICK a \in Answers : v = Number(Single(f, a)) /\ Single(f, a) # "raises"
  BY <1>2, <1>3, <1>4 DEF Reading
<1>6. Single(f, a) = "rows"
  BY <1>5 DEF GivesRows
<1> QED BY <1>5, <1>6 DEF Number

\* Those of the repair are none of these.
LEMMA RepairIsQuiet ==
  ASSUME NEW i \in 1 .. 4
  PROVE  ~GivesRows(RepairFeatures[i])
<1> "bare" \in Answers
  BY DEF Answers
<1>1. i = 1 \/ i = 2 \/ i = 3 \/ i = 4
  OBVIOUS
<1>2. ~GivesRows("consecutive_limit_up")
  BY DEF GivesRows, SingleFeatures
<1>3. ~GivesRows("market_limit_up_ladder")
  BY DEF GivesRows, Single, MarketLimitUpLadder, Zeroed
<1>4. ~GivesRows("new_high_data")
  BY DEF GivesRows, Single, NewHighData, Quiet
<1>5. ~GivesRows("sharp_withdrawal")
  BY DEF GivesRows, Single, SharpWithdrawal, Quiet
<1> QED BY <1>1, <1>2, <1>3, <1>4, <1>5 DEF RepairFeatures

-----------------------------------------------------------------------------

\* A thread at work has a day and a run of its own, and has read what it is to save.
ThreadFits(b) ==
  /\ b \in Thread /\ b.i <= Len(Selected) + 1
  /\ b.pc # "idle" => b.day \in Days /\ b.run \in 1 .. starts
  /\ b.pc = "save" => b.i <= Len(Selected) /\ b.value \in Reading(Selected[b.i])
ThreadsFit == batch \in [Batches -> Thread] /\ \A t \in Batches : ThreadFits(batch[t])

\* The repair replaces records of its features and day that were saved by others before.
RepairFits ==
  /\ repair \in Mender
  /\ repair.pc # "idle" => repair.day \in Days /\ repair.run = MaxStarts + repairs /\ repairs > 0
  /\ repair.pc = "save" => /\ repair.i \in 1 .. 4
                           /\ repair.live \in Value \X Value \X Value \X Value
  /\ repair.pc = "archive" => repair.i = 5
  /\ \A r \in repair.old :
       /\ r \in Record /\ r.day = repair.day /\ r.exact /\ ~r.archived
       /\ \E j \in 1 .. 4 : r.feature = RepairFeatures[j]
       /\ r.run # repair.run /\ r.at <= now

\* A record was saved by a run there has been, and is exact unless it was there at first.
RecordsFit ==
  /\ records \subseteq Record
  /\ \A r \in records : /\ r.at <= now
                        /\ r.run \in 0 .. starts \/ r.run \in MaxStarts + 1 .. MaxStarts + repairs
                        /\ r.feature = "daily_data" => r.exact

\* A run is of one day.
OneDay ==
  /\ \A t \in Batches : batch[t].pc # "idle" =>
       /\ \A u \in Batches : batch[u].pc # "idle" /\ batch[u].run = batch[t].run => batch[u].day = batch[t].day
       /\ \A r \in records : r.run = batch[t].run => r.day = batch[t].day
  /\ repair.pc # "idle" => \A r \in records : r.run = repair.run => r.day = repair.day

ClocksFit ==
  /\ Selected \in Selections /\ done \subseteq Days
  /\ today \in Days /\ now \in 0 .. MaxClock /\ starts \in 0 .. MaxStarts /\ repairs \in 0 .. MaxRepairs

Basics == ClocksFit /\ ThreadsFit /\ RepairFits /\ RecordsFit /\ OneDay

\* The first part of the invariant has the types in it.
LEMMA BasicsAreTypes == Basics => TypeOK
BY DEF Basics, ClocksFit, ThreadsFit, ThreadFits, RepairFits, RecordsFit, TypeOK

\* A thread and a repair at rest have their types.
LEMMA IdleFits ==
  /\ Idle \in Thread /\ Rested \in Mender /\ Idle.pc = "idle" /\ Rested.pc = "idle" /\ Rested.old = {}
  /\ Idle.i = 1
BY KaipanlaFacts DEF Idle, Rested, Thread, Mender, Value

\* What the steps do to the records: nothing, a save of a thread or of the repair, or the
\* end of the repair.
SavedBy(f, w, v) ==
  /\ records' = Saved(f, w, v)
  /\ f \in Features /\ v \in Value /\ w.day \in Days /\ w.run \in 0 .. MaxStarts + MaxRepairs
  /\ w.run \in 0 .. starts \/ w.run \in MaxStarts + 1 .. MaxStarts + repairs
  /\ \A r \in records : r.run = w.run => r.day = w.day
  /\ GivesRows(f) => v = {1}
  /\ UNCHANGED <<now, starts, repairs, Selected, done, today>>

\* A thread of the batch saves a feature it was configured with, a number it has read, and for
\* its own day.
LEMMA BatchSaved ==
  ASSUME Basics, NEW t \in Batches, SaveFeature(t),
         records' = Saved(Selected[batch[t].i], batch[t], batch[t].value)
  PROVE  batch[t].pc = "save" /\ SavedBy(Selected[batch[t].i], batch[t], batch[t].value)
<1> DEFINE b == batch[t]
<1>1. b.pc = "save" /\ records' = Saved(Selected[b.i], b, b.value)
  BY DEF SaveFeature
<1>2. ThreadFits(b) /\ \A r \in records : r.run = b.run => r.day = b.day
  BY <1>1 DEF Basics, ThreadsFit, OneDay
<1>3. b \in Thread /\ b.i \in 1 .. Len(Selected) /\ b.value \in Reading(Selected[b.i])
        /\ b.day \in Days /\ b.run \in 1 .. starts
  <2>1. b \in Thread /\ b.i <= Len(Selected) /\ b.value \in Reading(Selected[b.i])
          /\ b.day \in Days /\ b.run \in 1 .. starts
    BY <1>1, <1>2 DEF ThreadFits
  <2>2. b.i \in Nat \ {0}
    <3> HIDE DEF b
    <3> QED BY <2>1 DEF Thread
  <2>3. Len(Selected) \in Nat
    BY KaipanlaFacts DEF Basics, ClocksFit
  <2> HIDE DEF b
  <2> QED BY <2>1, <2>2, <2>3
<1>4. Selected[b.i] \in Features
  BY <1>3, KaipanlaFacts DEF Basics, ClocksFit
<1>5. b.value \in Value /\ (GivesRows(Selected[b.i]) => b.value = {1})
  BY <1>3, ReadingIsValue, RowsAreRead
<1>6. b.run \in 0 .. MaxStarts + MaxRepairs /\ b.run \in 0 .. starts
  <2> HIDE DEF b
  <2> QED BY <1>3, KaipanlaFacts DEF Basics, ClocksFit
<1>7. UNCHANGED <<now, starts, repairs, Selected, done, today>>
  BY DEF SaveFeature
<1> HIDE DEF b
<1> QED BY <1>1, <1>2, <1>3, <1>4, <1>5, <1>6, <1>7 DEF SavedBy, b

\* So it does whenever its step changes the records.
LEMMA BatchSaves ==
  ASSUME Basics, NEW t \in Batches, SaveFeature(t), records' # records
  PROVE  batch[t].pc = "save" /\ SavedBy(Selected[batch[t].i], batch[t], batch[t].value)
BY BatchSaved DEF SaveFeature

\* The repair saves the feature it has come to, for its own day.
LEMMA RepairSaved ==
  ASSUME Basics, SaveRepaired, records' = Saved(RepairFeatures[repair.i], repair, repair.live[repair.i]),
         repair' = [repair EXCEPT !.i = @ + 1, !.pc = IF repair.i = 4 THEN "archive" ELSE @]
  PROVE  /\ repair.pc = "save" /\ repair.i \in 1 .. 4
         /\ repair' = [repair EXCEPT !.i = @ + 1, !.pc = IF repair.i = 4 THEN "archive" ELSE @]
         /\ SavedBy(RepairFeatures[repair.i], repair, repair.live[repair.i])
<1> DEFINE i == repair.i
<1>1. /\ repair.pc = "save" /\ records' = Saved(RepairFeatures[i], repair, repair.live[i])
      /\ repair' = [repair EXCEPT !.i = @ + 1, !.pc = IF repair.i = 4 THEN "archive" ELSE @]
      /\ UNCHANGED <<now, starts, repairs, Selected, done, today>>
  BY DEF SaveRepaired
<1>2. /\ i \in 1 .. 4 /\ repair.live \in Value \X Value \X Value \X Value
      /\ repair.day \in Days /\ repair.run = MaxStarts + repairs /\ repairs > 0
      /\ \A r \in records : r.run = repair.run => r.day = repair.day
  BY <1>1 DEF Basics, RepairFits, OneDay
<1>3. repair.live[i] \in Value
  <2>1. i = 1 \/ i = 2 \/ i = 3 \/ i = 4
    BY <1>2
  <2> HIDE DEF i
  <2> QED BY <1>2, <2>1
<1>4. RepairFeatures[i] \in Features /\ ~GivesRows(RepairFeatures[i])
  BY <1>2, KaipanlaFacts, RepairIsQuiet
<1>5. repair.run \in 0 .. MaxStarts + MaxRepairs /\ repair.run \in MaxStarts + 1 .. MaxStarts + repairs
  <2>1. repairs \in 0 .. MaxRepairs /\ MaxStarts \in Nat /\ MaxRepairs \in Nat
    BY KaipanlaFacts DEF Basics, ClocksFit
  <2> HIDE DEF i
  <2> QED BY <1>2, <2>1
<1> HIDE DEF i
<1> QED BY <1>1, <1>2, <1>3, <1>4, <1>5 DEF SavedBy, i

\* So it does whenever its step changes the records.
LEMMA RepairSaves ==
  ASSUME Basics, SaveRepaired, records' # records
  PROVE  /\ repair.pc = "save" /\ repair.i \in 1 .. 4
         /\ repair' = [repair EXCEPT !.i = @ + 1, !.pc = IF repair.i = 4 THEN "archive" ELSE @]
         /\ SavedBy(RepairFeatures[repair.i], repair, repair.live[repair.i])
BY RepairSaved DEF SaveRepaired

\* Who changes the records.
LEMMA RecordCases ==
  ASSUME [Next]_vars
  PROVE  \/ UNCHANGED records
         \/ \E t \in Batches : SaveFeature(t)
         \/ SaveRepaired \/ ArchiveOld
BY DEF Next, Repair, vars, StartBatch, RunBatch, GiveUp, Collect, FinishBatch, StartRepair, Tick, NextDay, Crash

\* What a save leaves: the record of the same second and run gives way to the new one.
LEMMA SaveKeeps ==
  ASSUME Basics, NEW f, NEW w, NEW v, SavedBy(f, w, v)
  PROVE  LET new == [feature |-> f, day |-> w.day, value |-> v, at |-> now, run |-> w.run,
                     archived |-> FALSE, exact |-> TRUE]
         IN  /\ new \in records' /\ new \in Record
             /\ \A r \in records' : r \in records \/ r = new
             /\ \A r \in records : \/ r \in records'
                                   \/ r.feature = f /\ r.run = w.run /\ r.at = now /\ r.day = w.day
<1> DEFINE new == [feature |-> f, day |-> w.day, value |-> v, at |-> now, run |-> w.run,
                   archived |-> FALSE, exact |-> TRUE]
<1>1. new \in Record
  <2>1. now \in 0 .. MaxClock
    BY DEF Basics, ClocksFit
  <2> QED BY <2>1 DEF SavedBy, Record
<1>2. records' = {r \in records : r.feature # f \/ r.at # now \/ r.run # w.run} \cup {new}
  BY DEF SavedBy, Saved
<1>3. \A r \in records : r.run = w.run => r.day = w.day
  BY DEF SavedBy
<1> HIDE DEF new
<1>4. /\ new \in records' /\ new \in Record
      /\ \A r \in records' : r \in records \/ r = new
      /\ \A r \in records : \/ r \in records'
                            \/ r.feature = f /\ r.run = w.run /\ r.at = now /\ r.day = w.day
  BY <1>1, <1>2, <1>3
<1> QED BY <1>4 DEF new

-----------------------------------------------------------------------------

\* A thread goes on with its own run and day, or rests.
GoesOn(w, b) ==
  /\ w \in Thread /\ w.i <= Len(Selected) + 1
  /\ w.pc # "idle" => b.pc # "idle" /\ w.run = b.run /\ w.day = b.day
  /\ w.pc = "save" => w.i <= Len(Selected) /\ w.value \in Reading(Selected[w.i])

\* A thread that is done with a feature goes on.
LEMMA NextFeatureGoesOn ==
  ASSUME Basics, NEW t \in Batches, batch[t].pc # "idle", batch[t].i <= Len(Selected)
  PROVE  GoesOn(NextFeature(batch[t]), batch[t]) /\ GoesOn(Failed(batch[t]), batch[t])
<1> DEFINE b == batch[t]
<1>1. b \in Thread /\ b.i \in Nat \ {0} /\ Len(Selected) \in Nat /\ {} \in Value
  <2>1. b \in Thread /\ Len(Selected) \in Nat
    BY KaipanlaFacts DEF Basics, ThreadsFit, ClocksFit
  <2> HIDE DEF b
  <2> QED BY <2>1 DEF Thread, Value
<1>2. b.pc # "idle" /\ b.i <= Len(Selected)
  OBVIOUS
<1> HIDE DEF b
<1>3. /\ NextFeature(b) \in Thread /\ NextFeature(b).pc = "check" /\ NextFeature(b).i = b.i + 1
      /\ NextFeature(b).run = b.run /\ NextFeature(b).day = b.day
  <2> DEFINE j == b.i + 1
  <2>1. j \in Nat \ {0}
    BY <1>1
  <2>2. NextFeature(b) = [b EXCEPT !.pc = "check", !.i = j, !.value = {}]
    BY DEF NextFeature
  <2>3. j = b.i + 1
    OBVIOUS
  <2> HIDE DEF j
  <2> QED BY <1>1, <2>1, <2>2, <2>3 DEF Thread
<1>4. /\ Failed(b) \in Thread /\ Failed(b).pc = "check" /\ Failed(b).i = b.i + 1
      /\ Failed(b).run = b.run /\ Failed(b).day = b.day
  BY <1>3 DEF Failed, Thread
<1>5. b.i + 1 <= Len(Selected) + 1
  BY <1>1, <1>2
<1> QED BY <1>2, <1>3, <1>4, <1>5 DEF GoesOn, b

\* A thread may rest at any time.
LEMMA IdleGoesOn == Basics => \A b : GoesOn(Idle, b)
BY IdleFits, KaipanlaFacts DEF GoesOn, Basics, ClocksFit

\* A thread that is queued, or checks its first feature.
LEMMA AgainGoesOn ==
  ASSUME Basics, NEW t \in Batches, batch[t].pc # "idle"
  PROVE  /\ GoesOn([batch[t] EXCEPT !.pc = "queued"], batch[t])
         /\ GoesOn([batch[t] EXCEPT !.pc = "check", !.i = 1, !.failed = FALSE, !.value = {}], batch[t])
         /\ GoesOn(batch[t], batch[t])
         /\ batch[t].pc = "check" /\ batch[t].i <= Len(Selected) =>
              \A v \in Reading(Selected[batch[t].i]) : GoesOn([batch[t] EXCEPT !.pc = "save", !.value = v], batch[t])
<1> DEFINE b == batch[t]
<1>1. b \in Thread /\ b.i <= Len(Selected) + 1 /\ Len(Selected) \in Nat /\ {} \in Value /\ b.pc # "idle"
        /\ (b.pc = "save" => b.i <= Len(Selected) /\ b.value \in Reading(Selected[b.i]))
  BY KaipanlaFacts DEF Basics, ThreadsFit, ThreadFits, ClocksFit, Value
<1> HIDE DEF b
<1>2. GoesOn([b EXCEPT !.pc = "queued"], b)
  BY <1>1 DEF GoesOn, Thread
<1>3. GoesOn([b EXCEPT !.pc = "check", !.i = 1, !.failed = FALSE, !.value = {}], b)
  <2> DEFINE w == [b EXCEPT !.pc = "check", !.i = 1, !.failed = FALSE, !.value = {}]
  <2>1. w \in Thread
    <3>1. 1 \in Nat \ {0} /\ FALSE \in BOOLEAN
      OBVIOUS
    <3> QED BY <1>1, <3>1 DEF Thread
  <2>4. w.pc = "check" /\ w.i = 1 /\ w.run = b.run /\ w.day = b.day
    BY <1>1 DEF Thread
  <2>2. 1 <= Len(Selected) + 1
    BY <1>1
  <2> HIDE DEF w
  <2>3. GoesOn(w, b)
    BY <1>1, <2>1, <2>2, <2>4 DEF GoesOn
  <2> QED BY <2>3 DEF w
<1>4. GoesOn(b, b)
  BY <1>1 DEF GoesOn
<1>5. ASSUME b.i <= Len(Selected), NEW v \in Reading(Selected[b.i])
      PROVE  GoesOn([b EXCEPT !.pc = "save", !.value = v], b)
  <2>1. v \in Value
    BY <1>5, ReadingIsValue
  <2>2. [b EXCEPT !.pc = "save", !.value = v] \in Thread
    BY <1>1, <2>1 DEF Thread
  <2> QED BY <1>1, <1>5, <2>2 DEF GoesOn, Thread
<1> QED BY <1>2, <1>3, <1>4, <1>5 DEF b

\* How the threads go on in a step that starts none.
Carried ==
  /\ batch' \in [Batches -> Thread]
  /\ \A t \in Batches : \E u \in Batches : GoesOn(batch'[t], batch[u])

\* When one thread goes on, all are carried.
LEMMA OneGoesOn ==
  ASSUME Basics, NEW t \in Batches, NEW w, GoesOn(w, batch[t]), batch' = [batch EXCEPT ![t] = w]
  PROVE  Carried
<1>1. batch \in [Batches -> Thread] /\ w \in Thread
  BY DEF Basics, ThreadsFit, GoesOn
<1>2. \A u \in Batches : GoesOn(batch[u], batch[u])
  <2> TAKE u \in Batches
  <2>1. CASE batch[u].pc = "idle"
    BY <2>1 DEF Basics, ThreadsFit, ThreadFits, GoesOn
  <2>2. CASE batch[u].pc # "idle"
    BY <2>2, AgainGoesOn
  <2> QED BY <2>1, <2>2
<1> QED BY <1>1, <1>2 DEF Carried

\* Only the start of a batch brings in a new run.
LEMMA ThreadsCarried ==
  ASSUME Basics, [Next]_vars
  PROVE  StartBatch \/ Carried
<1>0. batch \in [Batches -> Thread] /\ "new" \in Batches /\ "late" \in Batches /\ Batches = {"new", "late"}
  BY DEF Basics, ThreadsFit, Batches
<1>a. \A t \in Batches : batch[t].pc \in {"save", "check"} => batch[t].pc # "idle"
  OBVIOUS
<1>b. \A t \in Batches : batch[t].pc = "save" => batch[t].i <= Len(Selected)
  BY DEF Basics, ThreadsFit, ThreadFits
<1>1. CASE RunBatch
  <2>1. batch["new"].pc # "idle"
    BY <1>1 DEF RunBatch
  <2> DEFINE w == [batch["new"] EXCEPT !.pc = "check", !.i = 1, !.failed = FALSE, !.value = {}]
  <2>2. batch' = [batch EXCEPT !["new"] = w]
    BY <1>1 DEF RunBatch, SetBatch
  <2>3. GoesOn(w, batch["new"])
    BY <1>0, <2>1, AgainGoesOn
  <2> HIDE DEF w
  <2> QED BY <1>0, <2>2, <2>3, OneGoesOn
<1>2. ASSUME NEW t \in Batches, Collect(t) PROVE Carried
  <2> DEFINE b == batch[t]
  <2>0. b.pc = "check" /\ b.pc # "idle" /\ b.i <= Len(Selected)
    BY <1>2 DEF Collect
  <2>1. \/ SetBatch(t, Idle) \/ SetBatch(t, [b EXCEPT !.pc = "queued"])
        \/ \E v \in Reading(Selected[b.i]) : SetBatch(t, [b EXCEPT !.pc = "save", !.value = v])
        \/ SetBatch(t, Failed(b))
    BY <1>2 DEF Collect
  <2>2. /\ GoesOn(Idle, b) /\ GoesOn([b EXCEPT !.pc = "queued"], b) /\ GoesOn(Failed(b), b)
        /\ \A v \in Reading(Selected[b.i]) : GoesOn([b EXCEPT !.pc = "save", !.value = v], b)
    BY <2>0, IdleGoesOn, AgainGoesOn, NextFeatureGoesOn
  <2>3. \E w : GoesOn(w, b) /\ SetBatch(t, w)
    <3> HIDE DEF b
    <3>1. CASE \E v \in Reading(Selected[b.i]) : SetBatch(t, [b EXCEPT !.pc = "save", !.value = v])
      <4>1. PICK v \in Reading(Selected[b.i]) : SetBatch(t, [b EXCEPT !.pc = "save", !.value = v])
        BY <3>1
      <4> DEFINE w == [b EXCEPT !.pc = "save", !.value = v]
      <4>2. GoesOn(w, b) /\ SetBatch(t, w)
        BY <2>2, <4>1
      <4> HIDE DEF w
      <4> QED BY <4>2
    <3> QED BY <2>1, <2>2, <3>1, Zenon
  <2> QED BY <2>3, OneGoesOn DEF SetBatch
<1>3. ASSUME NEW t \in Batches, SaveFeature(t) PROVE Carried
  <2>1. batch[t].pc = "save" /\ (SetBatch(t, NextFeature(batch[t])) \/ SetBatch(t, Failed(batch[t])))
    BY <1>3 DEF SaveFeature
  <2>2. GoesOn(NextFeature(batch[t]), batch[t]) /\ GoesOn(Failed(batch[t]), batch[t])
    BY <1>a, <1>b, <2>1, NextFeatureGoesOn
  <2> QED BY <2>1, <2>2, OneGoesOn DEF SetBatch
<1>4. ASSUME NEW t \in Batches, FinishBatch(t) PROVE Carried
  BY <1>4, IdleGoesOn, OneGoesOn DEF FinishBatch, SetBatch
<1>c. \A u \in Batches : GoesOn(batch[u], batch[u])
  <2> TAKE u \in Batches
  <2>1. CASE batch[u].pc = "idle"
    BY <2>1 DEF Basics, ThreadsFit, ThreadFits, GoesOn
  <2>2. CASE batch[u].pc # "idle"
    BY <2>2, AgainGoesOn
  <2> QED BY <2>1, <2>2
<1>5. CASE GiveUp
  <2> DEFINE w == [batch["new"] EXCEPT !.pc = "queued"]
  <2>1. batch["new"].pc # "idle" /\ batch' = [new |-> w, late |-> batch["new"]]
    BY <1>5 DEF GiveUp
  <2>2. GoesOn(w, batch["new"]) /\ GoesOn(batch["new"], batch["new"])
    BY <1>0, <2>1, AgainGoesOn
  <2> HIDE DEF w
  <2>3. w \in Thread /\ batch["new"] \in Thread
    BY <2>2 DEF GoesOn
  <2> QED BY <1>0, <2>1, <2>2, <2>3 DEF Carried
<1>6. CASE Crash
  <2> DEFINE w == IF batch["new"].pc \in {"idle", "queued"} THEN batch["new"]
                  ELSE [batch["new"] EXCEPT !.pc = "queued"]
  <2>1. batch' = [new |-> w, late |-> Idle]
    BY <1>6 DEF Crash
  <2>2. GoesOn(w, batch["new"]) /\ GoesOn(Idle, batch["late"])
    BY <1>0, <1>c, AgainGoesOn, IdleGoesOn
  <2> HIDE DEF w
  <2>3. w \in Thread /\ Idle \in Thread
    BY <2>2 DEF GoesOn
  <2> QED BY <1>0, <2>1, <2>2, <2>3 DEF Carried
<1>7. ASSUME Repair \/ Tick \/ NextDay \/ UNCHANGED vars PROVE Carried
  <2>1. UNCHANGED batch
    BY <1>7 DEF Repair, StartRepair, SaveRepaired, ArchiveOld, Tick, NextDay, vars
  <2> QED BY <1>0, <1>c, <2>1 DEF Carried
<1> QED BY <1>1, <1>2, <1>3, <1>4, <1>5, <1>6, <1>7 DEF Next

-----------------------------------------------------------------------------

\* Time, days and counters only go on; what is done once stays done.
Forward ==
  /\ Selected' = Selected /\ starts <= starts' /\ now <= now' /\ repairs <= repairs' /\ done \subseteq done'
  /\ repairs' # repairs => StartRepair
  /\ done' # done => \E t \in Batches : FinishBatch(t)

\* The clock, the days and the counters keep their types.
LEMMA ClocksStep ==
  ASSUME Basics, [Next]_vars
  PROVE  ClocksFit' /\ Forward
<1> /\ Selected \in Selections /\ done \subseteq Days /\ MaxStarts \in Nat /\ MaxRepairs \in Nat /\ MaxClock \in Nat
    /\ today \in Days /\ now \in 0 .. MaxClock /\ starts \in 0 .. MaxStarts /\ repairs \in 0 .. MaxRepairs
  BY KaipanlaFacts DEF Basics, ClocksFit
<1>1. Selected' = Selected
  BY DEF Next, Repair, vars, StartBatch, RunBatch, GiveUp, Collect, SaveFeature, FinishBatch, StartRepair, SaveRepaired,
     ArchiveOld, Tick, NextDay, Crash
<1>2. starts' \in 0 .. MaxStarts /\ starts <= starts'
  <2>1. starts' = starts \/ (starts < MaxStarts /\ starts' = starts + 1)
    BY DEF Next, Repair, vars, StartBatch, RunBatch, GiveUp, Collect, SaveFeature, FinishBatch, StartRepair, SaveRepaired,
       ArchiveOld, Tick, NextDay, Crash, Counted1
  <2> QED BY <2>1
<1>3. now' \in 0 .. MaxClock /\ now <= now'
  <2>1. now' = now \/ (now < MaxClock /\ now' = now + 1)
    BY DEF Next, Repair, vars, StartBatch, RunBatch, GiveUp, Collect, SaveFeature, FinishBatch, StartRepair, SaveRepaired,
       ArchiveOld, Tick, NextDay, Crash
  <2> QED BY <2>1
<1>4. repairs' \in 0 .. MaxRepairs /\ repairs <= repairs' /\ (repairs' # repairs => StartRepair)
  <2>1. repairs' = repairs \/ StartRepair
    BY DEF Next, Repair, vars, StartBatch, RunBatch, GiveUp, Collect, SaveFeature, FinishBatch, SaveRepaired,
       ArchiveOld, Tick, NextDay, Crash
  <2>2. StartRepair => repairs < MaxRepairs /\ repairs' = repairs + 1
    BY DEF StartRepair
  <2> QED BY <2>1, <2>2
<1>5. done' \subseteq Days /\ done \subseteq done' /\ (done' # done => \E t \in Batches : FinishBatch(t))
  <2>1. done' = done \/ \E t \in Batches : FinishBatch(t)
    BY DEF Next, Repair, vars, StartBatch, RunBatch, GiveUp, Collect, SaveFeature, StartRepair, SaveRepaired,
       ArchiveOld, Tick, NextDay, Crash
  <2>2. ASSUME NEW t \in Batches, FinishBatch(t) PROVE done' \subseteq Days /\ done \subseteq done'
    <3>1. batch[t].day \in Days
      BY <2>2 DEF FinishBatch, Basics, ThreadsFit, ThreadFits
    <3> QED BY <2>2, <3>1 DEF FinishBatch
  <2> QED BY <2>1, <2>2
<1>6. today' \in Days
  <2>1. today' = today \/ NextDay
    BY DEF Next, Repair, vars, StartBatch, RunBatch, GiveUp, Collect, SaveFeature, FinishBatch, StartRepair, SaveRepaired,
       ArchiveOld, Tick, Crash
  <2>2. ASSUME NextDay PROVE today' \in Days
    <3> DEFINE later == {d \in Days : d > today}
    <3>1. today < Max(Days) /\ today' = Min(later)
      BY <2>2 DEF NextDay
    <3>2. Max(Days) \in Days
      BY KaipanlaFacts, MaxIsGreatest
    <3>3. later \in SUBSET Nat /\ later # {} /\ later \subseteq Days
      BY <3>1, <3>2, KaipanlaFacts
    <3>4. Min(later) \in later
      <4> HIDE DEF later
      <4> QED BY <3>3, MinIsLeast
    <3> QED BY <3>1, <3>3, <3>4
  <2> QED BY <2>1, <2>2
<1> QED BY <1>1, <1>2, <1>3, <1>4, <1>5, <1>6 DEF ClocksFit, Forward

\* A step adds no record of a run that has not been, nor one from the future.
LEMMA RecordsStep ==
  ASSUME Basics, [Next]_vars
  PROVE  RecordsFit'
<1> /\ MaxStarts \in Nat /\ MaxRepairs \in Nat /\ MaxClock \in Nat
    /\ now \in 0 .. MaxClock /\ starts \in 0 .. MaxStarts /\ repairs \in 0 .. MaxRepairs
    /\ now' \in 0 .. MaxClock /\ starts' \in 0 .. MaxStarts /\ repairs' \in 0 .. MaxRepairs
    /\ now <= now' /\ starts <= starts' /\ repairs <= repairs'
  BY ClocksStep, KaipanlaFacts DEF Basics, ClocksFit, Forward
<1> DEFINE Fits(r) == /\ r.at <= now
                      /\ r.run \in 0 .. starts \/ r.run \in MaxStarts + 1 .. MaxStarts + repairs
                      /\ r.feature = "daily_data" => r.exact
           Later(r) == /\ r.at <= now'
                       /\ r.run \in 0 .. starts' \/ r.run \in MaxStarts + 1 .. MaxStarts + repairs'
                       /\ r.feature = "daily_data" => r.exact
<1>1. records \subseteq Record /\ \A r \in records : Fits(r)
  BY DEF Basics, RecordsFit
<1>2. ASSUME NEW r \in Record, Fits(r) PROVE Later(r)
  <2>1. r.at \in Nat
    BY DEF Record
  <2> QED BY <1>2, <2>1
<1>3. ASSUME NEW f, NEW w, NEW v, SavedBy(f, w, v) PROVE records' \subseteq Record /\ \A r \in records' : Fits(r)
  <2> DEFINE new == [feature |-> f, day |-> w.day, value |-> v, at |-> now, run |-> w.run,
                     archived |-> FALSE, exact |-> TRUE]
  <2>1. new \in Record /\ \A r \in records' : r \in records \/ r = new
    BY <1>3, SaveKeeps
  <2>2. Fits(new)
    BY <1>3 DEF SavedBy
  <2> HIDE DEF new, Fits
  <2> QED BY <1>1, <2>1, <2>2
<1>4. CASE ArchiveOld
  <2>1. \A r \in records' : \E q \in records : r = q \/ r = [q EXCEPT !.archived = TRUE]
    BY <1>4 DEF ArchiveOld
  <2>2. \A q \in Record : Fits(q) => [q EXCEPT !.archived = TRUE] \in Record /\ Fits([q EXCEPT !.archived = TRUE])
    <3> TAKE q \in Record
    <3> DEFINE a == [q EXCEPT !.archived = TRUE]
    <3>1. a \in Record /\ a.at = q.at /\ a.run = q.run /\ a.feature = q.feature /\ a.exact = q.exact
      BY DEF Record
    <3> HIDE DEF a
    <3>2. Fits(q) => a \in Record /\ Fits(a)
      BY <3>1
    <3> QED BY <3>2 DEF a
  <2> HIDE DEF Fits
  <2>3. records' \subseteq Record /\ \A r \in records' : Fits(r)
    BY <1>1, <2>1, <2>2
  <2> HIDE DEF Later
  <2>4. \A r \in records' : Later(r)
    BY <1>2, <2>3
  <2> QED BY <2>3, <2>4 DEF RecordsFit, Later
<1>5. CASE UNCHANGED records
  <2> HIDE DEF Fits, Later
  <2>1. \A r \in records' : Later(r)
    BY <1>1, <1>2, <1>5
  <2> QED BY <1>1, <1>5, <2>1 DEF RecordsFit, Later
<1>6. CASE records' # records /\ ~ArchiveOld
  <2>1. \E f, w, v : SavedBy(f, w, v)
    <3>1. ASSUME NEW t \in Batches, SaveFeature(t) PROVE \E f, w, v : SavedBy(f, w, v)
      BY <1>6, <3>1, BatchSaves
    <3>2. ASSUME SaveRepaired PROVE \E f, w, v : SavedBy(f, w, v)
      BY <1>6, <3>2, RepairSaves
    <3> QED BY <1>6, <3>1, <3>2, RecordCases
  <2> HIDE DEF Fits, Later
  <2>2. records' \subseteq Record /\ \A r \in records' : Fits(r)
    BY <1>3, <2>1
  <2>3. \A r \in records' : Later(r)
    BY <1>2, <2>2
  <2> QED BY <2>2, <2>3 DEF RecordsFit, Later
<1> QED BY <1>4, <1>5, <1>6

\* A batch starts with a run of its own, for today.
LEMMA StartedThread ==
  ASSUME Basics, StartBatch
  PROVE  \E w \in Thread : /\ batch' = [batch EXCEPT !["new"] = w]
                           /\ w.pc = "queued" /\ w.day = today /\ w.run = starts + 1 /\ w.i = 1
                           /\ starts < MaxStarts /\ starts' = starts + 1
<1> DEFINE w == [Idle EXCEPT !.pc = "queued", !.day = today, !.run = starts + 1]
<1>1. starts' = starts + 1 /\ starts < MaxStarts /\ batch' = [batch EXCEPT !["new"] = w]
  BY DEF StartBatch, Counted1, SetBatch
<1>2. starts + 1 \in 0 .. MaxStarts /\ today \in Days
  BY <1>1, KaipanlaFacts DEF Basics, ClocksFit
<1>3. w \in Thread
  BY <1>2, IdleFits DEF Thread
<1>4. w.pc = "queued" /\ w.day = today /\ w.run = starts + 1 /\ w.i = 1
  BY DEF Idle
<1> HIDE DEF w
<1> QED BY <1>1, <1>3, <1>4

\* The threads keep their types, days and runs.
LEMMA ThreadsStep ==
  ASSUME Basics, [Next]_vars
  PROVE  ThreadsFit'
<1>0. /\ Selected' = Selected /\ starts \in Nat /\ starts' \in Nat /\ starts <= starts' /\ Len(Selected) \in Nat
      /\ batch \in [Batches -> Thread] /\ \A t \in Batches : ThreadFits(batch[t])
  BY ClocksStep, KaipanlaFacts DEF Basics, ClocksFit, Forward, ThreadsFit
<1> SUFFICES batch' \in [Batches -> Thread] /\ \A t \in Batches : ThreadFits(batch[t])'
  BY DEF ThreadsFit
<1>1. CASE Carried
  <2>1. ASSUME NEW t \in Batches PROVE ThreadFits(batch[t])'
    <3>1. PICK u \in Batches : GoesOn(batch'[t], batch[u])
      BY <1>1 DEF Carried
    <3>2. ThreadFits(batch[u])
      BY <1>0
    <3>3. batch'[t].pc # "idle" => batch'[t].day \in Days /\ batch'[t].run \in 1 .. starts'
      BY <1>0, <3>1, <3>2 DEF GoesOn, ThreadFits
    <3> QED BY <1>0, <3>1, <3>3 DEF GoesOn, ThreadFits
  <2> QED BY <1>1, <2>1 DEF Carried
<1>2. CASE StartBatch
  <2>1. PICK w \in Thread : /\ batch' = [batch EXCEPT !["new"] = w]
                            /\ w.pc = "queued" /\ w.day = today /\ w.run = starts + 1 /\ w.i = 1
                            /\ starts' = starts + 1
    BY <1>2, StartedThread
  <2>2. today \in Days /\ "new" \in Batches
    BY DEF Basics, ClocksFit, Batches
  <2>3. ASSUME NEW t \in Batches PROVE ThreadFits(batch[t])'
    <3>1. CASE t = "new"
      <4>1. batch'[t] = w
        BY <1>0, <2>1, <3>1
      <4> QED BY <1>0, <2>1, <2>2, <4>1 DEF ThreadFits
    <3>2. CASE t # "new"
      <4>1. batch'[t] = batch[t] /\ ThreadFits(batch[t])
        BY <1>0, <2>1, <3>2
      <4>2. batch'[t].pc # "idle" => batch'[t].day \in Days /\ batch'[t].run \in 1 .. starts'
        BY <1>0, <4>1 DEF ThreadFits
      <4> QED BY <1>0, <4>1, <4>2 DEF ThreadFits
    <3> QED BY <3>1, <3>2
  <2> QED BY <1>0, <2>1, <2>3
<1> QED BY <1>1, <1>2, ThreadsCarried

\* A repair begins, goes on, ends or is left alone.
LEMMA StartedRepair ==
  ASSUME Basics, StartRepair
  PROVE  /\ repair' \in Mender /\ repair'.pc = "save" /\ repair'.i = 1
         /\ repair'.live \in Value \X Value \X Value \X Value
         /\ repair'.day \in Days /\ repairs < MaxRepairs /\ repairs' = repairs + 1
         /\ repair'.run = MaxStarts + repairs + 1
         /\ repair'.old = {r \in OfDay(repair'.day) : \E i \in 1 .. 4 : r.feature = RepairFeatures[i]}
         /\ UNCHANGED <<records, batch, now, starts>>
<1>1. PICK d \in RepairDays, l \in Reading(RepairFeatures[1]) \X Reading(RepairFeatures[2])
                                   \X Reading(RepairFeatures[3]) \X Reading(RepairFeatures[4]) :
        /\ repairs < MaxRepairs /\ repairs' = repairs + 1
        /\ repair' = [pc |-> "save", day |-> d, run |-> MaxStarts + (repairs + 1), i |-> 1, live |-> l,
                      old |-> {r \in OfDay(d) : \E i \in 1 .. 4 : r.feature = RepairFeatures[i]}]
        /\ UNCHANGED <<records, batch, now, starts>>
  BY DEF StartRepair
<1>2. l \in Value \X Value \X Value \X Value
  BY ReadingIsValue
<1>3. d \in Days /\ MaxStarts + (repairs + 1) \in 0 .. MaxStarts + MaxRepairs
  BY <1>1, KaipanlaFacts DEF Basics, ClocksFit
<1>4. {r \in OfDay(d) : \E i \in 1 .. 4 : r.feature = RepairFeatures[i]} \in SUBSET Record
  BY DEF OfDay, Visible, Basics, RecordsFit
<1>5. repair' \in Mender
  <2> DEFINE R == {r \in OfDay(d) : \E i \in 1 .. 4 : r.feature = RepairFeatures[i]}
  <2>1. R \in SUBSET Record /\ 1 \in 1 .. Len(RepairFeatures) + 1
    BY <1>4, KaipanlaFacts
  <2>2. repair' = [pc |-> "save", day |-> d, run |-> MaxStarts + (repairs + 1), i |-> 1, live |-> l, old |-> R]
    BY <1>1
  <2> HIDE DEF R
  <2> QED BY <1>2, <1>3, <2>1, <2>2 DEF Mender
<1>6. MaxStarts + (repairs + 1) = MaxStarts + repairs + 1
  <2>1. repairs \in Nat /\ MaxStarts \in Nat
    BY KaipanlaFacts DEF Basics, ClocksFit
  <2> QED BY <2>1
<1> QED BY <1>1, <1>2, <1>3, <1>5, <1>6

RepairGoes ==
  /\ repair.pc = "save" /\ repair.i \in 1 .. 4
  /\ repair' = [repair EXCEPT !.i = @ + 1, !.pc = IF repair.i = 4 THEN "archive" ELSE @]

\* What a step makes of the repair.
LEMMA RepairCases ==
  ASSUME Basics, [Next]_vars
  PROVE  StartRepair \/ repair' = repair \/ repair' = Rested \/ RepairGoes
<1>1. CASE SaveRepaired
  BY <1>1 DEF SaveRepaired, RepairGoes, Basics, RepairFits
<1>2. CASE ~SaveRepaired
  BY <1>2 DEF Next, Repair, vars, StartBatch, RunBatch, GiveUp, Collect, SaveFeature, FinishBatch,
     ArchiveOld, Tick, NextDay, Crash
<1> QED BY <1>1, <1>2

\* The repair keeps its type, and what it has noted is left of others.
LEMMA RepairStep ==
  ASSUME Basics, [Next]_vars
  PROVE  RepairFits'
<1>0. /\ repair \in Mender /\ now \in Nat /\ now' \in Nat /\ now <= now' /\ (repairs' # repairs => StartRepair)
      /\ records \subseteq Record /\ repairs \in Nat /\ MaxStarts \in Nat
      /\ starts <= MaxStarts /\ starts \in Nat
  BY ClocksStep, KaipanlaFacts DEF Basics, ClocksFit, Forward, RepairFits, RecordsFit
<1>a. \A r \in Record : r.at \in Nat /\ r.run \in Nat
  BY DEF Record
<1>1. CASE StartRepair
  <2>1. ASSUME NEW r \in repair'.old
        PROVE  /\ r \in Record /\ r.day = repair'.day /\ r.exact /\ ~r.archived
               /\ \E j \in 1 .. 4 : r.feature = RepairFeatures[j]
               /\ r.run # repair'.run /\ r.at <= now'
    <3>1. r \in records /\ r.day = repair'.day /\ r.exact /\ ~r.archived
            /\ \E j \in 1 .. 4 : r.feature = RepairFeatures[j]
      BY <1>1, StartedRepair DEF OfDay, Visible
    <3>2. r \in Record /\ r.at <= now /\ (r.run \in 0 .. starts \/ r.run \in MaxStarts + 1 .. MaxStarts + repairs)
      BY <3>1 DEF Basics, RecordsFit
    <3>3. repair'.run = MaxStarts + repairs + 1 /\ now' = now
      BY <1>1, StartedRepair
    <3> QED BY <1>0, <3>1, <3>2, <3>3
  <2>2. repair'.run = MaxStarts + repairs' /\ repairs' > 0
    BY <1>0, <1>1, StartedRepair
  <2>3. repair'.i \in 1 .. 4
    BY <1>1, StartedRepair
  <2> QED BY <1>1, <2>1, <2>2, <2>3, StartedRepair DEF RepairFits
<1>2. CASE repair' = repair /\ ~StartRepair
  <2>1. \A r \in repair.old : r.at <= now'
    BY <1>0, <1>a DEF Basics, RepairFits
  <2> QED BY <1>0, <1>2, <2>1 DEF Basics, RepairFits
<1>3. CASE repair' = Rested
  BY <1>3, IdleFits DEF RepairFits
<1>4. CASE RepairGoes /\ ~StartRepair
  <2> DEFINE j == repair.i + 1
             pc == IF repair.i = 4 THEN "archive" ELSE repair.pc
  <2>1. repair' = [repair EXCEPT !.i = j, !.pc = pc] /\ repair.pc = "save" /\ repair.i \in 1 .. 4
    BY <1>4 DEF RepairGoes
  <2>2. j \in 1 .. 5 /\ Len(RepairFeatures) + 1 = 5 /\ (pc = "save" => j \in 1 .. 4) /\ (pc = "archive" => j = 5)
          /\ pc \in {"save", "archive"}
    BY <2>1, KaipanlaFacts
  <2> HIDE DEF j, pc
  <2>3. repair' \in Mender
    BY <1>0, <2>1, <2>2 DEF Mender
  <2>4. /\ repair'.pc = pc /\ repair'.i = j /\ repair'.run = repair.run /\ repair'.day = repair.day
        /\ repair'.live = repair.live /\ repair'.old = repair.old
    BY <1>0, <2>1 DEF Mender
  <2>5. \A r \in repair.old : r.at <= now'
    BY <1>0, <1>a DEF Basics, RepairFits
  <2> QED BY <1>0, <1>4, <2>1, <2>2, <2>3, <2>4, <2>5 DEF Basics, RepairFits
<1> QED BY <1>1, <1>2, <1>3, <1>4, RepairCases

\* The run and the day of a record after a step are those of one before, or of a thread or a
\* repair that saved it.
OfBefore(r) == \E q \in records : q.run = r.run /\ q.day = r.day
OfThread(r) == \E t \in Batches : batch[t].pc # "idle" /\ batch[t].run = r.run /\ batch[t].day = r.day
OfRepair(r) == repair.pc = "save" /\ repair.run = r.run /\ repair.day = r.day

\* No step saves under a run but the one whose run it is.
LEMMA WhoseRecords ==
  ASSUME Basics, [Next]_vars
  PROVE  \A r \in records' : OfBefore(r) \/ OfThread(r) \/ OfRepair(r)
<1>1. ASSUME NEW f, NEW w, NEW v, SavedBy(f, w, v), NEW r \in records'
      PROVE  r \in records \/ (r.run = w.run /\ r.day = w.day)
  <2> DEFINE new == [feature |-> f, day |-> w.day, value |-> v, at |-> now, run |-> w.run,
                     archived |-> FALSE, exact |-> TRUE]
  <2>1. new \in Record /\ \A q \in records' : q \in records \/ q = new
    BY <1>1, SaveKeeps
  <2> QED BY <2>1
<1>2. ASSUME NEW t \in Batches, SaveFeature(t), records' # records, NEW r \in records' PROVE OfBefore(r) \/ OfThread(r)
  <2>1. batch[t].pc = "save" /\ SavedBy(Selected[batch[t].i], batch[t], batch[t].value)
    BY <1>2, BatchSaves
  <2>2. r \in records \/ (r.run = batch[t].run /\ r.day = batch[t].day)
    BY <1>1, <1>2, <2>1
  <2> QED BY <2>1, <2>2 DEF OfBefore, OfThread
<1>3. ASSUME SaveRepaired, records' # records, NEW r \in records' PROVE OfBefore(r) \/ OfRepair(r)
  <2>1. repair.pc = "save" /\ SavedBy(RepairFeatures[repair.i], repair, repair.live[repair.i])
    BY <1>3, RepairSaves
  <2>2. r \in records \/ (r.run = repair.run /\ r.day = repair.day)
    BY <1>1, <1>3, <2>1
  <2> QED BY <2>1, <2>2 DEF OfBefore, OfRepair
<1>4. ASSUME ArchiveOld, NEW r \in records' PROVE OfBefore(r)
  <2>1. PICK q \in records : r = q \/ r = [q EXCEPT !.archived = TRUE]
    BY <1>4 DEF ArchiveOld
  <2>2. q \in Record
    BY DEF Basics, RecordsFit
  <2>3. r.run = q.run /\ r.day = q.day
    BY <2>1, <2>2 DEF Record
  <2> QED BY <2>3 DEF OfBefore
<1>5. CASE UNCHANGED records
  BY <1>5 DEF OfBefore
<1> QED BY <1>2, <1>3, <1>4, <1>5, RecordCases

\* The runs there are, apart from each other.
LEMMA RunsApart ==
  ASSUME Basics
  PROVE  /\ \A t \in Batches : batch[t].pc # "idle" => batch[t].run \in 1 .. starts
         /\ repair.pc # "idle" => repair.run = MaxStarts + repairs /\ repairs > 0
         /\ starts \in Nat /\ repairs \in Nat /\ MaxStarts \in Nat /\ starts <= MaxStarts
         /\ \A r \in records : r.run \in 0 .. starts \/ r.run \in MaxStarts + 1 .. MaxStarts + repairs
BY KaipanlaFacts DEF Basics, ClocksFit, ThreadsFit, ThreadFits, RepairFits, RecordsFit

\* A run stays one of a single day.
LEMMA OneDayStep ==
  ASSUME Basics, [Next]_vars
  PROVE  OneDay'
<1>a. \A r \in records' : OfBefore(r) \/ OfThread(r) \/ OfRepair(r)
  BY WhoseRecords
<1>b. /\ batch \in [Batches -> Thread]
      /\ \A t, u \in Batches : /\ batch[t].pc # "idle" /\ batch[u].pc # "idle" /\ batch[u].run = batch[t].run
                                    => batch[u].day = batch[t].day
      /\ \A t \in Batches : batch[t].pc # "idle" => \A r \in records : r.run = batch[t].run => r.day = batch[t].day
      /\ repair.pc # "idle" => \A r \in records : r.run = repair.run => r.day = repair.day
  BY DEF Basics, OneDay, ThreadsFit
<1>c. ASSUME NEW t \in Batches, batch[t].pc # "idle", NEW r \in records', r.run = batch[t].run PROVE r.day = batch[t].day
  <2>1. CASE OfBefore(r)
    BY <1>b, <1>c, <2>1 DEF OfBefore
  <2>2. CASE OfThread(r)
    BY <1>b, <1>c, <2>2 DEF OfThread
  <2>3. CASE OfRepair(r)
    BY <1>c, <2>3, RunsApart DEF OfRepair
  <2> QED BY <1>a, <2>1, <2>2, <2>3
<1>d. ASSUME repair.pc # "idle", NEW r \in records', r.run = repair.run PROVE r.day = repair.day
  <2>1. CASE OfBefore(r)
    BY <1>b, <1>d, <2>1 DEF OfBefore
  <2>2. CASE OfThread(r)
    BY <1>d, <2>2, RunsApart DEF OfThread
  <2>3. CASE OfRepair(r)
    BY <1>d, <2>3 DEF OfRepair
  <2> QED BY <1>a, <2>1, <2>2, <2>3
<1>1. ASSUME repair'.pc # "idle", NEW r \in records', r.run = repair'.run PROVE r.day = repair'.day
  <2>1. CASE StartRepair
    <3>1. repair'.run = MaxStarts + repairs + 1 /\ records' = records
      BY <2>1, StartedRepair
    <3> QED BY <1>1, <3>1, RunsApart
  <2>2. CASE repair' = repair
    BY <1>1, <1>d, <2>2
  <2>3. CASE repair' = Rested
    BY <1>1, <2>3, IdleFits
  <2>4. CASE RepairGoes
    <3>1. repair.pc # "idle" /\ repair'.run = repair.run /\ repair'.day = repair.day
      BY <2>4 DEF RepairGoes, Basics, RepairFits, Mender
    <3> QED BY <1>1, <1>d, <3>1
  <2> QED BY <2>1, <2>2, <2>3, <2>4, RepairCases
<1> DEFINE Threads ==
      \A t \in Batches : batch'[t].pc # "idle" =>
        /\ \A u \in Batches : batch'[u].pc # "idle" /\ batch'[u].run = batch'[t].run => batch'[u].day = batch'[t].day
        /\ \A r \in records' : r.run = batch'[t].run => r.day = batch'[t].day
<1>2. CASE Carried
  <2>1. \A t \in Batches : batch'[t].pc # "idle" =>
          \E u \in Batches : batch[u].pc # "idle" /\ batch'[t].run = batch[u].run /\ batch'[t].day = batch[u].day
    BY <1>2 DEF Carried, GoesOn
  <2>2. Threads
    <3>1. ASSUME NEW t \in Batches, batch'[t].pc # "idle", NEW u \in Batches, batch'[u].pc # "idle",
                 batch'[u].run = batch'[t].run
          PROVE  batch'[u].day = batch'[t].day
      <4>1. PICK x \in Batches : batch[x].pc # "idle" /\ batch'[t].run = batch[x].run /\ batch'[t].day = batch[x].day
        BY <2>1, <3>1
      <4>2. PICK y \in Batches : batch[y].pc # "idle" /\ batch'[u].run = batch[y].run /\ batch'[u].day = batch[y].day
        BY <2>1, <3>1
      <4> QED BY <1>b, <3>1, <4>1, <4>2
    <3>2. ASSUME NEW t \in Batches, batch'[t].pc # "idle", NEW r \in records', r.run = batch'[t].run
          PROVE  r.day = batch'[t].day
      <4>1. PICK x \in Batches : batch[x].pc # "idle" /\ batch'[t].run = batch[x].run /\ batch'[t].day = batch[x].day
        BY <2>1, <3>2
      <4> QED BY <1>c, <3>2, <4>1
    <3> QED BY <3>1, <3>2
  <2> QED BY <1>1, <2>2 DEF OneDay
<1>3. CASE StartBatch
  <2>1. PICK w \in Thread : batch' = [batch EXCEPT !["new"] = w] /\ w.day = today /\ w.run = starts + 1 /\ starts < MaxStarts
    BY <1>3, StartedThread
  <2>2. records' = records
    BY <1>3 DEF StartBatch
  <2>3. batch'["new"] = w /\ \A t \in Batches : t # "new" => batch'[t] = batch[t]
    BY <1>b, <2>1 DEF Batches
  <2>4. \A r \in records : r.run # starts + 1
    BY <2>1, RunsApart
  <2>5. \A t \in Batches : batch[t].pc # "idle" => batch[t].run # starts + 1
    BY RunsApart
  <2>6. Threads
    BY <1>b, <2>1, <2>2, <2>3, <2>4, <2>5
  <2> QED BY <1>1, <2>6 DEF OneDay
<1> QED BY <1>2, <1>3, ThreadsCarried

\* The first part of the invariant is kept.
LEMMA BasicsStep ==
  ASSUME Basics, [Next]_vars
  PROVE  Basics'
BY ClocksStep, ThreadsStep, RepairStep, RecordsStep, OneDayStep DEF Basics

-----------------------------------------------------------------------------

\* What a day has of a feature: a visible record of its own, with rows where a failure shows.
RecordedIn(R, f, d) ==
  \E r \in R : /\ ~r.archived /\ r.day = d /\ r.exact /\ r.feature = f
               /\ GivesRows(f) => r.value = {1}
Recorded(f, d) == RecordedIn(records, f, d)

\* The newest thread has recorded what it is past, unless a feature failed.
Progress == batch["new"].pc \in {"check", "save"} /\ ~batch["new"].failed =>
  \A j \in 1 .. Len(Selected) : j < batch["new"].i => Recorded(Selected[j], batch["new"].day)

\* A visible record of the feature and day of r, not older.
Stands(s, r) == ~s.archived /\ s.exact /\ s.day = r.day /\ s.feature = r.feature /\ s.at >= r.at

\* The repair has saved what it is past, later than all that it is to replace.
Mended(j) ==
  \E s \in records : /\ ~s.archived /\ s.exact /\ s.day = repair.day /\ s.feature = RepairFeatures[j]
                     /\ s.run = repair.run
                     /\ \A r \in repair.old : r.feature = s.feature => r.at <= s.at
RepairFollows == repair.pc # "idle" => \A j \in 1 .. 4 : j < repair.i => Mended(j)

\* The repair goes on with figures that were found good, and what it has saved holds them.
RepairHolds == repair.pc # "idle" =>
  /\ Valid(repair.live)
  /\ \A r \in records, j \in 1 .. 4 :
       r.run = repair.run /\ r.feature = RepairFeatures[j] => r.value = repair.live[j]

KaipanlaIInv ==
  Basics /\ Progress /\ RepairFollows /\ RepairHolds /\ ArchivedIsReplaced /\ DoneDayIsRecorded

\* A record that gives way to a save gives way to one of the same feature, day and second.
LEMMA SaveStands ==
  ASSUME Basics, NEW f, NEW w, NEW v, SavedBy(f, w, v)
  PROVE  /\ \E s \in records' : /\ ~s.archived /\ s.exact /\ s.feature = f /\ s.day = w.day /\ s.run = w.run
                                /\ s.at = now /\ s.value = v
         /\ \A r \in records' : r.archived => r \in records
         /\ \A s \in records : \/ s \in records'
                               \/ s.feature = f /\ s.day = w.day /\ s.run = w.run /\ s.at = now
         /\ \A q \in records' : \/ q \in records
                                \/ q.feature = f /\ q.day = w.day /\ q.run = w.run /\ q.at = now /\ q.value = v
<1> DEFINE new == [feature |-> f, day |-> w.day, value |-> v, at |-> now, run |-> w.run,
                   archived |-> FALSE, exact |-> TRUE]
<1>1. /\ new \in records' /\ new \in Record
      /\ \A r \in records' : r \in records \/ r = new
      /\ \A r \in records : \/ r \in records'
                            \/ r.feature = f /\ r.run = w.run /\ r.at = now /\ r.day = w.day
  BY SaveKeeps
<1>2. /\ ~new.archived /\ new.exact /\ new.feature = f /\ new.day = w.day /\ new.run = w.run
      /\ new.at = now /\ new.value = v
  OBVIOUS
<1> HIDE DEF new
<1> QED BY <1>1, <1>2

\* A save takes nothing from what a day has.
LEMMA SaveKeepsRecorded ==
  ASSUME Basics, NEW f, NEW w, NEW v, SavedBy(f, w, v), NEW g, NEW d, Recorded(g, d)
  PROVE  RecordedIn(records', g, d)
<1>1. PICK r \in records : /\ ~r.archived /\ r.day = d /\ r.exact /\ r.feature = g
                           /\ GivesRows(g) => r.value = {1}
  BY DEF Recorded, RecordedIn
<1>2. CASE r \in records'
  BY <1>1, <1>2 DEF Recorded, RecordedIn
<1>3. CASE r \notin records'
  <2>1. r.feature = f /\ r.day = w.day
    BY <1>3, SaveStands
  <2>2. PICK s \in records' : ~s.archived /\ s.exact /\ s.feature = f /\ s.day = w.day /\ s.value = v
    BY SaveStands
  <2> QED BY <1>1, <2>1, <2>2 DEF Recorded, RecordedIn, SavedBy
<1> QED BY <1>2, <1>3

\* Nor from what has been archived its replacement.
LEMMA SaveKeepsReplaced ==
  ASSUME Basics, ArchivedIsReplaced, NEW f, NEW w, NEW v, SavedBy(f, w, v)
  PROVE  ArchivedIsReplaced'
<1> SUFFICES ASSUME NEW r \in records', r.archived PROVE \E s \in records' : Stands(s, r)
  BY DEF ArchivedIsReplaced, OfDay, Visible, Stands
<1>1. r \in records
  BY SaveStands
<1>2. PICK s \in records : Stands(s, r)
  BY <1>1 DEF ArchivedIsReplaced, OfDay, Visible, Stands
<1>3. CASE s \in records'
  BY <1>2, <1>3
<1>4. CASE s \notin records'
  <2>1. s.feature = f /\ s.day = w.day /\ s.at = now
    BY <1>4, SaveStands
  <2>2. PICK n \in records' : ~n.archived /\ n.exact /\ n.feature = f /\ n.day = w.day /\ n.at = now
    BY SaveStands
  <2>3. Stands(n, r)
    BY <1>2, <2>1, <2>2 DEF Stands
  <2> QED BY <2>3
<1> QED BY <1>3, <1>4

\* What the end of the repair leaves: the records it noted are archived, the others as they were.
LEMMA ArchiveLeaves ==
  ASSUME Basics, RepairFollows, ArchiveOld
  PROVE  /\ \A r \in records : r \notin repair.old => r \in records'
         /\ \A r \in records' : \/ r \in records
                                \/ \E q \in repair.old : r.feature = q.feature /\ r.day = q.day /\ r.at = q.at
         /\ \A q \in repair.old : \E s \in records' : Stands(s, q)
<1>0. /\ repair.pc = "archive" /\ repair.i = 5
      /\ records' = {IF r \in repair.old THEN [r EXCEPT !.archived = TRUE] ELSE r : r \in records}
  BY DEF ArchiveOld, ToArchive, Basics, RepairFits
<1>1. \A r \in records : r \notin repair.old => r \in records'
  BY <1>0
<1>2. ASSUME NEW r \in records'
      PROVE  \/ r \in records
             \/ \E q \in repair.old : r.feature = q.feature /\ r.day = q.day /\ r.at = q.at
  <2>1. PICK q \in records : r = IF q \in repair.old THEN [q EXCEPT !.archived = TRUE] ELSE q
    BY <1>0
  <2>2. q \in Record
    BY DEF Basics, RecordsFit
  <2>3. [q EXCEPT !.archived = TRUE].feature = q.feature /\ [q EXCEPT !.archived = TRUE].day = q.day
          /\ [q EXCEPT !.archived = TRUE].at = q.at
    BY <2>2 DEF Record
  <2> QED BY <2>1, <2>3
<1>3. ASSUME NEW q \in repair.old PROVE \E s \in records' : Stands(s, q)
  <2>1. PICK j \in 1 .. 4 : q.feature = RepairFeatures[j]
    BY DEF Basics, RepairFits
  <2>2. q.day = repair.day /\ \A r \in repair.old : r.run # repair.run
    BY DEF Basics, RepairFits
  <2>3. Mended(j)
    BY <1>0 DEF RepairFollows
  <2>4. PICK s \in records : /\ ~s.archived /\ s.exact /\ s.day = repair.day /\ s.feature = RepairFeatures[j]
                             /\ s.run = repair.run
                             /\ \A r \in repair.old : r.feature = s.feature => r.at <= s.at
    BY <2>3 DEF Mended
  <2>5. s \in records' /\ s.at >= q.at
    BY <1>1, <2>1, <2>2, <2>4
  <2> QED BY <2>1, <2>2, <2>4, <2>5 DEF Stands
<1> QED BY <1>1, <1>2, <1>3

\* No step takes from a day what it has of a feature.
LEMMA RecordedStays ==
  ASSUME Basics, RepairFollows, [Next]_vars, NEW g, NEW d, Recorded(g, d)
  PROVE  RecordedIn(records', g, d)
<1>1. CASE ArchiveOld
  <2>1. PICK r \in records : /\ ~r.archived /\ r.day = d /\ r.exact /\ r.feature = g
                             /\ GivesRows(g) => r.value = {1}
    BY DEF Recorded, RecordedIn
  <2>2. CASE r \notin repair.old
    <3>1. r \in records'
      BY <1>1, <2>2, ArchiveLeaves
    <3> QED BY <2>1, <3>1 DEF Recorded, RecordedIn
  <2>3. CASE r \in repair.old
    <3>1. PICK j \in 1 .. 4 : r.feature = RepairFeatures[j]
      BY <2>3 DEF Basics, RepairFits
    <3>2. ~GivesRows(g)
      BY <2>1, <3>1, RepairIsQuiet
    <3>3. PICK s \in records' : Stands(s, r)
      BY <1>1, <2>3, ArchiveLeaves
    <3> QED BY <2>1, <3>2, <3>3 DEF Recorded, RecordedIn, Stands
  <2> QED BY <2>2, <2>3
<1>2. CASE UNCHANGED records
  BY <1>2 DEF Recorded, RecordedIn
<1>3. CASE records' # records /\ ~ArchiveOld
  <2>1. ASSUME NEW t \in Batches, SaveFeature(t) PROVE RecordedIn(records', g, d)
    BY <1>3, <2>1, BatchSaves, SaveKeepsRecorded
  <2>2. ASSUME SaveRepaired PROVE RecordedIn(records', g, d)
    BY <1>3, <2>2, RepairSaves, SaveKeepsRecorded
  <2> QED BY <1>3, <2>1, <2>2, RecordCases
<1> QED BY <1>1, <1>2, <1>3

\* No step leaves an archived record without its replacement.
LEMMA ReplacedStep ==
  ASSUME Basics, RepairFollows, ArchivedIsReplaced, [Next]_vars
  PROVE  ArchivedIsReplaced'
<1>1. CASE ArchiveOld
  <2> SUFFICES ASSUME NEW r \in records', r.archived PROVE \E s \in records' : Stands(s, r)
    BY DEF ArchivedIsReplaced, OfDay, Visible, Stands
  <2>a. \A q \in records : q \in Record
    BY DEF Basics, RecordsFit
  <2>1. CASE r \in records
    <3>1. PICK s \in records : Stands(s, r)
      BY <2>1 DEF ArchivedIsReplaced, OfDay, Visible, Stands
    <3>2. CASE s \notin repair.old
      BY <1>1, <3>1, <3>2, ArchiveLeaves
    <3>3. CASE s \in repair.old
      <4>1. PICK n \in records' : Stands(n, s)
        BY <1>1, <3>3, ArchiveLeaves
      <4>2. n \in Record /\ s \in Record /\ r \in Record
        BY <2>a, <2>1, RecordsStep DEF RecordsFit
      <4>3. n.at \in Nat /\ s.at \in Nat /\ r.at \in Nat
        BY <4>2 DEF Record
      <4>4. Stands(n, r)
        BY <3>1, <4>1, <4>3 DEF Stands
      <4> QED BY <4>4
    <3> QED BY <3>2, <3>3
  <2>2. CASE \E q \in repair.old : r.feature = q.feature /\ r.day = q.day /\ r.at = q.at
    <3>1. PICK q \in repair.old : r.feature = q.feature /\ r.day = q.day /\ r.at = q.at
      BY <2>2
    <3>2. PICK s \in records' : Stands(s, q)
      BY <1>1, ArchiveLeaves
    <3>3. Stands(s, r)
      BY <3>1, <3>2 DEF Stands
    <3> QED BY <3>3
  <2> QED BY <1>1, <2>1, <2>2, ArchiveLeaves
<1>2. CASE UNCHANGED records
  BY <1>2 DEF ArchivedIsReplaced, OfDay, Visible
<1>3. CASE records' # records /\ ~ArchiveOld
  <2>1. ASSUME NEW t \in Batches, SaveFeature(t) PROVE ArchivedIsReplaced'
    BY <1>3, <2>1, BatchSaves, SaveKeepsReplaced
  <2>2. ASSUME SaveRepaired PROVE ArchivedIsReplaced'
    BY <1>3, <2>2, RepairSaves, SaveKeepsReplaced
  <2> QED BY <1>3, <2>1, <2>2, RecordCases
<1> QED BY <1>1, <1>2, <1>3

-----------------------------------------------------------------------------

\* What a step makes of the newest thread.
LEMMA NewestCases ==
  ASSUME Basics, [Next]_vars
  PROVE  \/ batch'["new"] = batch["new"]
         \/ batch'["new"].pc \notin {"check", "save"} \/ batch'["new"].failed \/ batch'["new"].i = 1
         \/ /\ batch["new"].pc = "check" /\ batch'["new"].i = batch["new"].i
            /\ batch'["new"].day = batch["new"].day /\ batch'["new"].failed = batch["new"].failed
         \/ /\ SaveFeature("new") /\ batch'["new"] = NextFeature(batch["new"])
            /\ records' = Saved(Selected[batch["new"].i], batch["new"], batch["new"].value)
<1>0. batch \in [Batches -> Thread] /\ batch["new"] \in Thread /\ Batches = {"new", "late"}
  BY DEF Basics, ThreadsFit, Batches
<1>a. ASSUME NEW w, SetBatch("late", w) PROVE batch'["new"] = batch["new"]
  BY <1>0, <1>a DEF SetBatch
<1>b. ASSUME NEW w, SetBatch("new", w) PROVE batch'["new"] = w
  BY <1>0, <1>b DEF SetBatch
<1>c. \A b \in Thread : [b EXCEPT !.pc = "queued"].pc = "queued" /\ Failed(b).failed
  BY DEF Thread, Failed, NextFeature
<1>1. CASE StartBatch
  <2>1. batch'["new"] = [Idle EXCEPT !.pc = "queued", !.day = today, !.run = starts']
    BY <1>1, <1>b DEF StartBatch
  <2> QED BY <2>1 DEF Idle
<1>2. CASE RunBatch
  <2>1. batch'["new"] = [batch["new"] EXCEPT !.pc = "check", !.i = 1, !.failed = FALSE, !.value = {}]
    BY <1>2, <1>b DEF RunBatch
  <2> QED BY <1>0, <2>1 DEF Thread
<1>3. CASE Collect("new")
  <2> DEFINE b == batch["new"]
  <2>1. b.pc = "check"
    BY <1>3 DEF Collect
  <2>2. CASE SetBatch("new", [b EXCEPT !.pc = "queued"])
    BY <1>0, <1>b, <1>c, <2>2
  <2>3. CASE SetBatch("new", Failed(b))
    BY <1>0, <1>b, <1>c, <2>3
  <2>4. CASE \E v \in Reading(Selected[b.i]) : SetBatch("new", [b EXCEPT !.pc = "save", !.value = v])
    <3>1. PICK v : batch'["new"] = [b EXCEPT !.pc = "save", !.value = v]
      BY <1>b, <2>4
    <3> QED BY <1>0, <2>1, <3>1 DEF Thread
  <2> QED BY <1>3, <2>2, <2>3, <2>4 DEF Collect
<1>4. CASE SaveFeature("new")
  <2>1. CASE SetBatch("new", Failed(batch["new"]))
    BY <1>0, <1>b, <1>c, <2>1
  <2>2. CASE SetBatch("new", NextFeature(batch["new"])) /\
             records' = Saved(Selected[batch["new"].i], batch["new"], batch["new"].value)
    BY <1>4, <1>b, <2>2
  <2> QED BY <1>4, <2>1, <2>2 DEF SaveFeature
<1>5. CASE FinishBatch("new")
  BY <1>5, <1>b, IdleFits DEF FinishBatch
<1>6. CASE GiveUp
  BY <1>0, <1>6, <1>c DEF GiveUp
<1>7. CASE Crash
  BY <1>0, <1>7, <1>c DEF Crash
<1>8. CASE Collect("late") \/ SaveFeature("late") \/ FinishBatch("late")
  BY <1>8, <1>a DEF Collect, SaveFeature, FinishBatch
<1>9. CASE Repair \/ Tick \/ NextDay \/ UNCHANGED vars
  BY <1>9 DEF Repair, StartRepair, SaveRepaired, ArchiveOld, Tick, NextDay, vars
<1> QED BY <1>0, <1>1, <1>2, <1>3, <1>4, <1>5, <1>6, <1>7, <1>8, <1>9 DEF Next

\* The newest thread has recorded what it is past.
LEMMA ProgressStep ==
  ASSUME Basics, Progress, RepairFollows, [Next]_vars
  PROVE  Progress'
<1> SUFFICES ASSUME batch'["new"].pc \in {"check", "save"}, ~batch'["new"].failed,
                    NEW j \in 1 .. Len(Selected), j < batch'["new"].i
             PROVE  RecordedIn(records', Selected[j], batch'["new"].day)
  BY ClocksStep DEF Progress, Forward, Recorded
<1> DEFINE b == batch["new"]
           f == Selected[j]
<1>0. Selected' = Selected /\ b \in Thread /\ Len(Selected) \in Nat /\ "new" \in Batches
  BY ClocksStep, KaipanlaFacts DEF Forward, Basics, ThreadsFit, ClocksFit, Batches
<1>1. ASSUME NEW g, NEW d, Recorded(g, d) PROVE RecordedIn(records', g, d)
  BY <1>1, RecordedStays
<1>2. ASSUME b.pc \in {"check", "save"}, ~b.failed, j < b.i PROVE Recorded(f, b.day)
  BY <1>2 DEF Progress
<1>3. CASE batch'["new"] = b
  BY <1>1, <1>2, <1>3
<1>4. CASE /\ b.pc = "check" /\ batch'["new"].i = b.i /\ batch'["new"].day = b.day /\ batch'["new"].failed = b.failed
  BY <1>1, <1>2, <1>4
<1>5. CASE /\ SaveFeature("new") /\ batch'["new"] = NextFeature(b) /\ records' = Saved(Selected[b.i], b, b.value)
  <2>1. b.pc = "save" /\ SavedBy(Selected[b.i], b, b.value)
    BY <1>0, <1>5, BatchSaved
  <2>2. batch'["new"].i = b.i + 1 /\ batch'["new"].day = b.day /\ batch'["new"].failed = b.failed
    BY <1>0, <1>5 DEF NextFeature, Thread
  <2>3. b.i \in Nat
    BY <1>0 DEF Thread
  <2>4. CASE j < b.i
    BY <1>1, <1>2, <2>1, <2>2, <2>4
  <2>5. CASE j = b.i
    <3>1. PICK s \in records' : ~s.archived /\ s.exact /\ s.feature = f /\ s.day = b.day /\ s.value = b.value
      BY <2>1, <2>5, SaveStands
    <3>2. GivesRows(f) => b.value = {1}
      BY <2>1, <2>5 DEF SavedBy
    <3>3. RecordedIn(records', f, b.day)
      <4> HIDE DEF b, f
      <4> QED BY <3>1, <3>2 DEF RecordedIn
    <3> QED BY <2>2, <3>3
  <2> QED BY <2>2, <2>3, <2>4, <2>5
<1>6. CASE batch'["new"].i = 1
  BY <1>6
<1> QED BY <1>3, <1>4, <1>5, <1>6, NewestCases

\* What keeps a place of the repair mended: its record is left, or saved again.
LEMMA MendedStays ==
  ASSUME Basics, [Next]_vars, repair.pc # "idle", repair'.pc # "idle", ~StartRepair,
         NEW j \in 1 .. 4, Mended(j), SaveRepaired => j < repair.i
  PROVE  Mended(j)'
<1> DEFINE Good(s) == /\ ~s.archived /\ s.exact /\ s.day = repair.day /\ s.feature = RepairFeatures[j]
                      /\ s.run = repair.run
                      /\ \A r \in repair.old : r.feature = s.feature => r.at <= s.at
<1>1. PICK s \in records : Good(s)
  BY DEF Mended
<1>2. repair'.day = repair.day /\ repair'.run = repair.run /\ repair'.old = repair.old
  <2>1. repair' = repair \/ RepairGoes
    BY RepairCases, IdleFits
  <2> QED BY <2>1 DEF RepairGoes, Basics, RepairFits, Mender
<1>3. ~ArchiveOld
  BY IdleFits DEF ArchiveOld
<1>4. s \in records'
  <2>1. ASSUME NEW t \in Batches, SaveFeature(t), records' # records PROVE s \in records'
    <3>1. batch[t].pc = "save" /\ SavedBy(Selected[batch[t].i], batch[t], batch[t].value)
      BY <2>1, BatchSaves
    <3>2. s \in records' \/ s.run = batch[t].run
      BY <3>1, SaveStands
    <3> QED BY <1>1, <2>1, <3>1, <3>2, RunsApart
  <2>2. ASSUME SaveRepaired, records' # records PROVE s \in records'
    <3>1. repair.i \in 1 .. 4 /\ SavedBy(RepairFeatures[repair.i], repair, repair.live[repair.i])
      BY <2>2, RepairSaves
    <3>2. s \in records' \/ s.feature = RepairFeatures[repair.i]
      BY <3>1, SaveStands
    <3>3. RepairFeatures[repair.i] # RepairFeatures[j]
      BY <2>2, <3>1, KaipanlaFacts
    <3> QED BY <1>1, <3>2, <3>3
  <2> QED BY <1>1, <1>3, <2>1, <2>2, RecordCases
<1> HIDE DEF Good
<1>5. \E q \in records' : Good(q)
  BY <1>1, <1>4
<1> QED BY <1>2, <1>5 DEF Mended, Good

\* The repair has saved what it is past.
LEMMA RepairFollowsStep ==
  ASSUME Basics, RepairFollows, [Next]_vars
  PROVE  RepairFollows'
<1> SUFFICES ASSUME repair'.pc # "idle", NEW j \in 1 .. 4, j < repair'.i PROVE Mended(j)'
  BY DEF RepairFollows
<1>1. CASE StartRepair
  BY <1>1, StartedRepair
<1>2. CASE SaveRepaired /\ ~StartRepair
  <2>1. /\ records' = Saved(RepairFeatures[repair.i], repair, repair.live[repair.i])
        /\ repair' = [repair EXCEPT !.i = @ + 1, !.pc = IF repair.i = 4 THEN "archive" ELSE @]
    BY <1>2, IdleFits DEF SaveRepaired
  <2>2. repair.pc = "save" /\ repair.i \in 1 .. 4 /\ SavedBy(RepairFeatures[repair.i], repair, repair.live[repair.i])
    BY <1>2, <2>1, RepairSaved
  <2>3. repair'.i = repair.i + 1 /\ repair'.day = repair.day /\ repair'.run = repair.run /\ repair'.old = repair.old
    BY <2>1 DEF Basics, RepairFits, Mender
  <2>4. CASE j < repair.i
    BY <1>2, <2>2, <2>4, MendedStays DEF RepairFollows
  <2>5. CASE j = repair.i
    <3>1. PICK s \in records' : /\ ~s.archived /\ s.exact /\ s.feature = RepairFeatures[j] /\ s.day = repair.day
                                /\ s.run = repair.run /\ s.at = now
      BY <2>2, <2>5, SaveStands
    <3>2. \A r \in repair.old : r.at <= s.at
      BY <3>1 DEF Basics, RepairFits
    <3> QED BY <2>3, <3>1, <3>2 DEF Mended
  <2> QED BY <2>2, <2>3, <2>4, <2>5
<1>3. CASE ~SaveRepaired /\ ~StartRepair
  <2>1. repair' = repair
    BY <1>3, IdleFits, RepairCases DEF Next, Repair, vars, StartBatch, RunBatch, GiveUp, Collect, SaveFeature, FinishBatch,
       ArchiveOld, Tick, NextDay, Crash
  <2> QED BY <1>3, <2>1, MendedStays DEF RepairFollows
<1> QED BY <1>1, <1>2, <1>3

\* The repair saves the figures it goes on with, and nobody else saves for its run.
LEMMA RepairHoldsStep ==
  ASSUME Basics, RepairHolds, [Next]_vars
  PROVE  RepairHolds'
<1> SUFFICES ASSUME repair'.pc # "idle"
             PROVE  /\ Valid(repair'.live)
                    /\ \A r \in records', j \in 1 .. 4 :
                         r.run = repair'.run /\ r.feature = RepairFeatures[j] => r.value = repair'.live[j]
  BY DEF RepairHolds, Valid
<1>1. CASE StartRepair
  <2>1. Valid(repair'.live)
    BY <1>1 DEF StartRepair
  <2>2. repair'.run = MaxStarts + repairs + 1 /\ records' = records
    BY <1>1, StartedRepair
  <2>3. \A r \in records : r.run # repair'.run
    BY <2>2, RunsApart
  <2> QED BY <2>1, <2>2, <2>3
<1>2. CASE SaveRepaired /\ ~StartRepair
  <2>1. /\ records' = Saved(RepairFeatures[repair.i], repair, repair.live[repair.i])
        /\ repair' = [repair EXCEPT !.i = @ + 1, !.pc = IF repair.i = 4 THEN "archive" ELSE @]
    BY <1>2, IdleFits DEF SaveRepaired
  <2>2. repair.pc = "save" /\ repair.i \in 1 .. 4 /\ SavedBy(RepairFeatures[repair.i], repair, repair.live[repair.i])
    BY <1>2, <2>1, RepairSaved
  <2>3. repair'.run = repair.run /\ repair'.live = repair.live
    BY <2>1 DEF Basics, RepairFits, Mender
  <2>4. ASSUME NEW r \in records', NEW j \in 1 .. 4, r.run = repair.run, r.feature = RepairFeatures[j]
        PROVE  r.value = repair.live[j]
    <3>1. r \in records \/ (r.feature = RepairFeatures[repair.i] /\ r.value = repair.live[repair.i])
      BY <2>2, SaveStands
    <3>2. RepairFeatures[j] = RepairFeatures[repair.i] => j = repair.i
      BY <2>2, KaipanlaFacts
    <3> QED BY <2>2, <2>4, <3>1, <3>2 DEF RepairHolds
  <2> QED BY <2>2, <2>3, <2>4 DEF RepairHolds
<1>3. CASE ~SaveRepaired /\ ~StartRepair
  <2>1. repair' = repair
    BY <1>3, IdleFits, RepairCases DEF Next, Repair, vars, StartBatch, RunBatch, GiveUp, Collect, SaveFeature, FinishBatch,
       ArchiveOld, Tick, NextDay, Crash
  <2>2. ASSUME NEW r \in records', r.run = repair.run PROVE r \in records
    <3>1. ASSUME NEW t \in Batches, SaveFeature(t), records' # records PROVE r \in records
      <4>1. batch[t].pc = "save" /\ SavedBy(Selected[batch[t].i], batch[t], batch[t].value)
        BY <3>1, BatchSaves
      <4>2. r \in records \/ r.run = batch[t].run
        BY <4>1, SaveStands
      <4> QED BY <2>1, <2>2, <4>1, <4>2, RunsApart
    <3>2. ~ArchiveOld
      BY <2>1, IdleFits DEF ArchiveOld
    <3> QED BY <1>3, <3>1, <3>2, RecordCases
  <2> QED BY <2>1, <2>2 DEF RepairHolds
<1> QED BY <1>1, <1>2, <1>3

\* A day that is done has all that was selected.
LEMMA DoneIsRecorded ==
  DoneDayIsRecorded <=> \A d \in done : \A j \in DOMAIN Selected : RecordedIn(records, Selected[j], d)
<1>1. \A d, f : (\E r \in OfDay(d) : r.feature = f /\ (GivesRows(f) => r.value = {1})) <=> RecordedIn(records, f, d)
  BY DEF OfDay, Visible, RecordedIn
<1>2. ASSUME DoneDayIsRecorded, NEW d \in done, NEW j \in DOMAIN Selected PROVE RecordedIn(records, Selected[j], d)
  <2>1. Selected[j] \in {Selected[i] : i \in DOMAIN Selected}
    OBVIOUS
  <2>2. \E r \in OfDay(d) : r.feature = Selected[j] /\ (GivesRows(Selected[j]) => r.value = {1})
    BY <1>2, <2>1 DEF DoneDayIsRecorded
  <2> QED BY <1>1, <2>2
<1>3. ASSUME \A d \in done : \A j \in DOMAIN Selected : RecordedIn(records, Selected[j], d)
      PROVE  DoneDayIsRecorded
  <2> SUFFICES ASSUME NEW d \in done, NEW j \in DOMAIN Selected
               PROVE  \E r \in OfDay(d) : r.feature = Selected[j] /\ (GivesRows(Selected[j]) => r.value = {1})
    BY DEF DoneDayIsRecorded
  <2> QED BY <1>1, <1>3
<1> QED BY <1>2, <1>3

\* A day becomes done only when all is recorded, and stays recorded.
LEMMA DoneStep ==
  ASSUME Basics, Progress, RepairFollows, DoneDayIsRecorded, [Next]_vars
  PROVE  DoneDayIsRecorded'
<1>0. Selected' = Selected /\ Len(Selected) \in Nat /\ DOMAIN Selected = 1 .. Len(Selected)
  BY ClocksStep, KaipanlaFacts DEF Forward, Basics, ClocksFit
<1>1. \A g, d : Recorded(g, d) => RecordedIn(records', g, d)
  BY RecordedStays
<1>2. (DoneDayIsRecorded <=> \A d \in done : \A j \in DOMAIN Selected : RecordedIn(records, Selected[j], d))'
  BY DoneIsRecorded, PTL
<1> SUFFICES ASSUME NEW d \in done', NEW j \in 1 .. Len(Selected) PROVE Recorded(Selected[j], d)
  BY <1>0, <1>1, <1>2
<1>3. CASE d \in done
  BY <1>0, <1>3, DoneIsRecorded DEF Recorded
<1>4. CASE d \notin done
  <2>1. PICK t \in Batches : FinishBatch(t)
    BY <1>4, ClocksStep DEF Forward
  <2> DEFINE b == batch["new"]
  <2>2. b.pc = "check" /\ b.i > Len(Selected) /\ d = b.day /\ ~b.failed
    BY <1>4, <2>1 DEF FinishBatch, BatchOk
  <2>3. b.i \in Nat
    BY DEF Basics, ThreadsFit, Batches, Thread
  <2>4. j < b.i
    <3> HIDE DEF b
    <3> QED BY <1>0, <2>2, <2>3
  <2> QED BY <2>2, <2>4 DEF Progress
<1> QED BY <1>3, <1>4

-----------------------------------------------------------------------------

\* The days there are at first.
LEMMA FirstDays ==
  Min(Days) \in Days /\ Min(Days \ {Min(Days)}) \in Days
<1>1. Days \in SUBSET Nat /\ IsFiniteSet(Days) /\ Cardinality(Days) > 1
  BY KaipanlaAssumption DEF KaipanlaAssumption
<1>2. Days # {}
  BY <1>1, FS_EmptySet
<1>3. Min(Days) \in Days
  BY <1>1, <1>2, MinIsLeast
<1>4. Days \ {Min(Days)} # {}
  <2>1. Days # {Min(Days)}
    BY <1>1, FS_Singleton
  <2> QED BY <1>3, <2>1
<1>5. Min(Days \ {Min(Days)}) \in Days \ {Min(Days)}
  BY <1>1, <1>4, MinIsLeast
<1> QED BY <1>3, <1>5

\* The invariant holds at first,
LEMMA KaipanlaInit == Init => KaipanlaIInv
<1> SUFFICES ASSUME Init PROVE KaipanlaIInv
  OBVIOUS
<1>1. ClocksFit
  BY FirstDays, KaipanlaFacts DEF Init, ClocksFit
<1>2. ThreadsFit
  <2>1. ThreadFits(Idle)
    BY <1>1, IdleFits, KaipanlaFacts DEF ThreadFits, ClocksFit
  <2>2. batch \in [Batches -> Thread] /\ \A t \in Batches : batch[t] = Idle
    BY IdleFits DEF Init
  <2> QED BY <2>1, <2>2 DEF ThreadsFit
<1>3. RepairFits
  BY IdleFits DEF Init, RepairFits
<1>4. ASSUME NEW r \in records
      PROVE  r \in Record /\ r.at = 0 /\ r.run = 0 /\ (r.feature = "daily_data" => r.exact) /\ ~r.archived
  <2> DEFINE d == Min(Days)
  <2>1. d \in Days /\ 1 \in 0 .. Top /\ Top \in 0 .. Top /\ 0 \in 0 .. MaxClock /\ 0 \in 0 .. MaxStarts + MaxRepairs
    BY FirstDays, KaipanlaFacts
  <2>2. /\ "daily_data" \in Features /\ "realtime_sharp_withdrawal" \in Features
        /\ "consecutive_limit_up" \in Features /\ "sharp_withdrawal" \in Features
    <3>1. RepairFeatures[1] = "consecutive_limit_up" /\ RepairFeatures[4] = "sharp_withdrawal"
      BY DEF RepairFeatures
    <3>2. RepairFeatures[1] \in Features /\ RepairFeatures[4] \in Features
      BY KaipanlaFacts
    <3> QED BY <3>1, <3>2 DEF Features
  <2>3. r = Derived \/ r = Fact("daily_data", d, 1, 0) \/ r = Fact("consecutive_limit_up", d, Top, 0)
          \/ r = Fact("sharp_withdrawal", d, 1, 0)
    BY DEF Init
  <2> HIDE DEF d
  <2>4. ASSUME NEW f \in Features, NEW v \in 0 .. Top
        PROVE  LET x == Fact(f, d, v, 0)
               IN  x \in Record /\ x.at = 0 /\ x.run = 0 /\ x.exact /\ ~x.archived /\ x.feature = f
    <3>1. {v} \in Value
      BY DEF Value
    <3> QED BY <2>1, <3>1 DEF Fact, Record
  <2>5. Derived = [Fact("realtime_sharp_withdrawal", d, 1, 0) EXCEPT !.exact = FALSE]
    BY DEF Derived, d
  <2>6. /\ Derived \in Record /\ Derived.at = 0 /\ Derived.run = 0 /\ ~Derived.archived
        /\ Derived.feature = "realtime_sharp_withdrawal"
    <3> DEFINE x == Fact("realtime_sharp_withdrawal", d, 1, 0)
    <3>1. x \in Record /\ x.at = 0 /\ x.run = 0 /\ x.exact /\ ~x.archived /\ x.feature = "realtime_sharp_withdrawal"
      BY <2>1, <2>2, <2>4
    <3> HIDE DEF x
    <3>2. Derived = [x EXCEPT !.exact = FALSE]
      BY <2>5 DEF x
    <3> QED BY <3>1, <3>2 DEF Record
  <2> QED BY <2>1, <2>2, <2>3, <2>4, <2>6
<1>5. RecordsFit
  BY <1>1, <1>4, KaipanlaFacts DEF RecordsFit, ClocksFit
<1>6. OneDay
  BY IdleFits DEF Init, OneDay
<1>7. Progress
  BY IdleFits DEF Init, Progress, Batches
<1>8. RepairFollows
  BY IdleFits DEF Init, RepairFollows
<1>9. ArchivedIsReplaced
  BY <1>4 DEF ArchivedIsReplaced
<1>11. RepairHolds
  BY IdleFits DEF Init, RepairHolds
<1>10. DoneDayIsRecorded
  BY DEF Init, DoneDayIsRecorded
<1> QED BY <1>1, <1>2, <1>3, <1>5, <1>6, <1>7, <1>8, <1>9, <1>10, <1>11 DEF KaipanlaIInv, Basics

\* The fallback shows a day with a packet, and none after the one that was asked for.
LEMMA BasicsShowPackets == Basics => PacketIsShown
<1> SUFFICES ASSUME Basics, NEW d \in Days, NEW r \in Visible, r.feature = "daily_data", r.day <= d
             PROVE  HasPacket(ShownFor(d)) /\ ShownFor(d) <= d
  BY DEF PacketIsShown
<1>0. Days \in SUBSET Nat /\ 0 \notin Days /\ IsFiniteSet(Days) /\ d \in Nat /\ d # 0
  BY KaipanlaFacts
<1>1. \A x \in Visible : x \in Record /\ ~x.archived /\ x.day \in Days /\ (x.feature = "daily_data" => x.exact)
  BY DEF Basics, RecordsFit, Visible, Record
<1> DEFINE from == {x.day : x \in {y \in Visible : y.day <= d /\ (TRUE => y.feature = "daily_data")}}
<1>2. r.day \in from /\ from \in SUBSET Nat /\ IsFiniteSet(from)
  <2>1. r.day \in from /\ from \subseteq Days
    BY <1>1
  <2> HIDE DEF from
  <2> QED BY <1>0, <2>1, FS_Subset
<1>3. Max(from) \in from
  <2> HIDE DEF from
  <2> QED BY <1>2, MaxIsGreatest
<1>4. LatestDay(d, TRUE) = Max(from)
  <2>1. from # {}
    BY <1>2
  <2> QED BY <2>1, Zenon DEF LatestDay
<1>5. Max(from) <= d /\ Max(from) # 0 /\ HasPacket(Max(from))
  <2>1. PICK x \in Visible : x.day = Max(from) /\ x.day <= d /\ x.feature = "daily_data"
    BY <1>3
  <2>2. x.exact /\ x.day \in Days
    BY <1>1, <2>1
  <2> HIDE DEF from
  <2>3. HasPacket(Max(from))
    BY <2>1, <2>2 DEF HasPacket, OfDay
  <2> QED BY <1>0, <2>1, <2>2, <2>3
<1> HIDE DEF from
<1>6. ShownFor(d) = IF HasPacket(d) THEN d ELSE Max(from)
  BY <1>0, <1>4, <1>5 DEF ShownFor
<1> QED BY <1>0, <1>5, <1>6

-----------------------------------------------------------------------------

\* and every step keeps it.
LEMMA KaipanlaNext ==
  ASSUME KaipanlaIInv, [Next]_vars
  PROVE  KaipanlaIInv'
BY BasicsStep, ProgressStep, RepairFollowsStep, RepairHoldsStep, ReplacedStep, DoneStep DEF KaipanlaIInv

\* Whatever the batch, the repair and the clock do, the records are of runs there have been,
\* and the batch and the repair have left behind what they are past.
THEOREM KaipanlaInvCorrect == Spec => []KaipanlaIInv
<1>1. KaipanlaIInv /\ [Next]_vars => KaipanlaIInv'
  BY KaipanlaNext
<1> QED BY <1>1, KaipanlaInit, PTL DEF Spec

\* Every variable has its type; a thread never counts past the end of the features.
THEOREM KaipanlaTypeCorrect == Spec => []TypeOK
<1>1. KaipanlaIInv => TypeOK
  BY BasicsAreTypes DEF KaipanlaIInv
<1> QED BY <1>1, KaipanlaInvCorrect, PTL

\* kaipanla_daily_overview: a day asked for is shown by a daily packet of it, or of an earlier
\* day, as soon as there is one.
THEOREM PacketCorrect == Spec => []PacketIsShown
<1>1. KaipanlaIInv => PacketIsShown
  BY BasicsShowPackets DEF KaipanlaIInv
<1> QED BY <1>1, KaipanlaInvCorrect, PTL

\* KaipanlaScheduler marks a day as done only when each of the configured features has a visible
\* record of that day, whatever was given up, repeated, repaired or interrupted on the way.
THEOREM DoneDayCorrect == Spec => []DoneDayIsRecorded
<1>1. KaipanlaIInv => DoneDayIsRecorded
  BY DEF KaipanlaIInv
<1> QED BY <1>1, KaipanlaInvCorrect, PTL

\* repair_kaipanla_overview_history archives nothing without a visible replacement of the
\* same feature and day that is not older.
THEOREM ArchivedCorrect == Spec => []ArchivedIsReplaced
<1>1. KaipanlaIInv => ArchivedIsReplaced
  BY DEF KaipanlaIInv
<1> QED BY <1>1, KaipanlaInvCorrect, PTL

-----------------------------------------------------------------------------
(* What the overview shows, before and after a step of the repair *)

\* The records of a day and feature the overview may choose from, and those of a set that
\* were saved last.
Of(R, d, f) == {r \in R : ~r.archived /\ r.exact /\ r.day = d /\ r.feature = f}
Latest(S)   == {r \in S : \A s \in S : s.at <= r.at}

LEMMA NewestIsLatest ==
  \A d, f : /\ Newest(d, f) = Latest(Of(records, d, f))
            /\ Newest(d, f)' = Latest(Of(records', d, f))
BY DEF Newest, OfDay, Visible, Of, Latest

\* Of records there are one was saved last.
LEMMA LatestExists ==
  ASSUME NEW S \in SUBSET Record, S # {}
  PROVE  Latest(S) # {}
<1> DEFINE T == {s.at : s \in S}
<1>1. T \in SUBSET Nat /\ T # {} /\ IsFiniteSet(T) /\ \A s \in S : s.at \in Nat
  <2>1. T \subseteq 0 .. MaxClock /\ T # {}
    BY DEF Record
  <2>2. IsFiniteSet(0 .. MaxClock) /\ MaxClock \in Nat
    BY KaipanlaFacts, FS_Interval
  <2>3. \A s \in S : s.at \in 0 .. MaxClock
    BY DEF Record
  <2> HIDE DEF T
  <2>4. IsFiniteSet(T)
    BY <2>1, <2>2, FS_Subset
  <2>5. 0 .. MaxClock \subseteq Nat
    BY <2>2
  <2> QED BY <2>1, <2>3, <2>4, <2>5
<1>2. PICK x \in T : \A y \in T : x >= y
  <2> HIDE DEF T
  <2> QED BY <1>1, GreatestExists
<1>3. PICK r \in S : r.at = x
  OBVIOUS
<1>4. r \in Latest(S)
  <2>1. \A s \in S : s.at \in T
    OBVIOUS
  <2> HIDE DEF T
  <2> QED BY <1>1, <1>2, <1>3, <2>1 DEF Latest
<1> QED BY <1>4

\* A save leaves other features and days alone; of its own the newest record is the one it
\* saved, or one of the same second.
LEMMA SaveNewest ==
  ASSUME Basics, NEW f, NEW w, NEW v, SavedBy(f, w, v), NEW d, NEW g
  PROVE  /\ d # w.day \/ g # f => Of(records', d, g) = Of(records, d, g)
         /\ Latest(Of(records', w.day, f)) # {}
         /\ \A r \in Latest(Of(records', w.day, f)) :
              r.value = v \/ r \in Latest(Of(records, w.day, f))
<1>1. PICK n \in records' : /\ ~n.archived /\ n.exact /\ n.feature = f /\ n.day = w.day /\ n.run = w.run
                            /\ n.at = now /\ n.value = v
  BY SaveStands
<1>2. \A s \in records : s \in records' \/ (s.feature = f /\ s.day = w.day /\ s.at = now)
  BY SaveStands
<1>3. \A q \in records' : \/ q \in records
                          \/ q.feature = f /\ q.day = w.day /\ q.at = now /\ q.value = v
  BY SaveStands
<1>4. now \in Nat /\ \A r \in records : r.at <= now /\ r.at \in Nat
  BY KaipanlaFacts DEF Basics, RecordsFit, ClocksFit, Record
<1>5. ASSUME d # w.day \/ g # f PROVE Of(records', d, g) = Of(records, d, g)
  BY <1>2, <1>3, <1>5 DEF Of
<1>6. n \in Latest(Of(records', w.day, f))
  BY <1>1, <1>3, <1>4 DEF Of, Latest
<1>7. ASSUME NEW r \in Latest(Of(records', w.day, f)), r.value # v
      PROVE  r \in Latest(Of(records, w.day, f))
  <2>1. r \in records /\ r \in Of(records, w.day, f)
    BY <1>3, <1>7 DEF Of, Latest
  <2>2. n \in Of(records', w.day, f)
    BY <1>1 DEF Of
  <2>3. now <= r.at
    BY <1>1, <2>2 DEF Latest
  <2>4. \A s \in records : s.at <= r.at
    BY <1>4, <2>1, <2>3
  <2> QED BY <2>1, <2>4 DEF Latest, Of
<1> QED BY <1>5, <1>6, <1>7

\* The end of the repair shows nothing new, and leaves nothing without a record.
LEMMA ArchiveNewest ==
  ASSUME Basics, RepairFollows, ArchiveOld, NEW d, NEW g
  PROVE  /\ Latest(Of(records', d, g)) \subseteq Latest(Of(records, d, g))
         /\ Latest(Of(records', d, g)) = {} => Latest(Of(records, d, g)) = {}
<1>1. records' = {IF r \in repair.old THEN [r EXCEPT !.archived = TRUE] ELSE r : r \in records}
  BY DEF ArchiveOld, ToArchive
<1>2. records \subseteq Record /\ records' \subseteq Record
  BY RecordsStep DEF Basics, RecordsFit, Next, Repair
<1>3. \A r \in records' : ~r.archived => r \in records
  <2> SUFFICES ASSUME NEW q \in records, q \in repair.old PROVE [q EXCEPT !.archived = TRUE].archived
    BY <1>1
  <2> QED BY <1>2 DEF Record
<1>4. ASSUME NEW s \in Of(records, d, g)
      PROVE  \E n \in Of(records', d, g) : n.at >= s.at
  <2>1. CASE s \notin repair.old
    <3>1. s \in Of(records', d, g)
      BY <2>1, ArchiveLeaves DEF Of
    <3>2. s.at \in Nat
      BY <1>2 DEF Of, Record
    <3> QED BY <3>1, <3>2
  <2>2. CASE s \in repair.old
    <3>1. PICK n \in records' : Stands(n, s)
      BY <2>2, ArchiveLeaves
    <3>2. n \in Of(records', d, g)
      BY <3>1 DEF Of, Stands
    <3> QED BY <3>1, <3>2 DEF Stands
  <2> QED BY <2>1, <2>2
<1>5. ASSUME NEW r \in Latest(Of(records', d, g)) PROVE r \in Latest(Of(records, d, g))
  <2>1. r \in Of(records, d, g) /\ r \in Record
    BY <1>2, <1>3 DEF Of, Latest
  <2>2. ASSUME NEW s \in Of(records, d, g) PROVE s.at <= r.at
    <3>1. PICK n \in Of(records', d, g) : n.at >= s.at
      BY <1>4
    <3>2. n.at <= r.at
      BY DEF Latest
    <3>3. n.at \in Nat /\ s.at \in Nat /\ r.at \in Nat
      BY <1>2, <2>1 DEF Of, Record
    <3> QED BY <3>1, <3>2, <3>3
  <2> QED BY <2>1, <2>2 DEF Latest
<1>6. ASSUME Latest(Of(records, d, g)) # {} PROVE Latest(Of(records', d, g)) # {}
  <2>1. PICK s : s \in Of(records, d, g)
    BY <1>6 DEF Latest
  <2>2. Of(records', d, g) # {}
    BY <1>4, <2>1
  <2>3. Of(records', d, g) \in SUBSET Record
    BY <1>2 DEF Of
  <2> QED BY <2>2, <2>3, LatestExists
<1> QED BY <1>5, <1>6

\* What of a figure's records is shown after a step was shown before: the figure stays certain.
LEMMA FigureStays ==
  ASSUME NEW d, NEW label \in {"up", "top", "high", "back"}, Solid(label, d),
         \A g : Values(d, g)' \subseteq Values(d, g),
         Newest(d, "sharp_withdrawal")' = {} <=> Newest(d, "sharp_withdrawal") = {}
  PROVE  Solid(label, d)'
<1>1. Kpi(label, d)' \subseteq Kpi(label, d)
  <2>1. CASE label = "up"
    BY <2>1 DEF Kpi
  <2>2. CASE label = "top"
    BY <2>2 DEF Kpi
  <2>3. CASE label = "high"
    BY <2>3 DEF Kpi
  <2>4. CASE label = "back"
    BY <2>4 DEF Kpi
  <2> QED BY <2>1, <2>2, <2>3, <2>4
<1> QED BY <1>1 DEF Solid

\* A save of the repair takes no figure away but a height.
LEMMA SaveKeepsFigures ==
  ASSUME Basics, RepairFollows, RepairHolds, SaveRepaired, NEW d \in Days,
         NEW label \in {"up", "top", "high", "back"}, Solid(label, d)
  PROVE  \/ Solid(label, d)'
         \/ /\ label = "top" /\ d = repair.day
            /\ repair'.i = 2 \/ (repair'.i = 3 /\ Overtaken)
<1>0. PICK i, c, f, v : i = repair.i /\ c = repair.day /\ f = RepairFeatures[repair.i] /\ v = repair.live[repair.i]
  OBVIOUS
<1>1. CASE records' = records
  <2>1. \A e, g : Newest(e, g)' = Newest(e, g)
    BY <1>1, NewestIsLatest
  <2>2. \A e, g : Values(e, g)' = Values(e, g)
    BY <2>1 DEF Values
  <2> QED BY <2>1, <2>2, FigureStays
<1>2. CASE records' # records
  <2>1. i \in 1 .. 4 /\ SavedBy(f, repair, v) /\ repair.pc = "save" /\ f = RepairFeatures[i] /\ v = repair.live[i]
    BY <1>0, <1>2, RepairSaves
  <2>2. repair'.i = i + 1
    BY <1>0, <1>2, RepairSaves DEF Basics, RepairFits, Mender
  <2>3. \A g, e : Newest(e, g) = Latest(Of(records, e, g)) /\ Newest(e, g)' = Latest(Of(records', e, g))
    BY NewestIsLatest
  <2>4. \A g, e : e # c \/ g # f => Newest(e, g)' = Newest(e, g)
    BY <1>0, <2>1, <2>3, SaveNewest
  <2>5. \A g, e : e # c \/ g # f => Values(e, g)' = Values(e, g)
    BY <2>4 DEF Values
  <2>6. Newest(c, f)' # {} /\ \A r \in Newest(c, f)' : r.value = v \/ r \in Newest(c, f)
    BY <1>0, <2>1, <2>3, SaveNewest
  <2>7. \A x \in Values(c, f)' : x = v \/ x \in Values(c, f)
    BY <2>6 DEF Values
  <2>8. CASE d # c
    BY <2>4, <2>5, <2>8, FigureStays
  <2>9. CASE d = c
    <3>1. /\ i = 1 => f = "consecutive_limit_up"
          /\ i = 2 => f = "market_limit_up_ladder"
          /\ i = 3 => f = "new_high_data"
          /\ i = 4 => f = "sharp_withdrawal"
          /\ f # "daily_data" /\ f # "realtime_sharp_withdrawal"
      BY <2>1 DEF RepairFeatures
    <3>2. /\ \A x \in {Highest(repair.live[1], repair.live[2]), repair.live[3], repair.live[4]} :
               x # {} /\ 0 \notin x
      BY <2>1 DEF RepairHolds, Valid
    <3>3. CASE label = "up"
      <4>1. Kpi(label, d) = Values(d, "daily_data") /\ Kpi(label, d)' = Values(d, "daily_data")'
        BY <3>3 DEF Kpi
      <4> QED BY <2>5, <3>1, <4>1 DEF Solid
    <3>4. CASE label = "high"
      <4>1. Kpi(label, d) = Values(d, "new_high_data") /\ Kpi(label, d)' = Values(d, "new_high_data")'
        BY <3>4 DEF Kpi
      <4>2. CASE i = 3
        BY <2>1, <2>7, <2>9, <3>1, <3>2, <4>1, <4>2 DEF Solid
      <4>3. CASE i # 3
        <5>1. f # "new_high_data"
          BY <2>1, <3>1, <4>3
        <5> QED BY <2>5, <4>1, <5>1 DEF Solid
      <4> QED BY <4>2, <4>3
    <3>5. CASE label = "back"
      <4>1. CASE i = 4
        <5>1. Kpi(label, d)' = Values(d, f)' /\ (Newest(d, f) # {} => Kpi(label, d) = Values(d, f))
          BY <2>6, <2>9, <3>1, <3>5, <4>1 DEF Kpi
        <5>2. ASSUME NEW x \in Values(d, f)', x # v PROVE Newest(d, f) # {} /\ x \in Values(d, f)
          <6>1. PICK r \in Newest(d, f)' : x = r.value
            BY <2>6, <2>9, <5>2 DEF Values
          <6> QED BY <2>6, <2>9, <5>2, <6>1 DEF Values
        <5>3. v # {} /\ 0 \notin v
          BY <2>1, <3>2, <4>1
        <5> QED BY <5>1, <5>2, <5>3 DEF Solid
      <4>2. CASE i # 4
        <5>1. f # "sharp_withdrawal"
          BY <2>1, <3>1, <4>2
        <5>2. Kpi(label, d)' = Kpi(label, d)
          BY <2>4, <2>5, <3>1, <3>5, <5>1 DEF Kpi
        <5> QED BY <5>2 DEF Solid
      <4> QED BY <4>1, <4>2
    <3>6. CASE label = "top" /\ i = 2 /\ ~Overtaken
      <4> DEFINE A == Values(d, "consecutive_limit_up")
                 B == Values(d, "market_limit_up_ladder")
      <4>1. Newest(d, "consecutive_limit_up") # {}
        <5>1. PICK s \in records : /\ ~s.archived /\ s.exact /\ s.day = d
                                   /\ s.feature = "consecutive_limit_up"
          BY <1>0, <2>1, <2>9, <3>6 DEF RepairFollows, Mended, RepairFeatures
        <5>2. Of(records, d, "consecutive_limit_up") # {}
          BY <5>1 DEF Of
        <5>3. Of(records, d, "consecutive_limit_up") \in SUBSET Record
          BY DEF Of, Basics, RecordsFit
        <5> QED BY <2>3, <5>2, <5>3, LatestExists
      <4>2. \A r \in Newest(d, "consecutive_limit_up") : r.value = repair.live[1]
        <5>1. ASSUME NEW r \in Newest(d, "consecutive_limit_up")
              PROVE  r \in records /\ r.run = repair.run /\ r.feature = RepairFeatures[1]
          BY <1>0, <2>9, <3>6 DEF Overtaken, Newest, OfDay, Visible, RepairFeatures
        <5> QED BY <2>1, <5>1 DEF RepairHolds
      <4>3. A = {repair.live[1]}
        BY <4>1, <4>2 DEF Values
      <4>4. A' = A
        BY <2>5, <3>1, <3>6
      <4>5. \A x \in B' : x = repair.live[2] \/ x \in B
        BY <2>1, <2>7, <2>9, <3>1, <3>6
      <4> HIDE DEF A, B
      <4>6. /\ Kpi(label, d) = {Highest(a, b) : a \in A, b \in B}
            /\ Kpi(label, d)' = {Highest(a, b) : a \in A', b \in B'}
        BY <3>6 DEF Kpi, A, B
      <4> QED BY <3>2, <4>3, <4>4, <4>5, <4>6 DEF Solid
    <3>7. CASE label = "top" /\ i > 2
      <4>1. f # "consecutive_limit_up" /\ f # "market_limit_up_ladder"
        BY <2>1, <3>7 DEF RepairFeatures
      <4>2. Kpi(label, d)' = Kpi(label, d)
        BY <2>5, <3>7, <4>1 DEF Kpi
      <4> QED BY <4>2 DEF Solid
    <3>8. i = 1 => repair'.i = 2
      BY <2>2
    <3>9. i = 2 => repair'.i = 3
      BY <2>2
    <3> QED BY <1>0, <2>1, <2>9, <3>3, <3>4, <3>5, <3>6, <3>7, <3>8, <3>9
  <2> QED BY <2>8, <2>9
<1> QED BY <1>1, <1>2

\* repair_kaipanla_overview_history takes no figure away that was certain, though it saves and
\* archives record by record and a batch saves between: but the height of its own day between
\* the two ladders, or after them if its first one was overtaken.
THEOREM RepairKeepsCorrect == Spec => RepairKeepsFigures
<1> DEFINE Keeps == repair' # repair => \A d \in Days, label \in {"up", "top", "high", "back"} :
               Solid(label, d) => \/ Solid(label, d)'
                                  \/ /\ label = "top" /\ d = repair.day
                                     /\ repair'.i = 2 \/ (repair'.i = 3 /\ Overtaken)
<1>1. ASSUME KaipanlaIInv, [Next]_vars PROVE Keeps
  <2> SUFFICES ASSUME repair' # repair, NEW d \in Days, NEW label \in {"up", "top", "high", "back"},
                      Solid(label, d)
               PROVE  \/ Solid(label, d)'
                      \/ /\ label = "top" /\ d = repair.day
                         /\ repair'.i = 2 \/ (repair'.i = 3 /\ Overtaken)
    OBVIOUS
  <2>1. CASE SaveRepaired
    BY <1>1, <2>1, SaveKeepsFigures DEF KaipanlaIInv
  <2>2. CASE ArchiveOld
    <3>1. \A g : Newest(d, g)' \subseteq Newest(d, g) /\ (Newest(d, g)' = {} => Newest(d, g) = {})
      BY <1>1, <2>2, ArchiveNewest, NewestIsLatest DEF KaipanlaIInv
    <3>2. ASSUME NEW g PROVE Values(d, g)' \subseteq Values(d, g)
      <4>1. Newest(d, g)' \subseteq Newest(d, g) /\ (Newest(d, g)' = {} => Newest(d, g) = {})
        BY <3>1
      <4> QED BY <4>1 DEF Values
    <3>3. Newest(d, "sharp_withdrawal")' = {} <=> Newest(d, "sharp_withdrawal") = {}
      BY <3>1
    <3> QED BY <3>2, <3>3, FigureStays
  <2>3. CASE records' = records
    <3>1. \A g : Newest(d, g)' = Newest(d, g)
      BY <2>3, NewestIsLatest
    <3>2. ASSUME NEW g PROVE Values(d, g)' = Values(d, g)
      <4>1. Newest(d, g)' = Newest(d, g)
        BY <3>1
      <4> QED BY <4>1 DEF Values
    <3> QED BY <3>1, <3>2, FigureStays
  <2>4. ASSUME NEW t \in Batches, SaveFeature(t) PROVE FALSE
    BY <2>4 DEF SaveFeature
  <2> QED BY <1>1, <2>1, <2>2, <2>3, <2>4, RecordCases
<1>2. KaipanlaIInv /\ [Next]_vars => [Keeps]_vars
  BY <1>1
<1> QED BY <1>2, KaipanlaInvCorrect, PTL DEF Spec, RepairKeepsFigures
=============================================================================
