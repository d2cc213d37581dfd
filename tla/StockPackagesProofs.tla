------------------------- MODULE StockPackagesProofs -------------------------
(***************************************************************************)
(* Theorems about the packages of daily data, for any stocks, days and     *)
(* bounds.                                                                 *)
(*                                                                         *)
(* RowsFollowPackage is not inductive: a save replaces the package first   *)
(* and the rows last.  SavesInOrder says what each stage of a save that    *)
(* nobody disturbed has written (CleanSave), and that a disturbed one is   *)
(* remembered (UncleanIsTorn).  That a daily run misses no stock needs     *)
(* that no stock ever disappears (NoEmptySave), and for a list read anew   *)
(* at each resume, that a longer list moves no stock to an earlier place,  *)
(* so that what lies before the mark stays visited (RunIsThorough).        *)
(* At the end, the packages and the fetching of minutes in one run.        *)
(***************************************************************************)
EXTENDS MCPackages, MinuteFetchProofs

\* A package's first day is one of its days, or none.
LEMMA FirstDayIsDay ==
  ASSUME NEW p \in Package
  PROVE  FirstDay(p) \in Days \cup {0}
<1>1. HasDay(p) \subseteq Days /\ HasDay(p) \in SUBSET Nat
  BY PackageAssumption DEF PackageAssumption, HasDay
<1> QED BY <1>1, MinIsLeast DEF FirstDay

\* The rows of a package are rows.
LEMMA RowsOfType ==
  ASSUME NEW p \in Package
  PROVE  RowsOf(p) \in RowSets
BY DEF RowSets, RowsOf, HasDay, Package, Level

\* choose_daily_market_target chooses one of the days.
LEMMA Targeted == Target \in Days
<1> USE PackageAssumption DEF PackageAssumption
<1>1. Days \in SUBSET Nat /\ Days # {} /\ IsFiniteSet(Days)
  OBVIOUS
<1>2. ASSUME NEW S \in SUBSET Days, S # {} PROVE Max(S) \in Days
  BY <1>1, <1>2, MaxIsGreatest, FS_Subset
<1>3. MarketDays(Today) \in SUBSET Days /\ Short(MarketDays(Today), Listed) \in SUBSET Days
  BY DEF MarketDays, Short
<1> QED BY <1>1, <1>2, <1>3 DEF Target, Today

\* What read_current_full_data reads is a package.
LEMMA LocalType ==
  ASSUME NEW s \in Stocks, TypeOK
  PROVE  Current(s) \in Package
<1>1. NoPackage \in Package /\ Only(Min(Days), 1) \in Package
  <2>1. 0 \in Level /\ 1 \in Level
    BY DEF Level
  <2> QED BY <2>1 DEF NoPackage, Package, Only
<1>2. package[s] \in Package
  BY DEF TypeOK
<1> QED BY <1>1, <1>2 DEF Current, Local, Stored

\* The list of a run is of stocks, and a run resumes at a number.
LEMMA ResumeType ==
  ASSUME TypeOK
  PROVE  Listed \in SUBSET Stocks /\ ResumeAt(Listed) \in Nat
<1>1. Listed \in SUBSET Stocks
  BY PackageAssumption DEF PackageAssumption, Listed
<1>2. Cardinality(Listed) \in Nat
  BY <1>1, PackageAssumption, FS_Subset, FS_CardinalityType DEF PackageAssumption
<1> QED BY <1>1, <1>2 DEF ResumeAt, TypeOK, Task

\* The stages of a save and the outcomes are stages of a thread.
LEMMA PcType ==
  /\ Saving \subseteq WorkPcs /\ Outcome \subseteq WorkPcs
  /\ {"free", "pick", "read", "fetch", "save", "cover", "meta", "clear", "insert"} \subseteq WorkPcs
BY DEF WorkPcs, Saving, Outcome

\* An idle thread is a thread, and no package a package.
LEMMA FreeType == Free \in Work /\ NoPackage \in Package
<1>1. NoPackage \in Package
  BY DEF NoPackage, Package, Level
<1>2. {} \in RowSets
  BY DEF RowSets
<1> QED BY <1>1, <1>2, PcType DEF Free, Work

\* Every step is one of these.
LEMMA NextCases ==
  ASSUME [Next]_vars
  PROVE  \/ \E t \in Threads :
              \/ Read(t) \/ Fetch(t) \/ SavePackage(t) \/ SaveMeta(t) \/ ClearRows(t)
              \/ InsertBatch(t) \/ SaveEnds(t) \/ SaveFails(t) \/ CoverOne(t)
         \/ StartDaily \/ RunDaily \/ YieldDaily \/ NextStock \/ StockDone
         \/ StartCoverage \/ FinishDaily
         \/ StartRepair \/ RepairDay \/ FinishRepair
         \/ FullSync \/ FullSyncEnds
         \/ Outage \/ OutageEnds \/ Crash \/ UNCHANGED vars
BY DEF Next, Save, Daily, Repair

\* Where a thread has a stock, it is one of the stocks.
StockIsNamed == \A t \in Threads :
  work[t].pc \in {"pick", "read", "fetch", "save"} \cup Saving \cup Outcome => work[t].stock \in Stocks

\* A step keeps the types.
LEMMA TypeStep ==
  ASSUME TypeOK, StockIsNamed, [Next]_vars
  PROVE  TypeOK' /\ StockIsNamed'
<1> DEFINE Kept == TypeOK' /\ StockIsNamed'
<1>work. \A t \in Threads : work[t] \in Work
  BY DEF TypeOK
<1>set. ASSUME NEW t \in Threads, NEW w \in Work, Set(t, w),
              w.pc \in {"pick", "read", "fetch", "save"} \cup Saving \cup Outcome => w.stock \in Stocks
        PROVE  work' \in [Threads -> Work] /\ StockIsNamed'
  BY <1>set DEF Set, StockIsNamed, TypeOK
<1>end. ASSUME NEW t \in Threads, NEW o \in Outcome, End(t, o), work[t].stock \in Stocks
        PROVE  work' \in [Threads -> Work] /\ StockIsNamed'
  <2>1. [Free EXCEPT !.pc = o, !.stock = work[t].stock, !.days = work[t].days] \in Work
    BY <1>end, FreeType, PcType DEF Work, TypeOK
  <2> QED BY <1>end, <2>1, <1>set DEF End, Free
<1>Read. ASSUME NEW t \in Threads, Read(t) PROVE Kept
  <2>1. work[t].stock \in Stocks
    BY <1>Read DEF Read, StockIsNamed
  <2>2. Current(work[t].stock) \in Package
    BY <2>1, LocalType
  <2>3. [work[t] EXCEPT !.pc = "fetch", !.base = Current(work[t].stock)] \in Work
    BY <2>2, <1>work, PcType DEF Work
  <2>4. work' \in [Threads -> Work] /\ StockIsNamed'
    BY <1>Read, <1>set, <1>end, <2>1, <2>3 DEF Read, Outcome, Work, TypeOK
  <2> QED BY <1>Read, <2>4 DEF Read, TypeOK, store
<1>Fetch. ASSUME NEW t \in Threads, Fetch(t) PROVE Kept
  <2>1. work[t].stock \in Stocks
    BY <1>Fetch DEF Fetch, StockIsNamed
  <2>2. ASSUME NEW p \in Merged(work[t].base, work[t].day)
        PROVE  [work[t] EXCEPT !.pc = "save", !.base = p] \in Work
    <3>1. p \in Package
      BY DEF Merged, Work, TypeOK, Package, Level
    <3> QED BY <3>1, <1>work, PcType DEF Work
  <2>4. work' \in [Threads -> Work] /\ StockIsNamed'
    <3>1. CASE End(t, IF work[t].base[work[t].day] > 0 THEN "skipped" ELSE "no_data")
      BY <3>1, <1>end, <2>1 DEF Outcome
    <3>2. ASSUME NEW p \in Merged(work[t].base, work[t].day),
                 Set(t, [work[t] EXCEPT !.pc = "save", !.base = p])
          PROVE  work' \in [Threads -> Work] /\ StockIsNamed'
      <4>1. [work[t] EXCEPT !.pc = "save", !.base = p].stock \in Stocks
        BY <2>1 DEF Work, TypeOK
      <4> QED BY <3>2, <2>2, <1>set, <4>1
    <3> QED BY <1>Fetch, <3>1, <3>2 DEF Fetch
  <2> QED BY <1>Fetch, <2>4 DEF Fetch, TypeOK, store
<1>SavePackage. ASSUME NEW t \in Threads, SavePackage(t) PROVE Kept
  <2>1. work[t].stock \in Stocks
    BY <1>SavePackage DEF SavePackage, StockIsNamed
  <2>2. package' \in [Stocks -> Package]
    BY <1>SavePackage DEF SavePackage, TypeOK, Work
  <2>3. work' \in [Threads -> Work]
    <3>1. [work[t] EXCEPT !.pc = "meta", !.clean = Savers(work[t].stock) = {}] \in Work
      BY <1>work, PcType DEF Work
    <3>2. \A u \in Threads : [work[u] EXCEPT !.clean = FALSE] \in Work
      BY <1>work DEF Work
    <3> QED BY <1>SavePackage, <3>1, <3>2 DEF SavePackage, TypeOK
  <2>4. StockIsNamed'
    <3> SUFFICES ASSUME NEW u \in Threads,
                        work'[u].pc \in {"pick", "read", "fetch", "save"} \cup Saving \cup Outcome
                 PROVE  work'[u].stock \in Stocks
      BY DEF StockIsNamed
    <3>1. work'[t].stock = work[t].stock
      <4> DEFINE v == [work[t] EXCEPT !.pc = "meta", !.clean = Savers(work[t].stock) = {}]
      <4>1. v.stock = work[t].stock
        BY <1>work DEF Work
      <4> HIDE DEF v
      <4>2. work'[t] = v
        BY <1>SavePackage DEF SavePackage, TypeOK, v
      <4> QED BY <4>1, <4>2
    <3>2. ASSUME u # t PROVE work'[u].stock = work[u].stock /\ work'[u].pc = work[u].pc
      BY <1>SavePackage, <3>2 DEF SavePackage, TypeOK, Work
    <3> QED BY <2>1, <3>1, <3>2 DEF StockIsNamed
  <2> QED BY <1>SavePackage, <2>1, <2>2, <2>3, <2>4 DEF SavePackage, TypeOK
<1>SaveMeta. ASSUME NEW t \in Threads, SaveMeta(t) PROVE Kept
  <2>1. work[t].stock \in Stocks
    BY <1>SaveMeta DEF SaveMeta, StockIsNamed, Saving
  <2>2. meta' \in [Stocks -> Days \cup {0}]
    BY <1>SaveMeta, FirstDayIsDay DEF SaveMeta, TypeOK, Work
  <2>3. [work[t] EXCEPT !.pc = "clear"] \in Work
    BY <1>work, PcType DEF Work
  <2>4. work' \in [Threads -> Work] /\ StockIsNamed'
    BY <1>SaveMeta, <1>set, <2>1, <2>3 DEF SaveMeta, TypeOK, Work
  <2> QED BY <1>SaveMeta, <2>2, <2>4 DEF SaveMeta, TypeOK
<1>ClearRows. ASSUME NEW t \in Threads, ClearRows(t) PROVE Kept
  <2>1. work[t].stock \in Stocks
    BY <1>ClearRows DEF ClearRows, StockIsNamed, Saving
  <2>2. rows' \in [Stocks -> RowSets]
    BY <1>ClearRows DEF ClearRows, TypeOK, RowSets
  <2>3. [work[t] EXCEPT !.pc = "insert", !.todo = RowsOf(work[t].base)] \in Work
    <3>1. RowsOf(work[t].base) \in RowSets
      BY <1>work, RowsOfType DEF Work
    <3> QED BY <3>1, <1>work, PcType DEF Work
  <2>4. work' \in [Threads -> Work] /\ StockIsNamed'
    BY <1>ClearRows, <1>set, <2>1, <2>3 DEF ClearRows, TypeOK, Work
  <2> QED BY <1>ClearRows, <2>2, <2>4 DEF ClearRows, TypeOK
<1>InsertBatch. ASSUME NEW t \in Threads, InsertBatch(t) PROVE Kept
  <2>0. PICK batch \in SUBSET work[t].todo \ {{}} :
          /\ rows' = [rows EXCEPT ![work[t].stock] = @ \cup batch]
          /\ Set(t, [work[t] EXCEPT !.todo = @ \ batch])
    BY <1>InsertBatch DEF InsertBatch
  <2>1. work[t].stock \in Stocks
    BY <1>InsertBatch DEF InsertBatch, StockIsNamed, Saving
  <2>a. batch \in RowSets /\ work[t].todo \ batch \in RowSets
    BY <2>0 DEF TypeOK, Work, RowSets
  <2>2. rows' \in [Stocks -> RowSets]
    BY <2>0, <2>a DEF TypeOK, RowSets
  <2>3. [work[t] EXCEPT !.todo = @ \ batch] \in Work
    <3>1. work[t] \in Work
      BY DEF TypeOK
    <3> QED BY <2>a, <3>1 DEF Work
  <2>4. work' \in [Threads -> Work] /\ StockIsNamed'
    BY <2>0, <1>set, <2>1, <2>3 DEF TypeOK, Work
  <2> QED BY <1>InsertBatch, <2>2, <2>4 DEF InsertBatch, TypeOK
<1>SaveEnds. ASSUME NEW t \in Threads, SaveEnds(t) PROVE Kept
  <2>1. work[t].stock \in Stocks
    BY <1>SaveEnds DEF SaveEnds, StockIsNamed, Saving
  <2>4. work' \in [Threads -> Work] /\ StockIsNamed'
    BY <1>SaveEnds, <1>end, <2>1 DEF SaveEnds, Outcome
  <2> QED BY <1>SaveEnds, <2>1, <2>4 DEF SaveEnds, TypeOK, store
<1>SaveFails. ASSUME NEW t \in Threads, SaveFails(t) PROVE Kept
  <2>1. work[t].stock \in Stocks
    BY <1>SaveFails DEF SaveFails, StockIsNamed, Saving
  <2>4. work' \in [Threads -> Work] /\ StockIsNamed'
    BY <1>SaveFails, <1>end, <2>1 DEF SaveFails, Outcome
  <2> QED BY <1>SaveFails, <2>1, <2>4 DEF SaveFails, TypeOK, store
<1>cover. ASSUME NEW t \in Threads, NEW S \in SUBSET Stocks, NEW end, CoverageStarts(t, S, end)
          PROVE  work' \in [Threads -> Work] /\ StockIsNamed'
  <2>1. MarketDays(end) \in SUBSET Days /\ (IF down THEN {} ELSE S) \in SUBSET Stocks
    BY DEF MarketDays
  <2>2. [work[t] EXCEPT !.pc = "cover", !.left = IF down THEN {} ELSE S,
                        !.days = MarketDays(end)] \in Work
    <3> DEFINE left == IF down THEN {} ELSE S
               days == MarketDays(end)
    <3>1. work[t] \in Work
      BY DEF TypeOK
    <3> HIDE DEF left, days
    <3>2. [work[t] EXCEPT !.pc = "cover", !.left = left, !.days = days] \in Work
      <4>1. left \in SUBSET Stocks /\ days \in SUBSET Days
        BY <2>1 DEF left, days
      <4> QED BY <3>1, <4>1, PcType DEF Work
    <3> QED BY <3>2 DEF left, days
  <2>3. [work[t] EXCEPT !.pc = "cover", !.left = IF down THEN {} ELSE S,
                        !.days = MarketDays(end)].pc = "cover"
    BY DEF Work, TypeOK
  <2> QED BY <1>cover, <1>set, <2>2, <2>3 DEF CoverageStarts, Set, Saving, Outcome
<1>CoverOne. ASSUME NEW t \in Threads, CoverOne(t) PROVE Kept
  <2>0. PICK s \in work[t].left, blank \in BOOLEAN :
          LET expected == Expected(work[t].days, s)
              have  == IF blank THEN {} ELSE Indexed(s) \cap expected IN
          /\ blank => events < MaxEvents
          /\ events' = IF blank THEN events + 1 ELSE events
          /\ IF down THEN /\ Set(t, [work[t] EXCEPT !.left = {}]) /\ coverage' = coverage
             ELSE /\ Set(t, [work[t] EXCEPT !.left = @ \ {s}])
                  /\ coverage' = [coverage EXCEPT ![s] =
                       [expected |-> expected, missing |-> Missing(expected, have)]]
          /\ aim' = IF blank \/ t # "repair" THEN {} ELSE aim
    BY <1>CoverOne DEF CoverOne
  <2>1. Expected(work[t].days, s) \in SUBSET Days /\ s \in Stocks
    BY DEF Expected, TypeOK, Work
  <2>2. coverage' \in [Stocks -> [expected : SUBSET Days, missing : SUBSET Days]]
    BY <2>0, <2>1 DEF TypeOK, Missing
  <2>4. work' \in [Threads -> Work] /\ StockIsNamed'
    <3>1. PICK left \in SUBSET Stocks : Set(t, [work[t] EXCEPT !.left = left])
      BY <2>0 DEF TypeOK, Work
    <3>2. [work[t] EXCEPT !.left = left] \in Work
      <4>1. work[t] \in Work
        BY DEF TypeOK
      <4> QED BY <4>1 DEF Work
    <3>3. [work[t] EXCEPT !.left = left].pc = "cover"
      BY <1>CoverOne DEF CoverOne, TypeOK, Work
    <3> QED BY <1>set, <3>1, <3>2, <3>3 DEF Saving, Outcome
  <2>5. events' \in 0 .. MaxEvents
    BY <2>0, PackageAssumption DEF TypeOK, PackageAssumption
  <2> QED BY <1>CoverOne, <2>0, <2>2, <2>4, <2>5 DEF CoverOne, TypeOK, store
<1>StartDaily. ASSUME StartDaily PROVE Kept
  <2>1. task' \in Task
    BY <1>StartDaily, Targeted DEF StartDaily, Task, NoTask
  <2>2. run' \in [known : SUBSET Stocks, tried : SUBSET Stocks, hidden : SUBSET Stocks, blind : BOOLEAN]
    BY <1>StartDaily, ResumeType DEF StartDaily, NoRun, TypeOK
  <2>3. events' \in 0 .. MaxEvents
    BY <1>StartDaily, PackageAssumption DEF StartDaily, TypeOK, PackageAssumption
  <2> QED BY <1>StartDaily, <2>1, <2>2, <2>3 DEF StartDaily, TypeOK, StockIsNamed, store
<1>RunDaily. ASSUME RunDaily PROVE Kept
  <2>1. task' \in Task
    BY <1>RunDaily, ResumeType DEF RunDaily, Task, TypeOK
  <2> QED BY <1>RunDaily, <2>1 DEF RunDaily, TypeOK, StockIsNamed, store
<1>YieldDaily. ASSUME YieldDaily PROVE Kept
  <2>1. task' \in Task
    BY <1>YieldDaily DEF YieldDaily, Task, TypeOK, NoTask
  <2> QED BY <1>YieldDaily, <2>1 DEF YieldDaily, TypeOK, StockIsNamed, store
<1>NextStock. ASSUME NextStock PROVE Kept
  <2>0. PICK s \in task.list : Set("daily", [Free EXCEPT !.pc = "read", !.stock = s, !.day = task.target])
    BY <1>NextStock DEF NextStock
  <2>1. task' \in Task
    BY <1>NextStock DEF NextStock, Task, TypeOK
  <2>2. [Free EXCEPT !.pc = "read", !.stock = s, !.day = task.target] \in Work /\ s \in Stocks
    BY FreeType, PcType DEF TypeOK, Task, Work
  <2>3. work' \in [Threads -> Work] /\ StockIsNamed'
    BY <2>0, <2>2, <1>set DEF Threads, Free
  <2> QED BY <1>NextStock, <2>1, <2>3 DEF NextStock, TypeOK, store
<1>free. ASSUME NEW t \in Threads, Set(t, Free)
         PROVE  work' \in [Threads -> Work] /\ StockIsNamed'
  BY <1>free, FreeType, <1>set DEF Free, Saving, Outcome
<1>StockDone. ASSUME StockDone PROVE Kept
  <2>1. task' \in Task
    <3>1. task.next + 1 \in Nat /\ (task.failed \/ IsFailure(work["daily"].pc)) \in BOOLEAN
      BY DEF Task, TypeOK, IsFailure
    <3> QED BY <1>StockDone, <3>1 DEF StockDone, Task, TypeOK
  <2>2. work["daily"].stock \in Stocks
    BY <1>StockDone DEF StockDone, StockIsNamed, Threads
  <2>3. run' \in [known : SUBSET Stocks, tried : SUBSET Stocks, hidden : SUBSET Stocks, blind : BOOLEAN]
    BY <1>StockDone, <2>2 DEF StockDone, TypeOK
  <2> QED BY <1>StockDone, <2>1, <2>3, <1>free DEF StockDone, TypeOK, store, Threads
<1>StartCoverage. ASSUME StartCoverage PROVE Kept
  <2>1. task' \in Task
    BY <1>StartCoverage DEF StartCoverage, Task, TypeOK
  <2>2. work' \in [Threads -> Work] /\ StockIsNamed'
    BY <1>StartCoverage, <1>cover DEF StartCoverage, TypeOK, Task, Threads
  <2> QED BY <1>StartCoverage, <2>1, <2>2 DEF StartCoverage, TypeOK, store
<1>FinishDaily. ASSUME FinishDaily PROVE Kept
  <2>1. task' \in Task
    BY <1>FinishDaily DEF FinishDaily, Task, NoTask
  <2>2. run' \in [known : SUBSET Stocks, tried : SUBSET Stocks, hidden : SUBSET Stocks, blind : BOOLEAN]
    BY <1>FinishDaily DEF FinishDaily, NoRun
  <2> QED BY <1>FinishDaily, <2>1, <2>2, <1>free DEF FinishDaily, TypeOK, store, Threads
<1>StartRepair. ASSUME StartRepair PROVE Kept
  <2>0. PICK s \in Stocks :
          /\ Set("repair", [Free EXCEPT !.pc = "pick", !.stock = s, !.days = coverage[s].missing])
          /\ aim' = IF torn # {} \/ \E t \in Threads : work[t].pc \in Saving THEN {}
                    ELSE coverage[s].missing \cap MarketDays(Today)
    BY <1>StartRepair DEF StartRepair
  <2>1. [Free EXCEPT !.pc = "pick", !.stock = s, !.days = coverage[s].missing] \in Work
    BY FreeType, PcType DEF TypeOK, Work
  <2>2. work' \in [Threads -> Work] /\ StockIsNamed'
    BY <2>0, <2>1, <1>set DEF Threads, Free
  <2>3. aim' \in SUBSET Days
    BY <2>0 DEF TypeOK
  <2>4. events' \in 0 .. MaxEvents
    BY <1>StartRepair, PackageAssumption DEF StartRepair, TypeOK, PackageAssumption
  <2> QED BY <1>StartRepair, <2>2, <2>3, <2>4 DEF StartRepair, TypeOK, store
<1>RepairDay. ASSUME RepairDay PROVE Kept
  <2>1. work["repair"].stock \in Stocks
    BY <1>RepairDay DEF RepairDay, StockIsNamed, Threads
  <2>2. CASE work["repair"].days # {}
    <3>1. Min(work["repair"].days) \in Days
      BY <2>2, MinIsLeast, PackageAssumption DEF PackageAssumption, TypeOK, Work, Threads
    <3>2. [work["repair"] EXCEPT !.pc = "read", !.day = Min(work["repair"].days),
             !.days = @ \ {Min(work["repair"].days)}] \in Work
      BY <3>1, <1>work, PcType DEF Work, Threads
    <3>3. work' \in [Threads -> Work] /\ StockIsNamed'
      BY <1>RepairDay, <2>1, <2>2, <3>2, <1>set DEF RepairDay, Threads, TypeOK, Work
    <3> QED BY <1>RepairDay, <3>3 DEF RepairDay, TypeOK, store
  <2>3. CASE work["repair"].days = {}
    BY <1>RepairDay, <2>1, <2>3, <1>cover DEF RepairDay, TypeOK, store, Threads
  <2> QED BY <2>2, <2>3
<1>FinishRepair. ASSUME FinishRepair PROVE Kept
  BY <1>FinishRepair, <1>free DEF FinishRepair, TypeOK, store, Threads
<1>FullSync. ASSUME FullSync PROVE Kept
  <2>0. PICK s \in Stocks, p \in Collected : Set("user", [Free EXCEPT !.pc = "save", !.stock = s, !.base = p])
    BY <1>FullSync DEF FullSync
  <2>1. p \in Package
    BY DEF Collected, Package, Level
  <2>2. [Free EXCEPT !.pc = "save", !.stock = s, !.base = p] \in Work
    BY <2>1, FreeType, PcType DEF Work
  <2>3. work' \in [Threads -> Work] /\ StockIsNamed'
    BY <2>0, <2>2, <1>set DEF Threads, Free
  <2>4. events' \in 0 .. MaxEvents
    BY <1>FullSync, PackageAssumption DEF FullSync, TypeOK, PackageAssumption
  <2> QED BY <1>FullSync, <2>3, <2>4 DEF FullSync, TypeOK, store
<1>FullSyncEnds. ASSUME FullSyncEnds PROVE Kept
  BY <1>FullSyncEnds, <1>free DEF FullSyncEnds, TypeOK, store, Threads
<1>Outage. ASSUME Outage \/ OutageEnds PROVE Kept
  <2>1. events' \in 0 .. MaxEvents
    BY <1>Outage, PackageAssumption DEF Outage, OutageEnds, TypeOK, PackageAssumption
  <2> QED BY <1>Outage, <2>1 DEF Outage, OutageEnds, TypeOK, store, StockIsNamed
<1>Crash. ASSUME Crash PROVE Kept
  <2>1. events' \in 0 .. MaxEvents
    BY <1>Crash, PackageAssumption DEF Crash, TypeOK, PackageAssumption
  <2>2. task' \in Task
    BY <1>Crash DEF Crash, TypeOK, Task, NoTask
  <2>3. torn' \subseteq Stocks
    BY <1>Crash DEF Crash, TypeOK, StockIsNamed, Saving
  <2>4. work' \in [Threads -> Work] /\ StockIsNamed'
    BY <1>Crash, FreeType DEF Crash, StockIsNamed, Free, Saving, Outcome
  <2>5. run' \in [known : SUBSET Stocks, tried : SUBSET Stocks, hidden : SUBSET Stocks, blind : BOOLEAN]
    BY <1>Crash DEF Crash, NoRun, TypeOK
  <2>6. aim' \subseteq Days
    BY <1>Crash DEF Crash
  <2> QED BY <1>Crash, <2>1, <2>2, <2>3, <2>4, <2>5, <2>6 DEF Crash, TypeOK, store
<1>u. ASSUME UNCHANGED vars PROVE Kept
  BY <1>u DEF vars, TypeOK, StockIsNamed
<1> QED
  BY NextCases, <1>Read, <1>Fetch, <1>SavePackage, <1>SaveMeta, <1>ClearRows, <1>InsertBatch,
     <1>SaveEnds, <1>SaveFails, <1>CoverOne, <1>StartDaily, <1>RunDaily, <1>YieldDaily,
     <1>NextStock, <1>StockDone, <1>StartCoverage, <1>FinishDaily, <1>StartRepair,
     <1>RepairDay, <1>FinishRepair, <1>FullSync, <1>FullSyncEnds, <1>Outage, <1>Crash, <1>u

-----------------------------------------------------------------------------

\* The thread of the daily run is idle between stocks.
DailyFollowsTask ==
  /\ task.stage \in {"idle", "queued", "stocks"} => work["daily"].pc = "free"
  /\ task.stage = "coverage" => work["daily"].pc = "cover"

\* A save that nobody disturbed is the only one of its stock, and has written its
\* package; what it has not written of the rows is still to do.
CleanSave == \A t \in Threads :
  LET w == work[t] IN
  w.pc \in Saving /\ w.clean =>
    /\ Savers(w.stock) = {t}
    /\ package[w.stock] = w.base
    /\ w.pc = "insert" => rows[w.stock] \cup w.todo = RowsOf(w.base)

\* A save that another one disturbed is remembered.
UncleanIsTorn == \A t \in Threads :
  work[t].pc \in Saving /\ ~work[t].clean => work[t].stock \in torn

\* The stages of the saves.
SavesInOrder == CleanSave /\ UncleanIsTorn /\ RowsFollowPackage

\* A step keeps the thread of the daily run at its stage.
LEMMA DailyStep ==
  ASSUME TypeOK, DailyFollowsTask, [Next]_vars
  PROVE  DailyFollowsTask'
<1>task. ASSUME UNCHANGED task, work'["daily"].pc = work["daily"].pc PROVE DailyFollowsTask'
  BY <1>task DEF DailyFollowsTask
<1>same. ASSUME NEW t \in Threads \ {"daily"}, NEW w, Set(t, w), UNCHANGED task PROVE DailyFollowsTask'
  BY <1>same, <1>task DEF Set, TypeOK, Threads
<1>busy. ASSUME work["daily"].pc \notin {"free", "cover"}, UNCHANGED task PROVE DailyFollowsTask'
  BY <1>busy DEF DailyFollowsTask, TypeOK, Task
<1>1. ASSUME NEW t \in Threads, Read(t) \/ Fetch(t) \/ SaveMeta(t) \/ ClearRows(t) \/ SaveEnds(t)
             \/ SaveFails(t) \/ InsertBatch(t) \/ SavePackage(t) PROVE DailyFollowsTask'
  <2>1. CASE t = "daily"
    BY <1>1, <2>1, <1>busy
    DEF Read, Fetch, SaveMeta, ClearRows, SaveEnds, SaveFails, InsertBatch, SavePackage, Saving
  <2>2. CASE t # "daily" /\ SavePackage(t)
    BY <2>2, <1>task DEF SavePackage, TypeOK, Threads, Work
  <2>3. CASE t # "daily" /\ ~SavePackage(t)
    BY <1>1, <2>3, <1>same
    DEF Read, Fetch, SaveMeta, ClearRows, SaveEnds, SaveFails, InsertBatch, End
  <2> QED BY <2>1, <2>2, <2>3
<1>2. ASSUME NEW t \in Threads, CoverOne(t) PROVE DailyFollowsTask'
  <2>1. PICK left : Set(t, [work[t] EXCEPT !.left = left])
    BY <1>2 DEF CoverOne
  <2>2. work'["daily"].pc = work["daily"].pc /\ UNCHANGED task
    BY <1>2, <2>1 DEF CoverOne, Set, TypeOK, Work, Threads
  <2> QED BY <2>2, <1>task
<1>3. CASE StartDaily
  BY <1>3 DEF StartDaily, DailyFollowsTask, NoTask
<1>4. CASE RunDaily
  BY <1>4 DEF RunDaily, DailyFollowsTask, TypeOK, Task
<1>5. CASE YieldDaily
  BY <1>5 DEF YieldDaily, DailyFollowsTask, NoTask
<1>6. CASE NextStock
  BY <1>6 DEF NextStock, DailyFollowsTask, TypeOK, Task
<1>7. CASE StockDone
  BY <1>7 DEF StockDone, DailyFollowsTask, TypeOK, Task, Set, Threads, Free
<1>8. CASE StartCoverage
  <2>1. work'["daily"].pc = "cover"
    BY <1>8 DEF StartCoverage, CoverageStarts, TypeOK, Threads, Work
  <2>2. task'.stage = "coverage"
    BY <1>8 DEF StartCoverage, TypeOK, Task
  <2> QED BY <2>1, <2>2 DEF DailyFollowsTask
<1>9. CASE FinishDaily
  BY <1>9 DEF FinishDaily, DailyFollowsTask, NoTask, TypeOK, Set, Threads, Free
<1>10. CASE StartRepair
  BY <1>10, <1>same DEF StartRepair, Threads
<1>11. CASE RepairDay
  BY <1>11, <1>same, <1>task DEF RepairDay, CoverageStarts, TypeOK, Threads
<1>12. CASE FinishRepair
  BY <1>12, <1>same DEF FinishRepair, Threads
<1>13. CASE FullSync
  BY <1>13, <1>same DEF FullSync, Threads
<1>14. CASE FullSyncEnds
  BY <1>14, <1>same DEF FullSyncEnds, Threads
<1>15. CASE Outage \/ OutageEnds \/ UNCHANGED vars
  BY <1>15, <1>task DEF Outage, OutageEnds, vars
<1>16. CASE Crash
  <2>1. work'["daily"].pc = "free"
    BY <1>16 DEF Crash, Threads, Free
  <2>2. task'.stage \in {"idle", "queued"}
    BY <1>16 DEF Crash, TypeOK, Task, NoTask
  <2> QED BY <2>1, <2>2 DEF DailyFollowsTask
<1> QED
  BY NextCases, <1>1, <1>2, <1>3, <1>4, <1>5, <1>6, <1>7, <1>8, <1>9, <1>10, <1>11, <1>12,
     <1>13, <1>14, <1>15, <1>16

\* A step that leaves the packages, the rows and the threads that save alone.
Quiet ==
  /\ UNCHANGED <<package, rows, torn>>
  /\ \A t \in Threads :
       /\ work'[t].pc \in Saving <=> work[t].pc \in Saving
       /\ work[t].pc \in Saving => work'[t] = work[t]

\* Such a step keeps the stages of the saves.
LEMMA QuietStep ==
  ASSUME SavesInOrder, Quiet
  PROVE  SavesInOrder'
<1>1. \A s : Savers(s)' = Savers(s)
  BY DEF Quiet, Savers
<1>2. CleanSave'
  BY <1>1 DEF Quiet, SavesInOrder, CleanSave
<1>3. UncleanIsTorn'
  BY DEF Quiet, SavesInOrder, UncleanIsTorn
<1>4. RowsFollowPackage'
  BY <1>1 DEF Quiet, SavesInOrder, RowsFollowPackage, RowsOf, HasDay
<1> QED BY <1>2, <1>3, <1>4 DEF SavesInOrder

\* A thread that saves neither before nor after leaves them alone.
LEMMA SetIsQuiet ==
  ASSUME TypeOK, NEW t \in Threads, NEW w, Set(t, w), work[t].pc \notin Saving, w.pc \notin Saving,
         UNCHANGED <<package, rows, torn>>
  PROVE  Quiet
BY DEF Quiet, Set, TypeOK

\* A step keeps the stages of the saves in order: each write of a save, and the
\* save package that disturbs another one.
LEMMA SavesStep ==
  ASSUME TypeOK, StockIsNamed, DailyFollowsTask, SavesInOrder, [Next]_vars
  PROVE  SavesInOrder'
<1> USE DEF SavesInOrder
<1>end. ASSUME NEW t \in Threads, NEW o \in Outcome, End(t, o), work[t].pc \notin Saving,
               UNCHANGED <<package, rows, torn>>
        PROVE  SavesInOrder'
  <2>1. [Free EXCEPT !.pc = o, !.stock = work[t].stock, !.days = work[t].days].pc \notin Saving
    BY DEF Free, Outcome, Saving
  <2> QED BY <1>end, <2>1, SetIsQuiet, QuietStep DEF End
<1>Read. ASSUME NEW t \in Threads, Read(t) PROVE SavesInOrder'
  <2>1. [work[t] EXCEPT !.pc = "fetch", !.base = Current(work[t].stock)].pc \notin Saving
    BY DEF Saving, TypeOK, Work
  <2> QED BY <1>Read, <2>1, <1>end, SetIsQuiet, QuietStep DEF Read, Saving, Outcome, store
<1>Fetch. ASSUME NEW t \in Threads, Fetch(t) PROVE SavesInOrder'
  <2>1. \A p : [work[t] EXCEPT !.pc = "save", !.base = p].pc \notin Saving
    BY DEF Saving, TypeOK, Work
  <2>2. work[t].pc \notin Saving /\ UNCHANGED <<package, rows, torn>>
    BY <1>Fetch DEF Fetch, Saving, store
  <2> QED BY <1>Fetch, <2>1, <2>2, <1>end, SetIsQuiet, QuietStep DEF Fetch, Outcome
<1>SavePackage. ASSUME NEW t \in Threads, SavePackage(t) PROVE SavesInOrder'
  <2> DEFINE s == work[t].stock
  <2>0. s \in Stocks /\ work[t].pc = "save" /\ work[t].pc \notin Saving
    BY <1>SavePackage DEF SavePackage, StockIsNamed, Saving
  <2>1. /\ work'[t].pc = "meta" /\ work'[t].stock = s /\ work'[t].base = work[t].base
        /\ work'[t].clean = (Savers(s) = {})
    <3>1. work'[t] = [work[t] EXCEPT !.pc = "meta", !.clean = Savers(s) = {}]
      BY <1>SavePackage DEF SavePackage
    <3>2. work[t] \in Work
      BY DEF TypeOK
    <3> QED BY <3>1, <3>2 DEF Work
  <2>2. ASSUME NEW u \in Threads, u # t
        PROVE  /\ work'[u].pc = work[u].pc /\ work'[u].stock = work[u].stock
               /\ work'[u].base = work[u].base /\ work'[u].todo = work[u].todo
               /\ work'[u].clean = (work[u].clean /\ u \notin Holders(s))
    <3>1. work'[u] = IF u \in Holders(s) THEN [work[u] EXCEPT !.clean = FALSE] ELSE work[u]
      BY <1>SavePackage, <2>2 DEF SavePackage
    <3>2. work[u] \in Work
      BY DEF TypeOK
    <3>3. CASE u \in Holders(s)
      BY <3>1, <3>2, <3>3 DEF Work
    <3>4. CASE u \notin Holders(s)
      BY <3>1, <3>2, <3>4 DEF Work
    <3> QED BY <3>3, <3>4
  <2>3. package'[s] = work[t].base /\ \A x \in Stocks \ {s} : package'[x] = package[x]
    BY <1>SavePackage, <2>0 DEF SavePackage, TypeOK
  <2>4. rows' = rows /\ torn' = IF Savers(s) = {} THEN torn ELSE torn \cup {s}
    BY <1>SavePackage DEF SavePackage
  <2>5. \A x : Savers(x)' = IF x = s THEN Savers(x) \cup {t} ELSE Savers(x)
    BY <2>0, <2>1, <2>2 DEF Savers, Saving
  <2>6. CleanSave'
    <3> SUFFICES ASSUME NEW u \in Threads, work'[u].pc \in Saving, work'[u].clean
                 PROVE  /\ Savers(work[u].stock)' = {u}
                        /\ package'[work'[u].stock] = work'[u].base
                        /\ work'[u].stock = work[u].stock
                        /\ work'[u].pc = "insert" =>
                             rows'[work'[u].stock] \cup work'[u].todo = RowsOf(work'[u].base)
      BY DEF CleanSave, RowsOf, HasDay, Savers
    <3>1. CASE u = t
      BY <3>1, <2>1, <2>3, <2>5
    <3>2. CASE u # t
      <4>1. u \notin Holders(s) /\ work[u].pc \in Saving /\ work[u].clean
        BY <3>2, <2>2
      <4>2. work[u].stock # s /\ work[u].stock \in Stocks
        BY <4>1 DEF Holders, StockIsNamed
      <4> QED BY <3>2, <2>2, <4>1, <4>2, <2>3, <2>4, <2>5 DEF CleanSave
    <3> QED BY <3>1, <3>2
  <2>7. UncleanIsTorn'
    <3> SUFFICES ASSUME NEW u \in Threads, work'[u].pc \in Saving, ~work'[u].clean
                 PROVE  work'[u].stock \in torn'
      BY DEF UncleanIsTorn
    <3>1. CASE u = t
      BY <3>1, <2>1, <2>4
    <3>2. CASE u # t /\ work[u].clean
      BY <3>2, <2>2, <2>4 DEF Holders, Savers
    <3>3. CASE u # t /\ ~work[u].clean
      BY <3>3, <2>2, <2>4 DEF UncleanIsTorn
    <3> QED BY <3>1, <3>2, <3>3
  <2>8. RowsFollowPackage'
    BY <2>3, <2>4, <2>5 DEF RowsFollowPackage, RowsOf, HasDay
  <2> QED BY <2>6, <2>7, <2>8
<1>saver. ASSUME NEW t \in Threads, work[t].pc \in Saving,
                 NEW w, Set(t, w), w.pc \in Saving, w.stock = work[t].stock, w.base = work[t].base,
                 w.clean = work[t].clean, UNCHANGED <<package, torn>>,
                 \A x \in Stocks \ {w.stock} : rows'[x] = rows[x],
                 w.clean /\ w.pc = "insert" => rows'[w.stock] \cup w.todo = RowsOf(w.base)
          PROVE  SavesInOrder'
  <2>1. work'[t] = w /\ \A u \in Threads \ {t} : work'[u] = work[u]
    BY <1>saver DEF Set, TypeOK
  <2>2. \A x : Savers(x)' = Savers(x)
    BY <1>saver, <2>1 DEF Savers
  <2>3. CleanSave'
    <3> SUFFICES ASSUME NEW u \in Threads, work'[u].pc \in Saving, work'[u].clean
                 PROVE  /\ {v \in Threads : work'[v].pc \in Saving /\ work'[v].stock = work'[u].stock} = {u}
                        /\ package'[work'[u].stock] = work'[u].base
                        /\ work'[u].pc = "insert" =>
                             rows'[work'[u].stock] \cup work'[u].todo = RowsOf(work'[u].base)
      BY DEF CleanSave, RowsOf, HasDay, Savers
    <3>1. CASE u = t
      BY <1>saver, <3>1, <2>1, <2>2 DEF CleanSave, Savers
    <3>2. CASE u # t
      <4>1. CASE work[u].stock = work[t].stock
        <5>1. t \in Savers(work[u].stock) /\ Savers(work[u].stock) = {u}
          BY <1>saver, <3>2, <4>1, <2>1 DEF CleanSave, Savers
        <5> QED BY <5>1, <3>2
      <4>2. CASE work[u].stock # work[t].stock
        <5>1. work[u].stock \in Stocks
          BY <3>2, <2>1 DEF StockIsNamed
        <5> QED BY <1>saver, <3>2, <4>2, <5>1, <2>1, <2>2 DEF CleanSave, Savers
      <4> QED BY <4>1, <4>2
    <3> QED BY <3>1, <3>2
  <2>4. UncleanIsTorn'
    BY <1>saver, <2>1 DEF UncleanIsTorn
  <2>5. RowsFollowPackage'
    <3> SUFFICES ASSUME NEW x \in Stocks, x \notin torn', Savers(x)' = {}
                 PROVE  rows'[x] = RowsOf(package[x])
      BY <1>saver DEF RowsFollowPackage, RowsOf, HasDay
    <3>1. x # work[t].stock
      BY <1>saver, <2>2 DEF Savers
    <3> QED BY <1>saver, <3>1, <2>2 DEF RowsFollowPackage
  <2> QED BY <2>3, <2>4, <2>5
<1>SaveMeta. ASSUME NEW t \in Threads, SaveMeta(t) PROVE SavesInOrder'
  <2> DEFINE w == [work[t] EXCEPT !.pc = "clear"]
  <2>1. /\ w.pc = "clear" /\ w.stock = work[t].stock /\ w.base = work[t].base
        /\ w.clean = work[t].clean
    BY DEF TypeOK, Work
  <2>2. Set(t, w) /\ UNCHANGED <<package, rows, torn>> /\ work[t].pc \in Saving
    BY <1>SaveMeta DEF SaveMeta, Saving
  <2> HIDE DEF w
  <2> QED BY <2>1, <2>2, <1>saver DEF Saving
<1>ClearRows. ASSUME NEW t \in Threads, ClearRows(t) PROVE SavesInOrder'
  <2> DEFINE w == [work[t] EXCEPT !.pc = "insert", !.todo = RowsOf(work[t].base)]
  <2>1. /\ w.pc = "insert" /\ w.stock = work[t].stock /\ w.base = work[t].base
        /\ w.clean = work[t].clean /\ w.todo = RowsOf(w.base)
    BY DEF TypeOK, Work
  <2>2. /\ Set(t, w) /\ UNCHANGED <<package, torn>> /\ work[t].pc \in Saving
        /\ rows' = [rows EXCEPT ![work[t].stock] = {}]
    BY <1>ClearRows DEF ClearRows, Saving
  <2>3. work[t].stock \in Stocks
    BY <2>2 DEF StockIsNamed
  <2>4. rows'[w.stock] = {} /\ \A x \in Stocks \ {w.stock} : rows'[x] = rows[x]
    BY <2>1, <2>2, <2>3 DEF TypeOK
  <2> HIDE DEF w
  <2> QED BY <2>1, <2>2, <2>4, <1>saver DEF Saving
<1>InsertBatch. ASSUME NEW t \in Threads, InsertBatch(t) PROVE SavesInOrder'
  <2>0. PICK batch \in SUBSET work[t].todo :
          /\ rows' = [rows EXCEPT ![work[t].stock] = @ \cup batch]
          /\ Set(t, [work[t] EXCEPT !.todo = @ \ batch])
    BY <1>InsertBatch DEF InsertBatch
  <2> DEFINE w == [work[t] EXCEPT !.todo = @ \ batch]
  <2>1. /\ w.pc = "insert" /\ w.stock = work[t].stock /\ w.base = work[t].base
        /\ w.clean = work[t].clean /\ w.todo = work[t].todo \ batch
    BY <1>InsertBatch DEF InsertBatch, TypeOK, Work
  <2>2. /\ Set(t, w) /\ UNCHANGED <<package, torn>> /\ work[t].pc \in Saving /\ work[t].pc = "insert"
    BY <1>InsertBatch, <2>0 DEF InsertBatch, Saving
  <2>3. work[t].stock \in Stocks
    BY <2>2 DEF StockIsNamed
  <2>4. rows'[w.stock] = rows[w.stock] \cup batch /\ \A x \in Stocks \ {w.stock} : rows'[x] = rows[x]
    BY <2>0, <2>1, <2>3 DEF TypeOK
  <2>5. w.clean => rows'[w.stock] \cup w.todo = rows[w.stock] \cup work[t].todo
    BY <2>1, <2>4
  <2>6. w.clean => rows[w.stock] \cup work[t].todo = RowsOf(w.base)
    BY <2>1, <2>2 DEF CleanSave
  <2> HIDE DEF w
  <2> QED BY <2>1, <2>2, <2>4, <2>5, <2>6, <1>saver
<1>done. ASSUME NEW t \in Threads, work[t].pc \in Saving, NEW o \in Outcome, End(t, o),
                UNCHANGED <<package, rows>>,
                \/ torn' = torn \cup {work[t].stock}
                \/ ~work[t].clean /\ torn' = torn
                \/ work[t].clean /\ torn' = torn \ {work[t].stock}
                   /\ rows[work[t].stock] = RowsOf(package[work[t].stock])
         PROVE  SavesInOrder'
  <2>1. work'[t].pc \notin Saving /\ \A u \in Threads \ {t} : work'[u] = work[u]
    BY <1>done DEF End, Set, TypeOK, Free, Saving, Outcome
  <2>2. \A x : Savers(x)' = Savers(x) \ {t}
    BY <2>1 DEF Savers
  <2>3. \A x : x # work[t].stock => Savers(x)' = Savers(x)
    BY <2>2 DEF Savers
  <2>4. CleanSave'
    <3> SUFFICES ASSUME NEW u \in Threads, work'[u].pc \in Saving, work'[u].clean
                 PROVE  /\ {v \in Threads : work'[v].pc \in Saving /\ work'[v].stock = work'[u].stock} = {u}
                        /\ package'[work'[u].stock] = work'[u].base
                        /\ work'[u].pc = "insert" =>
                             rows'[work'[u].stock] \cup work'[u].todo = RowsOf(work'[u].base)
      BY DEF CleanSave, RowsOf, HasDay, Savers
    <3>1. u # t /\ work'[u] = work[u]
      BY <2>1
    <3> QED BY <1>done, <3>1, <2>1, <2>2 DEF CleanSave, Savers
  <2>5. ASSUME NEW u \in Threads \ {t}, work[u].pc \in Saving, work[t].clean
        PROVE  work[u].stock # work[t].stock
    BY <1>done, <2>5 DEF CleanSave, Savers
  <2>6. UncleanIsTorn'
    BY <1>done, <2>1, <2>5 DEF UncleanIsTorn
  <2>7. RowsFollowPackage'
    <3> SUFFICES ASSUME NEW x \in Stocks, x \notin torn', Savers(x)' = {}
                 PROVE  rows[x] = RowsOf(package[x])
      BY <1>done DEF RowsFollowPackage, RowsOf, HasDay
    <3>1. CASE x # work[t].stock
      BY <1>done, <3>1, <2>3 DEF RowsFollowPackage
    <3>2. CASE x = work[t].stock
      BY <1>done, <3>2 DEF UncleanIsTorn
    <3> QED BY <3>1, <3>2
  <2> QED BY <2>4, <2>6, <2>7
<1>SaveEnds. ASSUME NEW t \in Threads, SaveEnds(t) PROVE SavesInOrder'
  <2>1. work[t].pc \in Saving /\ End(t, "updated") /\ UNCHANGED <<package, rows>>
    BY <1>SaveEnds DEF SaveEnds, Saving, store
  <2>2. work[t].clean => rows[work[t].stock] = RowsOf(package[work[t].stock])
    BY <1>SaveEnds, <2>1 DEF SaveEnds, CleanSave
  <2> QED BY <1>SaveEnds, <2>1, <2>2, <1>done DEF SaveEnds, Outcome
<1>SaveFails. ASSUME NEW t \in Threads, SaveFails(t) PROVE SavesInOrder'
  <2>1. CASE work[t].pc = "save"
    BY <1>SaveFails, <2>1, <1>end DEF SaveFails, Saving, Outcome, store
  <2>2. CASE work[t].pc # "save"
    BY <1>SaveFails, <2>2, <1>done DEF SaveFails, Saving, Outcome, store
  <2> QED BY <2>1, <2>2
<1>quiet. ASSUME NEW t \in Threads, NEW w, Set(t, w), work[t].pc \notin Saving, w.pc \notin Saving,
                 UNCHANGED <<package, rows, torn>>
          PROVE  SavesInOrder'
  BY <1>quiet, SetIsQuiet, QuietStep
<1>cover. ASSUME NEW t \in Threads, NEW S, NEW end, CoverageStarts(t, S, end),
                 work[t].pc \notin Saving, UNCHANGED <<package, rows, torn>>
          PROVE  SavesInOrder'
  <2> DEFINE w == [work[t] EXCEPT !.pc = "cover", !.left = IF down THEN {} ELSE S,
                                  !.days = MarketDays(end)]
  <2>1. w.pc \notin Saving
    BY DEF TypeOK, Work, Saving
  <2>2. Set(t, w)
    BY <1>cover DEF CoverageStarts, Set
  <2> HIDE DEF w
  <2> QED BY <1>cover, <2>1, <2>2, <1>quiet
<1>CoverOne. ASSUME NEW t \in Threads, CoverOne(t) PROVE SavesInOrder'
  <2>1. PICK left : Set(t, [work[t] EXCEPT !.left = left])
    BY <1>CoverOne DEF CoverOne
  <2>2. [work[t] EXCEPT !.left = left].pc = "cover" /\ work[t].pc = "cover"
    BY <1>CoverOne DEF CoverOne, TypeOK, Work
  <2>3. UNCHANGED <<package, rows, torn>>
    BY <1>CoverOne DEF CoverOne, store
  <2> QED BY <2>1, <2>2, <2>3, <1>quiet DEF Saving
<1>same. ASSUME UNCHANGED <<work, package, rows, torn>> PROVE SavesInOrder'
  BY <1>same, QuietStep DEF Quiet
<1>1. CASE StartDaily \/ RunDaily \/ YieldDaily \/ Outage \/ OutageEnds \/ UNCHANGED vars
  BY <1>1, <1>same DEF StartDaily, RunDaily, YieldDaily, Outage, OutageEnds, vars, store
<1>NextStock. CASE NextStock
  <2>0. work["daily"].pc = "free"
    BY <1>NextStock DEF NextStock, DailyFollowsTask
  <2>1. PICK s \in task.list : Set("daily", [Free EXCEPT !.pc = "read", !.stock = s, !.day = task.target])
    BY <1>NextStock DEF NextStock
  <2> QED BY <1>NextStock, <2>0, <2>1, <1>quiet DEF NextStock, Free, Saving, store, Threads
<1>StockDone. CASE StockDone
  BY <1>StockDone, <1>quiet DEF StockDone, Free, Saving, Outcome, store, Threads
<1>StartCoverage. CASE StartCoverage
  BY <1>StartCoverage, <1>cover DEF StartCoverage, DailyFollowsTask, Saving, store, Threads
<1>FinishDaily. CASE FinishDaily
  BY <1>FinishDaily, <1>quiet DEF FinishDaily, DailyFollowsTask, Free, Saving, store, Threads
<1>StartRepair. CASE StartRepair
  <2>1. PICK s \in Stocks : Set("repair", [Free EXCEPT !.pc = "pick", !.stock = s, !.days = coverage[s].missing])
    BY <1>StartRepair DEF StartRepair
  <2> QED BY <1>StartRepair, <2>1, <1>quiet DEF StartRepair, Free, Saving, store, Threads
<1>RepairDay. CASE RepairDay
  <2>1. work["repair"].pc \notin Saving /\ UNCHANGED <<package, rows, torn>>
    BY <1>RepairDay DEF RepairDay, Saving, Outcome, store
  <2>2. CASE work["repair"].days # {}
    <3> DEFINE w == [work["repair"] EXCEPT !.pc = "read", !.day = Min(work["repair"].days),
                                           !.days = @ \ {Min(work["repair"].days)}]
    <3>1. w.pc \notin Saving
      BY DEF TypeOK, Work, Saving, Threads
    <3>2. Set("repair", w)
      BY <1>RepairDay, <2>2 DEF RepairDay
    <3> HIDE DEF w
    <3> QED BY <2>1, <3>1, <3>2, <1>quiet DEF Threads
  <2>3. CASE work["repair"].days = {}
    BY <1>RepairDay, <2>1, <2>3, <1>cover DEF RepairDay, Threads
  <2> QED BY <2>2, <2>3
<1>FinishRepair. CASE FinishRepair
  BY <1>FinishRepair, <1>quiet DEF FinishRepair, Free, Saving, store, Threads
<1>FullSync. CASE FullSync
  <2>1. PICK s \in Stocks, p \in Collected : Set("user", [Free EXCEPT !.pc = "save", !.stock = s, !.base = p])
    BY <1>FullSync DEF FullSync
  <2> QED BY <1>FullSync, <2>1, <1>quiet DEF FullSync, Free, Saving, store, Threads
<1>FullSyncEnds. CASE FullSyncEnds
  BY <1>FullSyncEnds, <1>quiet DEF FullSyncEnds, Free, Saving, store, Threads
<1>Crash. CASE Crash
  <2>1. \A x : Savers(x)' = {}
    BY <1>Crash DEF Crash, Savers, Free, Saving
  <2>2. \A t \in Threads : work'[t].pc \notin Saving
    BY <1>Crash DEF Crash, Free, Saving
  <2>3. CleanSave' /\ UncleanIsTorn'
    BY <2>2 DEF CleanSave, UncleanIsTorn
  <2>4. RowsFollowPackage'
    <3> SUFFICES ASSUME NEW x \in Stocks, x \notin torn'
                 PROVE  rows[x] = RowsOf(package[x])
      BY <1>Crash DEF Crash, store, RowsFollowPackage, RowsOf, HasDay
    <3>1. x \notin torn /\ Savers(x) = {}
      BY <1>Crash DEF Crash, Savers
    <3> QED BY <3>1 DEF RowsFollowPackage
  <2> QED BY <2>3, <2>4
<1> QED
  BY NextCases, <1>Read, <1>Fetch, <1>SavePackage, <1>SaveMeta, <1>ClearRows, <1>InsertBatch,
     <1>SaveEnds, <1>SaveFails, <1>CoverOne, <1>1, <1>NextStock, <1>StockDone,
     <1>StartCoverage, <1>FinishDaily, <1>StartRepair, <1>RepairDay, <1>FinishRepair,
     <1>FullSync, <1>FullSyncEnds, <1>Crash

-----------------------------------------------------------------------------

\* A step keeps what an update is about to write as good as what is stored: the
\* merge keeps the better rows, and a save that comes between is no longer clean.
LEMMA QualityStep ==
  ASSUME TypeOK, StockIsNamed, UpdateKeepsQuality, [Next]_vars
  PROVE  UpdateKeepsQuality'
<1> DEFINE Updating(t) == work[t].pc \in {"fetch", "save"}
<1>keep. ASSUME UNCHANGED package,
                \A t \in {"daily", "repair"} : Updating(t)' => work'[t] = work[t]
         PROVE  UpdateKeepsQuality'
  BY <1>keep DEF UpdateKeepsQuality
<1>set. ASSUME NEW t \in Threads, NEW w, Set(t, w), w.pc \notin {"fetch", "save"}, UNCHANGED package
        PROVE  UpdateKeepsQuality'
  BY <1>set, <1>keep DEF Set, TypeOK
<1>end. ASSUME NEW t \in Threads, NEW o \in Outcome, End(t, o), UNCHANGED package
        PROVE  UpdateKeepsQuality'
  <2> DEFINE w == [Free EXCEPT !.pc = o, !.stock = work[t].stock, !.days = work[t].days]
  <2>1. w.pc \notin {"fetch", "save"}
    BY DEF Free, Outcome
  <2> QED BY <1>end, <2>1, <1>set DEF End
<1>Read. ASSUME NEW t \in Threads, Read(t) PROVE UpdateKeepsQuality'
  <2> DEFINE w == [work[t] EXCEPT !.pc = "fetch", !.base = Current(work[t].stock)]
  <2>0. UNCHANGED package
    BY <1>Read DEF Read, store
  <2>1. CASE \E o \in Outcome : End(t, o)
    BY <2>0, <2>1, <1>end
  <2>2. CASE Set(t, w) /\ Current(work[t].stock) # NoPackage
    <3>1. work[t].stock \in Stocks /\ work[t] \in Work
      BY <1>Read DEF Read, StockIsNamed, TypeOK
    <3>2. w.base = Current(work[t].stock) /\ w.stock = work[t].stock
      BY <3>1 DEF Work
    <3>3. work[t].stock \notin Legacy => Current(work[t].stock) = package[work[t].stock]
      BY <2>2 DEF Current, Stored
    <3>4. \A d \in Days : package[work[t].stock][d] \in Nat
      BY <3>1 DEF TypeOK, Package, Level
    <3>5. work' = [work EXCEPT ![t] = w]
      BY <2>2 DEF Set
    <3> HIDE DEF w
    <3> QED BY <2>0, <3>2, <3>3, <3>4, <3>5 DEF UpdateKeepsQuality, TypeOK
  <2> QED BY <1>Read, <2>1, <2>2 DEF Read, Outcome
<1>Fetch. ASSUME NEW t \in Threads, Fetch(t) PROVE UpdateKeepsQuality'
  <2>0. UNCHANGED package /\ work[t].pc = "fetch" /\ work[t] \in Work
    BY <1>Fetch DEF Fetch, store, TypeOK
  <2>1. CASE \E o \in Outcome : End(t, o)
    BY <2>0, <2>1, <1>end
  <2>2. ASSUME NEW p \in Merged(work[t].base, work[t].day),
               Set(t, [work[t] EXCEPT !.pc = "save", !.base = p])
        PROVE  UpdateKeepsQuality'
    <3> DEFINE w == [work[t] EXCEPT !.pc = "save", !.base = p]
    <3>1. w.base = p /\ w.stock = work[t].stock /\ w.clean = work[t].clean
      BY <2>0 DEF Work
    <3>2. PICK q \in Level : p = [work[t].base EXCEPT ![work[t].day] = q] /\ q >= work[t].base[work[t].day]
      BY DEF Merged
    <3>3. \A d \in Days : p[d] >= work[t].base[d]
      BY <2>0, <3>2 DEF Work, Package, Level
    <3>4. work' = [work EXCEPT ![t] = w]
      BY <2>2 DEF Set
    <3> SUFFICES ASSUME t \in {"daily", "repair"}, work[t].clean, work[t].stock \notin Legacy
                 PROVE  \A d \in Days : p[d] >= package[work[t].stock][d]
      <4> HIDE DEF w
      <4> QED BY <2>0, <3>1, <3>4 DEF UpdateKeepsQuality, TypeOK
    <3>5. work[t].stock \in Stocks
      BY <2>0 DEF StockIsNamed
    <3>6. \A d \in Days : work[t].base[d] >= package[work[t].stock][d]
      BY <2>0 DEF UpdateKeepsQuality
    <3>7. \A d \in Days : p[d] \in Nat /\ work[t].base[d] \in Nat /\ package[work[t].stock][d] \in Nat
      <4>1. p \in Package /\ work[t].base \in Package /\ package[work[t].stock] \in Package
        BY <2>0, <3>2, <3>5 DEF Work, Package, TypeOK
      <4> QED BY <4>1 DEF Package, Level
    <3> QED BY <3>3, <3>6, <3>7
  <2> QED BY <1>Fetch, <2>1, <2>2 DEF Fetch, Outcome
<1>SavePackage. ASSUME NEW t \in Threads, SavePackage(t) PROVE UpdateKeepsQuality'
  <2> SUFFICES ASSUME NEW u \in {"daily", "repair"}, work'[u].pc \in {"fetch", "save"},
                      work'[u].clean, work'[u].stock \notin Legacy
               PROVE  \A d \in Days : work'[u].base[d] >= package'[work'[u].stock][d]
    BY DEF UpdateKeepsQuality
  <2>1. u # t
    BY <1>SavePackage DEF SavePackage, TypeOK, Work
  <2>2. u \notin Holders(work[t].stock)
    <3>1. work'[u] = IF u \in Holders(work[t].stock) THEN [work[u] EXCEPT !.clean = FALSE] ELSE work[u]
      BY <1>SavePackage, <2>1 DEF SavePackage, Threads
    <3>2. work[u] \in Work
      BY DEF TypeOK, Threads
    <3> QED BY <3>1, <3>2 DEF Work
  <2>3. work'[u] = work[u]
    BY <1>SavePackage, <2>1, <2>2 DEF SavePackage, Threads
  <2>4. work[u].stock # work[t].stock /\ work[u].stock \in Stocks
    BY <2>2, <2>3 DEF Holders, Threads, StockIsNamed
  <2>5. package'[work[u].stock] = package[work[u].stock]
    BY <1>SavePackage, <2>4 DEF SavePackage, TypeOK
  <2> QED BY <2>3, <2>5 DEF UpdateKeepsQuality
<1>1. ASSUME NEW t \in Threads, SaveMeta(t) PROVE UpdateKeepsQuality'
  <2>1. [work[t] EXCEPT !.pc = "clear"].pc = "clear"
    BY DEF TypeOK, Work
  <2> QED BY <1>1, <2>1, <1>set DEF SaveMeta
<1>2. ASSUME NEW t \in Threads, ClearRows(t) PROVE UpdateKeepsQuality'
  <2>1. [work[t] EXCEPT !.pc = "insert", !.todo = RowsOf(work[t].base)].pc = "insert"
    BY DEF TypeOK, Work
  <2> QED BY <1>2, <2>1, <1>set DEF ClearRows
<1>3. ASSUME NEW t \in Threads, InsertBatch(t) PROVE UpdateKeepsQuality'
  <2>1. PICK batch : Set(t, [work[t] EXCEPT !.todo = @ \ batch])
    BY <1>3 DEF InsertBatch
  <2>2. [work[t] EXCEPT !.todo = @ \ batch].pc = "insert"
    BY <1>3 DEF InsertBatch, TypeOK, Work
  <2>3. UNCHANGED package
    BY <1>3 DEF InsertBatch
  <2> QED BY <2>1, <2>2, <2>3, <1>set
<1>4. ASSUME NEW t \in Threads, SaveEnds(t) \/ SaveFails(t) PROVE UpdateKeepsQuality'
  BY <1>4, <1>end DEF SaveEnds, SaveFails, store, Outcome
<1>cover. ASSUME NEW t \in Threads, NEW S, NEW end, CoverageStarts(t, S, end), UNCHANGED package
          PROVE  UpdateKeepsQuality'
  <2> DEFINE w == [work[t] EXCEPT !.pc = "cover", !.left = IF down THEN {} ELSE S,
                                  !.days = MarketDays(end)]
  <2>1. w.pc = "cover"
    BY DEF TypeOK, Work
  <2>2. Set(t, w)
    BY <1>cover DEF CoverageStarts, Set
  <2> HIDE DEF w
  <2> QED BY <1>cover, <2>1, <2>2, <1>set
<1>5. ASSUME NEW t \in Threads, CoverOne(t) PROVE UpdateKeepsQuality'
  <2>1. PICK left : Set(t, [work[t] EXCEPT !.left = left])
    BY <1>5 DEF CoverOne
  <2>2. [work[t] EXCEPT !.left = left].pc = "cover"
    BY <1>5 DEF CoverOne, TypeOK, Work
  <2>3. UNCHANGED package
    BY <1>5 DEF CoverOne, store
  <2> QED BY <2>1, <2>2, <2>3, <1>set
<1>6. CASE StartDaily \/ RunDaily \/ YieldDaily \/ Outage \/ OutageEnds \/ UNCHANGED vars
  BY <1>6, <1>keep DEF StartDaily, RunDaily, YieldDaily, Outage, OutageEnds, vars, store
<1>7. CASE NextStock
  <2>1. PICK s : Set("daily", [Free EXCEPT !.pc = "read", !.stock = s, !.day = task.target])
    BY <1>7 DEF NextStock
  <2> QED BY <1>7, <2>1, <1>set DEF NextStock, Free, store, Threads
<1>8. CASE StockDone \/ FinishDaily \/ FinishRepair \/ FullSyncEnds
  BY <1>8, <1>set DEF StockDone, FinishDaily, FinishRepair, FullSyncEnds, Free, store, Threads
<1>9. CASE StartCoverage
  BY <1>9, <1>cover DEF StartCoverage, store, Threads
<1>10. CASE StartRepair
  <2>1. PICK s : Set("repair", [Free EXCEPT !.pc = "pick", !.stock = s, !.days = coverage[s].missing])
    BY <1>10 DEF StartRepair
  <2> QED BY <1>10, <2>1, <1>set DEF StartRepair, Free, store, Threads
<1>11. CASE RepairDay
  <2>1. CASE work["repair"].days # {}
    <3> DEFINE w == [work["repair"] EXCEPT !.pc = "read", !.day = Min(work["repair"].days),
                                           !.days = @ \ {Min(work["repair"].days)}]
    <3>1. w.pc = "read"
      BY DEF TypeOK, Work, Threads
    <3>2. Set("repair", w) /\ UNCHANGED package
      BY <1>11, <2>1 DEF RepairDay, store
    <3> HIDE DEF w
    <3> QED BY <3>1, <3>2, <1>set DEF Threads
  <2>2. CASE work["repair"].days = {}
    BY <1>11, <2>2, <1>cover DEF RepairDay, Threads, store
  <2> QED BY <2>1, <2>2
<1>12. CASE FullSync
  BY <1>12, <1>keep DEF FullSync, Set, TypeOK, Threads, store
<1>13. CASE Crash
  BY <1>13, <1>keep DEF Crash, Free, store, Threads
<1> QED
  BY NextCases, <1>Read, <1>Fetch, <1>SavePackage, <1>1, <1>2, <1>3, <1>4, <1>5, <1>6, <1>7,
     <1>8, <1>9, <1>10, <1>11, <1>12, <1>13

-----------------------------------------------------------------------------

\* The stocks there are.
Existing == Legacy \cup {s \in Stocks : package[s] # NoPackage}
\* The stocks the run has been at.
Visited  == run.tried \cup run.hidden

\* Of the stocks the run knew, those at places before n have been visited.
VisitedBefore(list, n) == \A s \in run.known \ Visited : Place(list, s) >= n

\* What is written is never an empty package: a stock does not disappear.
NoEmptySave == \A t \in Threads : work[t].pc \in {"fetch", "save"} => work[t].base # NoPackage

\* While the daily run is at a stock, its thread has the stock it is at.
AtItsPlace ==
  task.stage = "stock" =>
    work["daily"].stock \in task.list /\ Place(task.list, work["daily"].stock) = task.next

\* A run that never read an empty list has visited what lies before its place in
\* its list; and before its mark in every list that it may read when it resumes.
RunIsThorough == ~run.blind /\ task.stage # "idle" =>
  /\ run.known \subseteq Existing
  /\ task.mark = "stock" => VisitedBefore(Existing, task.at)
  /\ task.mark = "coverage" => run.known \subseteq Visited
  /\ task.stage \in {"stocks", "stock"} =>
       /\ run.known \subseteq task.list /\ task.list \subseteq Existing
       /\ VisitedBefore(task.list, task.next)
  /\ task.stage = "coverage" => task.mark = "coverage"

\* A longer list moves a stock to no earlier place.
LEMMA PlaceGrows ==
  ASSUME NEW L \in SUBSET Stocks, NEW M \in SUBSET L, NEW s
  PROVE  Place(M, s) \in Nat /\ Place(L, s) \in Nat /\ Place(M, s) <= Place(L, s)
         /\ Place(L, s) <= Cardinality(L) /\ Cardinality(L) \in Nat
<1>1. IsFiniteSet(L)
  BY PackageAssumption, FS_Subset DEF PackageAssumption
<1>2. IsFiniteSet({x \in L : x <= s}) /\ {x \in L : x <= s} \in SUBSET L
      /\ {x \in M : x <= s} \in SUBSET {x \in L : x <= s}
  BY <1>1, FS_Subset
<1> QED BY <1>1, <1>2, FS_Subset, FS_CardinalityType DEF Place

\* No two stocks of a list have the same place, and no stock of it the place 0.
LEMMA PlaceIsOwn ==
  ASSUME NEW L \in SUBSET Stocks, NEW s \in L
  PROVE  Place(L, s) >= 1 /\ \A x \in L : Place(L, x) = Place(L, s) => x = s
<1> L \in SUBSET Nat /\ IsFiniteSet(L)
  BY PackageAssumption, FS_Subset DEF PackageAssumption
<1> DEFINE Upto(x) == {y \in L : y <= x}
<1>1. \A x : IsFiniteSet(Upto(x)) /\ Cardinality(Upto(x)) \in Nat
  BY FS_Subset, FS_CardinalityType
<1>2. Place(L, s) >= 1
  <2>1. s \in Upto(s)
    OBVIOUS
  <2>2. Cardinality(Upto(s)) # 0
    <3> HIDE DEF Upto
    <3> QED BY <1>1, <2>1, FS_EmptySet
  <2>3. Place(L, s) = Cardinality(Upto(s))
    BY DEF Place
  <2> HIDE DEF Upto
  <2> QED BY <1>1, <2>2, <2>3
<1>3. ASSUME NEW x \in L, NEW y \in L, x < y PROVE Cardinality(Upto(x)) # Cardinality(Upto(y))
  <2>1. Upto(x) \in SUBSET Upto(y)
    <3>1. ASSUME NEW z \in Upto(x) PROVE z \in Upto(y)
      <4> z \in Nat /\ x \in Nat /\ y \in Nat /\ z <= x
        OBVIOUS
      <4> QED BY <1>3
    <3> HIDE DEF Upto
    <3> QED BY <3>1
  <2>2. y \in Upto(y) /\ y \notin Upto(x)
    <3> x \in Nat /\ y \in Nat
      OBVIOUS
    <3> QED BY <1>3
  <2> HIDE DEF Upto
  <2> QED BY <1>1, <2>1, <2>2, FS_Subset
<1>4. ASSUME NEW x \in L, Place(L, x) = Place(L, s) PROVE x = s
  <2>1. Cardinality(Upto(x)) = Cardinality(Upto(s))
    BY <1>4 DEF Place
  <2>2. x \in Nat /\ s \in Nat
    OBVIOUS
  <2> HIDE DEF Upto
  <2> QED BY <1>3, <2>1, <2>2
<1> QED BY <1>2, <1>4

\* A step writes no empty package, so the stocks there are stay.
LEMMA SaveStep ==
  ASSUME TypeOK, NoEmptySave, [Next]_vars
  PROVE  NoEmptySave' /\ Existing \subseteq Existing'
<1> DEFINE Good == NoEmptySave' /\ Existing \subseteq Existing'
<1>keep. ASSUME UNCHANGED package, \A t \in Threads : work'[t].pc \in {"fetch", "save"} => work'[t] = work[t]
         PROVE  Good
  BY <1>keep DEF NoEmptySave, Existing
<1>set. ASSUME NEW t \in Threads, NEW w, Set(t, w), w.pc \in {"fetch", "save"} => w.base # NoPackage,
               UNCHANGED package
        PROVE  Good
  BY <1>set DEF NoEmptySave, Existing, Set, TypeOK
<1>end. ASSUME NEW t \in Threads, NEW o \in Outcome, End(t, o), UNCHANGED package
        PROVE  Good
  <2> DEFINE w == [Free EXCEPT !.pc = o, !.stock = work[t].stock, !.days = work[t].days]
  <2>1. w.pc \notin {"fetch", "save"}
    BY DEF Free, Outcome
  <2> QED BY <1>end, <2>1, <1>set DEF End
<1>Read. ASSUME NEW t \in Threads, Read(t) PROVE Good
  <2>1. [work[t] EXCEPT !.pc = "fetch", !.base = Current(work[t].stock)].base = Current(work[t].stock)
    BY DEF TypeOK, Work
  <2> QED BY <1>Read, <2>1, <1>set, <1>end DEF Read, Outcome, store
<1>Fetch. ASSUME NEW t \in Threads, Fetch(t) PROVE Good
  <2>0. UNCHANGED package /\ work[t] \in Work
    BY <1>Fetch DEF Fetch, store, TypeOK
  <2>1. CASE \E o \in Outcome : End(t, o)
    BY <2>0, <2>1, <1>end
  <2>2. ASSUME NEW p \in Merged(work[t].base, work[t].day),
               Set(t, [work[t] EXCEPT !.pc = "save", !.base = p])
        PROVE  Good
    <3>1. [work[t] EXCEPT !.pc = "save", !.base = p].base = p
      BY <2>0 DEF Work
    <3>2. CASE work[t].day \in Days
      <4>1. p[work[t].day] # 0
        BY <2>0, <3>2 DEF Merged, Work, Package, Level
      <4>2. p # NoPackage
        BY <3>2, <4>1 DEF NoPackage
      <4> QED BY <2>0, <2>2, <3>1, <4>2, <1>set
    <3>3. CASE work[t].day \notin Days
      <4>1. p = work[t].base
        BY <2>0, <3>3 DEF Merged, Work, Package
      <4>2. p # NoPackage
        BY <1>Fetch, <4>1 DEF Fetch, NoEmptySave
      <4> QED BY <2>0, <2>2, <3>1, <4>2, <1>set
    <3> QED BY <3>2, <3>3
  <2> QED BY <1>Fetch, <2>1, <2>2 DEF Fetch, Outcome
<1>SavePackage. ASSUME NEW t \in Threads, SavePackage(t) PROVE Good
  <2>1. Existing \subseteq Existing'
    BY <1>SavePackage DEF SavePackage, Existing, NoEmptySave, TypeOK
  <2>2. ASSUME NEW u \in Threads, work'[u].pc \in {"fetch", "save"} PROVE work'[u].base # NoPackage
    <3>1. u # t
      BY <1>SavePackage, <2>2 DEF SavePackage, TypeOK, Work
    <3>2. work'[u] = [work[u] EXCEPT !.clean = FALSE] \/ work'[u] = work[u]
      BY <1>SavePackage, <3>1 DEF SavePackage
    <3>3. work'[u].pc = work[u].pc /\ work'[u].base = work[u].base
      BY <3>2 DEF TypeOK, Work
    <3> QED BY <2>2, <3>3 DEF NoEmptySave
  <2> QED BY <2>1, <2>2 DEF NoEmptySave
<1>1. ASSUME NEW t \in Threads, SaveMeta(t) PROVE Good
  <2>1. [work[t] EXCEPT !.pc = "clear"].pc = "clear"
    BY DEF TypeOK, Work
  <2> QED BY <1>1, <2>1, <1>set DEF SaveMeta
<1>2. ASSUME NEW t \in Threads, ClearRows(t) PROVE Good
  <2>1. [work[t] EXCEPT !.pc = "insert", !.todo = RowsOf(work[t].base)].pc = "insert"
    BY DEF TypeOK, Work
  <2> QED BY <1>2, <2>1, <1>set DEF ClearRows
<1>3. ASSUME NEW t \in Threads, InsertBatch(t) PROVE Good
  <2>1. PICK batch : Set(t, [work[t] EXCEPT !.todo = @ \ batch])
    BY <1>3 DEF InsertBatch
  <2>2. [work[t] EXCEPT !.todo = @ \ batch].pc = "insert"
    BY <1>3 DEF InsertBatch, TypeOK, Work
  <2>3. UNCHANGED package
    BY <1>3 DEF InsertBatch
  <2> QED BY <2>1, <2>2, <2>3, <1>set
<1>4. ASSUME NEW t \in Threads, SaveEnds(t) \/ SaveFails(t) PROVE Good
  BY <1>4, <1>end DEF SaveEnds, SaveFails, store, Outcome
<1>cover. ASSUME NEW t \in Threads, NEW S, NEW end, CoverageStarts(t, S, end), UNCHANGED package
          PROVE  Good
  <2> DEFINE w == [work[t] EXCEPT !.pc = "cover", !.left = IF down THEN {} ELSE S,
                                  !.days = MarketDays(end)]
  <2>1. w.pc = "cover"
    BY DEF TypeOK, Work
  <2>2. Set(t, w)
    BY <1>cover DEF CoverageStarts, Set
  <2> HIDE DEF w
  <2> QED BY <1>cover, <2>1, <2>2, <1>set
<1>5. ASSUME NEW t \in Threads, CoverOne(t) PROVE Good
  <2>1. PICK left : Set(t, [work[t] EXCEPT !.left = left])
    BY <1>5 DEF CoverOne
  <2>2. [work[t] EXCEPT !.left = left].pc = "cover"
    BY <1>5 DEF CoverOne, TypeOK, Work
  <2>3. UNCHANGED package
    BY <1>5 DEF CoverOne, store
  <2> QED BY <2>1, <2>2, <2>3, <1>set
<1>6. CASE StartDaily \/ RunDaily \/ YieldDaily \/ Outage \/ OutageEnds \/ UNCHANGED vars
  BY <1>6, <1>keep DEF StartDaily, RunDaily, YieldDaily, Outage, OutageEnds, vars, store
<1>7. CASE NextStock
  <2>1. PICK s : Set("daily", [Free EXCEPT !.pc = "read", !.stock = s, !.day = task.target])
    BY <1>7 DEF NextStock
  <2> QED BY <1>7, <2>1, <1>set DEF NextStock, Free, store, Threads
<1>8. CASE StockDone \/ FinishDaily \/ FinishRepair \/ FullSyncEnds
  BY <1>8, <1>set DEF StockDone, FinishDaily, FinishRepair, FullSyncEnds, Free, store, Threads
<1>9. CASE StartCoverage
  BY <1>9, <1>cover DEF StartCoverage, store, Threads
<1>10. CASE StartRepair
  <2>1. PICK s : Set("repair", [Free EXCEPT !.pc = "pick", !.stock = s, !.days = coverage[s].missing])
    BY <1>10 DEF StartRepair
  <2> QED BY <1>10, <2>1, <1>set DEF StartRepair, Free, store, Threads
<1>11. CASE RepairDay
  <2>1. CASE work["repair"].days # {}
    <3> DEFINE w == [work["repair"] EXCEPT !.pc = "read", !.day = Min(work["repair"].days),
                                           !.days = @ \ {Min(work["repair"].days)}]
    <3>1. w.pc = "read"
      BY DEF TypeOK, Work, Threads
    <3>2. Set("repair", w) /\ UNCHANGED package
      BY <1>11, <2>1 DEF RepairDay, store
    <3> HIDE DEF w
    <3> QED BY <3>1, <3>2, <1>set DEF Threads
  <2>2. CASE work["repair"].days = {}
    BY <1>11, <2>2, <1>cover DEF RepairDay, Threads, store
  <2> QED BY <2>1, <2>2
<1>12. CASE FullSync
  <2>1. PICK s \in Stocks, p \in Collected : Set("user", [Free EXCEPT !.pc = "save", !.stock = s, !.base = p])
    BY <1>12 DEF FullSync
  <2>2. p # NoPackage
    BY DEF Collected
  <2> QED BY <1>12, <2>1, <2>2, <1>set DEF FullSync, Free, store, Threads
<1>13. CASE Crash
  BY <1>13, <1>keep DEF Crash, Free, store, Threads
<1> QED
  BY NextCases, <1>Read, <1>Fetch, <1>SavePackage, <1>1, <1>2, <1>3, <1>4, <1>5, <1>6, <1>7,
     <1>8, <1>9, <1>10, <1>11, <1>12, <1>13

\* A step keeps the daily run at its place.
LEMMA PlaceStep ==
  ASSUME TypeOK, DailyFollowsTask, AtItsPlace, [Next]_vars
  PROVE  AtItsPlace'
<1>other. ASSUME task'.stage # "stock" PROVE AtItsPlace'
  BY <1>other DEF AtItsPlace
<1>task. ASSUME UNCHANGED task, work'["daily"].stock = work["daily"].stock PROVE AtItsPlace'
  BY <1>task DEF AtItsPlace, Place
<1>set. ASSUME NEW t \in Threads, NEW w, Set(t, w), t = "daily" => w.stock = work[t].stock,
               UNCHANGED task
        PROVE  AtItsPlace'
  BY <1>set, <1>task DEF Set, TypeOK, Threads
<1>end. ASSUME NEW t \in Threads, NEW o \in Outcome, End(t, o), UNCHANGED task PROVE AtItsPlace'
  <2> DEFINE w == [Free EXCEPT !.pc = o, !.stock = work[t].stock, !.days = work[t].days]
  <2>1. w.stock = work[t].stock
    BY DEF Free
  <2> QED BY <1>end, <2>1, <1>set DEF End
<1>1. ASSUME NEW t \in Threads, Read(t) \/ Fetch(t) \/ SaveMeta(t) \/ ClearRows(t) PROVE AtItsPlace'
  <2>1. /\ \A x : [work[t] EXCEPT !.pc = "fetch", !.base = x].stock = work[t].stock
        /\ \A x : [work[t] EXCEPT !.pc = "save", !.base = x].stock = work[t].stock
        /\ [work[t] EXCEPT !.pc = "clear"].stock = work[t].stock
        /\ \A x : [work[t] EXCEPT !.pc = "insert", !.todo = x].stock = work[t].stock
    BY DEF TypeOK, Work
  <2>2. UNCHANGED task
    BY <1>1 DEF Read, Fetch, SaveMeta, ClearRows
  <2>3. \/ \E o \in Outcome : End(t, o)
        \/ \E w : Set(t, w) /\ w.stock = work[t].stock
    BY <1>1, <2>1 DEF Read, Fetch, SaveMeta, ClearRows, Outcome
  <2> QED BY <2>2, <2>3, <1>end, <1>set
<1>2. ASSUME NEW t \in Threads, SaveEnds(t) \/ SaveFails(t) PROVE AtItsPlace'
  BY <1>2, <1>end DEF SaveEnds, SaveFails, Outcome
<1>3. ASSUME NEW t \in Threads, InsertBatch(t) PROVE AtItsPlace'
  <2>1. PICK batch : Set(t, [work[t] EXCEPT !.todo = @ \ batch])
    BY <1>3 DEF InsertBatch
  <2>2. [work[t] EXCEPT !.todo = @ \ batch].stock = work[t].stock /\ UNCHANGED task
    BY <1>3 DEF InsertBatch, TypeOK, Work
  <2> QED BY <2>1, <2>2, <1>set
<1>4. ASSUME NEW t \in Threads, CoverOne(t) PROVE AtItsPlace'
  <2>1. PICK left : Set(t, [work[t] EXCEPT !.left = left])
    BY <1>4 DEF CoverOne
  <2>2. [work[t] EXCEPT !.left = left].stock = work[t].stock /\ UNCHANGED task
    BY <1>4 DEF CoverOne, TypeOK, Work
  <2> QED BY <2>1, <2>2, <1>set
<1>5. ASSUME NEW t \in Threads, SavePackage(t) PROVE AtItsPlace'
  <2>1. work'["daily"].stock = work["daily"].stock
    BY <1>5 DEF SavePackage, TypeOK, Work, Threads
  <2> QED BY <1>5, <2>1, <1>task DEF SavePackage
<1>6. CASE StartDaily \/ YieldDaily \/ FinishDaily
  <2>1. task'.stage \in {"idle", "queued"}
    <3>1. CASE StartDaily  BY <3>1 DEF StartDaily, NoTask
    <3>2. CASE YieldDaily  BY <3>2 DEF YieldDaily, NoTask
    <3>3. CASE FinishDaily  BY <3>3 DEF FinishDaily, NoTask
    <3> QED BY <1>6, <3>1, <3>2, <3>3
  <2> QED BY <2>1, <1>other
<1>7. CASE RunDaily \/ StockDone \/ StartCoverage \/ Crash
  <2>1. task'.stage # "stock"
    <3>1. CASE RunDaily  BY <3>1 DEF RunDaily, TypeOK, Task
    <3>2. CASE StockDone  BY <3>2 DEF StockDone, TypeOK, Task
    <3>3. CASE StartCoverage  BY <3>3 DEF StartCoverage, TypeOK, Task
    <3>4. CASE Crash  BY <3>4 DEF Crash, TypeOK, Task, NoTask
    <3> QED BY <1>7, <3>1, <3>2, <3>3, <3>4
  <2> QED BY <2>1, <1>other
<1>8. CASE NextStock
  <2>1. PICK s \in task.list : /\ Place(task.list, s) = task.next
                               /\ Set("daily", [Free EXCEPT !.pc = "read", !.stock = s, !.day = task.target])
    BY <1>8 DEF NextStock
  <2>2. work'["daily"].stock = s
    BY <2>1 DEF Set, TypeOK, Threads, Free
  <2>3. task'.list = task.list /\ task'.next = task.next
    BY <1>8 DEF NextStock, TypeOK, Task
  <2> QED BY <2>1, <2>2, <2>3 DEF AtItsPlace, Place
<1>9. CASE StartRepair \/ RepairDay \/ FinishRepair \/ FullSync \/ FullSyncEnds
  <2>1. UNCHANGED task /\ work'["daily"] = work["daily"]
    BY <1>9 DEF StartRepair, RepairDay, FinishRepair, FullSync, FullSyncEnds, Set, CoverageStarts,
                TypeOK, Threads
  <2> QED BY <2>1, <1>task
<1>10. CASE Outage \/ OutageEnds \/ UNCHANGED vars
  BY <1>10, <1>task DEF Outage, OutageEnds, vars
<1> QED
  BY NextCases, <1>1, <1>2, <1>3, <1>4, <1>5, <1>6, <1>7, <1>8, <1>9, <1>10

\* A step keeps the daily run thorough: the next stock is the one at its place,
\* and a list read anew only grows.
LEMMA ThoroughStep ==
  ASSUME TypeOK, AtItsPlace, NoEmptySave, RunIsThorough, [Next]_vars
  PROVE  RunIsThorough'
<1>grow. Existing \in SUBSET Stocks /\ Existing' \in SUBSET Stocks /\ Existing \subseteq Existing'
  BY SaveStep, PackageAssumption DEF Existing, PackageAssumption
<1>later. ASSUME NEW n \in Nat, NEW L \in SUBSET Stocks, NEW M \in SUBSET L, VisitedBefore(M, n)
          PROVE  VisitedBefore(L, n)
  BY <1>later, PlaceGrows DEF VisitedBefore
<1>same. ASSUME UNCHANGED <<task, run>> PROVE RunIsThorough'
  <2> SUFFICES ASSUME ~run.blind, task.stage # "idle" PROVE RunIsThorough'
    BY <1>same DEF RunIsThorough
  <2>1. task.mark = "stock" => VisitedBefore(Existing', task.at)
    BY <1>grow, <1>later DEF RunIsThorough, TypeOK, Task
  <2> QED BY <1>same, <1>grow, <2>1 DEF RunIsThorough, VisitedBefore, Visited, Place
<1>listed. Listed \subseteq Existing /\ (~down => Listed = Existing)
  BY DEF Listed, Existing, Stored
<1>1. ASSUME NEW t \in Threads, Read(t) \/ Fetch(t) \/ SavePackage(t) \/ SaveMeta(t) \/ ClearRows(t)
              \/ InsertBatch(t) \/ SaveEnds(t) \/ SaveFails(t) \/ CoverOne(t) PROVE RunIsThorough'
  BY <1>1, <1>same
  DEF Read, Fetch, SavePackage, SaveMeta, ClearRows, InsertBatch, SaveEnds, SaveFails, CoverOne
<1>2. CASE StartRepair \/ RepairDay \/ FinishRepair \/ FullSync \/ FullSyncEnds \/ Outage
           \/ OutageEnds \/ UNCHANGED vars
  BY <1>2, <1>same DEF StartRepair, RepairDay, FinishRepair, FullSync, FullSyncEnds, Outage,
                       OutageEnds, vars
<1>StartDaily. CASE StartDaily
  <2>1. task'.stage = "queued" /\ task'.mark = "none" /\ run'.known = Listed
    BY <1>StartDaily DEF StartDaily, NoTask, NoRun
  <2> QED BY <2>1, <1>grow, <1>listed DEF RunIsThorough
<1>RunDaily. CASE RunDaily
  <2>1. /\ task.stage = "queued" /\ task'.stage = "stocks" /\ task'.list = Listed
        /\ task'.next = ResumeAt(Listed) /\ task'.mark = task.mark /\ task'.at = task.at
    BY <1>RunDaily DEF RunDaily, TypeOK, Task
  <2>2. /\ run'.known = run.known /\ run'.tried = run.tried /\ run'.hidden = run.hidden
        /\ ~run'.blind => ~run.blind /\ ~down
    BY <1>RunDaily DEF RunDaily, TypeOK
  <2>3. Existing' = Existing
    BY <1>RunDaily DEF RunDaily, Existing, store
  <2> SUFFICES ASSUME ~run.blind, ~down PROVE RunIsThorough'
    BY <2>2 DEF RunIsThorough
  <2>4. VisitedBefore(Existing, ResumeAt(Existing))
    <3>1. CASE task.mark = "none"
      BY <2>1, <3>1, <1>grow, PlaceIsOwn DEF ResumeAt, VisitedBefore, RunIsThorough
    <3>2. CASE task.mark = "stock"
      BY <2>1, <3>2 DEF ResumeAt, RunIsThorough
    <3>3. CASE task.mark = "coverage"
      BY <2>1, <3>3 DEF RunIsThorough, VisitedBefore
    <3> QED BY <3>1, <3>2, <3>3 DEF TypeOK, Task
  <2> QED BY <2>1, <2>2, <2>3, <2>4, <1>listed DEF RunIsThorough, VisitedBefore, Visited, Place
<1>sorted. ASSUME ~run.blind, task.stage \in {"stocks", "stock"} PROVE VisitedBefore(Existing, task.next)
  BY <1>sorted, <1>grow, <1>later DEF RunIsThorough, TypeOK, Task
<1>over. ASSUME ~run.blind, task.stage \in {"stocks", "stock"}, ~More PROVE run.known \subseteq Visited
  <2> SUFFICES ASSUME NEW s \in run.known \ Visited PROVE FALSE
    OBVIOUS
  <2>1. task.list \in SUBSET Stocks /\ task.next \in Nat
    BY DEF TypeOK, Task
  <2>2. Place(task.list, s) >= task.next
    BY <1>over DEF RunIsThorough, VisitedBefore
  <2> QED BY <1>over, <2>1, <2>2, PlaceGrows DEF More
<1>YieldDaily. CASE YieldDaily
  <2>1. /\ task'.stage = "queued" /\ task'.at = task.next /\ task.stage = "stocks"
        /\ task'.mark = IF More THEN "stock" ELSE "coverage"
    BY <1>YieldDaily DEF YieldDaily, NoTask
  <2>2. run' = run /\ Existing' = Existing
    BY <1>YieldDaily DEF YieldDaily, store, Existing
  <2> QED BY <2>1, <2>2, <1>sorted, <1>over DEF RunIsThorough, VisitedBefore, Visited, Place
<1>NextStock. CASE NextStock
  <2>1. /\ task'.stage = "stock" /\ task'.at = task.next /\ task.stage = "stocks" /\ task'.mark = "stock"
        /\ task'.list = task.list /\ task'.next = task.next
    BY <1>NextStock DEF NextStock, TypeOK, Task
  <2>2. run' = run /\ Existing' = Existing
    BY <1>NextStock DEF NextStock, store, Existing
  <2> QED BY <2>1, <2>2, <1>sorted DEF RunIsThorough, VisitedBefore, Visited, Place
<1>StockDone. CASE StockDone
  <2> DEFINE s == work["daily"].stock
  <2>1. /\ task'.stage = "stocks" /\ task'.at = task.at /\ task.stage = "stock" /\ task'.mark = task.mark
        /\ task'.list = task.list /\ task'.next = task.next + 1
    BY <1>StockDone DEF StockDone, TypeOK, Task
  <2>2. Visited' = Visited \cup {s} /\ run'.known = run.known /\ run'.blind = run.blind
    BY <1>StockDone DEF StockDone, TypeOK, Visited
  <2>3. Existing' = Existing
    BY <1>StockDone DEF StockDone, store, Existing
  <2> SUFFICES ASSUME ~run.blind PROVE RunIsThorough'
    BY <2>2 DEF RunIsThorough
  <2>4. ASSUME NEW x \in run.known \ Visited' PROVE Place(task.list, x) >= task.next + 1
    <3>1. Place(task.list, x) >= task.next /\ x \in task.list /\ x # s
      BY <2>1, <2>2 DEF RunIsThorough, VisitedBefore
    <3>2. s \in task.list /\ Place(task.list, s) = task.next
      BY <2>1 DEF AtItsPlace
    <3>3. task.list \in SUBSET Stocks /\ task.next \in Nat
      BY DEF TypeOK, Task
    <3>4. Place(task.list, x) # task.next /\ Place(task.list, x) \in Nat
      BY <3>1, <3>2, <3>3, PlaceIsOwn, PlaceGrows
    <3> QED BY <3>1, <3>3, <3>4
  <2>5. VisitedBefore(task.list, task.next)'
    BY <2>1, <2>2, <2>4 DEF VisitedBefore, Place
  <2>6. task.mark = "stock" => VisitedBefore(Existing, task.at)'
    BY <2>1, <2>2, <2>3 DEF RunIsThorough, VisitedBefore, Place
  <2> QED BY <2>1, <2>2, <2>3, <2>5, <2>6 DEF RunIsThorough, VisitedBefore, Place
<1>StartCoverage. CASE StartCoverage
  <2>1. /\ task'.stage = "coverage" /\ task.stage = "stocks" /\ task'.mark = "coverage" /\ ~More
    BY <1>StartCoverage DEF StartCoverage, TypeOK, Task
  <2>2. run' = run /\ Existing' = Existing
    BY <1>StartCoverage DEF StartCoverage, store, Existing
  <2> QED BY <2>1, <2>2, <1>over DEF RunIsThorough, Visited
<1>FinishDaily. CASE FinishDaily
  BY <1>FinishDaily DEF FinishDaily, NoTask, RunIsThorough
<1>Crash. CASE Crash
  <2>1. CASE task.stage \in {"idle", "queued"}
    BY <1>Crash, <2>1, <1>same DEF Crash, RunIsThorough
  <2>2. CASE task.stage \notin {"idle", "queued"} /\ task.mark = "none"
    BY <1>Crash, <2>2 DEF Crash, NoTask, RunIsThorough
  <2>3. CASE task.stage \notin {"idle", "queued"} /\ task.mark # "none"
    <3>1. task'.stage = "queued" /\ task'.mark = task.mark /\ task'.at = task.at
      BY <1>Crash, <2>3 DEF Crash, TypeOK, Task
    <3>2. run' = run /\ Existing' = Existing
      BY <1>Crash, <2>3, <3>1 DEF Crash, store, Existing
    <3> QED BY <2>3, <3>1, <3>2 DEF RunIsThorough, VisitedBefore, Visited, Place
  <2> QED BY <2>1, <2>2, <2>3
<1> QED
  BY NextCases, <1>1, <1>2, <1>StartDaily, <1>RunDaily, <1>YieldDaily, <1>NextStock,
     <1>StockDone, <1>StartCoverage, <1>FinishDaily, <1>Crash

-----------------------------------------------------------------------------

-----------------------------------------------------------------------------

\* While nothing disturbs a repair it is alone at writing.  The stock loses no day
\* by what it writes, so the days it set out for stay days of the market; and what
\* it then records is what is missing of them.
RepairAims == aim # {} =>
  LET w == work["repair"]
      s == w.stock IN
  /\ ~down /\ torn = {} /\ w.pc # "free" /\ w.clean
  /\ \A t \in Threads \ {"repair"} : work[t].pc \notin Saving
  /\ w.pc = "cover" => w.left \subseteq {s}
  /\ s \notin Legacy =>
       /\ w.pc = "cover" => aim \subseteq w.days
       /\ w.pc \in {"fetch", "save", "meta", "clear"} => Indexed(s) \subseteq HasDay(w.base)
       /\ w.pc \notin {"cover", "insert"} => aim \subseteq MarketDays(Today)
       /\ w.pc = "insert" => aim \subseteq MarketDays(Today) \cup HasDay(w.base)
       /\ w.pc = "cover" /\ w.left = {} =>
            coverage[s].missing = Expected(w.days, s) \ Indexed(s)

\* A step keeps the aims of a repair.
LEMMA AimsStep ==
  ASSUME TypeOK, StockIsNamed, SavesInOrder, RepairAims, [Next]_vars
  PROVE  RepairAims'
<1> USE DEF Threads, Saving, Outcome
<1> DEFINE w == work["repair"]
           s == w.stock
           RowsNow == {r[1] : r \in rows'[s]}
<1>days. ASSUME NEW x \in SUBSET Days PROVE \A d \in x : d <= Today
  BY PackageAssumption, MaxIsGreatest DEF PackageAssumption, Today
<1>gone. ASSUME aim' = {} PROVE RepairAims'
  BY <1>gone DEF RepairAims
<1>keep. ASSUME UNCHANGED <<package, meta, rows, coverage, down, torn, aim>>, work'["repair"] = work["repair"],
                \A t \in Threads \ {"repair"} : work'[t].pc \notin Saving \/ work'[t].pc = work[t].pc
         PROVE  RepairAims'
  <2>1. MarketDays(Today)' = MarketDays(Today)
    BY <1>keep DEF MarketDays, Indexed, Today
  <2>2. Expected(w.days, s)' = Expected(w.days, s) /\ Indexed(s)' = Indexed(s)
    BY <1>keep DEF Expected, Indexed
  <2> QED BY <1>keep, <2>1, <2>2 DEF RepairAims
<1>other. ASSUME NEW t \in Threads, t # "repair", work' = [work EXCEPT ![t] = work'[t]], work'[t].pc \notin Saving,
                 UNCHANGED <<package, meta, rows, coverage, down, torn, aim>>
          PROVE  RepairAims'
  BY <1>keep, <1>other DEF TypeOK
\* A step of the repair that writes nothing.
<1>same. ASSUME NEW v, Set("repair", v), v.stock = s, v.clean = w.clean, v.pc \notin {"free", "cover"},
                UNCHANGED <<down, torn, aim>>, aim # {}, RepairAims,
                s \notin Legacy =>
                  /\ v.pc \in {"fetch", "save", "meta", "clear"} => RowsNow \subseteq HasDay(v.base)
                  /\ v.pc # "insert" => aim \subseteq MarketDays(Today)'
                  /\ v.pc = "insert" => aim \subseteq MarketDays(Today)' \cup HasDay(v.base)
         PROVE  RepairAims'
  <2>1. work'["repair"] = v /\ \A t \in Threads \ {"repair"} : work'[t] = work[t]
    BY <1>same DEF Set, TypeOK
  <2>2. Indexed(s)' = RowsNow /\ s' = s
    BY <1>same, <2>1 DEF Indexed
  <2>3. HasDay(w.base)' = HasDay(v.base)
    BY <2>1 DEF HasDay
  <2> HIDE DEF s
  <2> QED BY <1>same, <2>1, <2>2, <2>3 DEF RepairAims, s
<1>end. ASSUME NEW o \in Outcome, End("repair", o), UNCHANGED <<rows, down, torn, aim>>, aim # {}, RepairAims,
               s \notin Legacy => aim \subseteq MarketDays(Today)
        PROVE  RepairAims'
  <2> DEFINE v == [Free EXCEPT !.pc = o, !.stock = s, !.days = w.days]
  <2>1. Set("repair", v) /\ v.stock = s /\ v.clean = TRUE /\ v.pc = o
    BY <1>end DEF End, Free
  <2>2. MarketDays(Today)' = MarketDays(Today)
    BY <1>end DEF MarketDays, Indexed, Today
  <2>3. w.clean = TRUE
    BY <1>end DEF RepairAims, TypeOK, Work
  <2> HIDE DEF v
  <2> QED BY <1>end, <2>1, <2>2, <2>3, <1>same
<1>Read. ASSUME NEW t \in Threads, Read(t) PROVE RepairAims'
  <2>1. CASE t # "repair"
    <3>1. work' = [work EXCEPT ![t] = work'[t]]
      BY <1>Read DEF Read, End, Set, TypeOK
    <3>2. work'[t].pc \notin Saving
      <4>1. CASE \E o \in Outcome : End(t, o)
        BY <4>1 DEF End, Set, Free, TypeOK
      <4>2. CASE Set(t, [work[t] EXCEPT !.pc = "fetch", !.base = Current(work[t].stock)])
        BY <4>2 DEF Set, TypeOK, Work
      <4> QED BY <1>Read, <4>1, <4>2 DEF Read
    <3> QED BY <1>Read, <2>1, <3>1, <3>2, <1>other DEF Read, store
  <2>2. CASE t = "repair" /\ aim # {}
    <3>1. ~down /\ torn = {} /\ (s \notin Legacy => aim \subseteq MarketDays(Today)) /\ w.pc = "read"
      BY <1>Read, <2>2 DEF Read, RepairAims
    <3>2. CASE \E o \in Outcome : End("repair", o)
      BY <1>Read, <2>2, <3>1, <3>2, <1>end DEF Read, store
    <3>3. CASE Set("repair", [w EXCEPT !.pc = "fetch", !.base = Current(s)])
      <4> DEFINE v == [w EXCEPT !.pc = "fetch", !.base = Current(s)]
      <4>1. v.stock = s /\ v.clean = w.clean /\ v.pc = "fetch" /\ v.base = Current(s)
        BY DEF TypeOK, Work
      <4>2. s \in Stocks /\ Savers(s) = {}
        BY <2>2, <3>1 DEF StockIsNamed, RepairAims, Savers
      <4>3. s \notin Legacy => rows[s] = RowsOf(package[s]) /\ Current(s) = package[s]
        BY <3>1, <4>2 DEF SavesInOrder, RowsFollowPackage, Current, Stored
      <4>4. s \notin Legacy => Indexed(s) \subseteq HasDay(Current(s))
        BY <4>3 DEF Indexed, RowsOf
      <4>5. RowsNow = Indexed(s) /\ MarketDays(Today)' = MarketDays(Today)
        BY <1>Read DEF Read, store, Indexed, MarketDays, Today
      <4>6. RowsNow \subseteq HasDay(v.base) \/ s \in Legacy
        BY <4>1, <4>4, <4>5
      <4> HIDE DEF v
      <4> QED BY <1>Read, <2>2, <3>1, <3>3, <4>1, <4>5, <4>6, <1>same DEF Read, store, v
    <3> QED BY <1>Read, <2>2, <3>2, <3>3 DEF Read
  <2> QED BY <1>Read, <1>gone, <2>1, <2>2 DEF Read
<1>Fetch. ASSUME NEW t \in Threads, Fetch(t) PROVE RepairAims'
  <2>1. CASE t # "repair"
    <3>1. work' = [work EXCEPT ![t] = work'[t]]
      BY <1>Fetch DEF Fetch, End, Set, TypeOK
    <3>2. work'[t].pc \notin Saving
      <4>1. CASE \E o \in Outcome : End(t, o)
        BY <4>1 DEF End, Set, Free, TypeOK
      <4>2. ASSUME NEW p, Set(t, [work[t] EXCEPT !.pc = "save", !.base = p]) PROVE work'[t].pc \notin Saving
        BY <4>2 DEF Set, TypeOK, Work
      <4>3. "skipped" \in Outcome /\ "no_data" \in Outcome
        OBVIOUS
      <4> QED BY <1>Fetch, <4>1, <4>2, <4>3 DEF Fetch
    <3> QED BY <1>Fetch, <2>1, <3>1, <3>2, <1>other DEF Fetch, store
  <2>2. CASE t = "repair" /\ aim # {}
    <3>1. ~down /\ (s \notin Legacy => aim \subseteq MarketDays(Today) /\ Indexed(s) \subseteq HasDay(w.base))
      BY <1>Fetch, <2>2 DEF Fetch, RepairAims
    <3>2. CASE \E o \in Outcome : End("repair", o)
      BY <1>Fetch, <2>2, <3>1, <3>2, <1>end DEF Fetch, store
    <3>3. ASSUME NEW p \in Merged(w.base, w.day), Set("repair", [w EXCEPT !.pc = "save", !.base = p])
          PROVE  RepairAims'
      <4> DEFINE v == [w EXCEPT !.pc = "save", !.base = p]
      <4>1. v.stock = s /\ v.clean = w.clean /\ v.pc = "save" /\ v.base = p
        BY DEF TypeOK, Work
      <4>2. HasDay(w.base) \subseteq HasDay(p)
        <5>1. w.base \in Package
          BY DEF TypeOK, Work
        <5>2. PICK q \in Level \ {0} : q >= w.base[w.day] /\ p = [w.base EXCEPT ![w.day] = q]
          BY DEF Merged
        <5>3. q > 0
          BY DEF Level
        <5> QED BY <5>1, <5>2, <5>3 DEF HasDay, Package
      <4>3. RowsNow = Indexed(s) /\ MarketDays(Today)' = MarketDays(Today)
        BY <1>Fetch DEF Fetch, store, Indexed, MarketDays, Today
      <4>4. RowsNow \subseteq HasDay(v.base) \/ s \in Legacy
        BY <3>1, <4>1, <4>2, <4>3
      <4>5. UNCHANGED <<down, torn, aim>> /\ RepairAims
        BY <1>Fetch DEF Fetch
      <4> HIDE DEF v
      <4>6. Set("repair", v)
        BY <3>3 DEF v
      <4>7. /\ v.pc \notin {"free", "cover", "insert"}
            /\ s \notin Legacy => RowsNow \subseteq HasDay(v.base)
        BY <4>1, <4>4
      <4>8. s \notin Legacy => aim \subseteq MarketDays(Today)'
        BY <3>1, <4>3
      <4> QED BY <2>2, <4>1, <4>5, <4>6, <4>7, <4>8, <1>same
    <3>4. "skipped" \in Outcome /\ "no_data" \in Outcome
      OBVIOUS
    <3> QED BY <1>Fetch, <2>2, <3>2, <3>3, <3>4 DEF Fetch
  <2> QED BY <1>Fetch, <1>gone, <2>1, <2>2 DEF Fetch
<1>SavePackage. ASSUME NEW t \in Threads, SavePackage(t) PROVE RepairAims'
  <2>1. CASE t # "repair"
    BY <1>SavePackage, <2>1, <1>gone DEF SavePackage
  <2>2. CASE t = "repair" /\ aim # {}
    <3>1. Savers(s) = {} /\ w.clean /\ torn = {} /\ ~down
          /\ (s \notin Legacy => aim \subseteq MarketDays(Today) /\ Indexed(s) \subseteq HasDay(w.base))
          /\ \A u \in Threads \ {"repair"} : work[u].pc \notin Saving
      BY <1>SavePackage, <2>2 DEF SavePackage, RepairAims, Savers
    <3>2. work'["repair"] = [w EXCEPT !.pc = "meta", !.clean = TRUE] /\ torn' = torn
      BY <1>SavePackage, <2>2, <3>1 DEF SavePackage
    <3>3. \A u \in Threads \ {"repair"} : work'[u].pc = work[u].pc
      BY <1>SavePackage, <2>2 DEF SavePackage, TypeOK, Work
    <3>4. w'.pc = "meta" /\ w'.clean /\ s' = s /\ w'.base = w.base
      BY <3>2 DEF TypeOK, Work
    <3>5. Indexed(s)' = Indexed(s) /\ MarketDays(Today)' = MarketDays(Today)
      BY <1>SavePackage, <3>4 DEF SavePackage, Indexed, MarketDays, Today
    <3>6. HasDay(w.base)' = HasDay(w.base)
      BY <3>4 DEF HasDay
    <3> HIDE DEF w
    <3> QED BY <1>SavePackage, <2>2, <3>1, <3>2, <3>3, <3>4, <3>5, <3>6 DEF SavePackage, RepairAims, w
  <2> QED BY <1>SavePackage, <1>gone, <2>1, <2>2 DEF SavePackage
<1>SaveMeta. ASSUME NEW t \in Threads, SaveMeta(t), aim # {} PROVE RepairAims'
  <2>1. t = "repair" /\ ~down
    BY <1>SaveMeta DEF SaveMeta, RepairAims
  <2> DEFINE v == [w EXCEPT !.pc = "clear"]
  <2>2. v.stock = s /\ v.clean = w.clean /\ v.pc = "clear" /\ v.base = w.base
    BY DEF TypeOK, Work
  <2>3. RowsNow \subseteq HasDay(v.base) \/ s \in Legacy
    <3>1. RowsNow = Indexed(s)
      BY <1>SaveMeta DEF SaveMeta, Indexed
    <3> QED BY <1>SaveMeta, <2>1, <2>2, <3>1 DEF SaveMeta, RepairAims
  <2>4. s \notin Legacy => aim \subseteq MarketDays(Today)'
    BY <1>SaveMeta, <2>1 DEF SaveMeta, RepairAims, MarketDays, Indexed, Today
  <2> HIDE DEF v
  <2> QED BY <1>SaveMeta, <2>1, <2>2, <2>3, <2>4, <1>same DEF SaveMeta, v
<1>ClearRows. ASSUME NEW t \in Threads, ClearRows(t) PROVE RepairAims'
  <2>1. CASE t # "repair"
    BY <1>ClearRows, <2>1, <1>gone DEF ClearRows
  <2>2. CASE t = "repair" /\ aim # {}
    <3> DEFINE v == [w EXCEPT !.pc = "insert", !.todo = RowsOf(w.base)]
    <3>1. v.stock = s /\ v.clean = w.clean /\ v.pc = "insert" /\ v.base = w.base
      BY DEF TypeOK, Work
    <3>2. Set("repair", v)
      BY <1>ClearRows, <2>2 DEF ClearRows
    <3>3. s \notin Legacy => aim \subseteq MarketDays(Today) /\ Indexed(s) \subseteq HasDay(w.base)
      BY <1>ClearRows, <2>2 DEF ClearRows, RepairAims
    <3>4. \A x \in Stocks : x # s => Indexed(x)' = Indexed(x)
      BY <1>ClearRows, <2>2 DEF ClearRows, Indexed, TypeOK
    <3>5. MarketDays(Today) \subseteq MarketDays(Today)' \cup Indexed(s)
      BY <3>4 DEF MarketDays, Today
    <3>6. s \notin Legacy => aim \subseteq MarketDays(Today)' \cup HasDay(v.base)
      BY <3>1, <3>3, <3>5
    <3> HIDE DEF v
    <3> QED BY <1>ClearRows, <2>2, <3>1, <3>2, <3>6, <1>same DEF ClearRows
  <2> QED BY <1>ClearRows, <1>gone, <2>1, <2>2 DEF ClearRows
<1>InsertBatch. ASSUME NEW t \in Threads, InsertBatch(t), aim # {} PROVE RepairAims'
  <2>1. t = "repair"
    BY <1>InsertBatch DEF InsertBatch, RepairAims
  <2>2. PICK batch \in SUBSET w.todo \ {{}} :
          /\ rows' = [rows EXCEPT ![s] = @ \cup batch]
          /\ Set("repair", [w EXCEPT !.todo = @ \ batch])
    BY <1>InsertBatch, <2>1 DEF InsertBatch
  <2> DEFINE v == [w EXCEPT !.todo = @ \ batch]
  <2>3. v.stock = s /\ v.clean = w.clean /\ v.pc = "insert" /\ v.base = w.base
    BY <1>InsertBatch, <2>1 DEF InsertBatch, TypeOK, Work
  <2>4. MarketDays(Today) \subseteq MarketDays(Today)'
    <3>1. \A x \in Stocks : Indexed(x) \subseteq Indexed(x)'
      BY <2>2 DEF TypeOK, Indexed
    <3> QED BY <3>1 DEF MarketDays, Today
  <2>5. s \notin Legacy => aim \subseteq MarketDays(Today)' \cup HasDay(v.base)
    BY <1>InsertBatch, <2>1, <2>3, <2>4 DEF RepairAims, InsertBatch
  <2> HIDE DEF v
  <2> QED BY <1>InsertBatch, <2>2, <2>3, <2>5, <1>same DEF InsertBatch, v
<1>SaveEnds. ASSUME NEW t \in Threads, SaveEnds(t), aim # {} PROVE RepairAims'
  <2>1. t = "repair" /\ w.pc = "insert" /\ w.todo = {} /\ w.clean /\ torn = {}
    BY <1>SaveEnds DEF SaveEnds, RepairAims
  <2>2. rows[s] = RowsOf(w.base) /\ s \in Stocks
    BY <2>1 DEF SavesInOrder, CleanSave, StockIsNamed
  <2>3. HasDay(w.base) \subseteq MarketDays(Today)
    <3>1. HasDay(w.base) \subseteq Indexed(s)
      <4> SUFFICES ASSUME NEW d \in HasDay(w.base) PROVE d \in Indexed(s)
        OBVIOUS
      <4>1. <<d, w.base[d]>> \in rows[s] /\ <<d, w.base[d]>>[1] = d
        BY <2>2 DEF RowsOf
      <4> QED BY <4>1 DEF Indexed
    <3>2. HasDay(w.base) \in SUBSET Days
      BY DEF HasDay
    <3> QED BY <2>2, <3>1, <3>2, <1>days DEF MarketDays
  <2>4. s \notin Legacy => aim \subseteq MarketDays(Today)
    BY <1>SaveEnds, <2>1, <2>3 DEF RepairAims
  <2>5. torn' = torn
    BY <1>SaveEnds, <2>1 DEF SaveEnds
  <2>6. "updated" \in Outcome /\ End("repair", "updated")
    BY <1>SaveEnds, <2>1 DEF SaveEnds
  <2> QED BY <1>SaveEnds, <2>4, <2>5, <2>6, <1>end DEF SaveEnds, store
<1>SaveFails. ASSUME NEW t \in Threads, SaveFails(t) PROVE RepairAims'
  BY <1>SaveFails, <1>gone DEF SaveFails, RepairAims
<1>CoverOne. ASSUME NEW t \in Threads, CoverOne(t), aim # {}, aim' # {} PROVE RepairAims'
  <2>1. t = "repair" /\ aim' = aim /\ ~down /\ w.pc = "cover" /\ UNCHANGED <<package, meta, rows, down, torn>>
    BY <1>CoverOne DEF CoverOne, RepairAims, store
  <2>2. PICK x \in w.left :
          /\ Set("repair", [w EXCEPT !.left = @ \ {x}])
          /\ coverage' = [coverage EXCEPT ![x] =
               [expected |-> Expected(w.days, x),
                missing |-> Missing(Expected(w.days, x), Indexed(x) \cap Expected(w.days, x))]]
    BY <1>CoverOne, <2>1 DEF CoverOne
  <2>3. x = s /\ x \in Stocks /\ (s \notin Legacy => aim \subseteq w.days)
    BY <1>CoverOne, <2>1 DEF RepairAims, TypeOK, Work
  <2>4. work'["repair"] = [w EXCEPT !.left = @ \ {x}] /\ \A u \in Threads \ {"repair"} : work'[u] = work[u]
    BY <2>2 DEF Set, TypeOK
  <2>5. w'.stock = s /\ w'.pc = "cover" /\ w'.clean = w.clean /\ w'.days = w.days /\ w'.left = w.left \ {x}
    BY <2>1, <2>4 DEF TypeOK, Work
  <2>6. coverage'[s].missing = Expected(w.days, s) \ Indexed(s)
    BY <2>2, <2>3 DEF TypeOK, Missing
  <2>7. Expected(w.days, s)' = Expected(w.days, s) /\ Indexed(s)' = Indexed(s)
    BY <2>1, <2>5 DEF Expected, Indexed
  <2> HIDE DEF w
  <2> QED BY <1>CoverOne, <2>1, <2>3, <2>4, <2>5, <2>6, <2>7 DEF RepairAims, w
<1>1. CASE StartDaily \/ RunDaily \/ YieldDaily
  BY <1>1, <1>keep DEF StartDaily, RunDaily, YieldDaily, store
<1>2. CASE NextStock
  <2>1. PICK x \in task.list : Set("daily", [Free EXCEPT !.pc = "read", !.stock = x, !.day = task.target])
    BY <1>2 DEF NextStock
  <2>2. work' = [work EXCEPT !["daily"] = work'["daily"]] /\ work'["daily"].pc = "read"
    BY <2>1 DEF Set, Free, TypeOK
  <2> QED BY <1>2, <2>2, <1>other DEF NextStock, store
<1>3. CASE StockDone \/ FinishDaily
  <2>1. work' = [work EXCEPT !["daily"] = work'["daily"]] /\ work'["daily"].pc = "free"
    BY <1>3 DEF StockDone, FinishDaily, Set, Free, TypeOK
  <2> QED BY <1>3, <2>1, <1>other DEF StockDone, FinishDaily, store
<1>4. CASE StartCoverage
  <2>1. \A t \in Threads \ {"repair"} : work'[t].pc \notin Saving \/ work'[t].pc = work[t].pc
    BY <1>4 DEF StartCoverage, CoverageStarts, TypeOK, Work
  <2>2. work'["repair"] = work["repair"]
    BY <1>4 DEF StartCoverage, CoverageStarts, TypeOK
  <2> QED BY <1>4, <2>1, <2>2, <1>keep DEF StartCoverage, store
<1>5. CASE FullSync \/ FullSyncEnds
  <2>1. work' = [work EXCEPT !["user"] = work'["user"]]
    BY <1>5 DEF FullSync, FullSyncEnds, Set, TypeOK
  <2>2. work'["user"].pc \in {"free", "save"}
    <3>1. CASE FullSync
      <4>1. PICK x \in Stocks, p \in Collected : Set("user", [Free EXCEPT !.pc = "save", !.stock = x, !.base = p])
        BY <3>1 DEF FullSync
      <4> QED BY <4>1 DEF Set, Free, TypeOK
    <3>2. CASE FullSyncEnds
      BY <3>2 DEF FullSyncEnds, Set, Free, TypeOK
    <3> QED BY <1>5, <3>1, <3>2
  <2> QED BY <1>5, <2>1, <2>2, <1>other DEF FullSync, FullSyncEnds, store
<1>6. ASSUME StartRepair, aim' # {} PROVE RepairAims'
  <2>1. PICK x \in Stocks :
          /\ Set("repair", [Free EXCEPT !.pc = "pick", !.stock = x, !.days = coverage[x].missing])
          /\ aim' \subseteq MarketDays(Today) /\ torn = {} /\ ~down
          /\ \A t \in Threads : work[t].pc \notin Saving
    BY <1>6 DEF StartRepair
  <2>2. work'["repair"] = [Free EXCEPT !.pc = "pick", !.stock = x, !.days = coverage[x].missing]
        /\ \A u \in Threads \ {"repair"} : work'[u] = work[u]
    BY <2>1 DEF Set, TypeOK
  <2>3. w'.pc = "pick" /\ w'.clean /\ UNCHANGED <<rows, down, torn>>
    BY <1>6, <2>2 DEF StartRepair, Free, store
  <2>4. MarketDays(Today)' = MarketDays(Today)
    BY <2>3 DEF MarketDays, Indexed, Today
  <2> HIDE DEF w
  <2> QED BY <2>1, <2>2, <2>3, <2>4 DEF RepairAims, w
<1>7. ASSUME RepairDay, aim # {} PROVE RepairAims'
  <2>0. UNCHANGED <<package, meta, rows, coverage, down, torn, aim>> /\ ~down /\ w.clean /\ torn = {}
        /\ (s \notin Legacy => aim \subseteq MarketDays(Today)) /\ w.pc \notin {"cover", "insert"}
    BY <1>7 DEF RepairDay, RepairAims, store
  <2>m. MarketDays(Today)' = MarketDays(Today)
    BY <2>0 DEF MarketDays, Indexed, Today
  <2>1. CASE w.days # {}
    <3> DEFINE v == [w EXCEPT !.pc = "read", !.day = Min(w.days), !.days = @ \ {Min(w.days)}]
    <3>1. v.stock = s /\ v.clean = w.clean /\ v.pc = "read" /\ Set("repair", v)
      BY <1>7, <2>1 DEF RepairDay, TypeOK, Work
    <3> HIDE DEF v
    <3> QED BY <1>7, <2>0, <2>m, <3>1, <1>same
  <2>2. CASE w.days = {}
    <3>1. work'["repair"] = [w EXCEPT !.pc = "cover", !.left = {s}, !.days = MarketDays(Today)]
          /\ \A u \in Threads \ {"repair"} : work'[u] = work[u]
      BY <1>7, <2>0, <2>2 DEF RepairDay, CoverageStarts, TypeOK
    <3>2. w'.stock = s /\ w'.pc = "cover" /\ w'.clean = w.clean /\ w'.days = MarketDays(Today) /\ w'.left = {s}
      BY <3>1 DEF TypeOK, Work
    <3>3. s \notin Legacy => aim' \subseteq w'.days
      BY <2>0, <3>2
    <3> HIDE DEF w
    <3> QED BY <1>7, <2>0, <3>1, <3>2, <3>3 DEF RepairAims, w
  <2> QED BY <2>1, <2>2
<1>8. CASE FinishRepair \/ Outage \/ Crash
  BY <1>8, <1>gone DEF FinishRepair, Outage, Crash
<1>9. CASE OutageEnds
  BY <1>9, <1>gone DEF OutageEnds, RepairAims
<1>10. CASE UNCHANGED vars
  BY <1>10, <1>keep DEF vars, store
<1>11. \A t \in Threads : SaveMeta(t) \/ InsertBatch(t) \/ SaveEnds(t) => aim' = aim
  BY DEF SaveMeta, InsertBatch, SaveEnds
<1>12. \A t \in Threads : CoverOne(t) => aim' = aim \/ aim' = {}
  BY DEF CoverOne
<1>13. RepairDay => aim' = aim
  BY DEF RepairDay
<1> QED
  BY NextCases, <1>gone, <1>Read, <1>Fetch, <1>SavePackage, <1>SaveMeta, <1>ClearRows, <1>InsertBatch,
     <1>SaveEnds, <1>SaveFails, <1>CoverOne, <1>1, <1>2, <1>3, <1>4, <1>5, <1>6, <1>7, <1>8, <1>9,
     <1>10, <1>11, <1>12, <1>13

\* The inductive invariant.
IInv ==
  /\ TypeOK /\ StockIsNamed
  /\ SavesInOrder /\ UpdateKeepsQuality
  /\ DailyFollowsTask /\ AtItsPlace /\ NoEmptySave /\ RunIsThorough /\ RepairAims

\* It holds at first,
LEMMA InitIInv == Init => IInv
<1> SUFFICES ASSUME Init PROVE IInv
  OBVIOUS
<1>1. Early \subseteq Package
  <2>1. {0, 1, 2} \subseteq Level
    BY DEF Level
  <2> QED BY <2>1 DEF Early, Only, NoPackage, Package
<1>2. package \in [Stocks -> Package]
  BY <1>1 DEF Init
<1>3. meta \in [Stocks -> Days \cup {0}]
  BY <1>2, FirstDayIsDay DEF Init
<1>4. rows \in [Stocks -> RowSets]
  BY <1>2, RowsOfType DEF Init
<1>5. coverage \in [Stocks -> [expected : SUBSET Days, missing : SUBSET Days]]
  BY DEF Init, Expected, Missing, MarketDays
<1>6. task \in Task /\ task.stage = "idle"
  BY DEF Init, NoTask, Task
<1>7. work \in [Threads -> Work] /\ \A t \in Threads : work[t].pc = "free"
  BY FreeType DEF Init, Free
<1>8. TypeOK
  <2>1. down \in BOOLEAN /\ torn \subseteq Stocks /\ aim \subseteq Days
    BY DEF Init
  <2>2. run \in [known : SUBSET Stocks, tried : SUBSET Stocks, hidden : SUBSET Stocks,
                 blind : BOOLEAN]
    BY DEF Init, NoRun
  <2>3. events \in 0 .. MaxEvents
    BY PackageAssumption DEF Init, PackageAssumption
  <2> QED BY <1>2, <1>3, <1>4, <1>5, <1>6, <1>7, <2>1, <2>2, <2>3 DEF TypeOK
<1>9. StockIsNamed /\ CleanSave /\ UncleanIsTorn /\ UpdateKeepsQuality /\ NoEmptySave
  BY <1>7 DEF Threads, StockIsNamed, CleanSave, UncleanIsTorn, UpdateKeepsQuality, NoEmptySave,
              Saving, Outcome
<1>10. RowsFollowPackage
  BY DEF Init, RowsFollowPackage
<1>11. DailyFollowsTask /\ AtItsPlace /\ RunIsThorough
  BY <1>6, <1>7 DEF DailyFollowsTask, AtItsPlace, RunIsThorough, Threads
<1>12. RepairAims
  BY DEF Init, RepairAims
<1> QED BY <1>8, <1>9, <1>10, <1>11, <1>12 DEF IInv, SavesInOrder

\* and a step keeps it,
LEMMA IInvStep == IInv /\ [Next]_vars => IInv'
BY TypeStep, SavesStep, QualityStep, DailyStep, PlaceStep, SaveStep, ThoroughStep, AimsStep DEF IInv

\* so it holds always.
THEOREM InvCorrect == Spec => []IInv
<1>1. Init => IInv
  BY InitIInv
<1>2. IInv /\ [Next]_vars => IInv'
  BY IInvStep
<1> QED BY <1>1, <1>2, PTL DEF Spec

\* The packages, their metadata and rows, the gaps and the threads have their types.
THEOREM TypeCorrect == Spec => []TypeOK
<1>1. IInv => TypeOK
  BY DEF IInv
<1> QED BY <1>1, InvCorrect, PTL

\* The rows are those of the package unless the last save was cut short or overlapped
\* (save_stock_package_to_mongo), whatever threads save whatever stocks.
THEOREM RowsCorrect == Spec => []RowsFollowPackage
<1>1. IInv => RowsFollowPackage
  BY DEF IInv, SavesInOrder
<1> QED BY <1>1, InvCorrect, PTL

\* A daily update or a repair writes nothing worse than what is stored, unless another
\* save came after its reading (sync_daily_market_for_stock).
THEOREM QualityCorrect == Spec => []UpdateKeepsQuality
<1>1. IInv => UpdateKeepsQuality
  BY DEF IInv
<1> QED BY <1>1, InvCorrect, PTL

\* A daily run that ends without a failure has been through every stock there was when
\* it was started (sync_daily_market_for_existing_stocks), however it was interrupted.
THEOREM RunCorrect == Spec => RunMissesNoStock
<1> DEFINE Ends == FinishDaily /\ ~task.failed =>
                     run.blind \/ run.known \subseteq run.tried \cup run.hidden
<1>1. IInv /\ [Next]_vars => [Ends]_vars
  <2> SUFFICES ASSUME IInv, FinishDaily PROVE run.blind \/ run.known \subseteq run.tried \cup run.hidden
    OBVIOUS
  <2>1. task.stage = "coverage"
    BY DEF FinishDaily
  <2> QED BY <2>1 DEF IInv, RunIsThorough, Visited
<1> QED BY <1>1, InvCorrect, PTL DEF Spec, RunMissesNoStock

\* A repair that finds nothing left to do has brought the days it set out for
\* (repair_stock_storage_issue), whatever the rest does meanwhile.
THEOREM RepairCorrect == Spec => RepairBringsDays
<1> DEFINE s == work["repair"].stock
           Ends == FinishRepair /\ NoIssue(s) /\ s \notin Legacy => Expected(aim, s) \subseteq Indexed(s)
<1>1. IInv /\ [Next]_vars => [Ends]_vars
  <2> SUFFICES ASSUME IInv, FinishRepair, NoIssue(s), s \notin Legacy PROVE Expected(aim, s) \subseteq Indexed(s)
    OBVIOUS
  <2>1. CASE aim = {}
    BY <2>1 DEF Expected
  <2>2. CASE aim # {}
    <3>1. ~down /\ aim \subseteq work["repair"].days
          /\ coverage[s].missing = Expected(work["repair"].days, s) \ Indexed(s)
      BY <2>2 DEF IInv, RepairAims, FinishRepair
    <3> QED BY <3>1 DEF NoIssue, Expected
  <2> QED BY <2>1, <2>2
<1> QED BY <1>1, InvCorrect, PTL DEF Spec, RepairBringsDays

-----------------------------------------------------------------------------
(* With the fetching of minutes, in one run *)

\* A behaviour of the composition is one of each part, which stands still while the other is followed.
LEMMA EitherPart == PackagesSpec => Spec /\ MinuteSpec
<1>1. PackagesInit => Init /\ MinuteInit
  BY DEF PackagesInit
<1>2. [PackagesNext]_<<part, vars, minuteVars>> => [Next]_vars
  BY DEF PackagesNext
<1>3. [PackagesNext]_<<part, vars, minuteVars>> => [MinuteNext]_minuteVars
  BY DEF PackagesNext
<1> QED BY <1>1, <1>2, <1>3, PTL DEF PackagesSpec, Spec, MinuteSpec

\* The types of the packages and of the fetching of minutes hold in the composition.
THEOREM PackagesTypesCorrect == PackagesSpec => []PackagesTypeOK
<1>1. TypeOK /\ MinuteTypeOK => PackagesTypeOK
  BY DEF PackagesTypeOK
<1> QED BY <1>1, EitherPart, TypeCorrect, MinuteTypeCorrect, PTL

\* So does what else is checked of them together.
THEOREM PackagesCorrect ==
  PackagesSpec => /\ [](RowsFollowPackage /\ UpdateKeepsQuality /\ CleanHistoryIsWhole /\ GivenUpStopsSoon)
                  /\ RunMissesNoStock /\ RepairBringsDays /\ OnlyOldestIsCut
BY EitherPart, RowsCorrect, QualityCorrect, HistoryCorrect, GivenUpCorrect, RunCorrect, RepairCorrect,
   CutIsOldestOnly, PTL

=============================================================================
