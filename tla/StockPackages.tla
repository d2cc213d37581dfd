--------------------------- MODULE StockPackages ---------------------------
(***************************************************************************)
(* The packages of daily data of the stocks (stock_storage.py,              *)
(* local_data_mongo.py), the daily run over all of them, the repair of one  *)
(* (stock_storage_repair.py) and the record of gaps (daily_k_coverage.py).  *)
(*                                                                         *)
(* A package is read, changed and written back without a lock, in three     *)
(* writes: the package document, the metadata, and the rows, which are all  *)
(* deleted and then written in batches.  The daily run, a repair and a full *)
(* synchronisation that a user asked for may work on one stock at a time.   *)
(* MongoDB may stop answering; reads then say "nothing there" and failed    *)
(* writes are swallowed.                                                    *)
(***************************************************************************)
EXTENDS Naturals, FiniteSets, FiniteSetsExt

CONSTANTS
  Stocks,      \* stock codes, in their order
  Days,        \* trading days, in their order
  Legacy,      \* stocks with a file from before the move to MongoDB
  Undated,     \* stocks with no recorded date of listing; the others were
               \* listed before the first of Days
  Percent,     \* share of the stocks that makes a day complete (95)
  MaxEvents    \* bound: daily runs, repairs, full synchronisations, outages,
               \* failed reads and crashes, together

ASSUME PackageAssumption ==
  /\ Stocks \subseteq Nat \ {0} /\ IsFiniteSet(Stocks)
  /\ Days \subseteq Nat \ {0} /\ IsFiniteSet(Days) /\ Days # {}
  /\ Legacy \subseteq Stocks /\ Undated \subseteq Stocks
  /\ Percent \in 0 .. 100
  /\ MaxEvents \in Nat

VARIABLES
  package, meta, rows,   \* the collections: full_data, first day, dataset rows
  coverage,              \* the gaps recorded for each stock
  down,                  \* MongoDB does not answer
  work,                  \* what each thread is doing
  task,                  \* the daily run
  torn,                  \* history: stocks whose last save was cut short or overlapped
  run,                   \* history: what the daily run did
  aim,                   \* history: the days a repair set out for, if nothing
                         \* disturbs it
  events                 \* counts against the bound

vars == <<package, meta, rows, coverage, down, work, task, torn, run, aim, events>>
store == <<package, meta, rows>>

\* What a day's rows are worth: there are none, the quote is a poor one from a
\* fallback, a table beside a good quote is missing, or all is there.
Level     == 0 .. 3
Package   == [Days -> Level]
NoPackage == [d \in Days |-> 0]
Threads   == {"daily", "repair", "user"}
Saving    == {"meta", "clear", "insert"}
Outcome   == {"updated", "skipped", "no_data", "failed"}
Free      == [pc |-> "free", stock |-> 0, day |-> 0, base |-> NoPackage,
              todo |-> {}, clean |-> TRUE, days |-> {}, left |-> {}]

HasDay(p)  == {d \in Days : p[d] > 0}
RowsOf(p)  == {<<d, p[d]>> : d \in HasDay(p)}
Indexed(s) == {r[1] : r \in rows[s]}
FirstDay(p) == IF HasDay(p) = {} THEN 0 ELSE Min(HasDay(p))

NoTask   == [stage |-> "idle", target |-> 0, mark |-> "none", at |-> 1,
           list |-> {}, next |-> 1, failed |-> FALSE]
NoRun    == [known |-> {}, tried |-> {}, hidden |-> {}, blind |-> FALSE]

RowSets == SUBSET (Days \X (Level \ {0}))
WorkPcs == {"free", "pick", "read", "fetch", "save", "cover"} \cup Saving \cup Outcome
Work == [pc : WorkPcs, stock : Stocks \cup {0}, day : Days \cup {0}, base : Package,
         todo : RowSets,
         clean : BOOLEAN,  \* history: nobody else saved the stock meanwhile
         days : SUBSET Days, left : SUBSET Stocks]
Task == [stage : {"idle", "queued", "stocks", "stock", "coverage"},
         target : Days \cup {0}, mark : {"none", "stock", "coverage"},
         at : Nat, list : SUBSET Stocks, next : Nat, failed : BOOLEAN]

TypeOK ==
  /\ package \in [Stocks -> Package] /\ meta \in [Stocks -> Days \cup {0}]
  /\ rows \in [Stocks -> RowSets]
  /\ coverage \in [Stocks -> [expected : SUBSET Days, missing : SUBSET Days]]
  /\ down \in BOOLEAN
  /\ work \in [Threads -> Work]
  /\ task \in Task
  /\ torn \subseteq Stocks
  /\ run \in [known : SUBSET Stocks, tried : SUBSET Stocks, hidden : SUBSET Stocks,
              blind : BOOLEAN]
  /\ aim \subseteq Days
  /\ events \in 0 .. MaxEvents

\* The days some stock has rows of, up to the end date.
MarketDays(end) == {d \in Days : d <= end /\ \E s \in Stocks : d \in Indexed(s)}

\* _expected_dates_for_stock: from the listing or the package's first day on,
\* whichever is earlier; without metadata, all of them.
Expected(days, s) == {d \in days : s \notin Undated \/ meta[s] = 0 \/ d >= meta[s]}

Missing(expected, indexed) == expected \ indexed

Today == Max(Days)
Only(d, q) == [NoPackage EXCEPT ![d] = q]
Early == {NoPackage, Only(Min(Days), 1), [Only(Min(Days), 2) EXCEPT ![Today] = 1]}

Init ==
  /\ package \in [Stocks -> Early]
  /\ rows = [s \in Stocks |-> RowsOf(package[s])]
  /\ meta = [s \in Stocks |-> FirstDay(package[s])]
  /\ coverage = [s \in Stocks |->
       LET days == Expected(MarketDays(Today), s) IN
       [expected |-> days, missing |-> Missing(days, Indexed(s))]]
  /\ down = FALSE
  /\ work = [t \in Threads |-> Free]
  /\ task = NoTask
  /\ torn = {}
  /\ run = NoRun /\ aim = {}
  /\ events = 0

-----------------------------------------------------------------------------
(* Reading *)

\* A file from before the move holds the first day; nothing writes it any more.
Local(s) == IF s \in Legacy THEN Only(Min(Days), 1) ELSE NoPackage

\* read_mongo_full_data: an outage looks like an absent package.
Stored(s) == IF down THEN NoPackage ELSE package[s]

\* read_current_full_data: the file comes first.
Current(s) == IF s \in Legacy THEN Local(s) ELSE Stored(s)

\* list_local_stock_codes
Listed == Legacy \cup {s \in Stocks : Stored(s) # NoPackage}

-----------------------------------------------------------------------------
(* One day of one stock: sync_daily_market_for_stock *)

\* Mutant: the scores of both rows are added up.
MergedSum(p, d) == {[p EXCEPT ![d] = @ + q] : q \in Level \ {0}}

\* Mutant: the row fetched last wins.
MergedLast(p, d) == {[p EXCEPT ![d] = q] : q \in Level \ {0}}

\* _merge_trade_date_rows with _prefer_market_row: of two rows the better one is
\* kept, table by table.
Merged(p, d) == {[p EXCEPT ![d] = q] : q \in {x \in Level \ {0} : x >= p[d]}}

\* Nothing about the day asks for a refresh.
Complete(p, d) == p[d] = 3

Set(t, w) == work' = [work EXCEPT ![t] = w]
End(t, outcome) == Set(t, [Free EXCEPT !.pc = outcome, !.stock = work[t].stock,
                                       !.days = work[t].days])

Read(t) ==
  LET w == work[t] IN
  /\ w.pc = "read"
  /\ IF Current(w.stock) = NoPackage THEN End(t, "failed")
     ELSE IF Complete(Current(w.stock), w.day) THEN End(t, "skipped")
     ELSE Set(t, [w EXCEPT !.pc = "fetch", !.base = Current(w.stock)])
  /\ UNCHANGED <<store, coverage, down, task, torn, run, aim, events>>

\* The sources have no quote of the day, or rows to be merged.
Fetch(t) ==
  LET w == work[t] IN
  /\ w.pc = "fetch"
  /\ \/ End(t, IF w.base[w.day] > 0 THEN "skipped" ELSE "no_data")
     \/ \E p \in Merged(w.base, w.day) : Set(t, [w EXCEPT !.pc = "save", !.base = p])
  /\ UNCHANGED <<store, coverage, down, task, torn, run, aim, events>>

-----------------------------------------------------------------------------
(* Writing: save_stock_package_to_mongo *)

Savers(s)  == {t \in Threads : work[t].pc \in Saving /\ work[t].stock = s}
Holders(s) == {t \in Threads : work[t].pc \in {"fetch", "save"} \cup Saving /\ work[t].stock = s}

\* _save_stock_package_safe reports a failed save beside the status "updated".
SaveFails(t) ==
  /\ work[t].pc \in Saving \cup {"save"}
  /\ down
  /\ End(t, "updated")
  /\ torn' = IF work[t].pc = "save" THEN torn ELSE torn \cup {work[t].stock}
  /\ UNCHANGED <<store, coverage, down, task, run, aim, events>>

SavePackage(t) ==
  LET w == work[t]
      others == Savers(w.stock) IN
  /\ w.pc = "save" /\ ~down
  /\ package' = [package EXCEPT ![w.stock] = w.base]
  /\ work' = [u \in Threads |->
       IF u = t THEN [w EXCEPT !.pc = "meta", !.clean = others = {}]
       ELSE IF u \in Holders(w.stock) THEN [work[u] EXCEPT !.clean = FALSE] ELSE work[u]]
  /\ torn' = IF others = {} THEN torn ELSE torn \cup {w.stock}
  /\ aim' = IF t = "repair" THEN aim ELSE {}
  /\ UNCHANGED <<meta, rows, coverage, down, task, run, events>>

SaveMeta(t) ==
  LET w == work[t] IN
  /\ w.pc = "meta" /\ ~down
  /\ meta' = [meta EXCEPT ![w.stock] = FirstDay(w.base)]
  /\ Set(t, [w EXCEPT !.pc = "clear"])
  /\ UNCHANGED <<package, rows, coverage, down, task, torn, run, aim, events>>

\* Mutant: the old rows are left where no new row replaces them.
ClearRowsNot(t) ==
  LET w == work[t] IN
  /\ w.pc = "clear" /\ ~down
  /\ Set(t, [w EXCEPT !.pc = "insert", !.todo = RowsOf(w.base)])
  /\ UNCHANGED <<store, coverage, down, task, torn, run, aim, events>>

\* sync_dataset_rows deletes first;
ClearRows(t) ==
  LET w == work[t] IN
  /\ w.pc = "clear" /\ ~down
  /\ rows' = [rows EXCEPT ![w.stock] = {}]
  /\ Set(t, [w EXCEPT !.pc = "insert", !.todo = RowsOf(w.base)])
  /\ aim' = IF t = "repair" THEN aim ELSE {}
  /\ UNCHANGED <<package, meta, coverage, down, task, torn, run, events>>

\* then writes batches.  The key of a row has a digest of its content, so rows
\* of one day that differ stand side by side.
InsertBatch(t) == \E batch \in SUBSET work[t].todo \ {{}} :
  LET w == work[t] IN
  /\ w.pc = "insert" /\ ~down
  /\ rows' = [rows EXCEPT ![w.stock] = @ \cup batch]
  /\ Set(t, [w EXCEPT !.todo = @ \ batch])
  /\ UNCHANGED <<package, meta, coverage, down, task, torn, run, aim, events>>

SaveEnds(t) ==
  LET w == work[t] IN
  /\ w.pc = "insert" /\ w.todo = {}
  /\ End(t, "updated")
  /\ torn' = IF w.clean THEN torn \ {w.stock} ELSE torn
  /\ UNCHANGED <<store, coverage, down, task, run, aim, events>>

Save(t) == SavePackage(t) \/ SaveMeta(t) \/ ClearRows(t) \/ InsertBatch(t)
           \/ SaveEnds(t) \/ SaveFails(t)

-----------------------------------------------------------------------------
(* The record of gaps: inspect_daily_k_coverage_gaps, per stock *)

\* The days come first; with MongoDB down nothing is refreshed.
CoverageStarts(t, stocks, end) ==
  work' = [work EXCEPT ![t] = [@ EXCEPT !.pc = "cover",
             !.left = IF down THEN {} ELSE stocks, !.days = MarketDays(end)]]

\* Then each stock is looked at and written down.  A read that fails alone
\* counts as no rows at all.
CoverOne(t) == \E s \in work[t].left, blank \in BOOLEAN :
  LET w == work[t]
      expected == Expected(w.days, s)
      indexed  == IF blank THEN {} ELSE Indexed(s) \cap expected IN
  /\ w.pc = "cover"
  /\ blank => events < MaxEvents
  /\ events' = IF blank THEN events + 1 ELSE events
  /\ IF down THEN /\ Set(t, [w EXCEPT !.left = {}]) /\ coverage' = coverage
     ELSE /\ Set(t, [w EXCEPT !.left = @ \ {s}])
          /\ coverage' = [coverage EXCEPT ![s] =
               [expected |-> expected, missing |-> Missing(expected, indexed)]]
  /\ aim' = IF blank \/ t # "repair" THEN {} ELSE aim
  /\ UNCHANGED <<store, down, task, torn, run>>

-----------------------------------------------------------------------------
(* The daily run: sync_daily_market_for_existing_stocks *)

\* choose_daily_market_target
Count(d, list) == Cardinality({s \in list : d \in Indexed(s)})
Threshold(list) == Max({1, (Cardinality(list) * Percent) \div 100})
Short(days, list) == {d \in days : Count(d, list) < Threshold(list)}
Target ==
  LET days == MarketDays(Today) IN
  IF down \/ days = {} THEN Today
  ELSE IF Short(days, Listed) # {} THEN Max(Short(days, Listed)) ELSE Max(days)

StartDaily ==
  /\ task.stage = "idle" /\ events < MaxEvents
  /\ task' = [NoTask EXCEPT !.stage = "queued", !.target = Target]
  /\ run' = [NoRun EXCEPT !.known = Listed, !.blind = down]
  /\ events' = events + 1
  /\ UNCHANGED <<store, coverage, down, work, torn, aim>>

\* Mutant: a resumed run goes on behind the stock it stopped at.
ResumeBehind(list) ==
  CASE task.mark = "none" -> 1
    [] task.mark = "stock" -> task.at + 1
    [] OTHER -> Cardinality(list) + 1

ResumeAt(list) ==
  CASE task.mark = "none" -> 1
    [] task.mark = "stock" -> task.at
    [] OTHER -> Cardinality(list) + 1

\* The list is read anew, and the failures so far are forgotten.
RunDaily ==
  /\ task.stage = "queued"
  /\ task' = [task EXCEPT !.stage = "stocks", !.list = Listed,
              !.next = ResumeAt(Listed), !.failed = FALSE]
  /\ run' = [run EXCEPT !.blind = @ \/ down]
  /\ UNCHANGED <<store, coverage, down, work, torn, aim, events>>

\* A stock's place in the sorted list.
Place(list, s) == Cardinality({x \in list : x <= s})
More == task.next <= Cardinality(task.list)

\* The checkpoint before a stock (or before the gaps) is stored; the task may
\* give way there and come back to it.
YieldDaily ==
  /\ task.stage = "stocks"
  /\ task' = [NoTask EXCEPT !.stage = "queued", !.target = task.target, !.at = task.next,
                            !.mark = IF More THEN "stock" ELSE "coverage"]
  /\ UNCHANGED <<store, coverage, down, work, torn, run, aim, events>>

NextStock ==
  /\ task.stage = "stocks" /\ More
  /\ task' = [task EXCEPT !.stage = "stock", !.mark = "stock", !.at = task.next]
  /\ \E s \in task.list :
       /\ Place(task.list, s) = task.next
       /\ Set("daily", [Free EXCEPT !.pc = "read", !.stock = s, !.day = task.target])
  /\ UNCHANGED <<store, coverage, down, torn, run, aim, events>>

IsFailure(outcome) == outcome = "failed"

StockDone ==
  LET w == work["daily"] IN
  /\ task.stage = "stock" /\ w.pc \in Outcome
  /\ task' = [task EXCEPT !.stage = "stocks", !.next = @ + 1,
                          !.failed = @ \/ IsFailure(w.pc)]
  /\ run' = IF w.pc = "failed" THEN [run EXCEPT !.hidden = @ \cup {w.stock}]
            ELSE [run EXCEPT !.tried = @ \cup {w.stock}]
  /\ Set("daily", Free)
  /\ UNCHANGED <<store, coverage, down, torn, aim, events>>

StartCoverage ==
  /\ task.stage = "stocks" /\ ~More
  /\ task' = [task EXCEPT !.stage = "coverage", !.mark = "coverage", !.at = task.next]
  /\ CoverageStarts("daily", task.list, task.target)
  /\ UNCHANGED <<store, coverage, down, torn, run, aim, events>>

FinishDaily ==
  /\ task.stage = "coverage" /\ work["daily"].left = {}
  /\ task' = NoTask /\ run' = NoRun
  /\ Set("daily", Free)
  /\ UNCHANGED <<store, coverage, down, torn, aim, events>>

-----------------------------------------------------------------------------
(* A repair: repair_stock_storage_issue, and a full synchronisation *)

\* The gaps recorded decide what is fetched; a stock without any is left alone.
StartRepair == \E s \in Stocks :
  /\ work["repair"].pc = "free" /\ events < MaxEvents
  /\ ~down /\ s \in Listed /\ coverage[s].missing # {}
  /\ Set("repair", [Free EXCEPT !.pc = "pick", !.stock = s, !.days = coverage[s].missing])
  /\ aim' = IF torn # {} \/ \E t \in Threads : work[t].pc \in Saving THEN {}
            ELSE coverage[s].missing \cap MarketDays(Today)
  /\ events' = events + 1
  /\ UNCHANGED <<store, coverage, down, task, torn, run>>

RepairDay ==
  LET w == work["repair"] IN
  /\ w.pc \in {"pick"} \cup Outcome
  /\ IF w.days # {}
     THEN Set("repair", [w EXCEPT !.pc = "read", !.day = Min(w.days), !.days = @ \ {Min(w.days)}])
     ELSE CoverageStarts("repair", {w.stock}, Today)
  /\ UNCHANGED <<store, coverage, down, task, torn, run, aim, events>>

\* Mutant: what the sources answered is not looked at again.
NoIssueUnread(s) == TRUE

\* With MongoDB down there is no record of gaps, and then no issue to report
\* if the stock has a file; a stock without one is reported as before.
NoIssue(s) == IF down THEN s \in Legacy ELSE coverage[s].missing = {}

FinishRepair ==
  LET w == work["repair"] IN
  /\ w.pc = "cover" /\ w.left = {}
  /\ Set("repair", Free)
  /\ aim' = {}
  /\ UNCHANGED <<store, coverage, down, task, torn, run, events>>

\* sync_stock_data collects the last years anew, up to some day, and keeps
\* nothing of the days the stock had; without the key datasets nothing is saved.
Collected == {[d \in Days |-> IF x <= d /\ d <= y THEN q ELSE 0] :
                x \in Days, y \in Days, q \in {1, 3}} \ {NoPackage}
FullSync == \E s \in Stocks, p \in Collected :
  /\ work["user"].pc = "free" /\ events < MaxEvents
  /\ Set("user", [Free EXCEPT !.pc = "save", !.stock = s, !.base = p])
  /\ events' = events + 1
  /\ UNCHANGED <<store, coverage, down, task, torn, run, aim>>

FullSyncEnds ==
  /\ work["user"].pc = "updated"
  /\ Set("user", Free)
  /\ UNCHANGED <<store, coverage, down, task, torn, run, aim, events>>

-----------------------------------------------------------------------------
(* Faults *)

Outage ==
  /\ ~down /\ events < MaxEvents
  /\ down' = TRUE /\ events' = events + 1
  /\ aim' = {}
  /\ UNCHANGED <<store, coverage, work, task, torn, run>>

OutageEnds ==
  /\ down /\ down' = FALSE
  /\ UNCHANGED <<store, coverage, work, task, torn, run, aim, events>>

\* A daily run with a checkpoint is queued again.
Crash ==
  /\ events < MaxEvents
  /\ events' = events + 1
  /\ torn' = torn \cup {work[t].stock : t \in {u \in Threads : work[u].pc \in Saving}}
  /\ work' = [t \in Threads |-> Free] /\ aim' = {}
  /\ task' = IF task.stage \in {"idle", "queued"} THEN task
             ELSE IF task.mark = "none" THEN NoTask ELSE
               [task EXCEPT !.stage = "queued", !.list = {}, !.next = 1, !.failed = FALSE]
  /\ run' = IF task'.stage = "idle" THEN NoRun ELSE run
  /\ UNCHANGED <<store, coverage, down>>

Daily  == StartDaily \/ RunDaily \/ YieldDaily \/ NextStock \/ StockDone
          \/ StartCoverage \/ FinishDaily
Repair == StartRepair \/ RepairDay \/ FinishRepair
Next ==
  \/ \E t \in Threads : Read(t) \/ Fetch(t) \/ Save(t) \/ CoverOne(t)
  \/ Daily \/ Repair \/ FullSync \/ FullSyncEnds
  \/ Outage \/ OutageEnds \/ Crash

Spec == Init /\ [][Next]_vars

-----------------------------------------------------------------------------

\* The rows, which the gaps and the next target are read from, are those of
\* the package, unless the last save of the stock was cut short or overlapped.
RowsFollowPackage ==
  \A s \in Stocks : s \notin torn /\ Savers(s) = {} => rows[s] = RowsOf(package[s])

\* What a daily update or a repair is about to write is nowhere worse than what
\* is stored, unless another save came after its reading, or it read a file from
\* before the move, which shadows all that was stored since.
UpdateKeepsQuality ==
  \A t \in {"daily", "repair"} :
    work[t].pc \in {"fetch", "save"} /\ work[t].clean /\ work[t].stock \notin Legacy
      => \A d \in Days : work[t].base[d] >= package[work[t].stock][d]

\* A daily run that ends without a failure has been through every stock there
\* was when it was started, however often it gave way or was interrupted and
\* whatever was added meanwhile; a failure before a resume is forgotten, and a
\* list that was read during an outage is empty.
RunMissesNoStock ==
  [][FinishDaily /\ ~task.failed =>
       run.blind \/ run.known \subseteq run.tried \cup run.hidden]_vars

\* A repair that finds nothing left to do has brought the days it set out for
\* that are still expected of the stock, unless somebody else saved a stock or
\* recorded gaps meanwhile, MongoDB was away, or the days the stock had are
\* shadowed by its old file.
RepairBringsDays ==
  [][LET s == work["repair"].stock IN
       FinishRepair /\ NoIssue(s) /\ s \notin Legacy => Expected(aim, s) \subseteq Indexed(s)]_vars

=============================================================================
