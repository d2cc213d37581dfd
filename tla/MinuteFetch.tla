---------------------------- MODULE MinuteFetch ----------------------------
(* How the minute bars of one stock are fetched (ths_minute.py) and by whom:  *)
(* the prefetch of idle hours (web.py, IdleStockPrefetchScheduler), which is  *)
(* a handler of the task queue and may be given up, and requests of users,    *)
(* which are not.  A day's bars are one bucket, written as a whole; the       *)
(* archive is MinuteCold's, here a step.  Minutes are numbered through;       *)
(* Trade is the clock.                                                        *)
EXTENDS Naturals, FiniteSets, FiniteSetsExt

CONSTANTS
  Prefetches,   \* threads of the attempts of the prefetch task
  Requests,     \* HTTP threads that fetch minutes
  Default,      \* the source of a prefetch
  Offered,      \* the sources a request may name
  Dates,        \* trading days, numbered
  PerDay,       \* minutes of a day
  SourceKeeps,  \* minutes that the tdx source keeps
  PageRows,     \* page_size
  PageLimits,   \* page limits a request may have
  ChunkDays,    \* PYTDX_HISTORY_BATCH_DAYS
  HotDates,     \* archived days whose buckets stay
  MaxFetches,   \* bound: fetches begun
  MaxTroubles   \* bound: failures, attempts given up

ASSUME MinuteAssumption ==
  /\ Prefetches \cap Requests = {}
  /\ IsFiniteSet(Dates) /\ Cardinality(Dates) >= 2 /\ Dates = 1 .. Cardinality(Dates)
  /\ PerDay \in Nat \ {0} /\ PageRows \in Nat \ {0} /\ SourceKeeps \in Nat \ {0}
  /\ PageLimits \subseteq Nat \ {0} /\ IsFiniteSet(PageLimits) /\ PageLimits # {}
  /\ ChunkDays \in Nat \ {0} /\ HotDates \in Nat
  /\ MaxFetches \in Nat /\ MaxTroubles \in Nat

VARIABLES
  traded,    \* minutes traded so far
  listed,    \* the days of the package's daily rows; none without a package
  aged,      \* the package is old enough to be refreshed
  blocked,   \* the stock failed within a day
  buckets,   \* minute_day_buckets, by source and day
  indexed,   \* the rows that the day index promises
  fetch,     \* what each thread is doing
  givenUp,   \* prefetches that the queue has given up
  hasty,     \* history: days that were listed before they were over
  fetches, troubles   \* counts against the bounds

minuteVars == <<traded, listed, aged, blocked, buckets, indexed, fetch, givenUp, hasty,
                fetches, troubles>>

Fetchers  == Prefetches \cup Requests
Sources   == {"tdx", "history", "ths"}
Minutes   == 1 .. PerDay * Max(Dates)
DateOf(m) == ((m - 1) \div PerDay) + 1
MinutesOf(d) == {m \in Minutes : DateOf(m) = d}
DatesOf(ms)  == {DateOf(m) : m \in ms}
Traded == 1 .. traded
Begun  == DatesOf(Traded)
Over   == {d \in Dates : MinutesOf(d) \subseteq Traded}
Hot(s) == {d \in Dates : buckets[s][d] # {}}

NotFetching == [pc |-> "idle", want |-> "none", source |-> "none", limit |-> 0, page |-> 0,
                asked |-> {}, todo |-> {}, failed |-> {}, got |-> {}, left |-> {},
                base |-> {}, crossed |-> FALSE, late |-> {}]

Pcs == {"idle", "sync", "stock", "pages", "chunks", "ths", "store", "archive", "merge", "write"}
Wants == {"none", Default} \cup Offered
Fetching == [pc : Pcs, want : Wants, source : Sources \cup {"none"}, limit : Nat, page : Nat,
             asked : SUBSET Dates, todo : SUBSET Dates, failed : SUBSET Dates,
             got : SUBSET Minutes, left : SUBSET Dates, base : SUBSET Dates,
             crossed : BOOLEAN,   \* history: another fetch of the source began meanwhile
             late : SUBSET Dates]   \* history: days stored after it was given up
Stores == [Sources -> [Dates -> SUBSET Minutes]]

MinuteTypeOK ==
  /\ traded \in Minutes
  /\ listed \subseteq Dates /\ hasty \subseteq Dates
  /\ aged \in BOOLEAN /\ blocked \in BOOLEAN
  /\ buckets \in Stores /\ indexed \in Stores
  /\ \A s \in Sources, d \in Dates : buckets[s][d] \cup indexed[s][d] \subseteq MinutesOf(d) \cap Traded
  /\ fetch \in [Fetchers -> Fetching]
  /\ \A f \in Fetchers :
       /\ fetch[f].got \subseteq Traded /\ fetch[f].left \subseteq DatesOf(fetch[f].got)
       /\ fetch[f].failed \cup fetch[f].todo \subseteq fetch[f].asked
  /\ givenUp \subseteq Prefetches
  /\ fetches \in 0 .. MaxFetches /\ troubles \in 0 .. MaxTroubles

MinuteInit ==
  /\ traded = PerDay + 1
  /\ listed \in {{}, Over}
  /\ aged = (listed # {}) /\ blocked = FALSE
  /\ buckets = [s \in Sources |-> [d \in Dates |-> {}]]
  /\ indexed = buckets
  /\ fetch = [f \in Fetchers |-> NotFetching]
  /\ givenUp = {} /\ hasty = {}
  /\ fetches = 0 /\ troubles = 0

Trade ==
  /\ traded + 1 \in Minutes
  /\ traded' = traded + 1
  /\ UNCHANGED <<listed, aged, blocked, buckets, indexed, fetch, givenUp, hasty, fetches, troubles>>

\* The daily run adds a row, of a day that is over or not quite.
ListDay == \E d \in Begun :
  /\ listed # {} /\ d \notin listed
  /\ listed' = listed \cup {d}
  /\ hasty' = hasty \cup ({d} \ Over)
  /\ UNCHANGED <<traded, aged, blocked, buckets, indexed, fetch, givenUp, fetches, troubles>>

DayPasses ==
  /\ blocked \/ (listed # {} /\ ~aged)
  /\ blocked' = FALSE /\ aged' = (listed # {})
  /\ UNCHANGED <<traded, listed, buckets, indexed, fetch, givenUp, hasty, fetches, troubles>>

-----------------------------------------------------------------------------
(* Who fetches *)

Now(f, w) == fetch' = [fetch EXCEPT ![f] = w]
Trouble == troubles < MaxTroubles /\ troubles' = troubles + 1

\* The stock has no package, or an old one, and did not fail of late.
Candidate == ~blocked /\ (listed = {} \/ aged)

\* The queue runs one attempt at a time, beside those it has given up.
BeginPrefetch(f) ==
  /\ fetch[f].pc = "idle" /\ fetches < MaxFetches
  /\ \A g \in Prefetches : fetch[g].pc = "idle" \/ g \in givenUp
  /\ Candidate
  /\ Now(f, [NotFetching EXCEPT !.pc = "sync", !.want = Default, !.limit = Max(PageLimits)])
  /\ givenUp' = givenUp \ {f}
  /\ fetches' = fetches + 1
  /\ UNCHANGED <<traded, listed, aged, blocked, buckets, indexed, hasty, troubles>>

\* The watchdog, or an administrator, gives the attempt up; nothing stops its thread.
GiveUp(f) ==
  /\ fetch[f].pc # "idle" /\ f \in Prefetches \ givenUp
  /\ Trouble
  /\ givenUp' = givenUp \cup {f}
  /\ UNCHANGED <<traded, listed, aged, blocked, buckets, indexed, fetch, hasty, fetches>>

\* A checkpoint raises.  A request has no checkpoints.
Refused(f) == f \in givenUp

\* A checkpoint before the minutes, or before the stock, ends the handler.
HandlerStops(f) ==
  /\ fetch[f].pc \in {"sync", "stock"} /\ Refused(f)
  /\ Now(f, NotFetching)
  /\ UNCHANGED <<traded, listed, aged, blocked, buckets, indexed, givenUp, hasty, fetches, troubles>>

\* sync_stock_data collects the package anew.
SyncStock(f) == \E days \in {Over, Begun} :
  /\ fetch[f].pc = "sync" /\ ~Refused(f)
  /\ listed' = days /\ hasty' = hasty \cup (days \ Over)
  /\ aged' = FALSE
  /\ Now(f, [fetch[f] EXCEPT !.pc = "stock"])
  /\ UNCHANGED <<traded, blocked, buckets, indexed, givenUp, fetches, troubles>>

\* A failure, of a given-up attempt too, keeps the stock from being chosen for a day.
SyncFails(f) ==
  /\ fetch[f].pc = "sync"
  /\ Trouble
  /\ blocked' = TRUE
  /\ Now(f, NotFetching)
  /\ UNCHANGED <<traded, listed, aged, buckets, indexed, givenUp, hasty, fetches>>

BeginRequest(f) == \E want \in Offered, limit \in PageLimits :
  /\ fetch[f].pc = "idle" /\ fetches < MaxFetches
  /\ Now(f, [NotFetching EXCEPT !.pc = "stock", !.want = want, !.limit = limit])
  /\ fetches' = fetches + 1
  /\ UNCHANGED <<traded, listed, aged, blocked, buckets, indexed, givenUp, hasty, troubles>>

\* The thread is done with the stock.  A prefetch counts as succeeded whatever
\* became of its minutes, and is remembered as that even when it was given up.
Leaves(f) ==
  /\ Now(f, NotFetching)
  /\ blocked' = (blocked /\ f \notin Prefetches)

-----------------------------------------------------------------------------
(* A source *)

\* What every fetch of a source does first; two of one source at a time are crossed.
Under(f, s, w) ==
  LET others == {g \in Fetchers \ {f} : fetch[g].source = s} IN
  fetch' = [g \in Fetchers |->
    IF g = f THEN [w EXCEPT !.source = s, !.crossed = @ \/ others # {}]
    ELSE IF g \in others THEN [fetch[g] EXCEPT !.crossed = TRUE] ELSE fetch[g]]

\* fetch_store_one_stock: only "auto" has a second source to turn to.
Fails(f) ==
  IF fetch[f].want = "auto" /\ fetch[f].source = "tdx"
  THEN /\ Under(f, "ths", [NotFetching EXCEPT !.pc = "ths", !.want = "auto", !.late = fetch[f].late])
       /\ UNCHANGED blocked
  ELSE Leaves(f)

\* Mutant: the days of every source are taken for those of this one.
MissingOfAll == listed \ UNION {Hot(s) : s \in Sources}

\* _existing_trade_dates looks at the buckets alone: archived days are fetched again.
MissingDates == listed \ Hot("history")

FetchStock(f) ==
  LET w == fetch[f] IN
  /\ w.pc = "stock" /\ ~Refused(f)
  /\ CASE w.want = "history" /\ listed # {} ->
            /\ Under(f, "history", [w EXCEPT !.pc = "chunks", !.asked = listed, !.todo = MissingDates, !.limit = 0])
            /\ UNCHANGED blocked
       [] w.want = "history" /\ listed = {} -> Leaves(f)
       [] w.want = "ths" -> Under(f, "ths", [w EXCEPT !.pc = "ths", !.limit = 0]) /\ UNCHANGED blocked
       [] OTHER -> Under(f, "tdx", [w EXCEPT !.pc = "pages"]) /\ UNCHANGED blocked
  /\ UNCHANGED <<traded, listed, aged, buckets, indexed, givenUp, hasty, fetches, troubles>>

\* Whatever is raised while a stock is at work is noted as its error.
StockFails(f) ==
  /\ fetch[f].pc \in {"pages", "ths", "store", "merge", "write"}
  /\ Trouble
  /\ Fails(f)
  /\ UNCHANGED <<traded, listed, aged, buckets, indexed, givenUp, hasty, fetches>>

\* So is the refusal of a checkpoint inside: the thread ends as if it had succeeded.
StockRefused(f) ==
  LET w == fetch[f] IN
  /\ Refused(f)
  /\ (w.pc = "pages" /\ w.page = 0) \/ w.pc = "ths" \/ (w.pc = "chunks" /\ w.todo # {})
  /\ Fails(f)
  /\ UNCHANGED <<traded, listed, aged, buckets, indexed, givenUp, hasty, fetches, troubles>>

\* With rows there is something to store.
Got(w, ms) == [w EXCEPT !.pc = "store", !.got = ms, !.left = DatesOf(ms), !.page = 0, !.limit = 0]

\* The newest minutes the source keeps, counted back from the moment it is asked.
Offers(start) == {m \in Traded : m > traded - SourceKeeps /\ m <= traded - start
                                  /\ m > traded - start - PageRows}

PageStart(n) == n * PageRows

\* fetch_tdx_minute_bars: page by page, while the source moves on; an empty page or
\* a short one is taken for the end.
ReadTdxPage(f) == \E answered \in BOOLEAN :
  LET w    == fetch[f]
      rows == IF answered THEN Offers(PageStart(w.page)) ELSE {}
      all  == w.got \cup rows
      more == Cardinality(rows) = PageRows /\ w.page + 1 < w.limit IN
  /\ w.pc = "pages"
  /\ w.page = 0 => ~Refused(f)
  /\ IF answered THEN UNCHANGED troubles ELSE Trouble
  /\ IF all = {} THEN Fails(f)
     ELSE /\ Now(f, IF more THEN [w EXCEPT !.page = @ + 1, !.got = all] ELSE Got(w, all))
          /\ UNCHANGED blocked
  /\ UNCHANGED <<traded, listed, aged, buckets, indexed, givenUp, hasty, fetches>>

\* The oldest days that are still to be fetched.
NextChunk(days) == {d \in days : Cardinality({e \in days : e < d}) < ChunkDays}

\* Mutant: the checkpoint is passed once, not before each chunk.
MayFetchFirst(f) == fetch[f].todo # fetch[f].asked \/ ~Refused(f)
MayFetchChunk(f) == ~Refused(f)

\* fetch_pytdx_history_minutes: a day whose answer is empty or fails twice is a failed
\* day; a chunk that cannot be fetched at all has only those.
ReadHistoryChunk(f) ==
  LET w == fetch[f]
      chunk == NextChunk(w.todo) IN
  /\ w.pc = "chunks" /\ w.todo # {} /\ MayFetchChunk(f)
  /\ \E answered \in SUBSET chunk :
       LET rows == (UNION {MinutesOf(d) : d \in answered}) \cap Traded
           next == [w EXCEPT !.todo = @ \ chunk, !.failed = @ \cup (chunk \ answered)] IN
       /\ IF answered = chunk THEN UNCHANGED troubles ELSE Trouble
       /\ Now(f, IF rows = {} THEN next ELSE Got(next, rows))
  /\ UNCHANGED <<traded, listed, aged, blocked, buckets, indexed, givenUp, hasty, fetches>>

\* fetch_ths_minutes: the latest day alone, perhaps without any rows yet.
ReadThs(f) == \E rows \in {{}, MinutesOf(DateOf(traded)) \cap Traded} :
  LET w == fetch[f] IN
  /\ w.pc = "ths" /\ ~Refused(f)
  /\ Now(f, IF rows = {} THEN [w EXCEPT !.pc = "merge"] ELSE Got(w, rows))
  /\ UNCHANGED <<traded, listed, aged, blocked, buckets, indexed, givenUp, hasty, fetches, troubles>>

-----------------------------------------------------------------------------
(* Storing, archiving, the package *)

\* Mutant: only the minutes that were not stored before are written.
BucketOfNew(w, d) == (w.got \cap MinutesOf(d)) \ buckets[w.source][d]

\* A bucket is replaced by what was fetched of its day.
Bucket(w, d) == w.got \cap MinutesOf(d)

StoreDay(f) ==
  LET w == fetch[f]
      d == Min(w.left) IN
  /\ w.pc = "store"
  /\ buckets' = [buckets EXCEPT ![w.source][d] = Bucket(w, d)]
  /\ Now(f, [w EXCEPT !.pc = IF w.left = {d} THEN "archive" ELSE "store", !.left = @ \ {d},
                      !.late = IF f \in givenUp THEN @ \cup {d} ELSE @])
  /\ UNCHANGED <<traded, listed, aged, blocked, indexed, givenUp, hasty, fetches, troubles>>

\* archive_changed_minute_buckets: what is stored of the days by now is archived, and
\* if all of it was, the buckets of all but the newest archived days go.  An
\* archive that fails does not fail the fetch.
ArchiveBuckets(f) ==
  LET w == fetch[f]
      days == DatesOf(w.got) \cap Hot(w.source) IN
  /\ w.pc = "archive"
  /\ \E done \in SUBSET days :
       LET index == [d \in Dates |-> IF d \in done THEN buckets[w.source][d] ELSE indexed[w.source][d]]
           kept  == {d \in Dates : index[d] # {}}
           old   == {d \in kept : Cardinality({e \in kept : e > d}) >= HotDates} IN
       /\ IF done = days THEN UNCHANGED troubles ELSE Trouble
       /\ indexed' = [indexed EXCEPT ![w.source] = index]
       /\ buckets' = IF done = days /\ done # {}
                     THEN [buckets EXCEPT ![w.source] = [d \in Dates |-> IF d \in old THEN {} ELSE @[d]]]
                     ELSE buckets
  /\ Now(f, [w EXCEPT !.pc = IF w.source = "history" THEN "chunks" ELSE "merge", !.got = {}])
  /\ UNCHANGED <<traded, listed, aged, blocked, givenUp, hasty, fetches>>

\* merge_local_dataset adds a reference to the package: it reads the whole package,
ReadPackage(f) ==
  LET w == fetch[f] IN
  /\ w.pc = "merge" \/ (w.pc = "chunks" /\ w.todo = {})
  /\ IF listed = {} THEN Leaves(f)
     ELSE Now(f, [w EXCEPT !.pc = "write", !.base = listed]) /\ UNCHANGED blocked
  /\ UNCHANGED <<traded, listed, aged, buckets, indexed, givenUp, hasty, fetches, troubles>>

\* and writes it back, with the daily rows as they were.
WritePackage(f) ==
  /\ fetch[f].pc = "write"
  /\ listed' = fetch[f].base
  /\ Leaves(f)
  /\ UNCHANGED <<traded, aged, buckets, indexed, givenUp, hasty, fetches, troubles>>

MinuteNext ==
  \/ Trade \/ ListDay \/ DayPasses
  \/ \E f \in Prefetches : BeginPrefetch(f) \/ GiveUp(f) \/ HandlerStops(f) \/ SyncStock(f) \/ SyncFails(f)
  \/ \E f \in Requests : BeginRequest(f)
  \/ \E f \in Fetchers :
       \/ FetchStock(f) \/ StockFails(f) \/ StockRefused(f)
       \/ ReadTdxPage(f) \/ ReadHistoryChunk(f) \/ ReadThs(f)
       \/ StoreDay(f) \/ ArchiveBuckets(f) \/ ReadPackage(f) \/ WritePackage(f)

MinuteSpec == MinuteInit /\ [][MinuteNext]_minuteVars

-----------------------------------------------------------------------------

\* Nothing that was stored or archived of a day is lost, unless two fetches of its
\* source are crossed.  Two cases apart: a tdx fetch may cut the oldest day of what it
\* was given (its pages, or the source, end within the day); and when the archiving
\* of a day failed, the cleanup after a later fetch deletes its bucket all the same if an
\* older archive of the day is indexed.
OnlyOldestIsCut ==
  [][\A s \in Sources, d \in Dates :
       LET before == buckets[s][d] \cup indexed[s][d]
           after  == (buckets[s][d] \cup indexed[s][d])' IN
       before \subseteq after
         \/ \E f \in Fetchers :
              /\ fetch'[f] # fetch[f] /\ fetch[f].source = s
              /\ \/ fetch[f].crossed
                 \/ s = "tdx" /\ d = Min(DatesOf(fetch[f].got))
                 \/ fetch[f].pc = "archive" /\ d \notin DatesOf(fetch[f].got)
                    /\ indexed[s][d] # {} /\ after = indexed[s][d]]_minuteVars

\* A history fetch in which no day failed leaves every day it was asked for whole,
\* in its bucket or in the archive, however archived days are cleaned up meanwhile;
\* except days that were listed before they were over.
CleanHistoryIsWhole ==
  \A f \in Fetchers :
    LET w == fetch[f] IN
    w.source = "history" /\ w.pc = "write" /\ w.failed = {} =>
      \A d \in w.asked \ hasty : MinutesOf(d) \subseteq buckets["history"][d] \cup indexed["history"][d]

\* A prefetch that was given up stores no more than the chunk it was at, or the answer
\* of the other sources that it was waiting for, although it takes the refusal
\* of its next checkpoint for a failure of the stock.
GivenUpStopsSoon ==
  \A f \in Prefetches :
    fetch[f].source = "history" => Cardinality(fetch[f].late) <= ChunkDays
=============================================================================
