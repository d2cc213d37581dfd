-------------------------- MODULE MinuteFetchProofs --------------------------
(* That the fetching of minutes (MinuteFetch) keeps what its runs check.  The *)
(* inductive invariant has four parts beside the types and the stages of a   *)
(* thread.  LateIsChunk: what a given-up prefetch stores late is of the chunk *)
(* it was at.  ListedAreOver with WholeOrNothing, GotIsWhole, FetchedIsWhole: *)
(* a history day is asked for when it is over, hence fetched, stored and      *)
(* archived whole or not at all.  Crossing: two threads at one source know of *)
(* each other.  PagesJoin, FetchedIsMore: what an uncrossed thread was given  *)
(* holds what is stored of its days, because its pages join.                  *)
EXTENDS MinuteFetch, SetLemmas

\* The dates are numbered from 1, and there are two at least.
LEMMA DatesAre ==
  /\ Dates = 1 .. Max(Dates) /\ Max(Dates) \in Nat /\ Max(Dates) >= 2
  /\ Dates \in SUBSET Nat /\ IsFiniteSet(Dates)
<1>1. PICK n \in Nat : n >= 2 /\ Dates = 1 .. n
  BY MinuteAssumption, FS_CardinalityType DEF MinuteAssumption
<1>2. Dates \in SUBSET Nat /\ Dates # {} /\ IsFiniteSet(Dates) /\ n \in Dates
  <2>1. 1 \in Int /\ n \in Int
    OBVIOUS
  <2>2. IsFiniteSet(1 .. n)
    BY <2>1, FS_Interval
  <2> QED BY <1>1, <2>2
<1>3. Max(Dates) \in Dates /\ Max(Dates) >= n
  BY <1>2, MaxIsGreatest
<1>4. Max(Dates) = n
  BY <1>1, <1>3
<1> QED BY <1>1, <1>2, <1>4

\* Every minute is of a date.
LEMMA DateOfMinute ==
  /\ Minutes \in SUBSET (Nat \ {0})
  /\ \A m \in Minutes : DateOf(m) \in Dates
<1> DEFINE M == Max(Dates)
<1>1. M \in Nat /\ Dates = 1 .. M
  BY DatesAre
<1>2. PerDay \in Nat /\ PerDay > 0
  BY MinuteAssumption DEF MinuteAssumption
<1>3. Minutes = 1 .. PerDay * M /\ PerDay * M \in Nat
  BY <1>1, <1>2 DEF Minutes
<1> HIDE DEF M
<1>4. ASSUME NEW m \in Minutes PROVE DateOf(m) \in Dates
  <2>1. m - 1 \in Nat /\ m - 1 < PerDay * M
    BY <1>3
  <2> DEFINE q == (m - 1) \div PerDay
  <2>2. q \in Nat /\ PerDay * q <= m - 1
    BY <2>1, <1>2
  <2>3. \A a, b, c \in Nat : c > 0 /\ c * a < c * b => a < b
    OBVIOUS
  <2>4. PerDay * q < PerDay * M
    BY <1>2, <1>3, <2>1, <2>2
  <2>5. q < M
    <3> HIDE DEF q
    <3> QED BY <1>1, <1>2, <2>2, <2>3, <2>4
  <2> QED BY <1>1, <2>2, <2>5 DEF DateOf
<1> QED BY <1>3, <1>4

\* The first minute of the second day is one.
LEMMA FirstMinutes == PerDay + 1 \in Minutes
<1>1. PerDay \in Nat /\ PerDay >= 1
  BY MinuteAssumption DEF MinuteAssumption
<1>2. \A a, b \in Nat : a >= 1 /\ b >= 2 => a + 1 <= a * b
  OBVIOUS
<1> QED BY <1>1, <1>2, DatesAre DEF Minutes

\* The names of stages, sources and requests.
LEMMA NamesType ==
  /\ {"idle", "sync", "stock", "pages", "chunks", "ths", "store", "archive", "merge", "write"} \subseteq Pcs
  /\ {"tdx", "history", "ths", "none"} \subseteq Sources \cup {"none"}
  /\ {"tdx", "history", "ths"} \subseteq Sources
  /\ {"none", Default} \cup Offered \subseteq Wants
BY DEF Pcs, Sources, Wants

\* A thread that does nothing is of the type of threads,
LEMMA NotFetchingType == NotFetching \in Fetching
BY NamesType DEF NotFetching, Fetching

\* Every step is one of these.
LEMMA MinuteCases ==
  ASSUME [MinuteNext]_minuteVars
  PROVE  \/ Trade \/ ListDay \/ DayPasses
         \/ \E f \in Prefetches : BeginPrefetch(f) \/ GiveUp(f) \/ HandlerStops(f) \/ SyncStock(f) \/ SyncFails(f)
         \/ \E f \in Requests : BeginRequest(f)
         \/ \E f \in Fetchers :
              \/ FetchStock(f) \/ StockFails(f) \/ StockRefused(f)
              \/ ReadTdxPage(f) \/ ReadHistoryChunk(f) \/ ReadThs(f)
              \/ StoreDay(f) \/ ArchiveBuckets(f) \/ ReadPackage(f) \/ WritePackage(f)
         \/ UNCHANGED minuteVars
BY DEF MinuteNext

\* What a thread is at is consistent in itself.
Consistent(w) ==
  /\ w \in Fetching
  /\ w.got \subseteq Traded /\ w.left \subseteq DatesOf(w.got)
  /\ w.failed \cup w.todo \subseteq w.asked

\* Typed threads are consistent ones.
LEMMA ConsistentType == MinuteTypeOK <=>
  /\ traded \in Minutes
  /\ listed \subseteq Dates /\ hasty \subseteq Dates
  /\ aged \in BOOLEAN /\ blocked \in BOOLEAN
  /\ buckets \in Stores /\ indexed \in Stores
  /\ \A s \in Sources, d \in Dates : buckets[s][d] \cup indexed[s][d] \subseteq MinutesOf(d) \cap Traded
  /\ fetch \in [Fetchers -> Fetching] /\ \A f \in Fetchers : Consistent(fetch[f])
  /\ givenUp \subseteq Prefetches
  /\ fetches \in 0 .. MaxFetches /\ troubles \in 0 .. MaxTroubles
BY DEF MinuteTypeOK, Consistent

\* A step of one thread that only changes what it is at.
LEMMA NowType ==
  ASSUME MinuteTypeOK, NEW f \in Fetchers, NEW w, Consistent(w), Now(f, w), UNCHANGED traded
  PROVE  fetch' \in [Fetchers -> Fetching] /\ \A g \in Fetchers : Consistent(fetch[g])'
<1>1. fetch' = [fetch EXCEPT ![f] = w] /\ fetch \in [Fetchers -> Fetching] /\ w \in Fetching
  BY DEF Now, MinuteTypeOK, Consistent
<1>2. fetch'[f] = w /\ \A g \in Fetchers : g # f => fetch'[g] = fetch[g]
  BY <1>1
<1>3. fetch' \in [Fetchers -> Fetching]
  BY <1>1
<1>4. \A g \in Fetchers : Consistent(fetch[g])
  BY ConsistentType
<1>5. ASSUME NEW g \in Fetchers PROVE Consistent(fetch'[g])
  BY <1>2, <1>4
<1>6. ASSUME NEW g \in Fetchers PROVE Consistent(fetch[g])'
  BY <1>5 DEF Consistent, Traded
<1> QED BY <1>3, <1>6

\* A thread that begins with a source marks those that it crosses.
LEMMA UnderType ==
  ASSUME MinuteTypeOK, NEW f \in Fetchers, NEW s \in Sources, NEW w, Consistent(w), Under(f, s, w), UNCHANGED traded
  PROVE  fetch' \in [Fetchers -> Fetching] /\ \A g \in Fetchers : Consistent(fetch[g])'
<1>1. ASSUME NEW v, Consistent(v) PROVE Consistent([v EXCEPT !.crossed = TRUE])
  BY <1>1 DEF Consistent, Fetching
<1>2. ASSUME NEW b \in BOOLEAN PROVE Consistent([w EXCEPT !.source = s, !.crossed = b])
  <2>1. [w EXCEPT !.source = s, !.crossed = b] \in Fetching
    BY DEF Consistent, Fetching
  <2> QED BY <2>1 DEF Consistent, Fetching
<1>3. ASSUME NEW g \in Fetchers PROVE Consistent(fetch'[g])
  <2>1. Consistent(fetch[g])
    BY ConsistentType
  <2>2. CASE g = f
    BY <1>2, <2>2 DEF Under, Consistent, Fetching
  <2>3. CASE g # f
    BY <1>1, <2>1, <2>3 DEF Under
  <2> QED BY <2>2, <2>3
<1>4. fetch' \in [Fetchers -> Fetching]
  BY <1>3 DEF Under, Consistent
<1>5. ASSUME NEW g \in Fetchers PROVE Consistent(fetch[g])'
  BY <1>3 DEF Consistent, Traded
<1> QED BY <1>4, <1>5

\* A thread that does nothing is consistent.
LEMMA IdleIsConsistent == Consistent(NotFetching)
BY NotFetchingType DEF Consistent, NotFetching

\* A thread that leaves the stock, or turns from tdx to ths, stays of its type.
LEMMA FailsType ==
  ASSUME MinuteTypeOK, NEW f \in Fetchers, Leaves(f) \/ Fails(f), UNCHANGED traded
  PROVE  /\ fetch' \in [Fetchers -> Fetching] /\ \A g \in Fetchers : Consistent(fetch[g])'
         /\ blocked' \in BOOLEAN
<1>1. CASE Leaves(f)
  BY <1>1, IdleIsConsistent, NowType DEF Leaves, MinuteTypeOK
<1>2. CASE Fails(f) /\ fetch[f].want = "auto" /\ fetch[f].source = "tdx"
  <2> DEFINE w == [NotFetching EXCEPT !.pc = "ths", !.want = "auto", !.late = fetch[f].late]
  <2>0. fetch[f] \in Fetching
    BY DEF MinuteTypeOK
  <2>1. w \in Fetching
    <3>1. fetch[f].late \in SUBSET Dates /\ "auto" \in Wants
      BY <1>2, <2>0 DEF Fetching
    <3> QED BY <3>1, NotFetchingType, NamesType DEF Fetching
  <2>2. Consistent(w)
    BY <2>1 DEF Consistent, NotFetching
  <2>3. "ths" \in Sources
    BY DEF Sources
  <2>4. Under(f, "ths", w) /\ blocked' = blocked
    BY <1>2 DEF Fails
  <2> HIDE DEF w
  <2> QED BY <2>2, <2>3, <2>4, UnderType DEF MinuteTypeOK
<1> QED BY <1>1, <1>2 DEF Fails

\* So does one that was given rows.
LEMMA GotType ==
  ASSUME NEW w, Consistent(w), NEW ms \in SUBSET Minutes, ms \subseteq Traded
  PROVE  Consistent(Got(w, ms))
<1>1. DatesOf(ms) \in SUBSET Dates
  BY DateOfMinute DEF DatesOf
<1>2. Got(w, ms) \in Fetching
  BY <1>1, NamesType DEF Got, Fetching, Consistent
<1> QED BY <1>2 DEF Got, Fetching, Consistent

\* What each stage of a thread has, and has not.
Stage(w) ==
  /\ w.pc \in {"idle", "sync", "stock"} =>
       w.source = "none" /\ ~w.crossed /\ w.asked = {} /\ w.failed = {} /\ w.late = {}
  /\ w.pc \in {"store", "archive"} => w.source # "none" /\ w.got # {}
  /\ w.pc \notin {"pages", "store", "archive"} => w.got = {}
  /\ w.pc = "store" <=> w.left # {}
  /\ w.pc = "pages" => w.source = "tdx"
  /\ w.pc = "ths" => w.source = "ths"
  /\ w.pc = "chunks" => w.source = "history"
  /\ w.source = "history" => w.pc \in {"chunks", "store", "archive", "write"}
  /\ w.source = "history" /\ w.pc = "write" => w.todo = {}
Stages == \A f \in Fetchers : Stage(fetch[f])

\* Every step keeps the stages,
LEMMA StagesStep ==
  ASSUME MinuteTypeOK, Stages, [MinuteNext]_minuteVars
  PROVE  Stages'
<1>w. \A f \in Fetchers : fetch[f] \in Fetching /\ Stage(fetch[f]) /\ Consistent(fetch[f])
  BY ConsistentType DEF Stages, Consistent
<1>f. Prefetches \subseteq Fetchers /\ Requests \subseteq Fetchers
  BY DEF Fetchers
<1>keep. UNCHANGED fetch => Stages'
  BY DEF Stages
<1>now. ASSUME NEW f \in Fetchers, NEW w, Now(f, w), Stage(w) PROVE Stages'
  BY <1>now, <1>w DEF Now, Stages, MinuteTypeOK
<1>idle. Stage(NotFetching)
  BY DEF Stage, NotFetching
<1>under. ASSUME NEW f \in Fetchers, NEW s, NEW w \in Fetching, Under(f, s, w), s # "none",
                 \A b \in BOOLEAN : Stage([w EXCEPT !.source = s, !.crossed = b])
          PROVE Stages'
  <2> SUFFICES ASSUME NEW g \in Fetchers PROVE Stage(fetch'[g])
    BY DEF Stages
  <2>1. CASE g = f
    BY <1>under, <2>1 DEF Under, Fetching
  <2>2. CASE g # f /\ fetch[g].source # s
    BY <1>under, <1>w, <2>2 DEF Under
  <2>3. CASE g # f /\ fetch[g].source = s
    <3>1. fetch'[g] = [fetch[g] EXCEPT !.crossed = TRUE] /\ fetch[g] \in Fetching /\ Stage(fetch[g])
      BY <1>under, <1>w, <2>3 DEF Under
    <3> QED BY <1>under, <2>3, <3>1 DEF Stage, Fetching
  <2> QED BY <2>1, <2>2, <2>3
<1>leaves. ASSUME NEW f \in Fetchers, Leaves(f) \/ Fails(f) PROVE Stages'
  <2>1. CASE Leaves(f)
    BY <2>1, <1>now, <1>idle DEF Leaves
  <2>2. CASE Fails(f) /\ ~Leaves(f)
    <3> DEFINE w == [NotFetching EXCEPT !.pc = "ths", !.want = "auto", !.late = fetch[f].late]
    <3>1. Under(f, "ths", w) /\ fetch[f].want = "auto"
      BY <2>2 DEF Fails
    <3>2. w \in Fetching
      <4>1. fetch[f].late \in SUBSET Dates /\ "auto" \in Wants
        BY <1>w, <3>1 DEF Fetching
      <4> QED BY <4>1, NotFetchingType, NamesType DEF Fetching
    <3>3. \A b \in BOOLEAN : Stage([w EXCEPT !.source = "ths", !.crossed = b])
      BY DEF Stage, NotFetching
    <3> HIDE DEF w
    <3> QED BY <3>1, <3>2, <3>3, <1>under
  <2> QED BY <1>leaves, <2>1, <2>2
<1>got. ASSUME NEW f \in Fetchers, NEW w \in Fetching, NEW ms, ms # {}, w.source # "none",
               fetch' = [fetch EXCEPT ![f] = Got(w, ms)]
        PROVE  Stages'
  <2>1. Stage(Got(w, ms))
    BY <1>got DEF Stage, Got, Fetching, DatesOf
  <2> QED BY <1>got, <2>1, <1>now DEF Now
<1>1. CASE Trade \/ ListDay \/ DayPasses \/ UNCHANGED minuteVars
  BY <1>1, <1>keep DEF Trade, ListDay, DayPasses, minuteVars
<1>2. ASSUME NEW f \in Prefetches, BeginPrefetch(f) PROVE Stages'
  <2>1. Stage([NotFetching EXCEPT !.pc = "sync", !.want = Default, !.limit = Max(PageLimits)])
    BY DEF Stage, NotFetching
  <2> QED BY <1>2, <1>f, <2>1, <1>now DEF BeginPrefetch
<1>3. ASSUME NEW f \in Prefetches, GiveUp(f) PROVE Stages'
  BY <1>3, <1>keep DEF GiveUp
<1>4. ASSUME NEW f \in Prefetches, HandlerStops(f) \/ SyncFails(f) PROVE Stages'
  BY <1>4, <1>f, <1>idle, <1>now DEF HandlerStops, SyncFails
<1>5. ASSUME NEW f \in Prefetches, SyncStock(f) PROVE Stages'
  <2>1. Stage([fetch[f] EXCEPT !.pc = "stock"])
    BY <1>5, <1>w, <1>f DEF SyncStock, Stage, Fetching
  <2> QED BY <1>5, <1>f, <2>1, <1>now DEF SyncStock
<1>6. ASSUME NEW f \in Requests, BeginRequest(f) PROVE Stages'
  <2>1. PICK want, limit : Now(f, [NotFetching EXCEPT !.pc = "stock", !.want = want, !.limit = limit])
    BY <1>6 DEF BeginRequest
  <2>2. Stage([NotFetching EXCEPT !.pc = "stock", !.want = want, !.limit = limit])
    BY DEF Stage, NotFetching
  <2> QED BY <1>f, <2>1, <2>2, <1>now
<1>7. ASSUME NEW f \in Fetchers, FetchStock(f) PROVE Stages'
  <2> DEFINE w == fetch[f]
  <2>0. w \in Fetching /\ Stage(w) /\ w.pc = "stock"
    BY <1>7, <1>w DEF FetchStock
  <2>1. CASE Leaves(f)
    BY <2>1, <1>leaves
  <2>2. CASE Under(f, "history", [w EXCEPT !.pc = "chunks", !.asked = listed, !.todo = MissingDates, !.limit = 0])
    <3> DEFINE v == [w EXCEPT !.pc = "chunks", !.asked = listed, !.todo = MissingDates, !.limit = 0]
    <3>1. v \in Fetching
      BY <2>0, NamesType DEF Fetching, MissingDates, MinuteTypeOK
    <3>2. \A b \in BOOLEAN : Stage([v EXCEPT !.source = "history", !.crossed = b])
      BY <2>0 DEF Stage, Fetching
    <3> HIDE DEF v
    <3> QED BY <2>2, <3>1, <3>2, <1>under DEF v
  <2>3. CASE Under(f, "ths", [w EXCEPT !.pc = "ths", !.limit = 0])
    <3> DEFINE v == [w EXCEPT !.pc = "ths", !.limit = 0]
    <3>1. v \in Fetching
      BY <2>0, NamesType DEF Fetching
    <3>2. \A b \in BOOLEAN : Stage([v EXCEPT !.source = "ths", !.crossed = b])
      BY <2>0 DEF Stage, Fetching
    <3> HIDE DEF v
    <3> QED BY <2>3, <3>1, <3>2, <1>under DEF v
  <2>4. CASE Under(f, "tdx", [w EXCEPT !.pc = "pages"])
    <3> DEFINE v == [w EXCEPT !.pc = "pages"]
    <3>1. v \in Fetching
      BY <2>0, NamesType DEF Fetching
    <3>2. \A b \in BOOLEAN : Stage([v EXCEPT !.source = "tdx", !.crossed = b])
      BY <2>0 DEF Stage, Fetching
    <3> HIDE DEF v
    <3> QED BY <2>4, <3>1, <3>2, <1>under DEF v
  <2> QED BY <1>7, <2>1, <2>2, <2>3, <2>4 DEF FetchStock
<1>8. ASSUME NEW f \in Fetchers, StockFails(f) \/ StockRefused(f) PROVE Stages'
  BY <1>8, <1>leaves DEF StockFails, StockRefused
<1>9. ASSUME NEW f \in Fetchers, ReadTdxPage(f) PROVE Stages'
  <2> DEFINE w == fetch[f]
  <2>0. w \in Fetching /\ Stage(w) /\ w.pc = "pages" /\ w.source = "tdx"
    BY <1>9, <1>w DEF ReadTdxPage, Stage
  <2>1. \/ Fails(f)
        \/ \E all : Now(f, [w EXCEPT !.page = @ + 1, !.got = all])
        \/ \E all : all # {} /\ Now(f, Got(w, all))
    BY <1>9 DEF ReadTdxPage
  <2>2. ASSUME NEW all PROVE Stage([w EXCEPT !.page = @ + 1, !.got = all])
    BY <2>0 DEF Stage, Fetching
  <2> QED BY <2>0, <2>1, <2>2, <1>leaves, <1>now, <1>got DEF Now
<1>10. ASSUME NEW f \in Fetchers, ReadHistoryChunk(f) PROVE Stages'
  <2> DEFINE w == fetch[f]
  <2>0. w \in Fetching /\ Stage(w) /\ w.pc = "chunks" /\ w.source = "history"
    BY <1>10, <1>w DEF ReadHistoryChunk, Stage
  <2>1. PICK answered \in SUBSET NextChunk(w.todo) :
          LET rows == (UNION {MinutesOf(d) : d \in answered}) \cap Traded
              next == [w EXCEPT !.todo = @ \ NextChunk(w.todo),
                                !.failed = @ \cup (NextChunk(w.todo) \ answered)] IN
          Now(f, IF rows = {} THEN next ELSE Got(next, rows))
    BY <1>10 DEF ReadHistoryChunk
  <2> DEFINE rows == (UNION {MinutesOf(d) : d \in answered}) \cap Traded
             next == [w EXCEPT !.todo = @ \ NextChunk(w.todo),
                               !.failed = @ \cup (NextChunk(w.todo) \ answered)]
  <2>2. next \in Fetching /\ next.source = "history" /\ Stage(next)
    <3>1. NextChunk(w.todo) \subseteq w.todo
      BY DEF NextChunk
    <3> QED BY <2>0, <3>1 DEF Fetching, Stage
  <2> HIDE DEF rows, next
  <2> QED BY <2>1, <2>2, <1>now, <1>got DEF Now, rows, next
<1>11. ASSUME NEW f \in Fetchers, ReadThs(f) PROVE Stages'
  <2> DEFINE w == fetch[f]
  <2>0. w \in Fetching /\ Stage(w) /\ w.pc = "ths" /\ w.source = "ths"
    BY <1>11, <1>w DEF ReadThs, Stage
  <2>1. \/ Now(f, [w EXCEPT !.pc = "merge"])
        \/ \E rows : rows # {} /\ Now(f, Got(w, rows))
    BY <1>11 DEF ReadThs
  <2>2. Stage([w EXCEPT !.pc = "merge"])
    BY <2>0 DEF Stage, Fetching
  <2> QED BY <2>0, <2>1, <2>2, <1>now, <1>got DEF Now
<1>12. ASSUME NEW f \in Fetchers, StoreDay(f) PROVE Stages'
  <2> DEFINE w == fetch[f]
             d == Min(w.left)
             v == [w EXCEPT !.pc = IF w.left = {d} THEN "archive" ELSE "store", !.left = @ \ {d},
                            !.late = IF f \in givenUp THEN @ \cup {d} ELSE @]
  <2>0. w \in Fetching /\ Stage(w) /\ w.pc = "store"
    BY <1>12, <1>w DEF StoreDay
  <2>1. Stage(v)
    BY <2>0 DEF Stage, Fetching
  <2>2. Now(f, v)
    BY <1>12 DEF StoreDay
  <2> HIDE DEF v
  <2> QED BY <2>1, <2>2, <1>now
<1>13. ASSUME NEW f \in Fetchers, ArchiveBuckets(f) PROVE Stages'
  <2> DEFINE w == fetch[f]
             v == [w EXCEPT !.pc = IF w.source = "history" THEN "chunks" ELSE "merge", !.got = {}]
  <2>0. w \in Fetching /\ Stage(w) /\ w.pc = "archive"
    BY <1>13, <1>w DEF ArchiveBuckets
  <2>1. Stage(v)
    BY <2>0 DEF Stage, Fetching
  <2>2. Now(f, v)
    BY <1>13 DEF ArchiveBuckets
  <2> HIDE DEF v
  <2> QED BY <2>1, <2>2, <1>now
<1>14. ASSUME NEW f \in Fetchers, ReadPackage(f) PROVE Stages'
  <2> DEFINE w == fetch[f]
  <2>0. w \in Fetching /\ Stage(w) /\ (w.pc = "merge" \/ (w.pc = "chunks" /\ w.todo = {}))
    BY <1>14, <1>w DEF ReadPackage
  <2>1. Stage([w EXCEPT !.pc = "write", !.base = listed])
    BY <2>0 DEF Stage, Fetching
  <2> QED BY <1>14, <2>1, <1>now, <1>leaves DEF ReadPackage
<1>15. ASSUME NEW f \in Fetchers, WritePackage(f) PROVE Stages'
  BY <1>15, <1>leaves DEF WritePackage
<1> QED
  BY MinuteCases, <1>1, <1>2, <1>3, <1>4, <1>5, <1>6, <1>7, <1>8, <1>9, <1>10, <1>11, <1>12, <1>13, <1>14, <1>15

\* What archiving does to a day: its index is what was stored, or stays; and its
\* bucket stays, or goes when there is an index, which is then what was stored.
Archived(s, days, index, after, d) ==
  /\ \/ index[d] = indexed[s][d]
     \/ d \in days /\ buckets[s][d] # {} /\ index[d] = buckets[s][d]
  /\ \/ after[d] = buckets[s][d]
     \/ /\ after[d] = {} /\ index[d] # {}
        /\ d \in days /\ buckets[s][d] # {} => index[d] = buckets[s][d]

\* It does so to every day of the source, whichever days could be archived.
LEMMA ArchiveEffect ==
  ASSUME MinuteTypeOK, NEW f \in Fetchers, ArchiveBuckets(f), fetch[f].source \in Sources
  PROVE  \E index, after \in [Dates -> SUBSET Minutes] :
           /\ indexed' = [indexed EXCEPT ![fetch[f].source] = index]
           /\ buckets' = [buckets EXCEPT ![fetch[f].source] = after]
           /\ Trouble \/ UNCHANGED troubles
           /\ \A e \in Dates : Archived(fetch[f].source, DatesOf(fetch[f].got), index, after, e)
<1> DEFINE s == fetch[f].source
           days == DatesOf(fetch[f].got)
<1>1. PICK done \in SUBSET (days \cap Hot(s)) :
        LET index == [e \in Dates |-> IF e \in done THEN buckets[s][e] ELSE indexed[s][e]]
            kept  == {e \in Dates : index[e] # {}}
            old   == {e \in kept : Cardinality({x \in kept : x > e}) >= HotDates} IN
        /\ IF done = days \cap Hot(s) THEN UNCHANGED troubles ELSE Trouble
        /\ indexed' = [indexed EXCEPT ![s] = index]
        /\ buckets' = IF done = days \cap Hot(s) /\ done # {}
                      THEN [buckets EXCEPT ![s] = [e \in Dates |-> IF e \in old THEN {} ELSE @[e]]]
                      ELSE buckets
  BY DEF ArchiveBuckets
<1> DEFINE index == [e \in Dates |-> IF e \in done THEN buckets[s][e] ELSE indexed[s][e]]
           kept  == {e \in Dates : index[e] # {}}
           old   == {e \in kept : Cardinality({x \in kept : x > e}) >= HotDates}
<1>2. index \in [Dates -> SUBSET Minutes] /\ buckets[s] \in [Dates -> SUBSET Minutes]
  BY DEF MinuteTypeOK, Stores
<1>3. CASE buckets' = buckets
  <2>1. buckets' = [buckets EXCEPT ![s] = buckets[s]]
    BY <1>3 DEF MinuteTypeOK, Stores
  <2>2. \A e \in Dates : Archived(s, days, index, buckets[s], e)
    BY DEF Archived, Hot
  <2> HIDE DEF index
  <2>3. indexed' = [indexed EXCEPT ![s] = index] /\ (Trouble \/ UNCHANGED troubles)
    BY <1>1 DEF index
  <2> QED BY <1>2, <2>1, <2>2, <2>3
<1>4. CASE done = days \cap Hot(s) /\ buckets' = [buckets EXCEPT ![s] = [e \in Dates |-> IF e \in old THEN {} ELSE @[e]]]
  <2> DEFINE after == [e \in Dates |-> IF e \in old THEN {} ELSE buckets[s][e]]
  <2>1. after \in [Dates -> SUBSET Minutes] /\ buckets' = [buckets EXCEPT ![s] = after]
    <3> HIDE DEF old
    <3> QED BY <1>2, <1>4
  <2>2. \A e \in Dates : e \in old => index[e] # {}
    OBVIOUS
  <2>3. \A e \in Dates : Archived(s, days, index, after, e)
    <3> HIDE DEF old
    <3> QED BY <1>4, <2>2 DEF Archived, Hot
  <2>4. indexed' = [indexed EXCEPT ![s] = index]
    BY <1>1
  <2>5. Trouble \/ UNCHANGED troubles
    BY <1>1
  <2> HIDE DEF index, after
  <2> QED BY <1>2, <2>1, <2>3, <2>4, <2>5
<1> QED BY <1>1, <1>3, <1>4

\* and the types.
LEMMA MinuteTypeStep ==
  ASSUME MinuteTypeOK, Stages, [MinuteNext]_minuteVars
  PROVE  MinuteTypeOK'
<1> DEFINE Rest == /\ traded' \in Minutes /\ listed' \subseteq Dates /\ hasty' \subseteq Dates
                   /\ aged' \in BOOLEAN
                   /\ buckets' \in Stores /\ indexed' \in Stores
                   /\ \A s \in Sources, d \in Dates :
                        (buckets[s][d] \cup indexed[s][d] \subseteq MinutesOf(d) \cap Traded)'
                   /\ givenUp' \subseteq Prefetches
                   /\ fetches' \in 0 .. MaxFetches /\ troubles' \in 0 .. MaxTroubles
           Threads == fetch' \in [Fetchers -> Fetching] /\ \A g \in Fetchers : Consistent(fetch[g])'
<1>kept. Rest /\ Threads /\ blocked' \in BOOLEAN => MinuteTypeOK'
  BY DEF MinuteTypeOK, Consistent
<1>w. \A f \in Fetchers : Consistent(fetch[f]) /\ fetch[f] \in Fetching
  BY ConsistentType DEF MinuteTypeOK
<1>f. Prefetches \subseteq Fetchers /\ Requests \subseteq Fetchers
  BY DEF Fetchers
<1>trouble. Trouble \/ UNCHANGED troubles => troubles' \in 0 .. MaxTroubles
  BY MinuteAssumption DEF Trouble, MinuteTypeOK, MinuteAssumption
<1>rest. ASSUME UNCHANGED <<traded, listed, aged, buckets, indexed, hasty, fetches>>,
                Trouble \/ UNCHANGED troubles, givenUp' \subseteq Prefetches
         PROVE  Rest
  BY <1>rest, <1>trouble DEF MinuteTypeOK, Traded
<1>begun. Begun \subseteq Dates /\ Over \subseteq Dates /\ Traded \subseteq Minutes
  <2>1. Traded \subseteq Minutes
    <3>1. traded \in 1 .. PerDay * Max(Dates) /\ PerDay * Max(Dates) \in Nat
      BY DatesAre, MinuteAssumption DEF MinuteTypeOK, Minutes, MinuteAssumption
    <3> QED BY <3>1 DEF Traded, Minutes
  <2> QED BY <2>1, DateOfMinute DEF Begun, Over, DatesOf
<1>1. CASE Trade
  <2>1. Traded \subseteq Traded'
    BY <1>1, DateOfMinute DEF Trade, Traded, MinuteTypeOK
  <2>2. Threads
    BY <1>1, <1>w, <2>1 DEF Trade, Consistent, MinuteTypeOK
  <2>3. \A s \in Sources, d \in Dates : (buckets[s][d] \cup indexed[s][d] \subseteq MinutesOf(d) \cap Traded)'
    BY <1>1, <2>1 DEF Trade, MinuteTypeOK
  <2> QED BY <1>1, <1>kept, <2>2, <2>3 DEF Trade, MinuteTypeOK
<1>2. CASE ListDay
  <2>1. listed' \subseteq Dates /\ hasty' \subseteq Dates
    BY <1>2, <1>begun DEF ListDay, MinuteTypeOK
  <2> QED BY <1>2, <1>w, <1>kept, <2>1 DEF ListDay, MinuteTypeOK, Traded, Consistent
<1>3. CASE DayPasses
  BY <1>3, <1>w, <1>kept DEF DayPasses, MinuteTypeOK, Traded, Consistent
<1>4. ASSUME NEW f \in Prefetches, BeginPrefetch(f) PROVE MinuteTypeOK'
  <2> DEFINE w == [NotFetching EXCEPT !.pc = "sync", !.want = Default, !.limit = Max(PageLimits)]
  <2>1. PageLimits \in SUBSET Nat /\ PageLimits # {} /\ IsFiniteSet(PageLimits)
    BY MinuteAssumption DEF MinuteAssumption
  <2>2. Max(PageLimits) \in Nat
    BY <2>1, MaxIsGreatest
  <2>3. w \in Fetching
    BY <2>2, NotFetchingType, NamesType DEF Fetching
  <2>4. Consistent(w)
    BY <2>3 DEF Consistent, NotFetching
  <2>5. Now(f, w)
    BY <1>4 DEF BeginPrefetch
  <2>6. Threads
    <3> HIDE DEF w
    <3> QED BY <1>4, <1>f, <2>4, <2>5, NowType DEF BeginPrefetch
  <2>7. fetches' \in 0 .. MaxFetches
    BY <1>4, MinuteAssumption DEF BeginPrefetch, MinuteTypeOK, MinuteAssumption
  <2> QED BY <1>4, <1>kept, <2>6, <2>7 DEF BeginPrefetch, MinuteTypeOK, Traded
<1>5. ASSUME NEW f \in Prefetches, GiveUp(f) PROVE MinuteTypeOK'
  <2>1. Threads
    BY <1>5, <1>w DEF GiveUp, MinuteTypeOK, Consistent, Traded
  <2> QED BY <1>5, <1>rest, <1>kept, <2>1 DEF GiveUp, MinuteTypeOK
<1>6. ASSUME NEW f \in Prefetches, HandlerStops(f) PROVE MinuteTypeOK'
  <2>1. Threads
    BY <1>6, <1>f, IdleIsConsistent, NowType DEF HandlerStops
  <2> QED BY <1>6, <1>rest, <1>kept, <2>1 DEF HandlerStops, MinuteTypeOK
<1>7. ASSUME NEW f \in Prefetches, SyncStock(f) PROVE MinuteTypeOK'
  <2>1. Consistent([fetch[f] EXCEPT !.pc = "stock"])
    <3>1. [fetch[f] EXCEPT !.pc = "stock"] \in Fetching
      BY <1>w, <1>f, NamesType DEF Fetching
    <3> QED BY <1>w, <1>f, <3>1 DEF Consistent, Fetching
  <2>2. Threads
    BY <1>7, <1>f, <2>1, NowType DEF SyncStock
  <2>3. listed' \subseteq Dates /\ hasty' \subseteq Dates
    BY <1>7, <1>begun DEF SyncStock, MinuteTypeOK
  <2> QED BY <1>7, <1>kept, <2>2, <2>3 DEF SyncStock, MinuteTypeOK, Traded
<1>8. ASSUME NEW f \in Prefetches, SyncFails(f) PROVE MinuteTypeOK'
  <2>1. Threads
    BY <1>8, <1>f, IdleIsConsistent, NowType DEF SyncFails
  <2> QED BY <1>8, <1>rest, <1>kept, <2>1 DEF SyncFails, MinuteTypeOK
<1>9. ASSUME NEW f \in Requests, BeginRequest(f) PROVE MinuteTypeOK'
  <2>1. PICK want \in Offered, limit \in PageLimits :
          Now(f, [NotFetching EXCEPT !.pc = "stock", !.want = want, !.limit = limit])
    BY <1>9 DEF BeginRequest
  <2> DEFINE w == [NotFetching EXCEPT !.pc = "stock", !.want = want, !.limit = limit]
  <2>2. w \in Fetching
    <3>1. limit \in Nat /\ want \in Wants
      BY NamesType, MinuteAssumption DEF MinuteAssumption
    <3> QED BY <3>1, NotFetchingType, NamesType DEF Fetching
  <2>3. Consistent(w)
    BY <2>2 DEF Consistent, NotFetching
  <2>4. Threads
    <3> HIDE DEF w
    <3> QED BY <1>9, <1>f, <2>1, <2>3, NowType DEF BeginRequest, w
  <2>5. fetches' \in 0 .. MaxFetches
    BY <1>9, MinuteAssumption DEF BeginRequest, MinuteTypeOK, MinuteAssumption
  <2> QED BY <1>9, <1>kept, <2>4, <2>5 DEF BeginRequest, MinuteTypeOK, Traded
<1>10. ASSUME NEW f \in Fetchers, FetchStock(f) PROVE MinuteTypeOK'
  <2> DEFINE w == fetch[f]
  <2>1. Threads /\ blocked' \in BOOLEAN
    <3>1. CASE Leaves(f)
      BY <1>10, <3>1, FailsType DEF FetchStock
    <3>2. ASSUME Under(f, "history", [w EXCEPT !.pc = "chunks", !.asked = listed, !.todo = MissingDates, !.limit = 0]), w.pc = "stock",
                 w.failed \subseteq listed
          PROVE Threads
      <4> DEFINE v == [w EXCEPT !.pc = "chunks", !.asked = listed, !.todo = MissingDates, !.limit = 0]
      <4>1. v \in Fetching
        BY <1>w, NamesType, ZenonT(40) DEF Fetching, MissingDates, MinuteTypeOK
      <4>2. Consistent(v)
        BY <1>w, <3>2, <4>1 DEF Consistent, Fetching, MissingDates
      <4>3. "history" \in Sources
        BY NamesType
      <4> HIDE DEF v
      <4> QED BY <1>10, <3>2, <4>2, <4>3, UnderType DEF v, FetchStock
    <3>3. ASSUME Under(f, "ths", [w EXCEPT !.pc = "ths", !.limit = 0]) PROVE Threads
      <4> DEFINE v == [w EXCEPT !.pc = "ths", !.limit = 0]
      <4>1. v \in Fetching
        BY <1>w, NamesType DEF Fetching
      <4>2. Consistent(v)
        BY <1>w, <4>1 DEF Consistent, Fetching
      <4>3. "ths" \in Sources
        BY NamesType
      <4> HIDE DEF v
      <4> QED BY <1>10, <3>3, <4>2, <4>3, UnderType DEF v, FetchStock
    <3>4. ASSUME Under(f, "tdx", [w EXCEPT !.pc = "pages"]) PROVE Threads
      <4> DEFINE v == [w EXCEPT !.pc = "pages"]
      <4>1. v \in Fetching
        BY <1>w, NamesType DEF Fetching
      <4>2. Consistent(v)
        BY <1>w, <4>1 DEF Consistent, Fetching
      <4>3. "tdx" \in Sources
        BY NamesType
      <4> HIDE DEF v
      <4> QED BY <1>10, <3>4, <4>2, <4>3, UnderType DEF v, FetchStock
    <3>5. w.pc = "stock" => w.failed \subseteq listed
      BY DEF Stages, Stage
    <3> QED BY <1>10, <3>1, <3>2, <3>3, <3>4, <3>5 DEF FetchStock, MinuteTypeOK
  <2> QED BY <1>10, <1>rest, <1>kept, <2>1 DEF FetchStock, MinuteTypeOK
<1>11. ASSUME NEW f \in Fetchers, StockFails(f) \/ StockRefused(f) PROVE MinuteTypeOK'
  <2>1. Threads /\ blocked' \in BOOLEAN
    BY <1>11, FailsType DEF StockFails, StockRefused
  <2> QED BY <1>11, <1>rest, <1>kept, <2>1 DEF StockFails, StockRefused, MinuteTypeOK
<1>now. ASSUME NEW f \in Fetchers, NEW v, Now(f, v), Consistent(v), blocked' \in BOOLEAN, Rest, UNCHANGED traded
        PROVE  MinuteTypeOK'
  BY <1>now, <1>kept, NowType
<1>12. ASSUME NEW f \in Fetchers, ReadTdxPage(f) PROVE MinuteTypeOK'
  <2> DEFINE w == fetch[f]
  <2>0. w \in Fetching /\ Consistent(w) /\ Rest
    BY <1>12, <1>w, <1>rest DEF ReadTdxPage, MinuteTypeOK
  <2>1. CASE Fails(f)
    <3>1. Threads /\ blocked' \in BOOLEAN
      BY <1>12, <2>1, FailsType DEF ReadTdxPage
    <3> QED BY <2>0, <3>1, <1>kept
  <2>2. CASE ~Fails(f)
    <3>1. PICK answered \in BOOLEAN :
            LET rows == IF answered THEN Offers(PageStart(w.page)) ELSE {}
                all  == w.got \cup rows
                more == Cardinality(rows) = PageRows /\ w.page + 1 < w.limit IN
            /\ Now(f, IF more THEN [w EXCEPT !.page = @ + 1, !.got = all] ELSE Got(w, all))
            /\ UNCHANGED blocked
      BY <1>12, <2>2 DEF ReadTdxPage
    <3> DEFINE rows == IF answered THEN Offers(PageStart(w.page)) ELSE {}
               all  == w.got \cup rows
               next == [w EXCEPT !.page = @ + 1, !.got = all]
    <3>2. all \subseteq Traded /\ all \in SUBSET Minutes
      BY <2>0, <1>begun DEF Offers, Consistent
    <3>3. Consistent(next) /\ Consistent(Got(w, all))
      <4>1. next \in Fetching
        <5> HIDE DEF all
        <5>1. w.page + 1 \in Nat
          BY <2>0 DEF Fetching
        <5> QED BY <2>0, <3>2, <5>1 DEF Fetching
      <4>2. DatesOf(w.got) \subseteq DatesOf(all)
        BY DEF DatesOf
      <4>3. Consistent(next)
        <5> HIDE DEF all
        <5> QED BY <2>0, <3>2, <4>1, <4>2 DEF Consistent, Fetching
      <4> HIDE DEF all, next
      <4> QED BY <2>0, <3>2, <4>3, GotType
    <3>4. \/ Now(f, next) \/ Now(f, Got(w, all))
      BY <3>1
    <3> HIDE DEF all, next
    <3> QED BY <1>12, <2>0, <3>1, <3>3, <3>4, <1>now DEF ReadTdxPage, MinuteTypeOK
  <2> QED BY <2>1, <2>2
<1>13. ASSUME NEW f \in Fetchers, ReadHistoryChunk(f) PROVE MinuteTypeOK'
  <2> DEFINE w == fetch[f]
             chunk == NextChunk(w.todo)
  <2>0. w \in Fetching /\ Consistent(w) /\ Stage(w) /\ w.pc = "chunks"
    BY <1>13, <1>w DEF ReadHistoryChunk, Stages
  <2>1. PICK answered \in SUBSET chunk :
          LET rows == (UNION {MinutesOf(d) : d \in answered}) \cap Traded
              next == [w EXCEPT !.todo = @ \ chunk, !.failed = @ \cup (chunk \ answered)] IN
          /\ IF answered = chunk THEN UNCHANGED troubles ELSE Trouble
          /\ Now(f, IF rows = {} THEN next ELSE Got(next, rows))
    BY <1>13 DEF ReadHistoryChunk
  <2> DEFINE rows == (UNION {MinutesOf(d) : d \in answered}) \cap Traded
             next == [w EXCEPT !.todo = @ \ chunk, !.failed = @ \cup (chunk \ answered)]
  <2>2. Rest
    BY <1>13, <2>1, <1>rest DEF ReadHistoryChunk, MinuteTypeOK
  <2>3. chunk \subseteq w.todo
    BY DEF NextChunk
  <2>4. next \in Fetching
    BY <2>0, <2>3 DEF Fetching
  <2>5. Consistent(next)
    <3>1. next.got = w.got /\ next.left = w.left /\ next.asked = w.asked
          /\ next.failed \cup next.todo \subseteq w.failed \cup w.todo
      BY <2>0, <2>3 DEF Fetching
    <3> HIDE DEF next
    <3> QED BY <2>0, <2>4, <3>1 DEF Consistent
  <2>6. rows \in SUBSET Minutes /\ rows \subseteq Traded
    <3> DEFINE all == UNION {MinutesOf(d) : d \in answered}
    <3>1. rows = all \cap Traded
      OBVIOUS
    <3> HIDE DEF all, rows
    <3> QED BY <3>1, <1>begun
  <2>7. Now(f, next) \/ Now(f, Got(next, rows))
    BY <2>1
  <2> HIDE DEF next, rows
  <2>8. Consistent(Got(next, rows))
    BY <2>5, <2>6, GotType
  <2> QED BY <1>13, <2>2, <2>5, <2>7, <2>8, <1>now DEF ReadHistoryChunk, MinuteTypeOK
<1>14. ASSUME NEW f \in Fetchers, ReadThs(f) PROVE MinuteTypeOK'
  <2> DEFINE w == fetch[f]
  <2>0. w \in Fetching /\ Consistent(w) /\ Stage(w) /\ Rest
    BY <1>14, <1>w, <1>rest DEF ReadThs, MinuteTypeOK, Stages
  <2>1. PICK rows \in {{}, MinutesOf(DateOf(traded)) \cap Traded} :
          Now(f, IF rows = {} THEN [w EXCEPT !.pc = "merge"] ELSE Got(w, rows))
    BY <1>14 DEF ReadThs
  <2>2. [w EXCEPT !.pc = "merge"] \in Fetching
    BY <2>0, NamesType DEF Fetching
  <2>3. Consistent([w EXCEPT !.pc = "merge"])
    BY <2>0, <2>2 DEF Consistent, Fetching
  <2>4. rows \in SUBSET Minutes /\ rows \subseteq Traded
    BY <1>begun
  <2>5. Consistent(Got(w, rows))
    BY <2>0, <2>4, GotType
  <2> QED BY <1>14, <2>0, <2>1, <2>3, <2>5, <1>now DEF ReadThs, MinuteTypeOK
<1>15. ASSUME NEW f \in Fetchers, StoreDay(f) PROVE MinuteTypeOK'
  <2> DEFINE w == fetch[f]
             d == Min(w.left)
             v == [w EXCEPT !.pc = IF w.left = {d} THEN "archive" ELSE "store", !.left = @ \ {d},
                            !.late = IF f \in givenUp THEN @ \cup {d} ELSE @]
  <2>0. w \in Fetching /\ Consistent(w) /\ Stage(w) /\ w.pc = "store"
    BY <1>15, <1>w DEF StoreDay, Stages
  <2>1. d \in w.left /\ w.left \subseteq Dates
    <3>1. w.left \in SUBSET Nat /\ w.left # {} /\ w.left \subseteq Dates
      BY <2>0, DatesAre DEF Fetching, Stage
    <3> QED BY <3>1, MinIsLeast
  <2>2. v \in Fetching
    <3> HIDE DEF d
    <3> QED BY <2>0, <2>1, NamesType DEF Fetching
  <2>3. Consistent(v)
    <3>1. v.got = w.got /\ v.left \subseteq w.left /\ v.asked = w.asked /\ v.failed = w.failed /\ v.todo = w.todo
      BY <2>0 DEF Fetching
    <3> HIDE DEF v
    <3> QED BY <2>0, <2>2, <3>1 DEF Consistent
  <2>4. Now(f, v) /\ w.source \in Sources /\ d \in Dates
    BY <1>15, <2>0, <2>1 DEF StoreDay, Stage, Fetching
  <2>5. Bucket(w, d) \subseteq MinutesOf(d) \cap Traded /\ Bucket(w, d) \in SUBSET Minutes
    BY <2>0, <1>begun DEF Bucket, Consistent
  <2>6. buckets' = [buckets EXCEPT ![w.source][d] = Bucket(w, d)] /\ UNCHANGED <<traded, indexed>>
    BY <1>15 DEF StoreDay
  <2> HIDE DEF d, v
  <2>7. buckets' \in Stores
    BY <2>4, <2>5, <2>6 DEF Stores, MinuteTypeOK
  <2>8. \A s \in Sources, e \in Dates : (buckets[s][e] \cup indexed[s][e] \subseteq MinutesOf(e) \cap Traded)'
    <3> SUFFICES ASSUME NEW s \in Sources, NEW e \in Dates
                 PROVE buckets'[s][e] \cup indexed[s][e] \subseteq MinutesOf(e) \cap Traded
      BY <2>6 DEF Traded
    <3>1. buckets'[s][e] = IF s = w.source /\ e = d THEN Bucket(w, d) ELSE buckets[s][e]
      BY <2>4, <2>6 DEF Stores, MinuteTypeOK
    <3> QED BY <2>5, <3>1 DEF MinuteTypeOK
  <2> QED BY <1>15, <2>3, <2>4, <2>7, <2>8, <1>now DEF StoreDay, MinuteTypeOK
<1>16. ASSUME NEW f \in Fetchers, ArchiveBuckets(f) PROVE MinuteTypeOK'
  <2> DEFINE w == fetch[f]
             v == [w EXCEPT !.pc = IF w.source = "history" THEN "chunks" ELSE "merge", !.got = {}]
             s == w.source
  <2>0. w \in Fetching /\ Consistent(w) /\ Stage(w) /\ w.pc = "archive"
    BY <1>16, <1>w DEF ArchiveBuckets, Stages
  <2>1. v \in Fetching
    BY <2>0, NamesType DEF Fetching
  <2>2. Consistent(v)
    <3>1. v.got = {} /\ v.left = {} /\ v.asked = w.asked /\ v.failed = w.failed /\ v.todo = w.todo
      BY <2>0 DEF Fetching, Stage
    <3> HIDE DEF v
    <3> QED BY <2>0, <2>1, <3>1 DEF Consistent
  <2>3. Now(f, v) /\ s \in Sources /\ UNCHANGED traded
    BY <1>16, <2>0 DEF ArchiveBuckets, Stage, Fetching
  <2>4. PICK index \in [Dates -> SUBSET Minutes], after \in [Dates -> SUBSET Minutes] :
          /\ indexed' = [indexed EXCEPT ![s] = index]
          /\ buckets' = [buckets EXCEPT ![s] = after]
          /\ Trouble \/ UNCHANGED troubles
          /\ \A e \in Dates : Archived(s, DatesOf(w.got), index, after, e)
    BY <1>16, <2>3, ArchiveEffect
  <2> HIDE DEF s, v
  <2>5. indexed' \in Stores /\ buckets' \in Stores
    BY <2>3, <2>4 DEF Stores, MinuteTypeOK
  <2>6. \A x \in Sources, e \in Dates : (buckets[x][e] \cup indexed[x][e] \subseteq MinutesOf(e) \cap Traded)'
    <3> SUFFICES ASSUME NEW x \in Sources, NEW e \in Dates
                 PROVE buckets'[x][e] \cup indexed'[x][e] \subseteq MinutesOf(e) \cap Traded
      BY <2>3 DEF Traded
    <3>1. buckets'[x][e] = (IF x = s THEN after[e] ELSE buckets[x][e])
          /\ indexed'[x][e] = (IF x = s THEN index[e] ELSE indexed[x][e])
      BY <2>3, <2>4 DEF Stores, MinuteTypeOK
    <3> QED BY <2>4, <3>1 DEF MinuteTypeOK, Archived
  <2>7. Rest
    BY <1>16, <2>4, <2>5, <2>6, <1>trouble DEF ArchiveBuckets, MinuteTypeOK
  <2> QED BY <1>16, <2>2, <2>3, <2>7, <1>now DEF ArchiveBuckets, MinuteTypeOK
<1>17. ASSUME NEW f \in Fetchers, ReadPackage(f) PROVE MinuteTypeOK'
  <2> DEFINE w == fetch[f]
  <2>0. w \in Fetching /\ Consistent(w) /\ Rest
    BY <1>17, <1>w, <1>rest DEF ReadPackage, MinuteTypeOK
  <2>1. CASE Leaves(f)
    BY <1>17, <2>0, <2>1, <1>kept, FailsType DEF ReadPackage
  <2>2. CASE Now(f, [w EXCEPT !.pc = "write", !.base = listed]) /\ UNCHANGED blocked
    <3>1. [w EXCEPT !.pc = "write", !.base = listed] \in Fetching
      BY <2>0, NamesType DEF Fetching, MinuteTypeOK
    <3>2. Consistent([w EXCEPT !.pc = "write", !.base = listed])
      BY <2>0, <3>1 DEF Consistent, Fetching
    <3> QED BY <1>17, <2>0, <2>2, <3>2, <1>now DEF ReadPackage, MinuteTypeOK
  <2> QED BY <1>17, <2>1, <2>2 DEF ReadPackage
<1>18. ASSUME NEW f \in Fetchers, WritePackage(f) PROVE MinuteTypeOK'
  <2>1. Rest
    BY <1>18, <1>w DEF WritePackage, MinuteTypeOK, Traded, Fetching
  <2> QED BY <1>18, <2>1, <1>kept, FailsType DEF WritePackage
<1>19. CASE UNCHANGED minuteVars
  <2>1. Rest
    BY <1>19 DEF minuteVars, MinuteTypeOK, Traded
  <2>2. Threads
    BY <1>19, <1>w DEF minuteVars, MinuteTypeOK, Traded, Consistent
  <2> QED BY <1>19, <2>1, <2>2, <1>kept DEF minuteVars, MinuteTypeOK
<1> QED
  BY MinuteCases, <1>1, <1>2, <1>3, <1>4, <1>5, <1>6, <1>7, <1>8, <1>9, <1>10, <1>11, <1>12, <1>13,
     <1>14, <1>15, <1>16, <1>17, <1>18, <1>19

-----------------------------------------------------------------------------

\* What a given-up prefetch stored late is of the one chunk it was at.
Late(f, w) == w.source = "history" =>
  /\ w.late # {} => f \in givenUp
  /\ Cardinality(w.late) <= ChunkDays
  /\ w.pc = "store" => w.late \subseteq DatesOf(w.got) /\ Cardinality(DatesOf(w.got)) <= ChunkDays
LateIsChunk == \A f \in Prefetches : Late(f, fetch[f])

\* A chunk is of no more days than it may be.
LEMMA ChunkIsSmall ==
  ASSUME NEW days \in SUBSET Dates
  PROVE  IsFiniteSet(NextChunk(days)) /\ Cardinality(NextChunk(days)) <= ChunkDays
<1>1. days \in SUBSET Nat /\ IsFiniteSet(days) /\ ChunkDays \in Nat
  BY DatesAre, FS_Subset, MinuteAssumption DEF MinuteAssumption
<1> QED BY <1>1, FewBelow DEF NextChunk

\* Every step keeps it: a checkpoint stands before each chunk.
LEMMA LateStep ==
  ASSUME MinuteTypeOK, Stages, LateIsChunk, [MinuteNext]_minuteVars
  PROVE  LateIsChunk'
<1>w. \A f \in Fetchers : fetch[f] \in Fetching /\ Stage(fetch[f]) /\ Consistent(fetch[f])
  BY ConsistentType DEF Stages, Consistent
<1>f. Prefetches \subseteq Fetchers /\ Requests \subseteq Fetchers
  BY DEF Fetchers
<1>keep. ASSUME UNCHANGED fetch, givenUp \subseteq givenUp' PROVE LateIsChunk'
  BY <1>keep DEF LateIsChunk, Late
<1>now. ASSUME NEW f \in Fetchers, NEW w, Now(f, w), Late(f, w), UNCHANGED givenUp PROVE LateIsChunk'
  <2>1. \A g \in Prefetches : fetch'[g] = IF g = f THEN w ELSE fetch[g]
    BY <1>now, <1>f DEF Now, MinuteTypeOK
  <2>2. \A g \in Prefetches : Late(g, fetch'[g])
    BY <1>now, <2>1 DEF LateIsChunk
  <2> QED BY <1>now, <2>2 DEF LateIsChunk, Late
<1>other. \A f, w : w.source # "history" => Late(f, w)
  BY DEF Late
<1>small. Cardinality({}) <= ChunkDays
  BY FS_EmptySet, MinuteAssumption DEF MinuteAssumption
<1>under. ASSUME NEW f \in Fetchers, NEW s, NEW w \in Fetching, Under(f, s, w), UNCHANGED givenUp,
                 w.pc # "store", s = "history" => w.late = {}
          PROVE LateIsChunk'
  <2>1. ASSUME NEW g \in Prefetches PROVE Late(g, fetch'[g])
    <3>1. CASE g = f
      BY <1>under, <1>f, <1>small, <3>1 DEF Under, Fetching, Late
    <3>2. CASE g # f /\ fetch[g].source # s
      BY <1>under, <1>f, <3>2 DEF Under, LateIsChunk
    <3>3. CASE g # f /\ fetch[g].source = s
      <4>1. fetch'[g] = [fetch[g] EXCEPT !.crossed = TRUE] /\ fetch[g] \in Fetching /\ Late(g, fetch[g])
        BY <1>under, <1>w, <1>f, <3>3 DEF Under, LateIsChunk
      <4> QED BY <4>1 DEF Late, Fetching
    <3> QED BY <3>1, <3>2, <3>3
  <2> QED BY <1>under, <2>1 DEF LateIsChunk, Late
<1>leaves. ASSUME NEW f \in Fetchers, Leaves(f) \/ Fails(f), UNCHANGED givenUp PROVE LateIsChunk'
  <2>1. CASE Leaves(f)
    BY <2>1, <1>leaves, <1>now, <1>other DEF Leaves, NotFetching
  <2>2. CASE Fails(f) /\ ~Leaves(f)
    <3> DEFINE w == [NotFetching EXCEPT !.pc = "ths", !.want = "auto", !.late = fetch[f].late]
    <3>1. Under(f, "ths", w) /\ fetch[f].want = "auto"
      BY <2>2 DEF Fails
    <3>2. w \in Fetching /\ w.pc = "ths"
      <4>1. fetch[f].late \in SUBSET Dates /\ "auto" \in Wants
        BY <1>w, <3>1 DEF Fetching
      <4> QED BY <4>1, NotFetchingType, NamesType DEF Fetching
    <3> HIDE DEF w
    <3> QED BY <1>leaves, <3>1, <3>2, <1>under
  <2> QED BY <1>leaves, <2>1, <2>2
<1>1. CASE Trade \/ ListDay \/ DayPasses \/ UNCHANGED minuteVars
  BY <1>1, <1>keep DEF Trade, ListDay, DayPasses, minuteVars
<1>2. ASSUME NEW f \in Prefetches, BeginPrefetch(f) PROVE LateIsChunk'
  <2>1. fetch'[f].source = "none" /\ \A g \in Prefetches : g # f => fetch'[g] = fetch[g]
    BY <1>2, <1>f DEF BeginPrefetch, Now, NotFetching, MinuteTypeOK
  <2>2. \A g \in Prefetches : g # f => (g \in givenUp' <=> g \in givenUp)
    BY <1>2 DEF BeginPrefetch
  <2> QED BY <2>1, <2>2 DEF LateIsChunk, Late
<1>3. ASSUME NEW f \in Prefetches, GiveUp(f) PROVE LateIsChunk'
  BY <1>3, <1>keep DEF GiveUp
<1>4. ASSUME NEW f \in Prefetches, HandlerStops(f) \/ SyncFails(f) PROVE LateIsChunk'
  BY <1>4, <1>f, <1>now, <1>other DEF HandlerStops, SyncFails, NotFetching
<1>5. ASSUME NEW f \in Prefetches, SyncStock(f) PROVE LateIsChunk'
  <2>1. [fetch[f] EXCEPT !.pc = "stock"].source # "history"
    BY <1>5, <1>w, <1>f DEF SyncStock, Stage, Fetching
  <2> QED BY <1>5, <1>f, <2>1, <1>now, <1>other DEF SyncStock
<1>6. ASSUME NEW f \in Requests, BeginRequest(f) PROVE LateIsChunk'
  <2>1. PICK want, limit : Now(f, [NotFetching EXCEPT !.pc = "stock", !.want = want, !.limit = limit])
    BY <1>6 DEF BeginRequest
  <2>2. [NotFetching EXCEPT !.pc = "stock", !.want = want, !.limit = limit].source # "history"
    BY DEF NotFetching
  <2> QED BY <1>6, <1>f, <2>1, <2>2, <1>now, <1>other DEF BeginRequest
<1>7. ASSUME NEW f \in Fetchers, FetchStock(f) PROVE LateIsChunk'
  <2> DEFINE w == fetch[f]
  <2>0. w \in Fetching /\ Stage(w) /\ w.pc = "stock" /\ UNCHANGED givenUp /\ w.late = {}
    BY <1>7, <1>w DEF FetchStock, Stage
  <2>1. CASE Leaves(f)
    BY <2>0, <2>1, <1>leaves
  <2>2. ASSUME NEW s, NEW v \in Fetching, Under(f, s, v), v.pc # "store", v.late = {} PROVE LateIsChunk'
    BY <2>0, <2>2, <1>under
  <2>3. [w EXCEPT !.pc = "chunks", !.asked = listed, !.todo = MissingDates, !.limit = 0] \in Fetching
    BY <2>0, NamesType DEF Fetching, MissingDates, MinuteTypeOK
  <2>4. [w EXCEPT !.pc = "ths", !.limit = 0] \in Fetching
    BY <2>0, NamesType DEF Fetching
  <2>5. [w EXCEPT !.pc = "pages"] \in Fetching
    BY <2>0, NamesType DEF Fetching
  <2>6. /\ [w EXCEPT !.pc = "chunks", !.asked = listed, !.todo = MissingDates, !.limit = 0].pc = "chunks"
        /\ [w EXCEPT !.pc = "chunks", !.asked = listed, !.todo = MissingDates, !.limit = 0].late = {}
        /\ [w EXCEPT !.pc = "ths", !.limit = 0].pc = "ths" /\ [w EXCEPT !.pc = "ths", !.limit = 0].late = {}
        /\ [w EXCEPT !.pc = "pages"].pc = "pages" /\ [w EXCEPT !.pc = "pages"].late = {}
    BY <2>0 DEF Fetching
  <2> HIDE DEF w
  <2> QED BY <1>7, <2>1, <2>2, <2>3, <2>4, <2>5, <2>6 DEF FetchStock, w
<1>8. ASSUME NEW f \in Fetchers, StockFails(f) \/ StockRefused(f) PROVE LateIsChunk'
  BY <1>8, <1>leaves DEF StockFails, StockRefused
<1>9. ASSUME NEW f \in Fetchers, ReadTdxPage(f) PROVE LateIsChunk'
  <2> DEFINE w == fetch[f]
  <2>0. w \in Fetching /\ Stage(w) /\ w.source = "tdx" /\ UNCHANGED givenUp
    BY <1>9, <1>w DEF ReadTdxPage, Stage
  <2>1. \/ Fails(f)
        \/ \E all : Now(f, [w EXCEPT !.page = @ + 1, !.got = all])
        \/ \E all : Now(f, Got(w, all))
    BY <1>9 DEF ReadTdxPage
  <2>2. ASSUME NEW all PROVE [w EXCEPT !.page = @ + 1, !.got = all].source = "tdx" /\ Got(w, all).source = "tdx"
    BY <2>0 DEF Fetching, Got
  <2> QED BY <2>0, <2>1, <2>2, <1>leaves, <1>now, <1>other
<1>10. ASSUME NEW f \in Fetchers, ReadHistoryChunk(f) PROVE LateIsChunk'
  <2> DEFINE w == fetch[f]
             chunk == NextChunk(w.todo)
  <2>0. w \in Fetching /\ Stage(w) /\ w.pc = "chunks" /\ w.source = "history" /\ f \notin givenUp /\ UNCHANGED givenUp
    BY <1>10, <1>w DEF ReadHistoryChunk, Stage, MayFetchChunk, Refused
  <2>1. PICK answered \in SUBSET chunk :
          LET rows == (UNION {MinutesOf(d) : d \in answered}) \cap Traded
              next == [w EXCEPT !.todo = @ \ chunk, !.failed = @ \cup (chunk \ answered)] IN
          Now(f, IF rows = {} THEN next ELSE Got(next, rows))
    BY <1>10 DEF ReadHistoryChunk
  <2> DEFINE rows == (UNION {MinutesOf(d) : d \in answered}) \cap Traded
             next == [w EXCEPT !.todo = @ \ chunk, !.failed = @ \cup (chunk \ answered)]
  <2>2. f \in Prefetches => w.late = {}
    BY <2>0 DEF LateIsChunk, Late
  <2>3. next.late = w.late /\ next.pc = "chunks" /\ Got(next, rows).late = w.late /\ Got(next, rows).got = rows
    BY <2>0 DEF Fetching, Got
  <2>4. DatesOf(rows) \subseteq chunk
    BY DEF DatesOf, MinutesOf
  <2>5. Cardinality(DatesOf(rows)) <= ChunkDays
    <3>1. w.todo \in SUBSET Dates
      BY <2>0 DEF Fetching
    <3>2. IsFiniteSet(chunk) /\ Cardinality(chunk) <= ChunkDays
      BY <3>1, ChunkIsSmall
    <3>3. Cardinality(DatesOf(rows)) <= Cardinality(chunk) /\ IsFiniteSet(DatesOf(rows))
      BY <2>4, <3>2, FS_Subset
    <3>4. Cardinality(DatesOf(rows)) \in Nat /\ Cardinality(chunk) \in Nat /\ ChunkDays \in Nat
      BY <3>2, <3>3, FS_CardinalityType, MinuteAssumption DEF MinuteAssumption
    <3> HIDE DEF rows, chunk
    <3> QED BY <3>2, <3>3, <3>4
  <2>6. f \in Prefetches => Late(f, next) /\ Late(f, Got(next, rows))
    <3> HIDE DEF next, rows
    <3> QED BY <2>2, <2>3, <2>5, <1>small DEF Late
  <2> HIDE DEF next, rows
  <2>7. \E v : Now(f, v) /\ (f \in Prefetches => Late(f, v))
    BY <2>1, <2>6 DEF next, rows
  <2>8. PICK v : Now(f, v) /\ (f \in Prefetches => Late(f, v))
    BY <2>7
  <2>9. \A g \in Prefetches : fetch'[g] = IF g = f THEN v ELSE fetch[g]
    BY <2>8, <1>f DEF Now, MinuteTypeOK
  <2>10. \A g \in Prefetches : Late(g, fetch'[g])
    BY <2>8, <2>9 DEF LateIsChunk
  <2> QED BY <2>0, <2>10 DEF LateIsChunk, Late
<1>11. ASSUME NEW f \in Fetchers, ReadThs(f) PROVE LateIsChunk'
  <2> DEFINE w == fetch[f]
  <2>0. w \in Fetching /\ Stage(w) /\ w.pc = "ths" /\ w.source = "ths" /\ UNCHANGED givenUp
    BY <1>11, <1>w DEF ReadThs, Stage
  <2>1. \/ Now(f, [w EXCEPT !.pc = "merge"])
        \/ \E rows : Now(f, Got(w, rows))
    BY <1>11 DEF ReadThs
  <2>2. ASSUME NEW rows PROVE [w EXCEPT !.pc = "merge"].source = "ths" /\ Got(w, rows).source = "ths"
    BY <2>0 DEF Fetching, Got
  <2> QED BY <2>0, <2>1, <2>2, <1>now, <1>other
<1>12. ASSUME NEW f \in Fetchers, StoreDay(f) PROVE LateIsChunk'
  <2> DEFINE w == fetch[f]
             d == Min(w.left)
             v == [w EXCEPT !.pc = IF w.left = {d} THEN "archive" ELSE "store", !.left = @ \ {d},
                            !.late = IF f \in givenUp THEN @ \cup {d} ELSE @]
  <2>0. w \in Fetching /\ Stage(w) /\ w.pc = "store" /\ Consistent(w) /\ UNCHANGED givenUp
    BY <1>12, <1>w DEF StoreDay
  <2>1. d \in DatesOf(w.got)
    <3>1. w.left \in SUBSET Nat /\ w.left # {}
      BY <2>0, DatesAre DEF Fetching, Stage
    <3> QED BY <2>0, <3>1, MinIsLeast DEF Consistent
  <2>2. Now(f, v)
    BY <1>12 DEF StoreDay
  <2>3. v.source = w.source /\ v.got = w.got /\ v.late = (IF f \in givenUp THEN w.late \cup {d} ELSE w.late)
    BY <2>0 DEF Fetching
  <2>4. f \in Prefetches /\ v.source = "history" => Late(f, v)
    <3> SUFFICES ASSUME f \in Prefetches, v.source = "history" PROVE Late(f, v)
      OBVIOUS
    <3>1. Late(f, w)
      BY DEF LateIsChunk
    <3>2. v.late \subseteq DatesOf(w.got) /\ Cardinality(DatesOf(w.got)) <= ChunkDays
      BY <2>0, <2>1, <2>3, <3>1 DEF Late
    <3>3. IsFiniteSet(DatesOf(w.got))
      <4>1. DatesOf(w.got) \subseteq Dates
        BY <2>0, DateOfMinute DEF DatesOf, Fetching
      <4> QED BY <4>1, DatesAre, FS_Subset
    <3>4. Cardinality(v.late) <= Cardinality(DatesOf(w.got)) /\ IsFiniteSet(v.late)
      BY <3>2, <3>3, FS_Subset
    <3>5. Cardinality(v.late) \in Nat /\ Cardinality(DatesOf(w.got)) \in Nat /\ ChunkDays \in Nat
      BY <3>3, <3>4, FS_CardinalityType, MinuteAssumption DEF MinuteAssumption
    <3>6. v.late # {} => f \in givenUp
      BY <2>3, <3>1 DEF Late
    <3> HIDE DEF v
    <3> QED BY <2>3, <3>2, <3>4, <3>5, <3>6 DEF Late
  <2> HIDE DEF v
  <2>9. \A g \in Prefetches : fetch'[g] = IF g = f THEN v ELSE fetch[g]
    BY <2>2, <1>f DEF Now, MinuteTypeOK
  <2>10. \A g \in Prefetches : Late(g, fetch'[g])
    BY <2>4, <2>9, <1>other DEF LateIsChunk
  <2> QED BY <2>0, <2>10 DEF LateIsChunk, Late
<1>13. ASSUME NEW f \in Fetchers, NEW v, Now(f, v), UNCHANGED givenUp, v.source = fetch[f].source, v.late = fetch[f].late, v.pc # "store"
       PROVE  LateIsChunk'
  <2>1. f \in Prefetches => Late(f, v)
    BY <1>13 DEF LateIsChunk, Late
  <2>2. \A g \in Prefetches : fetch'[g] = IF g = f THEN v ELSE fetch[g]
    BY <1>13, <1>f DEF Now, MinuteTypeOK
  <2>3. \A g \in Prefetches : Late(g, fetch'[g])
    BY <2>1, <2>2 DEF LateIsChunk
  <2> QED BY <1>13, <2>3 DEF LateIsChunk, Late
<1>14. ASSUME NEW f \in Fetchers, ArchiveBuckets(f) PROVE LateIsChunk'
  <2> DEFINE w == fetch[f]
             v == [w EXCEPT !.pc = IF w.source = "history" THEN "chunks" ELSE "merge", !.got = {}]
  <2>1. Now(f, v) /\ UNCHANGED givenUp
    BY <1>14 DEF ArchiveBuckets
  <2>2. v.source = w.source /\ v.late = w.late /\ v.pc # "store"
    BY <1>w DEF Fetching
  <2> HIDE DEF v
  <2> QED BY <2>1, <2>2, <1>13
<1>15. ASSUME NEW f \in Fetchers, ReadPackage(f) PROVE LateIsChunk'
  <2> DEFINE w == fetch[f]
             v == [w EXCEPT !.pc = "write", !.base = listed]
  <2>1. Leaves(f) \/ Now(f, v)
    BY <1>15 DEF ReadPackage
  <2>2. v.source = w.source /\ v.late = w.late /\ v.pc # "store" /\ UNCHANGED givenUp
    BY <1>15, <1>w DEF Fetching, ReadPackage
  <2> HIDE DEF v
  <2> QED BY <2>1, <2>2, <1>13, <1>leaves
<1>16. ASSUME NEW f \in Fetchers, WritePackage(f) PROVE LateIsChunk'
  BY <1>16, <1>leaves DEF WritePackage
<1> QED
  BY MinuteCases, <1>1, <1>2, <1>3, <1>4, <1>5, <1>6, <1>7, <1>8, <1>9, <1>10, <1>11, <1>12, <1>14, <1>15, <1>16

-----------------------------------------------------------------------------

\* What is listed, or was when a thread read it, is over unless it was listed in haste.
ListedAreOver ==
  /\ listed \ hasty \subseteq Over
  /\ \A f \in Fetchers : (fetch[f].asked \cup fetch[f].base) \ hasty \subseteq Over

\* Every step keeps it, and what was listed in haste stays so.
LEMMA OverStep ==
  ASSUME MinuteTypeOK, ListedAreOver, [MinuteNext]_minuteVars
  PROVE  ListedAreOver' /\ hasty \subseteq hasty'
<1> DEFINE Good == ListedAreOver' /\ hasty \subseteq hasty'
           Named(w) == w.asked \cup w.base
<1>w. fetch \in [Fetchers -> Fetching]
  BY DEF MinuteTypeOK
<1>f. Prefetches \subseteq Fetchers /\ Requests \subseteq Fetchers
  BY DEF Fetchers
<1>over. traded' = traded => Over' = Over
  BY DEF Over, Traded
<1>keep. ASSUME UNCHANGED <<traded, listed, hasty>>,
                \A g \in Fetchers : Named(fetch'[g]) \subseteq Named(fetch[g]) \cup listed
         PROVE  Good
  BY <1>keep, <1>over DEF ListedAreOver
<1>now. ASSUME UNCHANGED <<traded, listed, hasty>>, NEW f \in Fetchers, NEW w, Now(f, w),
               Named(w) \subseteq Named(fetch[f]) \cup listed
        PROVE  Good
  <2>1. \A g \in Fetchers : fetch'[g] = IF g = f THEN w ELSE fetch[g]
    BY <1>now, <1>w DEF Now
  <2> QED BY <1>now, <2>1, <1>keep
<1>under. ASSUME UNCHANGED <<traded, listed, hasty>>, NEW f \in Fetchers, NEW s, NEW w, w \in Fetching, Under(f, s, w),
                 Named(w) \subseteq Named(fetch[f]) \cup listed
          PROVE  Good
  <2>1. ASSUME NEW g \in Fetchers PROVE Named(fetch'[g]) \subseteq Named(fetch[g]) \cup listed
    <3>1. CASE g = f
      BY <1>under, <3>1 DEF Under, Fetching
    <3>2. CASE g # f
      <4>1. fetch'[g] = fetch[g] \/ fetch'[g] = [fetch[g] EXCEPT !.crossed = TRUE]
        BY <1>under, <3>2 DEF Under
      <4> QED BY <1>w, <4>1 DEF Fetching
    <3> QED BY <3>1, <3>2
  <2> QED BY <1>under, <2>1, <1>keep
<1>leaves. ASSUME UNCHANGED <<traded, listed, hasty>>, NEW f \in Fetchers, Leaves(f) \/ Fails(f) PROVE Good
  <2>1. CASE Leaves(f)
    BY <1>leaves, <2>1, <1>now DEF Leaves, NotFetching
  <2>2. CASE Fails(f) /\ ~Leaves(f)
    <3> DEFINE w == [NotFetching EXCEPT !.pc = "ths", !.want = "auto", !.late = fetch[f].late]
    <3>1. Under(f, "ths", w) /\ fetch[f].want = "auto"
      BY <2>2 DEF Fails
    <3>2. w \in Fetching
      <4>1. fetch[f].late \in SUBSET Dates /\ "auto" \in Wants
        BY <1>w, <3>1 DEF Fetching
      <4> QED BY <4>1, NotFetchingType, NamesType DEF Fetching
    <3>3. Named(w) = {}
      BY DEF NotFetching
    <3> HIDE DEF w
    <3> QED BY <1>leaves, <3>1, <3>2, <3>3, <1>under
  <2> QED BY <1>leaves, <2>1, <2>2
<1>1. CASE Trade
  <2>1. Traded \subseteq Traded'
    BY <1>1, DateOfMinute DEF Trade, Traded, MinuteTypeOK
  <2>2. Over \subseteq Over'
    BY <2>1 DEF Over
  <2> QED BY <1>1, <2>2 DEF Trade, ListedAreOver
<1>2. CASE ListDay
  BY <1>2, <1>over DEF ListDay, ListedAreOver
<1>3. CASE DayPasses \/ UNCHANGED minuteVars
  BY <1>3, <1>keep DEF DayPasses, minuteVars
<1>4. ASSUME NEW f \in Prefetches, BeginPrefetch(f) \/ HandlerStops(f) \/ SyncFails(f) PROVE Good
  <2>1. CASE BeginPrefetch(f)
    <3>1. Named([NotFetching EXCEPT !.pc = "sync", !.want = Default, !.limit = Max(PageLimits)]) = {}
      BY DEF NotFetching
    <3> HIDE DEF Named
    <3> QED BY <1>f, <1>now, <2>1, <3>1 DEF BeginPrefetch
  <2>2. CASE HandlerStops(f) \/ SyncFails(f)
    <3>1. Named(NotFetching) = {}
      BY DEF NotFetching
    <3> HIDE DEF Named
    <3> QED BY <1>f, <1>now, <2>2, <3>1 DEF HandlerStops, SyncFails
  <2> QED BY <1>4, <2>1, <2>2
<1>5. ASSUME NEW f \in Prefetches, GiveUp(f) PROVE Good
  BY <1>5, <1>keep DEF GiveUp
<1>6. ASSUME NEW f \in Prefetches, SyncStock(f) PROVE Good
  <2>1. \A g \in Fetchers : Named(fetch'[g]) = Named(fetch[g])
    BY <1>6, <1>w DEF SyncStock, Now, Fetching
  <2>2. listed' \ hasty' \subseteq Over
    BY <1>6 DEF SyncStock
  <2> QED BY <1>6, <2>1, <2>2, <1>over DEF SyncStock, ListedAreOver
<1>7. ASSUME NEW f \in Requests, BeginRequest(f) PROVE Good
  <2>1. PICK want, limit : Now(f, [NotFetching EXCEPT !.pc = "stock", !.want = want, !.limit = limit])
    BY <1>7 DEF BeginRequest
  <2>2. Named([NotFetching EXCEPT !.pc = "stock", !.want = want, !.limit = limit]) = {}
    BY DEF NotFetching
  <2> QED BY <1>7, <1>f, <2>1, <2>2, <1>now DEF BeginRequest
<1>8. ASSUME NEW f \in Fetchers, FetchStock(f) PROVE Good
  <2> DEFINE w == fetch[f]
  <2>0. w \in Fetching /\ UNCHANGED <<traded, listed, hasty>>
    BY <1>8, <1>w DEF FetchStock
  <2>1. CASE Leaves(f)
    BY <2>0, <2>1, <1>leaves
  <2>2. [w EXCEPT !.pc = "chunks", !.asked = listed, !.todo = MissingDates, !.limit = 0] \in Fetching
    BY <2>0, NamesType DEF Fetching, MissingDates, MinuteTypeOK
  <2>3. [w EXCEPT !.pc = "ths", !.limit = 0] \in Fetching
    BY <2>0, NamesType DEF Fetching
  <2>4. [w EXCEPT !.pc = "pages"] \in Fetching
    BY <2>0, NamesType DEF Fetching
  <2>5. /\ Named([w EXCEPT !.pc = "chunks", !.asked = listed, !.todo = MissingDates, !.limit = 0]) \subseteq Named(w) \cup listed
        /\ Named([w EXCEPT !.pc = "ths", !.limit = 0]) \subseteq Named(w) \cup listed
        /\ Named([w EXCEPT !.pc = "pages"]) \subseteq Named(w) \cup listed
    BY <2>0 DEF Fetching
  <2> HIDE DEF w, Named
  <2> QED BY <1>8, <2>0, <2>1, <2>2, <2>3, <2>4, <2>5, <1>under DEF FetchStock, w
<1>9. ASSUME NEW f \in Fetchers, StockFails(f) \/ StockRefused(f) PROVE Good
  BY <1>9, <1>leaves DEF StockFails, StockRefused
<1>10. ASSUME NEW f \in Fetchers, ReadTdxPage(f) PROVE Good
  <2> DEFINE w == fetch[f]
  <2>1. \/ Fails(f)
        \/ \E all : Now(f, [w EXCEPT !.page = @ + 1, !.got = all])
        \/ \E all : Now(f, Got(w, all))
    BY <1>10 DEF ReadTdxPage
  <2>2. ASSUME NEW all PROVE Named([w EXCEPT !.page = @ + 1, !.got = all]) = Named(w) /\ Named(Got(w, all)) = Named(w)
    BY <1>w DEF Fetching, Got
  <2> HIDE DEF Named
  <2> QED BY <1>10, <2>1, <2>2, <1>leaves, <1>now DEF ReadTdxPage
<1>11. ASSUME NEW f \in Fetchers, ReadHistoryChunk(f) PROVE Good
  <2> DEFINE w == fetch[f]
  <2>1. PICK todo, failed, rows :
          LET next == [w EXCEPT !.todo = todo, !.failed = failed] IN
          Now(f, IF rows = {} THEN next ELSE Got(next, rows))
    BY <1>11 DEF ReadHistoryChunk
  <2> DEFINE next == [w EXCEPT !.todo = todo, !.failed = failed]
  <2>2. Named(next) = Named(w) /\ Named(Got(next, rows)) = Named(w)
    BY <1>w DEF Fetching, Got
  <2> HIDE DEF Named, next
  <2> QED BY <1>11, <2>1, <2>2, <1>now DEF ReadHistoryChunk, next
<1>12. ASSUME NEW f \in Fetchers, ReadThs(f) PROVE Good
  <2> DEFINE w == fetch[f]
  <2>1. Now(f, [w EXCEPT !.pc = "merge"]) \/ \E rows : Now(f, Got(w, rows))
    BY <1>12 DEF ReadThs
  <2>2. ASSUME NEW rows PROVE Named([w EXCEPT !.pc = "merge"]) = Named(w) /\ Named(Got(w, rows)) = Named(w)
    BY <1>w DEF Fetching, Got
  <2> HIDE DEF Named
  <2> QED BY <1>12, <2>1, <2>2, <1>now DEF ReadThs
<1>13. ASSUME NEW f \in Fetchers, StoreDay(f) PROVE Good
  <2> DEFINE w == fetch[f]
  <2>1. PICK pc, left, late : Now(f, [w EXCEPT !.pc = pc, !.left = left, !.late = late])
    BY <1>13 DEF StoreDay
  <2>2. Named([w EXCEPT !.pc = pc, !.left = left, !.late = late]) = Named(w)
    BY <1>w DEF Fetching
  <2> HIDE DEF Named
  <2> QED BY <1>13, <2>1, <2>2, <1>now DEF StoreDay
<1>14. ASSUME NEW f \in Fetchers, ArchiveBuckets(f) PROVE Good
  <2> DEFINE w == fetch[f]
  <2>1. PICK pc : Now(f, [w EXCEPT !.pc = pc, !.got = {}])
    BY <1>14 DEF ArchiveBuckets
  <2>2. Named([w EXCEPT !.pc = pc, !.got = {}]) = Named(w)
    BY <1>w DEF Fetching
  <2> HIDE DEF Named
  <2> QED BY <1>14, <2>1, <2>2, <1>now DEF ArchiveBuckets
<1>15. ASSUME NEW f \in Fetchers, ReadPackage(f) PROVE Good
  <2> DEFINE w == fetch[f]
  <2>1. Leaves(f) \/ Now(f, [w EXCEPT !.pc = "write", !.base = listed])
    BY <1>15 DEF ReadPackage
  <2>2. Named([w EXCEPT !.pc = "write", !.base = listed]) \subseteq Named(w) \cup listed
    BY <1>w DEF Fetching
  <2> HIDE DEF Named
  <2> QED BY <1>15, <2>1, <2>2, <1>now, <1>leaves DEF ReadPackage
<1>16. ASSUME NEW f \in Fetchers, WritePackage(f) PROVE Good
  <2>1. \A g \in Fetchers : fetch'[g] = IF g = f THEN NotFetching ELSE fetch[g]
    BY <1>16, <1>w DEF WritePackage, Leaves, Now
  <2>2. UNCHANGED <<traded, hasty>> /\ listed' = fetch[f].base
    BY <1>16 DEF WritePackage
  <2>3. Named(NotFetching) = {}
    BY DEF NotFetching
  <2> QED BY <2>1, <2>2, <2>3, <1>over DEF ListedAreOver
<1> QED
  BY MinuteCases, <1>1, <1>2, <1>3, <1>4, <1>5, <1>6, <1>7, <1>8, <1>9, <1>10, <1>11, <1>12, <1>13, <1>14, <1>15, <1>16

-----------------------------------------------------------------------------

\* A day of the history source is stored and archived whole or not at all, unless
\* it was listed in haste.
Whole(d) == MinutesOf(d) \subseteq buckets["history"][d] \cup indexed["history"][d]
WholeOrNothing == \A d \in Dates \ hasty :
  buckets["history"][d] \in {{}, MinutesOf(d)} /\ indexed["history"][d] \in {{}, MinutesOf(d)}

\* A thread at the history source has its days whole, and those it is done with are
\* stored or archived whole.
GotIsWhole == \A f \in Fetchers :
  fetch[f].source = "history" /\ fetch[f].pc \in {"store", "archive"} =>
    \A d \in DatesOf(fetch[f].got) \ hasty : MinutesOf(d) \subseteq fetch[f].got
FetchedIsWhole == \A f \in Fetchers :
  fetch[f].source = "history" =>
    \A d \in fetch[f].asked \ (fetch[f].todo \cup fetch[f].failed \cup fetch[f].left \cup hasty) : Whole(d)

\* A step leaves every day whole or away, and a day that is whole stays whole.
LEMMA WholeStep ==
  ASSUME MinuteTypeOK, Stages, GotIsWhole, WholeOrNothing, hasty \subseteq hasty', [MinuteNext]_minuteVars
  PROVE  WholeOrNothing' /\ \A d \in Dates \ hasty' : Whole(d) => Whole(d)'
<1>h. "history" \in Sources
  BY DEF Sources
<1>b. buckets \in Stores /\ indexed \in Stores
  BY DEF MinuteTypeOK
<1>w. \A f \in Fetchers : fetch[f] \in Fetching /\ Stage(fetch[f])
  BY DEF Stages, MinuteTypeOK
<1>keep. ASSUME buckets'["history"] = buckets["history"], indexed'["history"] = indexed["history"]
         PROVE  WholeOrNothing' /\ \A d \in Dates \ hasty' : Whole(d) => Whole(d)'
  BY <1>keep DEF WholeOrNothing, Whole
<1>days. ASSUME \A d \in Dates \ hasty' :
                  /\ buckets'["history"][d] \in {{}, MinutesOf(d)} /\ indexed'["history"][d] \in {{}, MinutesOf(d)}
                  /\ Whole(d) => MinutesOf(d) \subseteq buckets'["history"][d] \cup indexed'["history"][d]
         PROVE  WholeOrNothing' /\ \A d \in Dates \ hasty' : Whole(d) => Whole(d)'
  BY <1>days DEF WholeOrNothing, Whole
<1>1. ASSUME NEW f \in Fetchers, StoreDay(f) PROVE WholeOrNothing' /\ \A d \in Dates \ hasty' : Whole(d) => Whole(d)'
  <2> DEFINE w == fetch[f]
             e == Min(w.left)
  <2>0. w \in Fetching /\ Stage(w) /\ w.pc = "store" /\ w.source \in Sources
    BY <1>1, <1>w DEF StoreDay, Stage, Fetching
  <2>1. buckets' = [buckets EXCEPT ![w.source][e] = Bucket(w, e)] /\ indexed' = indexed
    BY <1>1 DEF StoreDay
  <2>2. e \in DatesOf(w.got)
    <3>1. w.left \in SUBSET Nat /\ w.left # {} /\ w.left \subseteq DatesOf(w.got)
      BY <2>0, DatesAre DEF Fetching, Stage, MinuteTypeOK
    <3> QED BY <3>1, MinIsLeast
  <2>3. CASE w.source # "history"
    <3>1. buckets'["history"] = buckets["history"]
      BY <1>h, <1>b, <2>0, <2>1, <2>3 DEF Stores
    <3> QED BY <2>1, <3>1, <1>keep
  <2>4. CASE w.source = "history"
    <3>1. \A d \in Dates : buckets'["history"][d] = IF d = e THEN Bucket(w, e) ELSE buckets["history"][d]
      BY <1>h, <1>b, <2>1, <2>4 DEF Stores
    <3>2. e \notin hasty' => Bucket(w, e) = MinutesOf(e)
      BY <2>0, <2>2, <2>4 DEF GotIsWhole, Bucket
    <3> HIDE DEF w, e
    <3> QED BY <2>1, <3>1, <3>2, <1>days DEF WholeOrNothing, Whole
  <2> QED BY <2>3, <2>4
<1>2. ASSUME NEW f \in Fetchers, ArchiveBuckets(f) PROVE WholeOrNothing' /\ \A d \in Dates \ hasty' : Whole(d) => Whole(d)'
  <2> DEFINE s == fetch[f].source
  <2>0. s \in Sources
    BY <1>2, <1>w DEF ArchiveBuckets, Stage, Fetching
  <2>1. PICK index, after \in [Dates -> SUBSET Minutes] :
          /\ indexed' = [indexed EXCEPT ![s] = index]
          /\ buckets' = [buckets EXCEPT ![s] = after]
          /\ \A d \in Dates : Archived(s, DatesOf(fetch[f].got), index, after, d)
    BY <1>2, <2>0, ArchiveEffect
  <2>2. CASE s # "history"
    BY <1>h, <1>b, <2>1, <2>2, <1>keep DEF Stores
  <2>3. CASE s = "history"
    <3>1. buckets'["history"] = after /\ indexed'["history"] = index
      BY <1>h, <1>b, <2>1, <2>3 DEF Stores
    <3>2. ASSUME NEW d \in Dates \ hasty'
          PROVE  /\ after[d] \in {{}, MinutesOf(d)} /\ index[d] \in {{}, MinutesOf(d)}
                 /\ Whole(d) => MinutesOf(d) \subseteq after[d] \cup index[d]
      <4>1. buckets["history"][d] \in {{}, MinutesOf(d)} /\ indexed["history"][d] \in {{}, MinutesOf(d)}
        BY DEF WholeOrNothing
      <4>2. \/ index[d] = indexed["history"][d]
            \/ buckets["history"][d] # {} /\ index[d] = buckets["history"][d]
        BY <2>1, <2>3 DEF Archived
      <4>3. after[d] = buckets["history"][d] \/ (after[d] = {} /\ index[d] # {})
        BY <2>1, <2>3 DEF Archived
      <4> QED BY <4>1, <4>2, <4>3 DEF Whole
    <3> QED BY <3>1, <3>2, <1>days
  <2> QED BY <2>2, <2>3
<1>3. ASSUME UNCHANGED <<buckets, indexed>> PROVE WholeOrNothing' /\ \A d \in Dates \ hasty' : Whole(d) => Whole(d)'
  BY <1>3, <1>keep
<1>4. \/ UNCHANGED <<buckets, indexed>>
      \/ \E f \in Fetchers : StoreDay(f) \/ ArchiveBuckets(f)
  BY MinuteCases DEF Trade, ListDay, DayPasses, BeginPrefetch, GiveUp, HandlerStops, SyncStock, SyncFails,
     BeginRequest, FetchStock, StockFails, StockRefused, ReadTdxPage, ReadHistoryChunk, ReadThs,
     ReadPackage, WritePackage, minuteVars
<1> QED BY <1>1, <1>2, <1>3, <1>4

\* Every step keeps the three: a day is asked for when it is listed, and fetched
\* whole because it is over.
LEMMA HistoryStep ==
  ASSUME MinuteTypeOK, Stages, ListedAreOver, WholeOrNothing, GotIsWhole, FetchedIsWhole,
         hasty \subseteq hasty', [MinuteNext]_minuteVars
  PROVE  WholeOrNothing' /\ GotIsWhole' /\ FetchedIsWhole'
<1> DEFINE WholeNow(d) == MinutesOf(d) \subseteq buckets'["history"][d] \cup indexed'["history"][d]
           Got1(w) == w.source = "history" /\ w.pc \in {"store", "archive"} =>
                        \A d \in DatesOf(w.got) \ hasty' : MinutesOf(d) \subseteq w.got
           Fetched1(w) == w.source = "history" =>
                        \A d \in w.asked \ (w.todo \cup w.failed \cup w.left \cup hasty') : WholeNow(d)
           Good == GotIsWhole' /\ FetchedIsWhole'
<1>whole. WholeOrNothing' /\ \A d \in Dates \ hasty' : Whole(d) => WholeNow(d)
  BY WholeStep DEF Whole
<1>w. fetch \in [Fetchers -> Fetching] /\ \A f \in Fetchers : fetch[f] \in Fetching /\ Stage(fetch[f]) /\ Consistent(fetch[f])
  BY ConsistentType DEF Stages, Consistent
<1>f. Prefetches \subseteq Fetchers /\ Requests \subseteq Fetchers
  BY DEF Fetchers
<1>all. ASSUME \A g \in Fetchers : Got1(fetch'[g]) /\ Fetched1(fetch'[g]) PROVE Good
  BY <1>all DEF GotIsWhole, FetchedIsWhole, Whole
<1>stays. ASSUME NEW g \in Fetchers, NEW b \in BOOLEAN
          PROVE  Got1(fetch[g]) /\ Fetched1(fetch[g])
                 /\ Got1([fetch[g] EXCEPT !.crossed = b]) /\ Fetched1([fetch[g] EXCEPT !.crossed = b])
  <2>1. Got1(fetch[g])
    BY DEF GotIsWhole
  <2>2. Fetched1(fetch[g])
    <3>1. fetch[g].asked \subseteq Dates
      BY <1>w DEF Fetching
    <3> HIDE DEF WholeNow
    <3> QED BY <1>whole, <3>1 DEF FetchedIsWhole
  <2> QED BY <2>1, <2>2, <1>w DEF Fetching
<1>keep. ASSUME UNCHANGED fetch PROVE Good
  <2> HIDE DEF Got1, Fetched1
  <2> QED BY <1>keep, <1>stays, <1>all
<1>now. ASSUME NEW f \in Fetchers, NEW w, Now(f, w), Got1(w), Fetched1(w) PROVE Good
  <2>1. \A g \in Fetchers : fetch'[g] = IF g = f THEN w ELSE fetch[g]
    BY <1>now, <1>w DEF Now
  <2> HIDE DEF Got1, Fetched1
  <2> QED BY <1>now, <2>1, <1>stays, <1>all
<1>under. ASSUME NEW f \in Fetchers, NEW s, NEW w \in Fetching, Under(f, s, w), w.pc \notin {"store", "archive"},
                 s = "history" => Fetched1([w EXCEPT !.source = s])
          PROVE  Good
  <2>1. ASSUME NEW g \in Fetchers PROVE Got1(fetch'[g]) /\ Fetched1(fetch'[g])
    <3>1. CASE g = f
      <4>1. PICK b : fetch'[g] = [w EXCEPT !.source = s, !.crossed = b]
        BY <1>under, <3>1 DEF Under
      <4> QED BY <1>under, <4>1 DEF Fetching
    <3>2. CASE g # f
      <4>1. fetch'[g] = fetch[g] \/ fetch'[g] = [fetch[g] EXCEPT !.crossed = TRUE]
        BY <1>under, <3>2 DEF Under
      <4> HIDE DEF Got1, Fetched1
      <4> QED BY <4>1, <1>stays
    <3> QED BY <3>1, <3>2
  <2> HIDE DEF Got1, Fetched1
  <2> QED BY <2>1, <1>all
<1>other. \A w : w.source # "history" => Got1(w) /\ Fetched1(w)
  OBVIOUS
<1>leaves. ASSUME NEW f \in Fetchers, Leaves(f) \/ Fails(f) PROVE Good
  <2>1. CASE Leaves(f)
    <3>1. NotFetching.source # "history"
      BY DEF NotFetching
    <3> HIDE DEF Got1, Fetched1, Good
    <3> QED BY <2>1, <3>1, <1>now, <1>other DEF Leaves
  <2>2. CASE Fails(f) /\ ~Leaves(f)
    <3> DEFINE w == [NotFetching EXCEPT !.pc = "ths", !.want = "auto", !.late = fetch[f].late]
    <3>1. Under(f, "ths", w) /\ fetch[f].want = "auto"
      BY <2>2 DEF Fails
    <3>2. w \in Fetching /\ w.pc = "ths"
      <4>1. fetch[f].late \in SUBSET Dates /\ "auto" \in Wants
        BY <1>w, <3>1 DEF Fetching
      <4> QED BY <4>1, NotFetchingType, NamesType DEF Fetching
    <3> HIDE DEF w, Got1, Fetched1, Good
    <3> QED BY <3>1, <3>2, <1>under
  <2> QED BY <1>leaves, <2>1, <2>2
<1>same. ASSUME NEW f \in Fetchers, NEW w, Now(f, w), w.source = fetch[f].source, w.asked = fetch[f].asked,
                w.todo = fetch[f].todo, w.failed = fetch[f].failed, w.left = fetch[f].left,
                w.pc \notin {"store", "archive"}
         PROVE  Good
  <2>1. Fetched1(fetch[f])
    BY <1>stays
  <2>2. Got1(w) /\ Fetched1(w)
    BY <1>same, <2>1
  <2> HIDE DEF Got1, Fetched1, Good
  <2> QED BY <1>same, <2>2, <1>now
<1> HIDE DEF Got1, Fetched1, Good, WholeNow
<1>1. ASSUME Trade \/ ListDay \/ DayPasses \/ UNCHANGED minuteVars PROVE Good
  BY <1>1, <1>keep DEF Trade, ListDay, DayPasses, minuteVars
<1>2. ASSUME NEW f \in Prefetches, BeginPrefetch(f) PROVE Good
  <2>1. [NotFetching EXCEPT !.pc = "sync", !.want = Default, !.limit = Max(PageLimits)].source # "history"
    BY DEF NotFetching
  <2> QED BY <1>2, <1>f, <2>1, <1>now, <1>other DEF BeginPrefetch
<1>3. ASSUME NEW f \in Prefetches, GiveUp(f) PROVE Good
  BY <1>3, <1>keep DEF GiveUp
<1>4. ASSUME NEW f \in Prefetches, HandlerStops(f) \/ SyncFails(f) PROVE Good
  <2>1. NotFetching.source # "history"
    BY DEF NotFetching
  <2> QED BY <1>4, <1>f, <2>1, <1>now, <1>other DEF HandlerStops, SyncFails
<1>5. ASSUME NEW f \in Prefetches, SyncStock(f) PROVE Good
  <2>1. [fetch[f] EXCEPT !.pc = "stock"].source # "history"
    BY <1>5, <1>w, <1>f DEF SyncStock, Stage, Fetching
  <2> QED BY <1>5, <1>f, <2>1, <1>now, <1>other DEF SyncStock
<1>6. ASSUME NEW f \in Requests, BeginRequest(f) PROVE Good
  <2>1. PICK want, limit : Now(f, [NotFetching EXCEPT !.pc = "stock", !.want = want, !.limit = limit])
    BY <1>6 DEF BeginRequest
  <2>2. [NotFetching EXCEPT !.pc = "stock", !.want = want, !.limit = limit].source # "history"
    BY DEF NotFetching
  <2> QED BY <1>f, <2>1, <2>2, <1>now, <1>other
<1>7. ASSUME NEW f \in Fetchers, FetchStock(f) PROVE Good
  <2> DEFINE w == fetch[f]
             v == [w EXCEPT !.pc = "chunks", !.asked = listed, !.todo = MissingDates, !.limit = 0]
  <2>0. w \in Fetching /\ Stage(w) /\ w.pc = "stock"
    BY <1>7, <1>w DEF FetchStock
  <2>1. v \in Fetching /\ v.pc = "chunks"
    BY <2>0, NamesType DEF Fetching, MissingDates, MinuteTypeOK
  <2>2. Fetched1([v EXCEPT !.source = "history"])
    <3>1. \A d \in (listed \ MissingDates) \ hasty' : WholeNow(d)
      <4> SUFFICES ASSUME NEW d \in (listed \ MissingDates) \ hasty' PROVE WholeNow(d)
        OBVIOUS
      <4>1. d \in Dates /\ buckets["history"][d] # {} /\ buckets["history"][d] \in {{}, MinutesOf(d)}
        BY DEF MissingDates, Hot, MinuteTypeOK, WholeOrNothing
      <4> QED BY <4>1, <1>whole DEF Whole
    <3>2. [v EXCEPT !.source = "history"].asked = listed /\ [v EXCEPT !.source = "history"].todo = MissingDates
      BY <2>0 DEF Fetching
    <3> QED BY <3>1, <3>2 DEF Fetched1
  <2>3. [w EXCEPT !.pc = "ths", !.limit = 0] \in Fetching /\ [w EXCEPT !.pc = "ths", !.limit = 0].pc = "ths"
    BY <2>0, NamesType DEF Fetching
  <2>4. [w EXCEPT !.pc = "pages"] \in Fetching /\ [w EXCEPT !.pc = "pages"].pc = "pages"
    BY <2>0, NamesType DEF Fetching
  <2>5. \/ Leaves(f) \/ Under(f, "history", v) \/ Under(f, "ths", [w EXCEPT !.pc = "ths", !.limit = 0])
        \/ Under(f, "tdx", [w EXCEPT !.pc = "pages"])
    BY <1>7 DEF FetchStock
  <2>6. CASE Under(f, "history", v)
    <3> HIDE DEF v
    <3> QED BY <2>1, <2>2, <2>6, <1>under
  <2>7. CASE Under(f, "ths", [w EXCEPT !.pc = "ths", !.limit = 0])
    BY <2>3, <2>7, <1>under
  <2>8. CASE Under(f, "tdx", [w EXCEPT !.pc = "pages"])
    BY <2>4, <2>8, <1>under
  <2> QED BY <2>5, <2>6, <2>7, <2>8, <1>leaves
<1>8. ASSUME NEW f \in Fetchers, StockFails(f) \/ StockRefused(f) PROVE Good
  BY <1>8, <1>leaves DEF StockFails, StockRefused
<1>9. ASSUME NEW f \in Fetchers, ReadTdxPage(f) PROVE Good
  <2> DEFINE w == fetch[f]
  <2>0. w \in Fetching /\ w.source = "tdx"
    BY <1>9, <1>w DEF ReadTdxPage, Stage
  <2>1. \/ Fails(f)
        \/ \E all : Now(f, [w EXCEPT !.page = @ + 1, !.got = all])
        \/ \E all : Now(f, Got(w, all))
    BY <1>9 DEF ReadTdxPage
  <2>2. ASSUME NEW all PROVE [w EXCEPT !.page = @ + 1, !.got = all].source = "tdx" /\ Got(w, all).source = "tdx"
    BY <2>0 DEF Fetching, Got
  <2> QED BY <2>1, <2>2, <1>leaves, <1>now, <1>other
<1>10. ASSUME NEW f \in Fetchers, ReadHistoryChunk(f) PROVE Good
  <2> DEFINE w == fetch[f]
             chunk == NextChunk(w.todo)
  <2>0. w \in Fetching /\ Stage(w) /\ Consistent(w) /\ w.pc = "chunks" /\ w.source = "history" /\ w.left = {} /\ UNCHANGED traded
    BY <1>10, <1>w DEF ReadHistoryChunk, Stage
  <2>1. PICK answered \in SUBSET chunk :
          LET rows == (UNION {MinutesOf(d) : d \in answered}) \cap Traded
              next == [w EXCEPT !.todo = @ \ chunk, !.failed = @ \cup (chunk \ answered)] IN
          Now(f, IF rows = {} THEN next ELSE Got(next, rows))
    BY <1>10 DEF ReadHistoryChunk
  <2> DEFINE rows == (UNION {MinutesOf(d) : d \in answered}) \cap Traded
             next == [w EXCEPT !.todo = @ \ chunk, !.failed = @ \cup (chunk \ answered)]
  <2>2. chunk \subseteq w.todo /\ w.todo \subseteq w.asked /\ w.asked \subseteq Dates
    BY <2>0 DEF NextChunk, Consistent, Fetching
  <2>3. \A d \in answered \ hasty : MinutesOf(d) \subseteq rows
    <3>1. \A d \in answered \ hasty : MinutesOf(d) \subseteq Traded
      BY <2>2 DEF ListedAreOver, Over
    <3> QED BY <3>1
  <2>4. \A d \in answered \ hasty : d \notin DatesOf(rows) => WholeNow(d)
    <3>1. \A d \in answered \ hasty : d \notin DatesOf(rows) => MinutesOf(d) = {}
      BY <2>3 DEF DatesOf, MinutesOf
    <3> QED BY <3>1 DEF WholeNow
  <2>5. DatesOf(rows) \subseteq answered
    BY DEF DatesOf, MinutesOf
  <2>6. /\ next.source = "history" /\ next.pc = "chunks" /\ next.asked = w.asked /\ next.left = {}
        /\ next.todo = w.todo \ chunk /\ next.failed = w.failed \cup (chunk \ answered)
    BY <2>0 DEF Fetching
  <2>7. /\ Got(next, rows).asked = w.asked /\ Got(next, rows).left = DatesOf(rows)
        /\ Got(next, rows).todo = w.todo \ chunk /\ Got(next, rows).failed = w.failed \cup (chunk \ answered)
        /\ Got(next, rows).got = rows
    BY <2>0 DEF Fetching, Got
  <2>8. \A d \in w.asked \ (w.todo \cup w.failed \cup hasty') : WholeNow(d)
    BY <2>0, <2>2, <1>whole DEF FetchedIsWhole
  <2> HIDE DEF rows, next, chunk
  <2>9. rows = {} => Got1(next) /\ Fetched1(next)
    <3>1. rows = {} => DatesOf(rows) = {}
      BY DEF DatesOf
    <3> QED BY <2>4, <2>6, <2>8, <3>1 DEF Got1, Fetched1
  <2>10. Got1(Got(next, rows)) /\ Fetched1(Got(next, rows))
    <3>1. Got1(Got(next, rows))
      BY <2>3, <2>5, <2>7 DEF Got1
    <3>2. Fetched1(Got(next, rows))
      BY <2>4, <2>7, <2>8 DEF Fetched1
    <3> QED BY <3>1, <3>2
  <2> QED BY <2>1, <2>9, <2>10, <1>now DEF rows, next
<1>11. ASSUME NEW f \in Fetchers, ReadThs(f) PROVE Good
  <2> DEFINE w == fetch[f]
  <2>0. w \in Fetching /\ w.source = "ths"
    BY <1>11, <1>w DEF ReadThs, Stage
  <2>1. Now(f, [w EXCEPT !.pc = "merge"]) \/ \E rows : Now(f, Got(w, rows))
    BY <1>11 DEF ReadThs
  <2>2. ASSUME NEW rows PROVE [w EXCEPT !.pc = "merge"].source = "ths" /\ Got(w, rows).source = "ths"
    BY <2>0 DEF Fetching, Got
  <2> QED BY <2>1, <2>2, <1>now, <1>other
<1>12. ASSUME NEW f \in Fetchers, StoreDay(f) PROVE Good
  <2> DEFINE w == fetch[f]
             e == Min(w.left)
             v == [w EXCEPT !.pc = IF w.left = {e} THEN "archive" ELSE "store", !.left = @ \ {e},
                            !.late = IF f \in givenUp THEN @ \cup {e} ELSE @]
  <2>0. w \in Fetching /\ Stage(w) /\ w.pc = "store" /\ Consistent(w)
    BY <1>12, <1>w DEF StoreDay
  <2>1. e \in w.left /\ w.left \subseteq DatesOf(w.got) /\ e \in Dates
    <3>1. w.left \in SUBSET Nat /\ w.left # {} /\ w.left \subseteq Dates
      BY <2>0, DatesAre DEF Fetching, Stage
    <3>2. e \in w.left
      BY <3>1, MinIsLeast
    <3> HIDE DEF e
    <3> QED BY <2>0, <3>1, <3>2 DEF Consistent
  <2>2. Now(f, v) /\ buckets' = [buckets EXCEPT ![w.source][e] = Bucket(w, e)]
    BY <1>12 DEF StoreDay
  <2>3. /\ v.source = w.source /\ v.got = w.got /\ v.asked = w.asked /\ v.todo = w.todo /\ v.failed = w.failed
        /\ v.left = w.left \ {e}
    BY <2>0 DEF Fetching
  <2>4. Got1(w) /\ Fetched1(w)
    BY <1>stays
  <2>5. Got1(v)
    BY <2>0, <2>3, <2>4 DEF Got1
  <2>6. w.source = "history" /\ e \notin hasty' => WholeNow(e)
    <3> SUFFICES ASSUME w.source = "history", e \notin hasty' PROVE WholeNow(e)
      OBVIOUS
    <3>1. MinutesOf(e) \subseteq w.got
      BY <2>0, <2>1, <2>4 DEF Got1
    <3>2. buckets'["history"][e] = Bucket(w, e)
      BY <2>1, <2>2 DEF MinuteTypeOK, Stores, Sources
    <3> HIDE DEF e, w
    <3> QED BY <3>1, <3>2 DEF WholeNow, Bucket
  <2>7. Fetched1(v)
    <3> HIDE DEF e, w, v
    <3> QED BY <2>3, <2>4, <2>6 DEF Fetched1
  <2> HIDE DEF v
  <2> QED BY <2>2, <2>5, <2>7, <1>now
<1>13. ASSUME NEW f \in Fetchers, ArchiveBuckets(f) PROVE Good
  <2> DEFINE w == fetch[f]
             v == [w EXCEPT !.pc = IF w.source = "history" THEN "chunks" ELSE "merge", !.got = {}]
  <2>1. Now(f, v)
    BY <1>13 DEF ArchiveBuckets
  <2>2. /\ v.source = w.source /\ v.asked = w.asked /\ v.todo = w.todo /\ v.failed = w.failed /\ v.left = w.left
        /\ v.pc \notin {"store", "archive"}
    BY <1>w DEF Fetching
  <2> HIDE DEF v
  <2> QED BY <2>1, <2>2, <1>same
<1>14. ASSUME NEW f \in Fetchers, ReadPackage(f) PROVE Good
  <2> DEFINE w == fetch[f]
             v == [w EXCEPT !.pc = "write", !.base = listed]
  <2>1. Leaves(f) \/ Now(f, v)
    BY <1>14 DEF ReadPackage
  <2>2. /\ v.source = w.source /\ v.asked = w.asked /\ v.todo = w.todo /\ v.failed = w.failed /\ v.left = w.left
        /\ v.pc \notin {"store", "archive"}
    BY <1>w DEF Fetching
  <2> HIDE DEF v
  <2> QED BY <2>1, <2>2, <1>same, <1>leaves
<1>15. ASSUME NEW f \in Fetchers, WritePackage(f) PROVE Good
  BY <1>15, <1>leaves DEF WritePackage
<1>16. Good
  BY MinuteCases, <1>1, <1>2, <1>3, <1>4, <1>5, <1>6, <1>7, <1>8, <1>9, <1>10, <1>11, <1>12, <1>13, <1>14, <1>15
<1> QED BY <1>whole, <1>16 DEF Good

-----------------------------------------------------------------------------

\* Of two threads at one source each is marked as crossed.
Crossing == \A f, g \in Fetchers :
  f # g /\ fetch[f].source = fetch[g].source /\ fetch[f].source # "none" => fetch[f].crossed

\* Every step keeps it: who begins with a source marks the others, and itself.
LEMMA CrossingStep ==
  ASSUME MinuteTypeOK, Stages, Crossing, [MinuteNext]_minuteVars
  PROVE  Crossing'
<1>w. fetch \in [Fetchers -> Fetching] /\ \A f \in Fetchers : fetch[f] \in Fetching /\ Stage(fetch[f])
  BY DEF Stages, MinuteTypeOK
<1>f. Prefetches \subseteq Fetchers /\ Requests \subseteq Fetchers
  BY DEF Fetchers
<1>keep. ASSUME UNCHANGED fetch PROVE Crossing'
  BY <1>keep DEF Crossing
<1>now. ASSUME NEW f \in Fetchers, NEW w, Now(f, w),
               w.source = "none" \/ (w.source = fetch[f].source /\ w.crossed = fetch[f].crossed)
        PROVE  Crossing'
  <2>1. \A g \in Fetchers : fetch'[g] = IF g = f THEN w ELSE fetch[g]
    BY <1>now, <1>w DEF Now
  <2> QED BY <1>now, <2>1 DEF Crossing
<1>under. ASSUME NEW f \in Fetchers, NEW s, NEW w \in Fetching, Under(f, s, w) PROVE Crossing'
  <2> DEFINE others == {g \in Fetchers \ {f} : fetch[g].source = s}
  <2>1. fetch'[f].source = s /\ (others # {} => fetch'[f].crossed)
    BY <1>under DEF Under, Fetching
  <2>2. \A g \in others : fetch'[g].source = s /\ fetch'[g].crossed
    BY <1>under, <1>w DEF Under, Fetching
  <2>3. \A g \in Fetchers : g # f /\ g \notin others => fetch'[g] = fetch[g] /\ fetch[g].source # s
    BY <1>under DEF Under
  <2>4. \A g \in Fetchers : g = f \/ g \in others \/ (g # f /\ g \notin others)
    OBVIOUS
  <2> HIDE DEF others
  <2> SUFFICES ASSUME NEW g \in Fetchers, NEW h \in Fetchers, g # h, fetch'[g].source = fetch'[h].source,
                      fetch'[g].source # "none"
               PROVE  fetch'[g].crossed
    BY DEF Crossing
  <2>5. CASE g = f
    <3>1. h \in others
      BY <2>1, <2>3, <2>4, <2>5
    <3> QED BY <2>1, <2>5, <3>1
  <2>6. CASE g \in others
    BY <2>2, <2>6
  <2>7. CASE g # f /\ g \notin others
    <3>1. h # f /\ h \notin others
      BY <2>1, <2>2, <2>3, <2>7
    <3> QED BY <2>3, <2>7, <3>1 DEF Crossing
  <2> QED BY <2>4, <2>5, <2>6, <2>7
<1>leaves. ASSUME NEW f \in Fetchers, Leaves(f) \/ Fails(f) PROVE Crossing'
  <2>1. CASE Leaves(f)
    BY <2>1, <1>now DEF Leaves, NotFetching
  <2>2. CASE Fails(f) /\ ~Leaves(f)
    <3> DEFINE w == [NotFetching EXCEPT !.pc = "ths", !.want = "auto", !.late = fetch[f].late]
    <3>1. Under(f, "ths", w) /\ fetch[f].want = "auto"
      BY <2>2 DEF Fails
    <3>2. w \in Fetching
      <4>1. fetch[f].late \in SUBSET Dates /\ "auto" \in Wants
        BY <1>w, <3>1 DEF Fetching
      <4> QED BY <4>1, NotFetchingType, NamesType DEF Fetching
    <3> HIDE DEF w
    <3> QED BY <3>1, <3>2, <1>under
  <2> QED BY <1>leaves, <2>1, <2>2
<1>1. CASE Trade \/ ListDay \/ DayPasses \/ UNCHANGED minuteVars
  BY <1>1, <1>keep DEF Trade, ListDay, DayPasses, minuteVars
<1>2. ASSUME NEW f \in Prefetches, BeginPrefetch(f) PROVE Crossing'
  <2>1. [NotFetching EXCEPT !.pc = "sync", !.want = Default, !.limit = Max(PageLimits)].source = "none"
    BY DEF NotFetching
  <2> QED BY <1>2, <1>f, <2>1, <1>now DEF BeginPrefetch
<1>3. ASSUME NEW f \in Prefetches, GiveUp(f) PROVE Crossing'
  BY <1>3, <1>keep DEF GiveUp
<1>4. ASSUME NEW f \in Prefetches, HandlerStops(f) \/ SyncFails(f) PROVE Crossing'
  <2>1. NotFetching.source = "none"
    BY DEF NotFetching
  <2> QED BY <1>4, <1>f, <2>1, <1>now DEF HandlerStops, SyncFails
<1>5. ASSUME NEW f \in Prefetches, SyncStock(f) PROVE Crossing'
  <2>1. [fetch[f] EXCEPT !.pc = "stock"].source = "none"
    BY <1>5, <1>w, <1>f DEF SyncStock, Stage, Fetching
  <2> QED BY <1>5, <1>f, <2>1, <1>now DEF SyncStock
<1>6. ASSUME NEW f \in Requests, BeginRequest(f) PROVE Crossing'
  <2>1. PICK want, limit : Now(f, [NotFetching EXCEPT !.pc = "stock", !.want = want, !.limit = limit])
    BY <1>6 DEF BeginRequest
  <2>2. [NotFetching EXCEPT !.pc = "stock", !.want = want, !.limit = limit].source = "none"
    BY DEF NotFetching
  <2> QED BY <1>f, <2>1, <2>2, <1>now
<1>7. ASSUME NEW f \in Fetchers, FetchStock(f) PROVE Crossing'
  <2> DEFINE w == fetch[f]
  <2>0. w \in Fetching
    BY <1>w
  <2>1. [w EXCEPT !.pc = "chunks", !.asked = listed, !.todo = MissingDates, !.limit = 0] \in Fetching
    BY <2>0, NamesType DEF Fetching, MissingDates, MinuteTypeOK
  <2>2. [w EXCEPT !.pc = "ths", !.limit = 0] \in Fetching /\ [w EXCEPT !.pc = "pages"] \in Fetching
    BY <2>0, NamesType DEF Fetching
  <2> QED BY <1>7, <2>1, <2>2, <1>under, <1>leaves DEF FetchStock
<1>8. ASSUME NEW f \in Fetchers, StockFails(f) \/ StockRefused(f) \/ WritePackage(f) PROVE Crossing'
  BY <1>8, <1>leaves DEF StockFails, StockRefused, WritePackage
<1>same. ASSUME NEW f \in Fetchers, NEW w, Now(f, w), w.source = fetch[f].source, w.crossed = fetch[f].crossed
         PROVE  Crossing'
  BY <1>same, <1>now
<1>9. ASSUME NEW f \in Fetchers, ReadTdxPage(f) PROVE Crossing'
  <2> DEFINE w == fetch[f]
  <2>1. \/ Fails(f)
        \/ \E all : Now(f, [w EXCEPT !.page = @ + 1, !.got = all])
        \/ \E all : Now(f, Got(w, all))
    BY <1>9 DEF ReadTdxPage
  <2>2. ASSUME NEW all
        PROVE  /\ [w EXCEPT !.page = @ + 1, !.got = all].source = w.source /\ Got(w, all).source = w.source
               /\ [w EXCEPT !.page = @ + 1, !.got = all].crossed = w.crossed /\ Got(w, all).crossed = w.crossed
    BY <1>w DEF Fetching, Got
  <2> QED BY <2>1, <2>2, <1>leaves, <1>same
<1>10. ASSUME NEW f \in Fetchers, ReadHistoryChunk(f) PROVE Crossing'
  <2> DEFINE w == fetch[f]
  <2>1. PICK todo, failed, rows :
          LET next == [w EXCEPT !.todo = todo, !.failed = failed] IN
          Now(f, IF rows = {} THEN next ELSE Got(next, rows))
    BY <1>10 DEF ReadHistoryChunk
  <2> DEFINE next == [w EXCEPT !.todo = todo, !.failed = failed]
  <2>2. /\ next.source = w.source /\ Got(next, rows).source = w.source
        /\ next.crossed = w.crossed /\ Got(next, rows).crossed = w.crossed
    BY <1>w DEF Fetching, Got
  <2> HIDE DEF next
  <2> QED BY <2>1, <2>2, <1>same DEF next
<1>11. ASSUME NEW f \in Fetchers, ReadThs(f) PROVE Crossing'
  <2> DEFINE w == fetch[f]
  <2>1. Now(f, [w EXCEPT !.pc = "merge"]) \/ \E rows : Now(f, Got(w, rows))
    BY <1>11 DEF ReadThs
  <2>2. ASSUME NEW rows
        PROVE  /\ [w EXCEPT !.pc = "merge"].source = w.source /\ Got(w, rows).source = w.source
               /\ [w EXCEPT !.pc = "merge"].crossed = w.crossed /\ Got(w, rows).crossed = w.crossed
    BY <1>w DEF Fetching, Got
  <2> QED BY <2>1, <2>2, <1>same
<1>12. ASSUME NEW f \in Fetchers, StoreDay(f) PROVE Crossing'
  <2> DEFINE w == fetch[f]
  <2>1. PICK pc, left, late : Now(f, [w EXCEPT !.pc = pc, !.left = left, !.late = late])
    BY <1>12 DEF StoreDay
  <2>2. /\ [w EXCEPT !.pc = pc, !.left = left, !.late = late].source = w.source
        /\ [w EXCEPT !.pc = pc, !.left = left, !.late = late].crossed = w.crossed
    BY <1>w DEF Fetching
  <2> QED BY <2>1, <2>2, <1>same
<1>13. ASSUME NEW f \in Fetchers, ArchiveBuckets(f) PROVE Crossing'
  <2> DEFINE w == fetch[f]
  <2>1. PICK pc : Now(f, [w EXCEPT !.pc = pc, !.got = {}])
    BY <1>13 DEF ArchiveBuckets
  <2>2. [w EXCEPT !.pc = pc, !.got = {}].source = w.source /\ [w EXCEPT !.pc = pc, !.got = {}].crossed = w.crossed
    BY <1>w DEF Fetching
  <2> QED BY <2>1, <2>2, <1>same
<1>14. ASSUME NEW f \in Fetchers, ReadPackage(f) PROVE Crossing'
  <2> DEFINE w == fetch[f]
  <2>1. Leaves(f) \/ Now(f, [w EXCEPT !.pc = "write", !.base = listed])
    BY <1>14 DEF ReadPackage
  <2>2. /\ [w EXCEPT !.pc = "write", !.base = listed].source = w.source
        /\ [w EXCEPT !.pc = "write", !.base = listed].crossed = w.crossed
    BY <1>w DEF Fetching
  <2> QED BY <2>1, <2>2, <1>same, <1>leaves
<1> QED
  BY MinuteCases, <1>1, <1>2, <1>3, <1>4, <1>5, <1>6, <1>7, <1>8, <1>9, <1>10, <1>11, <1>12, <1>13, <1>14

-----------------------------------------------------------------------------

\* Minutes of an earlier date are earlier.
LEMMA DateOrder ==
  ASSUME NEW m \in Minutes, NEW n \in Minutes, DateOf(m) < DateOf(n)
  PROVE  m < n
<1> DEFINE p == (m - 1) \div PerDay
           q == (n - 1) \div PerDay
<1>1. PerDay \in Nat /\ PerDay > 0 /\ m \in Nat /\ n \in Nat /\ m - 1 \in Nat /\ n - 1 \in Nat
  BY DateOfMinute, MinuteAssumption DEF MinuteAssumption
<1>2. p \in Nat /\ q \in Nat /\ p < q
  BY <1>1 DEF DateOf
<1>3. m - 1 < PerDay * (p + 1) /\ PerDay * q <= n - 1
  BY <1>1
<1> HIDE DEF p, q
<1>4. \A a, b, c \in Nat : a <= b => c * a <= c * b
  OBVIOUS
<1>5. PerDay * (p + 1) <= PerDay * q
  BY <1>1, <1>2, <1>4
<1>6. PerDay * (p + 1) \in Nat /\ PerDay * q \in Nat
  BY <1>1, <1>2
<1> QED BY <1>1, <1>3, <1>5, <1>6

\* A full page has every row of its window.
LEMMA FullPage ==
  ASSUME traded \in Minutes, NEW start \in Nat, Cardinality(Offers(start)) = PageRows,
         NEW m \in Minutes, traded - start - PageRows < m, m <= traded - start
  PROVE  m \in Offers(start)
<1>1. traded \in Nat /\ PageRows \in Nat /\ PageRows > 0 /\ Minutes \in SUBSET Nat /\ SourceKeeps \in Nat
  BY DateOfMinute, MinuteAssumption DEF MinuteAssumption
<1> DEFINE a == traded - start - PageRows + 1
           b == traded - start
<1>2. a \in Int /\ b \in Int /\ ~(a > b) /\ b - a + 1 = PageRows
  BY <1>1
<1>3. Offers(start) \subseteq a .. b
  BY <1>1 DEF Offers, Traded
<1>4. m \in a .. b
  BY <1>1
<1> HIDE DEF a, b
<1>5. IsFiniteSet(a .. b) /\ Cardinality(a .. b) = PageRows
  BY <1>2, FS_Interval
<1>6. Offers(start) = a .. b
  BY <1>3, <1>5, FS_Subset
<1> QED BY <1>4, <1>6

\* What was traded are minutes, the latest among them.
LEMMA TradedAreMinutes ==
  ASSUME traded \in Minutes
  PROVE  traded \in Nat /\ traded \in Traded /\ Traded = 1 .. traded /\ Traded \subseteq Minutes
<1>1. traded \in Nat \ {0}
  BY DateOfMinute
<1> QED BY <1>1, DatesAre, MinuteAssumption DEF Traded, Minutes, MinuteAssumption

\* Pages are counted off in rows.
LEMMA NextPage ==
  ASSUME NEW n \in Nat
  PROVE  PageStart(n) \in Nat /\ PageStart(n + 1) = PageStart(n) + PageRows /\ PageStart(0) = 0
<1>1. PageRows \in Nat
  BY MinuteAssumption DEF MinuteAssumption
<1>2. \A a, b \in Nat : (a + 1) * b = a * b + b /\ a * b \in Nat /\ 0 * b = 0
  OBVIOUS
<1> QED BY <1>1, <1>2 DEF PageStart

StoredOf(s, d) == buckets[s][d] \cup indexed[s][d]

\* The pages that an uncrossed thread read join: they are all minutes between a
\* and b, what was traded when it began, and nothing newer was stored since.
Join(w, a, b) ==
  /\ {m \in Minutes : a < m /\ m <= b} \subseteq w.got
  /\ \A m \in w.got : a < m
  /\ a <= traded - PageStart(w.page)
  /\ \A d \in Dates : StoredOf("tdx", d) \subseteq 1 .. b
Joined(w) ==
  /\ w.pc \in {"idle", "sync", "stock"} => w.page = 0
  /\ w.pc = "pages" /\ ~w.crossed =>
       (w.got = {} /\ w.page = 0) \/ \E a \in Int, b \in Traded : Join(w, a, b)
PagesJoin == \A f \in Fetchers : Joined(fetch[f])

\* What an uncrossed thread fetched holds all that is stored of its days, except of
\* the oldest day of tdx; and what it has stored is still there.
Safe(w) ==
  w.pc \in {"store", "archive"} /\ ~w.crossed =>
    \A d \in DatesOf(w.got) :
      /\ (w.source = "tdx" /\ d = Min(DatesOf(w.got))) \/ StoredOf(w.source, d) \subseteq w.got
      /\ d \notin w.left => buckets[w.source][d] = Bucket(w, d)
FetchedIsMore == \A f \in Fetchers : Safe(fetch[f])

\* With one more page they still do; the page is the last unless it is full.
PageFits(w, rows, a, b) ==
  /\ {m \in Traded : a < m /\ m <= b} \subseteq w.got \cup rows
  /\ \A m \in w.got \cup rows : a < m
  /\ \A d \in Dates : StoredOf("tdx", d) \subseteq 1 .. b
  /\ Cardinality(rows) = PageRows =>
       /\ {m \in Minutes : a < m /\ m <= b} \subseteq w.got \cup rows
       /\ a <= traded - PageStart(w.page + 1)

\* A page overlaps the one before it by what was traded in between, or follows it.
LEMMA PageJoins ==
  ASSUME MinuteTypeOK, NEW w, Consistent(w), w.pc = "pages", ~w.crossed, Joined(w),
         NEW rows, rows = Offers(PageStart(w.page)) \/ rows = {}
  PROVE  \E a \in Int, b \in Traded : PageFits(w, rows, a, b)
<1> DEFINE all == w.got \cup rows
<1> SUFFICES \E a \in Int, b \in Traded :
           /\ {m \in Traded : a < m /\ m <= b} \subseteq all
           /\ \A m \in all : a < m
           /\ \A d \in Dates : StoredOf("tdx", d) \subseteq 1 .. b
           /\ Cardinality(rows) = PageRows =>
                /\ {m \in Minutes : a < m /\ m <= b} \subseteq all
                /\ a <= traded - PageStart(w.page + 1)
  BY DEF PageFits
<1>t. /\ traded \in Nat /\ traded \in Minutes /\ traded \in Traded /\ PageRows \in Nat /\ PageRows > 0 /\ SourceKeeps \in Nat
      /\ Minutes \in SUBSET (Nat \ {0}) /\ Traded = 1 .. traded /\ Traded \subseteq Minutes
  BY TradedAreMinutes, DateOfMinute, MinuteAssumption DEF MinuteTypeOK, MinuteAssumption
<1>p. w.page \in Nat /\ w.got \subseteq Traded
  BY DEF Consistent, Fetching
<1> DEFINE start == PageStart(w.page)
           top == traded - start
           cut == traded - SourceKeeps
           low == top - PageRows
<1>s. start \in Nat /\ PageStart(w.page + 1) = start + PageRows /\ (w.page = 0 => start = 0)
  BY <1>p, NextPage
<1>r. rows # {} => \A m \in Traded : m \in rows <=> m > cut /\ m <= top /\ m > low
  BY DEF Offers
<1>o. rows \subseteq Traded
  BY DEF Offers
<1>n. Cardinality(rows) = PageRows => rows = Offers(start) /\ rows # {}
  BY <1>t, FS_EmptySet
<1>full. Cardinality(rows) = PageRows => \A m \in Minutes : low < m /\ m <= top => m \in rows
  BY <1>t, <1>s, <1>n, FullPage
<1>q. /\ top \in Int /\ cut \in Int /\ low \in Int /\ low < top /\ top <= traded /\ (start = 0 => top = traded)
      /\ low = traded - PageStart(w.page + 1)
  BY <1>t, <1>s
<1> HIDE DEF start, top, cut, low
<1>1. CASE w.got = {} /\ w.page = 0
  <2>1. all = rows /\ top = traded
    BY <1>1, <1>s, <1>q
  <2>2. \A d \in Dates : StoredOf("tdx", d) \subseteq 1 .. traded
    BY <1>t DEF MinuteTypeOK, StoredOf, Sources
  <2>3. CASE Cardinality(rows) = PageRows
    <3>1. {m \in Minutes : low < m /\ m <= traded} \subseteq all /\ \A m \in all : low < m
      BY <1>full, <1>o, <1>r, <1>n, <2>1, <2>3
    <3>2. {m \in Traded : low < m /\ m <= traded} \subseteq all
      BY <1>t, <3>1
    <3>3. low <= traded - PageStart(w.page + 1)
      BY <1>q
    <3> QED BY <1>q, <1>t, <2>2, <3>1, <3>2, <3>3
  <2>4. CASE rows = {}
    <3>1. {m \in Traded : traded < m /\ m <= traded} \subseteq all /\ \A m \in all : traded < m
      BY <1>t, <2>1, <2>4
    <3> QED BY <1>t, <1>n, <2>2, <2>4, <3>1
  <2>5. CASE rows # {} /\ Cardinality(rows) # PageRows
    <3>1. PICK a \in {cut, low} : a >= cut /\ a >= low
      BY <1>q
    <3>2. {m \in Traded : a < m /\ m <= traded} \subseteq all /\ \A m \in all : a < m
      <4>1. \A m \in Traded : m \in all <=> m > cut /\ m > low
        BY <1>r, <1>t, <2>1, <2>5
      <4>2. all \subseteq Traded /\ Traded \subseteq Nat /\ a \in Int
        BY <1>o, <1>q, <1>t, <2>1, <3>1
      <4> HIDE DEF all
      <4>3. \A m \in Traded : m > a <=> m > cut /\ m > low
        BY <1>q, <3>1, <4>2
      <4> QED BY <4>1, <4>2, <4>3
    <3> QED BY <1>q, <1>t, <2>2, <2>5, <3>1, <3>2
  <2> QED BY <2>3, <2>4, <2>5
<1>2. CASE \E a \in Int, b \in Traded : Join(w, a, b)
  <2>1. PICK a \in Int, b \in Traded : Join(w, a, b)
    BY <1>2
  <2>2. /\ {m \in Minutes : a < m /\ m <= b} \subseteq w.got /\ \A m \in w.got : a < m
        /\ a <= top /\ \A d \in Dates : StoredOf("tdx", d) \subseteq 1 .. b
    BY <2>1 DEF Join, top, start
  <2>3. CASE Cardinality(rows) = PageRows
    <3>1. PICK c \in {a, low} : c <= a /\ c <= low
      BY <1>q
    <3>2. \A m \in Minutes : c < m /\ m <= b => m \in all
      <4>1. \A m \in Minutes : a < m /\ m <= b => m \in w.got
        BY <2>2
      <4>2. \A m \in Minutes : m \in Nat
        BY <1>t
      <4>3. b \in Nat
        BY <1>t
      <4>4. ASSUME NEW m \in Minutes, c < m, m <= b, ~(a < m) PROVE m \in rows
        <5>1. low < m /\ m <= top
          BY <1>q, <2>2, <3>1, <4>2, <4>4
        <5> QED BY <5>1, <1>full, <2>3
      <4> QED BY <4>1, <4>4
    <3>3. \A m \in all : c < m
      <4>1. \A m \in rows : low < m /\ m \in Nat
        BY <1>r, <1>o, <1>t
      <4>2. \A m \in w.got : a < m /\ m \in Nat
        BY <1>p, <1>t, <2>2
      <4> QED BY <1>q, <3>1, <4>1, <4>2
    <3>4. c \in Int /\ c <= traded - PageStart(w.page + 1)
      BY <1>q, <3>1
    <3> QED BY <1>t, <2>2, <3>2, <3>3, <3>4
  <2>4. CASE rows = {}
    <3>1. {m \in Traded : a < m /\ m <= b} \subseteq all /\ \A m \in all : a < m
      BY <1>t, <2>2, <2>4
    <3> QED BY <1>n, <2>2, <2>4, <3>1
  <2>5. CASE rows # {} /\ Cardinality(rows) # PageRows
    <3>0. PICK e \in {cut, low} : e >= cut /\ e >= low
      BY <1>q
    <3>1. PICK c \in {a, e} : c <= a /\ c <= e
      BY <1>q, <3>0
    <3>2. \A m \in Traded : c < m /\ m <= b => m \in all
      <4>1. \A m \in Traded : a < m /\ m <= b => m \in w.got
        BY <1>t, <2>2
      <4>2. ASSUME NEW m \in Traded, c < m, m <= b, ~(a < m) PROVE m \in rows
        <5>1. m \in Nat /\ e < m /\ m <= top
          BY <1>q, <1>t, <2>2, <3>0, <3>1, <4>2
        <5>2. m > cut /\ m > low
          BY <1>q, <3>0, <5>1
        <5> QED BY <5>1, <5>2, <1>r, <2>5
      <4> QED BY <4>1, <4>2
    <3>3. \A m \in all : c < m
      <4>1. \A m \in rows : cut < m /\ low < m /\ m \in Nat
        BY <1>r, <1>o, <1>t
      <4>2. \A m \in w.got : a < m /\ m \in Nat
        BY <1>p, <1>t, <2>2
      <4> QED BY <1>q, <3>0, <3>1, <4>1, <4>2
    <3>4. c \in Int
      BY <1>q, <3>0, <3>1
    <3> QED BY <2>2, <2>5, <3>2, <3>3, <3>4
  <2> QED BY <2>3, <2>4, <2>5
<1> QED BY <1>1, <1>2 DEF Joined

\* A thread stores and archives what is of its own source.
LEMMA StoredStays ==
  ASSUME MinuteTypeOK, NEW s \in Sources, NEW f \in Fetchers, StoreDay(f) \/ ArchiveBuckets(f), fetch[f].source # s
  PROVE  buckets'[s] = buckets[s] /\ indexed'[s] = indexed[s]
<1>b. buckets \in Stores /\ indexed \in Stores
  BY DEF MinuteTypeOK
<1>1. CASE StoreDay(f)
  BY <1>1, <1>b DEF StoreDay, Stores
<1>2. CASE ArchiveBuckets(f)
  <2>1. \E index : indexed' = [indexed EXCEPT ![fetch[f].source] = index]
    BY <1>2 DEF ArchiveBuckets
  <2>2. buckets' = buckets \/ \E after : buckets' = [buckets EXCEPT ![fetch[f].source] = after]
    <3>1. \A source, old : [buckets EXCEPT ![source] = [d \in Dates |-> IF d \in old THEN {} ELSE @[d]]]
                         = [buckets EXCEPT ![source] = [d \in Dates |-> IF d \in old THEN {} ELSE buckets[source][d]]]
      BY <1>b DEF Stores
    <3> QED BY <1>2, <3>1 DEF ArchiveBuckets
  <2> QED BY <1>2, <1>b, <2>1, <2>2 DEF Stores
<1> QED BY <1>1, <1>2

\* Every step keeps both: nobody else stores or archives minutes of the source.
LEMMA UncrossedStep ==
  ASSUME MinuteTypeOK, Stages, Crossing, PagesJoin, FetchedIsMore, [MinuteNext]_minuteVars
  PROVE  PagesJoin' /\ FetchedIsMore'
<1> DEFINE Stored1(s, d) == buckets'[s][d] \cup indexed'[s][d]
           Join1(w, a, b) ==
             /\ {m \in Minutes : a < m /\ m <= b} \subseteq w.got
             /\ \A m \in w.got : a < m
             /\ a <= traded' - PageStart(w.page)
             /\ \A d \in Dates : Stored1("tdx", d) \subseteq 1 .. b
           Joined1(w) ==
             /\ w.pc \in {"idle", "sync", "stock"} => w.page = 0
             /\ w.pc = "pages" /\ ~w.crossed =>
                  (w.got = {} /\ w.page = 0) \/ \E a \in Int, b \in Traded' : Join1(w, a, b)
           Safe1(w) ==
             w.pc \in {"store", "archive"} /\ ~w.crossed =>
               \A d \in DatesOf(w.got) :
                 /\ (w.source = "tdx" /\ d = Min(DatesOf(w.got))) \/ Stored1(w.source, d) \subseteq w.got
                 /\ d \notin w.left => buckets'[w.source][d] = Bucket(w, d)
           Fine(w) == Joined1(w) /\ Safe1(w)
           Good == PagesJoin' /\ FetchedIsMore'
<1>w. fetch \in [Fetchers -> Fetching] /\ \A f \in Fetchers : fetch[f] \in Fetching /\ Stage(fetch[f]) /\ Consistent(fetch[f])
  BY ConsistentType DEF Stages, Consistent
<1>f. Prefetches \subseteq Fetchers /\ Requests \subseteq Fetchers
  BY DEF Fetchers
<1>t. traded \in Nat /\ traded' \in Nat /\ traded' >= traded /\ Traded \subseteq Traded'
  <2>1. traded' = traded \/ Trade
    BY MinuteCases DEF ListDay, DayPasses, BeginPrefetch, GiveUp, HandlerStops, SyncStock, SyncFails,
       BeginRequest, FetchStock, StockFails, StockRefused, ReadTdxPage, ReadHistoryChunk, ReadThs,
       StoreDay, ArchiveBuckets, ReadPackage, WritePackage, minuteVars
  <2> QED BY <2>1, DateOfMinute DEF Trade, Traded, MinuteTypeOK
<1>all. ASSUME \A g \in Fetchers : Fine(fetch'[g]) PROVE Good
  BY <1>all DEF PagesJoin, FetchedIsMore, Joined, Safe, Join, StoredOf, Bucket
<1>crossed. ASSUME NEW g \in Fetchers PROVE Fine([fetch[g] EXCEPT !.crossed = TRUE])
  <2>1. Joined(fetch[g])
    BY DEF PagesJoin
  <2> QED BY <2>1, <1>w DEF Fetching, Joined
<1>stays. ASSUME NEW g \in Fetchers,
                 fetch[g].source # "none" => buckets'[fetch[g].source] = buckets[fetch[g].source]
                                             /\ indexed'[fetch[g].source] = indexed[fetch[g].source]
          PROVE  Fine(fetch[g])
  <2> DEFINE w == fetch[g]
  <2>1. Joined(w) /\ Safe(w) /\ w \in Fetching /\ Stage(w)
    BY <1>w DEF PagesJoin, FetchedIsMore
  <2>2. ASSUME w.pc = "pages", NEW a \in Int, NEW b \in Traded, Join(w, a, b) PROVE Join1(w, a, b)
    <3>1. PageStart(w.page) \in Nat
      BY <2>1, NextPage DEF Fetching
    <3>2. w.source = "tdx"
      BY <2>1, <2>2 DEF Stage
    <3> QED BY <1>stays, <1>t, <2>2, <3>1, <3>2 DEF Join, StoredOf
  <2>3. Joined1(w)
    <3> HIDE DEF Join1, w
    <3> QED BY <1>t, <2>1, <2>2 DEF Joined
  <2>4. Safe1(w)
    <3>1. w.pc \in {"store", "archive"} => w.source # "none"
      BY <2>1 DEF Stage
    <3> HIDE DEF w
    <3> QED BY <1>stays, <2>1, <3>1 DEF Safe, StoredOf, w
  <2> QED BY <2>3, <2>4
<1>still. ASSUME UNCHANGED <<buckets, indexed>>, NEW g \in Fetchers PROVE Fine(fetch[g])
  <2> HIDE DEF Fine
  <2> QED BY <1>still, <1>stays
<1>beside. ASSUME NEW f \in Fetchers, StoreDay(f) \/ ArchiveBuckets(f), NEW g \in Fetchers, g # f
           PROVE  Fine(fetch[g])
  <2>0. fetch[g] \in Fetching
    BY <1>w
  <2>1. CASE fetch[g].source = fetch[f].source /\ fetch[g].source # "none"
    <3>1. fetch[g].crossed
      BY <1>beside, <2>1 DEF Crossing
    <3>2. [fetch[g] EXCEPT !.crossed = TRUE] = fetch[g]
      BY <2>0, <3>1 DEF Fetching
    <3>3. Fine([fetch[g] EXCEPT !.crossed = TRUE])
      BY <1>crossed
    <3> HIDE DEF Fine
    <3> QED BY <3>2, <3>3
  <2>2. CASE fetch[g].source # fetch[f].source \/ fetch[g].source = "none"
    <3>1. fetch[g].source # "none" => fetch[g].source \in Sources
      BY <2>0 DEF Fetching
    <3> HIDE DEF Fine
    <3> QED BY <1>beside, <2>2, <3>1, <1>stays, StoredStays
  <2> QED BY <2>1, <2>2
<1>now. ASSUME UNCHANGED <<buckets, indexed>>, NEW f \in Fetchers, NEW w, Now(f, w), Fine(w) PROVE Good
  <2>1. \A g \in Fetchers : fetch'[g] = IF g = f THEN w ELSE fetch[g]
    BY <1>now, <1>w DEF Now
  <2> HIDE DEF Fine
  <2> QED BY <1>now, <2>1, <1>still, <1>all
<1>own. ASSUME NEW f \in Fetchers, StoreDay(f) \/ ArchiveBuckets(f), NEW w, Now(f, w), Fine(w) PROVE Good
  <2>1. \A g \in Fetchers : fetch'[g] = IF g = f THEN w ELSE fetch[g]
    BY <1>own, <1>w DEF Now
  <2> HIDE DEF Fine
  <2> QED BY <1>own, <2>1, <1>beside, <1>all
<1>under. ASSUME UNCHANGED <<buckets, indexed>>, NEW f \in Fetchers, NEW s, NEW w \in Fetching, Under(f, s, w),
                 w.pc \in {"ths", "chunks", "pages"}, w.pc = "pages" => w.got = {} /\ w.page = 0
          PROVE  Good
  <2>1. ASSUME NEW g \in Fetchers PROVE Fine(fetch'[g])
    <3>1. CASE g = f
      <4>1. PICK b : fetch'[g] = [w EXCEPT !.source = s, !.crossed = b]
        BY <1>under, <3>1 DEF Under
      <4> QED BY <1>under, <4>1 DEF Fetching
    <3>2. CASE g # f
      <4>1. fetch'[g] = fetch[g] \/ fetch'[g] = [fetch[g] EXCEPT !.crossed = TRUE]
        BY <1>under, <3>2 DEF Under
      <4> HIDE DEF Fine
      <4> QED BY <4>1, <1>under, <1>still, <1>crossed
    <3> QED BY <3>1, <3>2
  <2> HIDE DEF Fine
  <2> QED BY <2>1, <1>all
<1>calm. \A w : w.pc \notin {"pages", "store", "archive"} /\ (w.pc \in {"idle", "sync", "stock"} => w.page = 0) => Fine(w)
  OBVIOUS
<1>leaves. ASSUME UNCHANGED <<buckets, indexed>>, NEW f \in Fetchers, Leaves(f) \/ Fails(f) PROVE Good
  <2>1. CASE Leaves(f)
    <3>1. NotFetching.pc = "idle" /\ NotFetching.page = 0
      BY DEF NotFetching
    <3> HIDE DEF Fine, Good
    <3> QED BY <1>leaves, <2>1, <3>1, <1>now, <1>calm DEF Leaves
  <2>2. CASE Fails(f) /\ ~Leaves(f)
    <3> DEFINE w == [NotFetching EXCEPT !.pc = "ths", !.want = "auto", !.late = fetch[f].late]
    <3>1. Under(f, "ths", w) /\ fetch[f].want = "auto"
      BY <2>2 DEF Fails
    <3>2. w \in Fetching /\ w.pc = "ths"
      <4>1. fetch[f].late \in SUBSET Dates /\ "auto" \in Wants
        BY <1>w, <3>1 DEF Fetching
      <4> QED BY <4>1, NotFetchingType, NamesType DEF Fetching
    <3> HIDE DEF w, Fine, Good
    <3> QED BY <1>leaves, <3>1, <3>2, <1>under
  <2> QED BY <1>leaves, <2>1, <2>2
<1>got. ASSUME UNCHANGED <<buckets, indexed>>, NEW f \in Fetchers, NEW w \in Fetching, NEW ms, Now(f, Got(w, ms)),
               ~w.crossed => \A d \in DatesOf(ms) :
                 (w.source = "tdx" /\ d = Min(DatesOf(ms))) \/ StoredOf(w.source, d) \subseteq ms
        PROVE  Good
  <2>1. /\ Got(w, ms).pc = "store" /\ Got(w, ms).source = w.source /\ Got(w, ms).crossed = w.crossed
        /\ Got(w, ms).got = ms /\ Got(w, ms).left = DatesOf(ms)
    BY DEF Got, Fetching
  <2>2. Joined1(Got(w, ms))
    BY <2>1
  <2>3. Safe1(Got(w, ms))
    BY <1>got, <2>1 DEF StoredOf
  <2> QED BY <1>got, <2>2, <2>3, <1>now
<1> HIDE DEF Fine, Good
<1>1. ASSUME Trade \/ ListDay \/ DayPasses \/ UNCHANGED minuteVars PROVE Good
  BY <1>1, <1>still, <1>all DEF Trade, ListDay, DayPasses, minuteVars
<1>2. ASSUME NEW f \in Prefetches, BeginPrefetch(f) PROVE Good
  <2> DEFINE w == [NotFetching EXCEPT !.pc = "sync", !.want = Default, !.limit = Max(PageLimits)]
  <2>1. w.pc = "sync" /\ w.page = 0
    BY DEF NotFetching
  <2>2. Now(f, w) /\ UNCHANGED <<buckets, indexed>>
    BY <1>2 DEF BeginPrefetch
  <2> HIDE DEF w
  <2> QED BY <1>f, <2>1, <2>2, <1>now, <1>calm
<1>3. ASSUME NEW f \in Prefetches, GiveUp(f) PROVE Good
  BY <1>3, <1>still, <1>all DEF GiveUp
<1>4. ASSUME NEW f \in Prefetches, HandlerStops(f) \/ SyncFails(f) PROVE Good
  <2>1. NotFetching.pc = "idle" /\ NotFetching.page = 0
    BY DEF NotFetching
  <2> QED BY <1>4, <1>f, <2>1, <1>now, <1>calm DEF HandlerStops, SyncFails
<1>5. ASSUME NEW f \in Prefetches, SyncStock(f) PROVE Good
  <2>1. fetch[f].page = 0
    BY <1>5, <1>f DEF SyncStock, PagesJoin, Joined
  <2>2. [fetch[f] EXCEPT !.pc = "stock"].pc = "stock" /\ [fetch[f] EXCEPT !.pc = "stock"].page = 0
    BY <2>1, <1>w, <1>f DEF Fetching
  <2> QED BY <1>5, <1>f, <2>2, <1>now, <1>calm DEF SyncStock
<1>6. ASSUME NEW f \in Requests, BeginRequest(f) PROVE Good
  <2>1. PICK want, limit : Now(f, [NotFetching EXCEPT !.pc = "stock", !.want = want, !.limit = limit])
    BY <1>6 DEF BeginRequest
  <2> DEFINE w == [NotFetching EXCEPT !.pc = "stock", !.want = want, !.limit = limit]
  <2>2. w.pc = "stock" /\ w.page = 0
    BY DEF NotFetching
  <2>3. UNCHANGED <<buckets, indexed>> /\ Now(f, w)
    BY <1>6, <2>1 DEF BeginRequest
  <2> HIDE DEF w
  <2> QED BY <1>f, <2>2, <2>3, <1>now, <1>calm
<1>7. ASSUME NEW f \in Fetchers, FetchStock(f) PROVE Good
  <2> DEFINE w == fetch[f]
             h == [w EXCEPT !.pc = "chunks", !.asked = listed, !.todo = MissingDates, !.limit = 0]
  <2>0. w \in Fetching /\ w.pc = "stock" /\ w.page = 0 /\ w.got = {} /\ UNCHANGED <<buckets, indexed>>
    BY <1>7, <1>w DEF FetchStock, Stage, PagesJoin, Joined
  <2>1. h \in Fetching /\ h.pc = "chunks"
    BY <2>0, NamesType DEF Fetching, MissingDates, MinuteTypeOK
  <2>2. [w EXCEPT !.pc = "ths", !.limit = 0] \in Fetching /\ [w EXCEPT !.pc = "ths", !.limit = 0].pc = "ths"
    BY <2>0, NamesType DEF Fetching
  <2>3. /\ [w EXCEPT !.pc = "pages"] \in Fetching /\ [w EXCEPT !.pc = "pages"].pc = "pages"
        /\ [w EXCEPT !.pc = "pages"].got = {} /\ [w EXCEPT !.pc = "pages"].page = 0
    BY <2>0, NamesType DEF Fetching
  <2>4. \/ Leaves(f) \/ Under(f, "history", h) \/ Under(f, "ths", [w EXCEPT !.pc = "ths", !.limit = 0])
        \/ Under(f, "tdx", [w EXCEPT !.pc = "pages"])
    BY <1>7 DEF FetchStock
  <2>5. CASE Under(f, "history", h)
    <3> HIDE DEF h
    <3> QED BY <2>0, <2>1, <2>5, <1>under
  <2>6. CASE Under(f, "ths", [w EXCEPT !.pc = "ths", !.limit = 0])
    BY <2>0, <2>2, <2>6, <1>under
  <2>7. CASE Under(f, "tdx", [w EXCEPT !.pc = "pages"])
    BY <2>0, <2>3, <2>7, <1>under
  <2> QED BY <2>0, <2>4, <2>5, <2>6, <2>7, <1>leaves
<1>8. ASSUME NEW f \in Fetchers, StockFails(f) \/ StockRefused(f) \/ WritePackage(f) PROVE Good
  BY <1>8, <1>leaves DEF StockFails, StockRefused, WritePackage
<1>9. ASSUME NEW f \in Fetchers, ReadTdxPage(f) PROVE Good
  <2> DEFINE w == fetch[f]
  <2>0. /\ w \in Fetching /\ Stage(w) /\ Consistent(w) /\ w.pc = "pages" /\ w.source = "tdx" /\ Joined(w) /\ traded \in Minutes
        /\ UNCHANGED <<buckets, indexed, traded>>
    BY <1>9, <1>w DEF ReadTdxPage, Stage, PagesJoin, MinuteTypeOK
  <2>1. PICK answered \in BOOLEAN :
          LET rows == IF answered THEN Offers(PageStart(w.page)) ELSE {}
              all  == w.got \cup rows
              more == Cardinality(rows) = PageRows /\ w.page + 1 < w.limit IN
          IF all = {} THEN Fails(f)
          ELSE Now(f, IF more THEN [w EXCEPT !.page = @ + 1, !.got = all] ELSE Got(w, all))
    BY <1>9 DEF ReadTdxPage
  <2> DEFINE rows == IF answered THEN Offers(PageStart(w.page)) ELSE {}
             all  == w.got \cup rows
             next == [w EXCEPT !.page = @ + 1, !.got = all]
  <2>2. rows = Offers(PageStart(w.page)) \/ rows = {}
    OBVIOUS
  <2>3. next.pc = "pages" /\ next.got = all /\ next.page = w.page + 1 /\ next.crossed = w.crossed /\ all \subseteq Minutes
    <3>1. all \subseteq Minutes
      BY <2>0, TradedAreMinutes DEF Consistent, Offers
    <3> HIDE DEF all
    <3> QED BY <2>0, <3>1 DEF Fetching
  <2> HIDE DEF rows
  <2>4. ~w.crossed => \E a \in Int, b \in Traded : PageFits(w, rows, a, b)
    <3> HIDE DEF w
    <3> QED BY <2>0, <2>2, PageJoins
  <2> HIDE DEF all, next
  <2>5. CASE Now(f, next) /\ Cardinality(rows) = PageRows
    <3>1. Fine(next)
      <4>1. CASE w.crossed
        BY <2>3, <4>1 DEF Fine
      <4>2. CASE ~w.crossed
        <5>1. PICK a \in Int, b \in Traded :
                /\ {m \in Minutes : a < m /\ m <= b} \subseteq all /\ \A m \in all : a < m
                /\ \A d \in Dates : StoredOf("tdx", d) \subseteq 1 .. b
                /\ a <= traded - PageStart(w.page + 1)
          BY <2>4, <2>5, <4>2 DEF PageFits, all
        <5>2. Join1(next, a, b) /\ b \in Traded'
          BY <2>0, <2>3, <5>1, <1>t DEF StoredOf
        <5> HIDE DEF Join1
        <5> QED BY <2>3, <5>2 DEF Fine
      <4> QED BY <4>1, <4>2, <2>0 DEF Fetching
    <3> QED BY <2>0, <2>5, <3>1, <1>now
  <2>6. CASE Now(f, Got(w, all))
    <3>1. ASSUME ~w.crossed, NEW d \in DatesOf(all), d # Min(DatesOf(all)) PROVE StoredOf("tdx", d) \subseteq all
      <4>1. PICK a \in Int, b \in Traded :
              /\ {m \in Traded : a < m /\ m <= b} \subseteq all /\ \A m \in all : a < m
              /\ \A e \in Dates : StoredOf("tdx", e) \subseteq 1 .. b
        BY <2>4, <3>1 DEF PageFits, all
      <4>2. DatesOf(all) \in SUBSET Dates
        BY <2>3, DateOfMinute DEF DatesOf
      <4>3. Min(DatesOf(all)) \in DatesOf(all) /\ Min(DatesOf(all)) < d /\ d \in Dates
        <5>1. DatesOf(all) \in SUBSET Nat /\ DatesOf(all) # {}
          BY <4>2, DatesAre, <3>1
        <5>2. Min(DatesOf(all)) \in DatesOf(all) /\ Min(DatesOf(all)) <= d
          BY <5>1, MinIsLeast
        <5> HIDE DEF w
        <5> QED BY <3>1, <4>2, <5>1, <5>2
      <4>4. PICK n \in all : DateOf(n) = Min(DatesOf(all))
        BY <4>3 DEF DatesOf
      <4>5. ASSUME NEW m \in StoredOf("tdx", d) PROVE m \in all
        <5>1. m \in Traded /\ m \in Minutes /\ DateOf(m) = d
          BY <4>3 DEF StoredOf, MinuteTypeOK, Sources, MinutesOf
        <5>2. n \in Minutes /\ n < m
          BY <2>3, <4>3, <4>4, <5>1, DateOrder
        <5>3. m \in 1 .. b
          BY <4>1, <4>3
        <5>4. a < n /\ n \in Nat /\ m \in Nat
          BY <4>1, <5>1, <5>2, DateOfMinute
        <5> QED BY <4>1, <5>1, <5>2, <5>3, <5>4
      <4> QED BY <4>5
    <3> QED BY <2>0, <2>6, <3>1, <1>got
  <2>7. Fails(f) \/ (Now(f, next) /\ Cardinality(rows) = PageRows) \/ Now(f, Got(w, all))
    BY <2>1 DEF rows, all, next
  <2> QED BY <2>0, <2>5, <2>6, <2>7, <1>leaves
<1>10. ASSUME NEW f \in Fetchers, ReadHistoryChunk(f) PROVE Good
  <2> DEFINE w == fetch[f]
  <2>0. w \in Fetching /\ w.pc = "chunks" /\ w.source = "history" /\ UNCHANGED <<buckets, indexed>>
    BY <1>10, <1>w DEF ReadHistoryChunk, Stage
  <2>1. PICK answered \in SUBSET NextChunk(w.todo) :
          LET rows == (UNION {MinutesOf(d) : d \in answered}) \cap Traded
              next == [w EXCEPT !.todo = @ \ NextChunk(w.todo),
                                !.failed = @ \cup (NextChunk(w.todo) \ answered)] IN
          Now(f, IF rows = {} THEN next ELSE Got(next, rows))
    BY <1>10 DEF ReadHistoryChunk
  <2> DEFINE rows == (UNION {MinutesOf(d) : d \in answered}) \cap Traded
             next == [w EXCEPT !.todo = @ \ NextChunk(w.todo),
                               !.failed = @ \cup (NextChunk(w.todo) \ answered)]
  <2>2. next \in Fetching /\ next.source = "history" /\ next.pc = "chunks"
    <3>1. NextChunk(w.todo) \subseteq w.todo
      BY DEF NextChunk
    <3> QED BY <2>0, <3>1 DEF Fetching
  <2>3. \A d \in DatesOf(rows) : StoredOf("history", d) \subseteq rows
    <3>1. answered \subseteq Dates
      BY <2>0 DEF Fetching, NextChunk
    <3>2. \A d \in DatesOf(rows) : d \in answered
      BY DEF DatesOf, MinutesOf
    <3>3. \A d \in answered : StoredOf("history", d) \subseteq MinutesOf(d) \cap Traded
      BY <3>1 DEF StoredOf, MinuteTypeOK, Sources
    <3> QED BY <3>2, <3>3
  <2> HIDE DEF rows, next
  <2> QED BY <2>0, <2>1, <2>2, <2>3, <1>now, <1>calm, <1>got DEF rows, next
<1>11. ASSUME NEW f \in Fetchers, ReadThs(f) PROVE Good
  <2> DEFINE w == fetch[f]
             rows == MinutesOf(DateOf(traded)) \cap Traded
  <2>0. w \in Fetching /\ w.pc = "ths" /\ w.source = "ths" /\ UNCHANGED <<buckets, indexed>>
    BY <1>11, <1>w DEF ReadThs, Stage
  <2>1. Now(f, [w EXCEPT !.pc = "merge"]) \/ Now(f, Got(w, rows))
    BY <1>11 DEF ReadThs
  <2>2. [w EXCEPT !.pc = "merge"].pc = "merge"
    BY <2>0 DEF Fetching
  <2>3. \A d \in DatesOf(rows) : StoredOf("ths", d) \subseteq rows
    <3>1. DateOf(traded) \in Dates
      BY DateOfMinute DEF MinuteTypeOK
    <3>2. \A d \in DatesOf(rows) : d = DateOf(traded)
      BY DEF DatesOf, MinutesOf
    <3> QED BY <3>1, <3>2 DEF StoredOf, MinuteTypeOK, Sources
  <2> HIDE DEF rows
  <2> QED BY <2>0, <2>1, <2>2, <2>3, <1>now, <1>calm, <1>got
<1>12. ASSUME NEW f \in Fetchers, StoreDay(f) PROVE Good
  <2> DEFINE w == fetch[f]
             e == Min(w.left)
             v == [w EXCEPT !.pc = IF w.left = {e} THEN "archive" ELSE "store", !.left = @ \ {e},
                            !.late = IF f \in givenUp THEN @ \cup {e} ELSE @]
  <2>0. w \in Fetching /\ w.pc = "store" /\ w.source \in Sources /\ Safe(w)
    BY <1>12, <1>w DEF StoreDay, Stage, Fetching, FetchedIsMore
  <2>1. Now(f, v) /\ buckets' = [buckets EXCEPT ![w.source][e] = Bucket(w, e)] /\ indexed' = indexed
    BY <1>12 DEF StoreDay
  <2>2. v.pc \in {"store", "archive"} /\ v.source = w.source /\ v.got = w.got /\ v.left = w.left \ {e} /\ v.crossed = w.crossed
    BY <2>0 DEF Fetching
  <2>3. \A d \in DatesOf(w.got) : buckets'[w.source][d] = IF d = e THEN Bucket(w, e) ELSE buckets[w.source][d]
    <3>1. DatesOf(w.got) \subseteq Dates
      BY <2>0, DateOfMinute DEF DatesOf, Fetching
    <3> HIDE DEF w, e
    <3> QED BY <2>0, <2>1, <3>1 DEF MinuteTypeOK, Stores
  <2>4. \A d : Bucket(v, d) = Bucket(w, d) /\ Bucket(w, d) \subseteq w.got
    BY <2>2 DEF Bucket
  <2> HIDE DEF v, w, e
  <2>5. Fine(v)
    <3>1. Joined1(v)
      BY <2>2
    <3>2. Safe1(v)
      BY <2>0, <2>1, <2>2, <2>3, <2>4 DEF Safe, StoredOf
    <3> QED BY <3>1, <3>2 DEF Fine
  <2> QED BY <1>12, <2>1, <2>5, <1>own
<1>13. ASSUME NEW f \in Fetchers, ArchiveBuckets(f) PROVE Good
  <2> DEFINE w == fetch[f]
             v == [w EXCEPT !.pc = IF w.source = "history" THEN "chunks" ELSE "merge", !.got = {}]
  <2>1. Now(f, v)
    BY <1>13 DEF ArchiveBuckets
  <2>2. v.pc \in {"chunks", "merge"}
    BY <1>w DEF Fetching
  <2> HIDE DEF v
  <2> QED BY <1>13, <2>1, <2>2, <1>own, <1>calm
<1>14. ASSUME NEW f \in Fetchers, ReadPackage(f) PROVE Good
  <2> DEFINE w == fetch[f]
             v == [w EXCEPT !.pc = "write", !.base = listed]
  <2>1. (Leaves(f) \/ Now(f, v)) /\ UNCHANGED <<buckets, indexed>>
    BY <1>14 DEF ReadPackage
  <2>2. v.pc = "write"
    BY <1>w DEF Fetching
  <2> HIDE DEF v
  <2> QED BY <2>1, <2>2, <1>now, <1>calm, <1>leaves
<1>15. Good
  BY MinuteCases, <1>1, <1>2, <1>3, <1>4, <1>5, <1>6, <1>7, <1>8, <1>9, <1>10, <1>11, <1>12, <1>13, <1>14
<1> QED BY <1>15 DEF Good

\* What is lost of a day: only by a crossed thread, of the oldest day of a tdx fetch, or
\* of a day whose bucket went with an older archive of it.
CutStep == \A s \in Sources, d \in Dates :
  LET before == buckets[s][d] \cup indexed[s][d]
      after  == (buckets[s][d] \cup indexed[s][d])' IN
  before \subseteq after
    \/ \E f \in Fetchers :
         /\ fetch'[f] # fetch[f] /\ fetch[f].source = s
         /\ \/ fetch[f].crossed
            \/ s = "tdx" /\ d = Min(DatesOf(fetch[f].got))
            \/ fetch[f].pc = "archive" /\ d \notin DatesOf(fetch[f].got)
               /\ indexed[s][d] # {} /\ after = indexed[s][d]

\* From these a step loses no more.
LEMMA CutCorrect ==
  ASSUME MinuteTypeOK, Stages, FetchedIsMore, [MinuteNext]_minuteVars
  PROVE  CutStep
<1>w. fetch \in [Fetchers -> Fetching] /\ \A f \in Fetchers : fetch[f] \in Fetching /\ Stage(fetch[f]) /\ Consistent(fetch[f])
  BY ConsistentType DEF Stages, Consistent
<1>b. buckets \in Stores /\ indexed \in Stores
  BY DEF MinuteTypeOK
<1> SUFFICES ASSUME NEW s \in Sources, NEW d \in Dates,
                    NEW x \in StoredOf(s, d), x \notin buckets'[s][d] \cup indexed'[s][d]
             PROVE  \E f \in Fetchers :
                      /\ fetch'[f] # fetch[f] /\ fetch[f].source = s
                      /\ \/ fetch[f].crossed
                         \/ s = "tdx" /\ d = Min(DatesOf(fetch[f].got))
                         \/ fetch[f].pc = "archive" /\ d \notin DatesOf(fetch[f].got)
                            /\ indexed[s][d] # {} /\ buckets'[s][d] \cup indexed'[s][d] = indexed[s][d]
  BY DEF CutStep, StoredOf
<1>1. \E f \in Fetchers : StoreDay(f) \/ ArchiveBuckets(f)
  <2>1. \/ UNCHANGED <<buckets, indexed>>
        \/ \E f \in Fetchers : StoreDay(f) \/ ArchiveBuckets(f)
    BY MinuteCases DEF Trade, ListDay, DayPasses, BeginPrefetch, GiveUp, HandlerStops, SyncStock, SyncFails,
       BeginRequest, FetchStock, StockFails, StockRefused, ReadTdxPage, ReadHistoryChunk, ReadThs,
       ReadPackage, WritePackage, minuteVars
  <2> QED BY <2>1 DEF StoredOf
<1>2. PICK f \in Fetchers : StoreDay(f) \/ ArchiveBuckets(f)
  BY <1>1
<1> DEFINE w == fetch[f]
<1>3. w.source = s /\ w \in Fetching /\ Stage(w) /\ Safe(w)
  BY <1>2, <1>w, StoredStays DEF StoredOf, FetchedIsMore
<1>4. CASE StoreDay(f)
  <2> DEFINE e == Min(w.left)
  <2>1. /\ w.pc = "store" /\ indexed' = indexed
        /\ buckets' = [buckets EXCEPT ![s][e] = Bucket(w, e)]
    BY <1>3, <1>4 DEF StoreDay
  <2>2. e \in w.left /\ w.left \subseteq DatesOf(w.got)
    <3>1. w.left \in SUBSET Nat /\ w.left # {} /\ w.left \subseteq DatesOf(w.got)
      BY <1>3, <1>w, <2>1, DatesAre DEF Fetching, Stage, Consistent
    <3> QED BY <3>1, MinIsLeast
  <2>3. fetch'[f] # fetch[f]
    <3>1. fetch'[f].left = w.left \ {e}
      BY <1>4, <1>w DEF StoreDay, Now, Fetching
    <3> HIDE DEF e
    <3> QED BY <2>2, <3>1
  <2>4. d = e
    BY <1>b, <2>1 DEF Stores, StoredOf
  <2>5. x \in MinutesOf(d) /\ buckets'[s][d] = Bucket(w, d)
    BY <1>b, <2>1, <2>4 DEF MinuteTypeOK, StoredOf, Stores
  <2>6. CASE ~w.crossed
    <3>1. (s = "tdx" /\ d = Min(DatesOf(w.got))) \/ StoredOf(s, d) \subseteq w.got
      BY <1>3, <2>1, <2>2, <2>4, <2>6 DEF Safe
    <3>2. s = "tdx" /\ d = Min(DatesOf(w.got))
      <4> HIDE DEF w
      <4> QED BY <2>5, <3>1 DEF Bucket
    <3> QED BY <1>3, <2>3, <3>2
  <2> QED BY <1>3, <2>3, <2>6
<1>5. CASE ArchiveBuckets(f)
  <2>1. PICK index, after \in [Dates -> SUBSET Minutes] :
          /\ indexed' = [indexed EXCEPT ![s] = index]
          /\ buckets' = [buckets EXCEPT ![s] = after]
          /\ Archived(s, DatesOf(w.got), index, after, d)
    BY <1>3, <1>5, ArchiveEffect
  <2>2. buckets'[s] = after /\ indexed'[s] = index
    BY <1>b, <2>1 DEF Stores
  <2>3. fetch'[f] # fetch[f] /\ w.pc = "archive" /\ w.left = {}
    <3>1. fetch'[f].got = {} /\ w.pc = "archive"
      BY <1>5, <1>w DEF ArchiveBuckets, Now, Fetching
    <3> QED BY <1>3, <3>1 DEF Stage
  <2>4. CASE ~w.crossed /\ d \in DatesOf(w.got)
    <3>1. /\ (s = "tdx" /\ d = Min(DatesOf(w.got))) \/ StoredOf(s, d) \subseteq w.got
          /\ buckets[s][d] = Bucket(w, d)
      BY <1>3, <2>3, <2>4 DEF Safe
    <3>2. x \in w.got => x \in buckets[s][d]
      <4>1. x \in MinutesOf(d)
        BY DEF MinuteTypeOK, StoredOf
      <4> HIDE DEF w
      <4> QED BY <3>1, <4>1 DEF Bucket
    <3>3. x \notin w.got
      <4> HIDE DEF w
      <4> QED BY <2>1, <2>2, <2>4, <3>2 DEF Archived
    <3> QED BY <1>3, <2>3, <3>1, <3>3
  <2>5. CASE ~w.crossed /\ d \notin DatesOf(w.got)
    <3>1. index[d] = indexed[s][d]
      BY <2>1, <2>5 DEF Archived
    <3>2. after[d] = {} /\ index[d] # {}
      BY <2>1, <2>2, <3>1 DEF Archived, StoredOf
    <3> QED BY <1>3, <2>2, <2>3, <2>5, <3>1, <3>2
  <2> QED BY <1>3, <2>3, <2>4, <2>5
<1> QED BY <1>2, <1>4, <1>5

-----------------------------------------------------------------------------

\* The inductive invariant.
MinuteIInv ==
  /\ MinuteTypeOK /\ Stages /\ LateIsChunk
  /\ ListedAreOver /\ WholeOrNothing /\ GotIsWhole /\ FetchedIsWhole
  /\ Crossing /\ PagesJoin /\ FetchedIsMore

\* It holds at first,
LEMMA MinuteStarts == MinuteInit => MinuteIInv
<1> SUFFICES ASSUME MinuteInit PROVE MinuteIInv
  OBVIOUS
<1>1. \A f \in Fetchers : fetch[f] = NotFetching
  BY DEF MinuteInit
<1>2. \A s \in Sources, d \in Dates : buckets[s][d] = {} /\ indexed[s][d] = {}
  BY DEF MinuteInit
<1>3. MinuteTypeOK
  <2>1. traded \in Minutes
    BY FirstMinutes DEF MinuteInit
  <2>2. buckets \in Stores /\ indexed \in Stores
    BY DEF MinuteInit, Stores
  <2>3. fetch \in [Fetchers -> Fetching] /\ \A f \in Fetchers : Consistent(fetch[f])
    <3>1. fetch \in [Fetchers -> Fetching]
      BY NotFetchingType DEF MinuteInit
    <3> QED BY <1>1, <3>1, IdleIsConsistent
  <2>4. 0 \in 0 .. MaxFetches /\ 0 \in 0 .. MaxTroubles
    BY MinuteAssumption DEF MinuteAssumption
  <2>5. listed \subseteq Dates /\ aged \in BOOLEAN
    BY DEF MinuteInit, Over
  <2> QED BY <1>2, <2>1, <2>2, <2>3, <2>4, <2>5, ConsistentType DEF MinuteInit
<1>4. Stages
  BY <1>1 DEF Stages, Stage, NotFetching
<1>5. LateIsChunk
  BY <1>1 DEF LateIsChunk, Late, NotFetching, Fetchers
<1>6. ListedAreOver
  BY <1>1 DEF ListedAreOver, NotFetching, MinuteInit
<1>7. WholeOrNothing
  BY <1>2 DEF WholeOrNothing, Sources
<1>8. GotIsWhole /\ FetchedIsWhole
  BY <1>1 DEF GotIsWhole, FetchedIsWhole, NotFetching
<1>9. Crossing /\ PagesJoin /\ FetchedIsMore
  BY <1>1 DEF Crossing, PagesJoin, Joined, FetchedIsMore, Safe, NotFetching
<1> QED BY <1>3, <1>4, <1>5, <1>6, <1>7, <1>8, <1>9 DEF MinuteIInv

\* every step keeps it,
LEMMA MinuteStep == MinuteIInv /\ [MinuteNext]_minuteVars => MinuteIInv'
BY StagesStep, MinuteTypeStep, LateStep, OverStep, HistoryStep, CrossingStep, UncrossedStep DEF MinuteIInv

\* and it says what the runs check.
LEMMA MinuteIInvImplies == MinuteIInv => MinuteTypeOK /\ GivenUpStopsSoon /\ CleanHistoryIsWhole
<1> SUFFICES ASSUME MinuteIInv PROVE GivenUpStopsSoon /\ CleanHistoryIsWhole
  BY DEF MinuteIInv
<1>1. GivenUpStopsSoon
  BY DEF MinuteIInv, LateIsChunk, Late, GivenUpStopsSoon
<1>2. ASSUME NEW f \in Fetchers, fetch[f].source = "history", fetch[f].pc = "write", fetch[f].failed = {},
             NEW d \in fetch[f].asked \ hasty
      PROVE  Whole(d)
  <2>1. fetch[f].todo = {} /\ fetch[f].left = {}
    BY <1>2 DEF MinuteIInv, Stages, Stage
  <2> QED BY <1>2, <2>1 DEF MinuteIInv, FetchedIsWhole
<1> QED BY <1>1, <1>2 DEF CleanHistoryIsWhole, Whole

\* Every behaviour of the fetches keeps the inductive invariant.
THEOREM MinuteInvCorrect == MinuteSpec => []MinuteIInv
<1>1. MinuteInit => MinuteIInv
  BY MinuteStarts
<1>2. MinuteIInv /\ [MinuteNext]_minuteVars => MinuteIInv'
  BY MinuteStep
<1> QED BY <1>1, <1>2, PTL DEF MinuteSpec

\* Threads, days and stored minutes stay of their types, a bucket or an archive holds
\* minutes of its day that have been traded, and a thread stores what it was given.
THEOREM MinuteTypeCorrect == MinuteSpec => []MinuteTypeOK
BY MinuteInvCorrect, MinuteIInvImplies, PTL

\* A prefetch that the queue gave up (web.py, IdleStockPrefetchScheduler) stores no more than
\* the chunk of fetch_pytdx_history_minutes that it was at, though nothing stops its thread.
THEOREM GivenUpCorrect == MinuteSpec => []GivenUpStopsSoon
BY MinuteInvCorrect, MinuteIInvImplies, PTL

\* A history fetch without a failed day leaves every day it was asked for stored or archived
\* whole, for any number of threads, dates, chunks and archived days that stay hot.
THEOREM HistoryCorrect == MinuteSpec => []CleanHistoryIsWhole
BY MinuteInvCorrect, MinuteIInvImplies, PTL

\* No step loses minutes of a day but in the three ways that OnlyOldestIsCut names: pages
\* that join (fetch_tdx_minute_bars) may be replaced, crossed fetches may not be trusted.
THEOREM CutIsOldestOnly == MinuteSpec => OnlyOldestIsCut
<1>1. MinuteIInv /\ [MinuteNext]_minuteVars => [CutStep]_minuteVars
  BY CutCorrect DEF MinuteIInv
<1> QED BY <1>1, MinuteInvCorrect, PTL DEF MinuteSpec, OnlyOldestIsCut, CutStep
=============================================================================
