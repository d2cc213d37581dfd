----------------------------- MODULE MinuteCold -----------------------------
(***************************************************************************)
(* Minute bars between hot and cold storage, for one stock, one year and   *)
(* one data source (stock_pipeline/minute_cold_storage.py, with its callers *)
(* in ths_minute.py and cli.py).                                           *)
(*                                                                         *)
(* A day's bars are first a bucket in MongoDB.  Writing a bucket archives   *)
(* it as a day object on the network disk and records it in the day index;  *)
(* then all buckets but those of the newest archived days are removed.      *)
(* Commands export buckets into the one object of the year, which they      *)
(* overwrite, and point the index at it.  A reader goes from the index to a *)
(* local cache, and to the network disk when the cached file has another    *)
(* digest than the index says.                                             *)
(*                                                                         *)
(* These run in different processes (web service, worker, command line)     *)
(* with nothing in common but MongoDB and the disks; a step is one call of  *)
(* those.  A file is what it holds of each day, and stands for its own      *)
(* digest.  Uploading on write is on, as it is unless configured otherwise. *)
(***************************************************************************)
EXTENDS Naturals, FiniteSets

CONSTANTS
  Days,          \* trading days: positive numbers in their order
  MonthOf,       \* the month of each day
  HotDays,       \* hot_days: archived days whose buckets are kept
  Readers,       \* threads and commands that read cold days
  MaxFetches,    \* bound: fetches of a day
  MaxExports,    \* bound: exports begun
  MaxIncidents   \* bound: failed or killed transfers, partial exports, and
                 \* uploads of the same day from another source

ASSUME ColdAssumption ==
  /\ Days \subseteq Nat \ {0} /\ IsFiniteSet(Days)
  /\ MonthOf \in [Days -> Nat]
  /\ HotDays \in Nat
  /\ MaxFetches \in Nat /\ MaxExports \in Nat /\ MaxIncidents \in Nat

VARIABLES
  bucket,     \* minute_day_buckets: the rows of each day in MongoDB
  index,      \* stock_minute_day_index: where each day is archived
  remote,     \* the network disk
  cache,      \* the local cache of downloaded objects
  month,      \* the current month
  writer,     \* the process that fetches bars and archives them
  exporter,   \* the command that writes the year's object
  cleaner,    \* the command cleanup-archived --execute
  reader,     \* readers of cold days
  fetches, exports, incidents   \* counters of the bounds

vars == <<bucket, index, remote, cache, month, writer, exporter, cleaner, reader,
          fetches, exports, incidents>>

-----------------------------------------------------------------------------
(* Files, objects, the index *)

Rows == {"none", "partial", "full"}

\* What a file holds of each day; rows of another source, and what a transfer
\* that broke off left of a file, are "foreign".
File   == [Days -> Rows \cup {"foreign"}]
NoFile == [d \in Days |-> "none"]

Foreign(f) == [d \in Days |-> IF f[d] = "none" THEN "none" ELSE "foreign"]

\* The file with the rows b[d] of the days in ds.
FileOf(b, ds) == [d \in Days |-> IF d \in ds THEN b[d] ELSE "none"]

\* A day object is found under its date, which says nothing of the source;
\* there is one object for the year.
YearObject == 0
Path       == Days \cup {YearObject}

Doc   == [object : {"none", "day", "year"}, digest : File]
NoDoc == [object |-> "none", digest |-> NoFile]

PathOf(doc, d) == IF doc.object = "year" THEN YearObject ELSE d

Hot      == {d \in Days : bucket[d] # "none"}
Archived == {d \in Days : index[d].object # "none"}

Months == {MonthOf[d] : d \in Days}

-----------------------------------------------------------------------------

Archiver == [pc : {"idle", "archive", "upload", "index", "cleanup", "delete"},
             day : Path, file : File, old : SUBSET Days]
Exporter == [pc : {"idle", "upload", "index"}, file : File, todo : SUBSET Days]
Cleaner  == [pc : {"idle", "delete"}, old : SUBSET Days]
Reader   == [pc : {"idle", "check", "download", "verify", "open", "done"},
             day : Path, doc : Doc, rows : Rows \cup {"foreign"}]

NotArchiving == [pc |-> "idle", day |-> 0, file |-> NoFile, old |-> {}]
NotExporting == [pc |-> "idle", file |-> NoFile, todo |-> {}]
NotCleaning  == [pc |-> "idle", old |-> {}]
NotReading   == [pc |-> "idle", day |-> 0, doc |-> NoDoc, rows |-> "none"]

\* Types; and an index entry is never about an object without its day.
ColdTypeOK ==
  /\ bucket \in [Days -> Rows]
  /\ index \in [Days -> Doc]
  /\ \A d \in Days : index[d].object # "none" => index[d].digest[d] # "none"
  /\ remote \in [Path -> File]
  /\ cache \in [Path -> File]
  /\ month \in Nat
  /\ writer \in Archiver
  /\ exporter \in Exporter
  /\ cleaner \in Cleaner
  /\ reader \in [Readers -> Reader]
  /\ fetches \in 0 .. MaxFetches
  /\ exports \in 0 .. MaxExports
  /\ incidents \in 0 .. MaxIncidents

Init ==
  /\ bucket = NoFile
  /\ index = [d \in Days |-> NoDoc]
  /\ remote = [p \in Path |-> NoFile]
  /\ cache = [p \in Path |-> NoFile]
  /\ month \in Months
  /\ writer = NotArchiving
  /\ exporter = NotExporting
  /\ cleaner = NotCleaning
  /\ reader = [r \in Readers |-> NotReading]
  /\ fetches = 0 /\ exports = 0 /\ incidents = 0

NextMonth ==
  /\ \E m \in Months : m >= month
  /\ month' = month + 1
  /\ UNCHANGED <<bucket, index, remote, cache, writer, exporter, cleaner, reader,
                 fetches, exports, incidents>>

Incident ==
  /\ incidents < MaxIncidents
  /\ incidents' = incidents + 1

-----------------------------------------------------------------------------
(* Fetching, and archiving what was fetched *)

ByOthers == <<month, exporter, cleaner, reader, exports>>

\* The bars of a day are written over those it had.
FetchDay(d, rows) ==
  /\ writer.pc = "idle"
  /\ MonthOf[d] <= month
  /\ fetches < MaxFetches
  /\ fetches' = fetches + 1
  /\ bucket' = [bucket EXCEPT ![d] = rows]
  /\ writer' = [NotArchiving EXCEPT !.pc = "archive", !.day = d]
  /\ UNCHANGED <<index, remote, cache, incidents>> /\ UNCHANGED ByOthers

\* archive_buckets finds the bucket again and writes a day file from it; if
\* another cleanup removed the bucket in between there is nothing to archive.
WriteDayFile ==
  /\ writer.pc = "archive"
  /\ writer' = IF writer.day \in Hot
               THEN [writer EXCEPT !.pc = "upload", !.file = FileOf(bucket, {writer.day})]
               ELSE NotArchiving
  /\ UNCHANGED <<bucket, index, remote, cache, fetches, incidents>> /\ UNCHANGED ByOthers

UploadDay ==
  /\ writer.pc = "upload"
  /\ remote' = [remote EXCEPT ![writer.day] = writer.file]
  /\ writer' = [writer EXCEPT !.pc = "index"]
  /\ UNCHANGED <<bucket, index, cache, fetches, incidents>> /\ UNCHANGED ByOthers

IndexDay ==
  /\ writer.pc = "index"
  /\ index' = [index EXCEPT ![writer.day] = [object |-> "day", digest |-> writer.file]]
  /\ writer' = [NotArchiving EXCEPT !.pc = "cleanup"]
  /\ UNCHANGED <<bucket, remote, cache, fetches, incidents>> /\ UNCHANGED ByOthers

\* The upload fails, or the process ends at any point.
ArchivingStops ==
  /\ writer.pc # "idle"
  /\ Incident
  /\ writer' = NotArchiving
  /\ UNCHANGED <<bucket, index, remote, cache, fetches>> /\ UNCHANGED ByOthers

\* Mutant: one day too few is kept.
OutdatedEarly ==
  {d \in Archived : Cardinality({e \in Archived : e >= d}) >= HotDays}

\* cleanup_archived_buckets: the archived days but the newest HotDays.
Outdated == {d \in Archived : Cardinality({e \in Archived : e > d}) >= HotDays}

Without(ds) == [d \in Days |-> IF d \in ds THEN "none" ELSE bucket[d]]

\* What was archived is cleaned up: the dates are read, then the buckets of
\* these dates are deleted, whatever they hold by then.
PlanOwnCleanup ==
  /\ writer.pc = "cleanup"
  /\ writer' = IF Outdated = {} THEN NotArchiving
               ELSE [NotArchiving EXCEPT !.pc = "delete", !.old = Outdated]
  /\ UNCHANGED <<bucket, index, remote, cache, fetches, incidents>> /\ UNCHANGED ByOthers

OwnCleanup ==
  /\ writer.pc = "delete"
  /\ bucket' = Without(writer.old)
  /\ writer' = NotArchiving
  /\ UNCHANGED <<index, remote, cache, fetches, incidents>> /\ UNCHANGED ByOthers

PlanCleanup ==
  /\ cleaner.pc = "idle" /\ Outdated # {}
  /\ cleaner' = [pc |-> "delete", old |-> Outdated]
  /\ UNCHANGED <<bucket, index, remote, cache, month, writer, exporter, reader,
                 fetches, exports, incidents>>

Cleanup ==
  /\ cleaner.pc = "delete"
  /\ bucket' = Without(cleaner.old)
  /\ cleaner' = NotCleaning
  /\ UNCHANGED <<index, remote, cache, month, writer, exporter, reader,
                 fetches, exports, incidents>>

\* The same day of the same stock is archived from another data source.
OtherSourceUploads(d) ==
  /\ Incident
  /\ remote' = [remote EXCEPT ![d] = FileOf([e \in Days |-> "foreign"], {d})]
  /\ UNCHANGED <<bucket, index, cache, writer, fetches>> /\ UNCHANGED ByOthers

-----------------------------------------------------------------------------
(* Exporting the year *)

DaysOf(m) == {d \in Days : MonthOf[d] = m}

\* A month may be exported when it is over and all its days are there in full.
Complete(m) == m < month /\ \A d \in DaysOf(m) : bucket[d] = "full"
InCompleteMonths == {d \in Days : Complete(MonthOf[d])}

\* What the commands select: export-stock-year-upload takes all buckets,
\* export-complete-month-upload those of complete months; --trade-date
\* restricts the former to a day, the latter to a month.
Selections ==
  {Hot, InCompleteMonths}
    \cup {{d} : d \in Hot}
    \cup {InCompleteMonths \cap DaysOf(m) : m \in Months}

AlreadyUploaded(ds) == \A d \in ds : index[d].object = "year"

\* Mutant: only the days that are not in the year's object yet are written.
YearFileOfNew(ds) == FileOf(bucket, {d \in ds : index[d].object # "year"})

\* The object is written from the selected buckets alone.
YearFile(ds) == FileOf(bucket, ds)

ByTheRest == <<month, writer, cleaner, reader, fetches>>

\* Nothing is done when the index says of every selected day that it is in the
\* year's object, whatever its digest.  (Buckets and index are read one after
\* the other; what can change in between can change before the upload too.)
WriteYearFile(ds) ==
  /\ exporter.pc = "idle"
  /\ ds # {}
  /\ ~ AlreadyUploaded(ds)
  /\ exports < MaxExports
  /\ exports' = exports + 1
  /\ IF ds = Hot THEN UNCHANGED incidents ELSE Incident
  /\ exporter' = [pc |-> "upload", file |-> YearFile(ds), todo |-> ds]
  /\ UNCHANGED <<bucket, index, remote, cache>> /\ UNCHANGED ByTheRest

UploadYear ==
  /\ exporter.pc = "upload"
  /\ remote' = [remote EXCEPT ![YearObject] = exporter.file]
  /\ exporter' = [exporter EXCEPT !.pc = "index"]
  /\ UNCHANGED <<bucket, index, cache, exports, incidents>> /\ UNCHANGED ByTheRest

\* Mutant: a day the index has in the year's object already keeps its entry.
IndexYearOnce(d) ==
  LET rest == exporter.todo \ {d}
  IN  /\ exporter.pc = "index"
      /\ d \in exporter.todo /\ \A e \in rest : d < e
      /\ index' = IF index[d].object = "year" THEN index
                  ELSE [index EXCEPT ![d] = [object |-> "year", digest |-> exporter.file]]
      /\ exporter' = IF rest = {} THEN NotExporting ELSE [exporter EXCEPT !.todo = rest]
      /\ UNCHANGED <<bucket, remote, cache, exports, incidents>> /\ UNCHANGED ByTheRest

\* Day by day, in their order.
IndexYear(d) ==
  LET rest == exporter.todo \ {d}
  IN  /\ exporter.pc = "index"
      /\ d \in exporter.todo /\ \A e \in rest : d < e
      /\ index' = [index EXCEPT ![d] = [object |-> "year", digest |-> exporter.file]]
      /\ exporter' = IF rest = {} THEN NotExporting ELSE [exporter EXCEPT !.todo = rest]
      /\ UNCHANGED <<bucket, remote, cache, exports, incidents>> /\ UNCHANGED ByTheRest

ExportStops ==
  /\ exporter.pc # "idle"
  /\ Incident
  /\ exporter' = NotExporting
  /\ UNCHANGED <<bucket, index, remote, cache, exports>> /\ UNCHANGED ByTheRest

-----------------------------------------------------------------------------
(* Reading a cold day *)

ByReader == <<bucket, index, remote, month, writer, exporter, cleaner,
              fetches, exports, incidents>>

Cached(r) == cache[PathOf(reader[r].doc, reader[r].day)]
Matches(r) == Cached(r) = reader[r].doc.digest

ReaderGoes(r, pc) == reader' = [reader EXCEPT ![r].pc = pc]
GivesUp(r)        == reader' = [reader EXCEPT ![r] = NotReading]

Look(r, d) ==
  /\ reader[r].pc = "idle"
  /\ d \in Archived
  /\ reader' = [reader EXCEPT ![r] =
                  [NotReading EXCEPT !.pc = "check", !.day = d, !.doc = index[d]]]
  /\ UNCHANGED cache /\ UNCHANGED ByReader

CheckCache(r) ==
  /\ reader[r].pc = "check"
  /\ ReaderGoes(r, IF Matches(r) THEN "open" ELSE "download")
  /\ UNCHANGED cache /\ UNCHANGED ByReader

\* The object replaces the cached file, or the download fails and leaves the
\* old file, none, or a piece of the new one where the cached file was.
Download(r) ==
  LET path == PathOf(reader[r].doc, reader[r].day)
  IN  /\ reader[r].pc = "download"
      /\ \/ /\ remote[path] # NoFile
            /\ cache' = [cache EXCEPT ![path] = remote[path]]
            /\ ReaderGoes(r, "verify")
         \/ /\ \E f \in {cache[path], NoFile, Foreign(remote[path])} :
                 cache' = [cache EXCEPT ![path] = f]
            /\ GivesUp(r)
      /\ UNCHANGED ByReader

\* Mutant: what was downloaded is not verified.
VerifyNothing(r) ==
  /\ reader[r].pc = "verify"
  /\ ReaderGoes(r, "open")
  /\ UNCHANGED cache /\ UNCHANGED ByReader

\* A file with another digest than the index gave is removed again.
Verify(r) ==
  LET path == PathOf(reader[r].doc, reader[r].day)
  IN  /\ reader[r].pc = "verify"
      /\ IF Matches(r)
         THEN ReaderGoes(r, "open") /\ UNCHANGED cache
         ELSE GivesUp(r) /\ cache' = [cache EXCEPT ![path] = NoFile]
      /\ UNCHANGED ByReader

\* The cached file is opened again to parse it, and is there or is not.
Open(r) ==
  /\ reader[r].pc = "open"
  /\ reader' = IF Cached(r) = NoFile
               THEN [reader EXCEPT ![r] = NotReading]
               ELSE [reader EXCEPT ![r].pc = "done", ![r].rows = Cached(r)[reader[r].day]]
  /\ UNCHANGED cache /\ UNCHANGED ByReader

Return(r) ==
  /\ reader[r].pc = "done"
  /\ GivesUp(r)
  /\ UNCHANGED cache /\ UNCHANGED ByReader

\* prune_cache, by a command or at the end of another reader's download: which
\* files it removes is a matter of their sizes and ages.
Prune(p) ==
  /\ cache[p] # NoFile
  /\ cache' = [cache EXCEPT ![p] = NoFile]
  /\ UNCHANGED reader /\ UNCHANGED ByReader

-----------------------------------------------------------------------------

Archiving ==
  \/ \E d \in Days, rows \in {"partial", "full"} : FetchDay(d, rows)
  \/ WriteDayFile \/ UploadDay \/ IndexDay \/ PlanOwnCleanup \/ OwnCleanup
  \/ ArchivingStops

Exporting ==
  \/ \E ds \in Selections : WriteYearFile(ds)
  \/ UploadYear \/ ExportStops
  \/ \E d \in Days : IndexYear(d)

Reading ==
  \/ \E r \in Readers : \/ \E d \in Days : Look(r, d)
                        \/ CheckCache(r) \/ Download(r) \/ Verify(r)
                        \/ Open(r) \/ Return(r)
  \/ \E p \in Path : Prune(p)

Next ==
  \/ NextMonth
  \/ Archiving \/ Exporting \/ Reading
  \/ PlanCleanup \/ Cleanup
  \/ \E d \in Days : OtherSourceUploads(d)

Spec == Init /\ [][Next]_vars

-----------------------------------------------------------------------------

\* A day is retrievable if the object its index entry names has the digest the
\* entry says: a reader gets its rows, from the network disk if not the cache.
Retrievable(d) == remote[PathOf(index[d], d)] = index[d].digest

\* Nothing is being written.
Settled == writer.pc = "idle" /\ exporter.pc = "idle"

\* Whatever the index lists can be retrieved.
IndexedIsRetrievable == Settled => \A d \in Archived : Retrievable(d)

\* It can, as long as no transfer failed, all exports were of everything, no
\* other source wrote the same day, and no archived day has lost its bucket.
RetrievableWhileHot ==
  incidents = 0 /\ Archived \subseteq Hot => IndexedIsRetrievable

\* A read that returns rows returns those of the index entry it started from,
\* whatever was archived, exported, cut short or pruned meanwhile.  (For one
\* reader: two share the cached file of the year.)
ReadIsVerified ==
  \A r \in Readers :
    reader[r].pc = "done" => reader[r].rows = reader[r].doc.digest[reader[r].day]

\* A bucket is removed only if its day is archived and so are HotDays newer
\* ones, also at the moment it is removed.
CleanupKeepsNewest ==
  [][\A d \in Days :
       bucket[d] # "none" /\ bucket'[d] = "none" =>
         /\ d \in Archived
         /\ Cardinality({e \in Archived : e > d}) >= HotDays]_vars

=============================================================================
