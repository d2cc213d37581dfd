--------------------------- MODULE MinuteColdProofs ---------------------------
(***************************************************************************)
(* Proofs about MinuteCold.                                                *)
(*                                                                         *)
(* The inductive invariant says, beyond the types, that a process writes    *)
(* only days it has rows of (Equipped), that a cleanup under way deletes    *)
(* only days that are outdated still (PlansHold), and that, while nothing   *)
(* went wrong, the index is right about every object but the one that is    *)
(* being replaced (EntriesHold).  The last is where the order of upload and *)
(* index entry matters: between the two the entry is wrong, and only the    *)
(* process that is to write it next knows.  For the year's object it must   *)
(* cover days that have no bucket any more: the next export leaves them out *)
(* of the object and of what it indexes, so that nothing is known of them.  *)
(*                                                                         *)
(* What a reader returns is a matter of its own file (ReadsHold), and holds *)
(* for one reader: a second could replace the file of the year between the  *)
(* first one's verification and its opening it.                            *)
(***************************************************************************)
EXTENDS MinuteCold, FiniteSetTheorems, TLAPS

\* What a day has been written to, or is about to be, is there to be written.
Equipped ==
  /\ writer.pc \in {"archive", "upload", "index"} => writer.day \in Days
  /\ writer.pc \in {"upload", "index"} => writer.file[writer.day] # "none"
  /\ exporter.pc # "idle" => \A d \in exporter.todo : exporter.file[d] # "none"
  /\ \A r \in Readers : reader[r].pc # "idle" => reader[r].day \in Days

\* Files and paths.
LEMMA FileTypes ==
  /\ NoFile \in File /\ NoFile \in [Days -> Rows] /\ NoDoc \in Doc
  /\ Days \subseteq Path /\ YearObject \in Path /\ YearObject \notin Days
  /\ \A f \in File : Foreign(f) \in File
  /\ \A ds \in SUBSET Days : FileOf([e \in Days |-> "foreign"], ds) \in File
  /\ NotArchiving \in Archiver /\ NotExporting \in Exporter /\ NotCleaning \in Cleaner /\ NotReading \in Reader
<1>1. NoFile \in File /\ NoFile \in [Days -> Rows]
  BY DEF NoFile, File, Rows
<1>2. Days \subseteq Path /\ YearObject \in Path /\ YearObject \notin Days
  BY ColdAssumption DEF ColdAssumption, Path, YearObject
<1>3. NoDoc \in Doc
  BY <1>1 DEF NoDoc, Doc
<1>4. \A f \in File : Foreign(f) \in File
  BY DEF Foreign, File
<1>5. \A ds \in SUBSET Days : FileOf([e \in Days |-> "foreign"], ds) \in File
  BY DEF FileOf, File, Rows
<1>6. NotArchiving \in Archiver /\ NotExporting \in Exporter /\ NotCleaning \in Cleaner /\ NotReading \in Reader
  BY <1>1, <1>2, <1>3 DEF NotArchiving, Archiver, NotExporting, Exporter, NotCleaning, Cleaner, NotReading,
     Reader, YearObject, Rows
<1> QED BY <1>1, <1>2, <1>3, <1>4, <1>5, <1>6

\* A file is written from buckets.
LEMMA FileOfBuckets ==
  ASSUME ColdTypeOK, NEW ds \in SUBSET Days
  PROVE  /\ FileOf(bucket, ds) \in File
         /\ \A d \in ds : FileOf(bucket, ds)[d] = bucket[d]
BY DEF ColdTypeOK, FileOf, File, Rows

\* Every export is of buckets that are there.
LEMMA SelectionsAreHot ==
  ASSUME ColdTypeOK, NEW ds \in Selections
  PROVE  ds \in SUBSET Days /\ \A d \in ds : bucket[d] # "none"
<1>1. InCompleteMonths \subseteq Days /\ \A d \in InCompleteMonths : bucket[d] = "full"
  BY DEF InCompleteMonths, Complete, DaysOf
<1>2. Hot \subseteq Days /\ \A d \in Hot : bucket[d] # "none"
  BY DEF Hot
<1>3. \/ ds = Hot \/ ds = InCompleteMonths \/ \E d \in Hot : ds = {d}
      \/ \E m \in Months : ds = InCompleteMonths \cap DaysOf(m)
  BY DEF Selections
<1> QED BY <1>1, <1>2, <1>3

\* Every step is one of these.
LEMMA ColdCases ==
  ASSUME [Next]_vars
  PROVE  \/ NextMonth \/ \E d \in Days, rows \in {"partial", "full"} : FetchDay(d, rows)
         \/ WriteDayFile \/ UploadDay \/ IndexDay \/ PlanOwnCleanup \/ OwnCleanup \/ ArchivingStops
         \/ \E ds \in Selections : WriteYearFile(ds)
         \/ UploadYear \/ ExportStops \/ \E d \in Days : IndexYear(d)
         \/ \E r \in Readers : \/ \E d \in Days : Look(r, d)
                               \/ CheckCache(r) \/ Download(r) \/ Verify(r) \/ Open(r) \/ Return(r)
         \/ \E p \in Path : Prune(p)
         \/ PlanCleanup \/ Cleanup \/ \E d \in Days : OtherSourceUploads(d)
         \/ UNCHANGED vars
BY DEF Next, Archiving, Exporting, Reading

\* Every step keeps the types, and that what is to be written is there.
LEMMA ColdTypeStep ==
  ASSUME ColdTypeOK, Equipped, [Next]_vars
  PROVE  ColdTypeOK' /\ Equipped'
<1> USE DEF ByOthers, ByTheRest, ByReader
<1>t. /\ bucket \in [Days -> Rows] /\ index \in [Days -> Doc] /\ remote \in [Path -> File] /\ cache \in [Path -> File]
      /\ writer \in Archiver /\ exporter \in Exporter /\ cleaner \in Cleaner /\ reader \in [Readers -> Reader]
      /\ fetches \in Nat /\ exports \in Nat /\ incidents \in Nat /\ month \in Nat
      /\ MaxFetches \in Nat /\ MaxExports \in Nat /\ MaxIncidents \in Nat
      /\ \A d \in Days : index[d].object # "none" => index[d].digest[d] # "none"
  <2>1. MaxFetches \in Nat /\ MaxExports \in Nat /\ MaxIncidents \in Nat
    BY ColdAssumption DEF ColdAssumption
  <2>2. fetches \in Nat /\ exports \in Nat /\ incidents \in Nat
    BY <2>1 DEF ColdTypeOK
  <2> QED BY <2>1, <2>2 DEF ColdTypeOK
<1>i. Incident => incidents' \in 0 .. MaxIncidents
  BY <1>t DEF Incident
<1>1. CASE NextMonth
  BY <1>1, <1>t DEF NextMonth, ColdTypeOK, Equipped
<1>2. ASSUME NEW d \in Days, NEW rows \in {"partial", "full"}, FetchDay(d, rows) PROVE ColdTypeOK' /\ Equipped'
  <2>1. bucket' \in [Days -> Rows] /\ fetches' \in 0 .. MaxFetches
    BY <1>2, <1>t DEF FetchDay, Rows
  <2>2. writer' \in Archiver /\ writer'.pc = "archive" /\ writer'.day = d
    BY <1>2, FileTypes DEF FetchDay, Archiver, NotArchiving
  <2> QED BY <1>2, <2>1, <2>2 DEF FetchDay, ColdTypeOK, Equipped
<1>3. CASE WriteDayFile
  <2>1. CASE writer.day \in Hot
    <3>1. writer.day \in Days /\ {writer.day} \in SUBSET Days /\ bucket[writer.day] # "none"
      BY <2>1 DEF Hot
    <3>2. writer' = [writer EXCEPT !.pc = "upload", !.file = FileOf(bucket, {writer.day})]
      BY <1>3, <2>1 DEF WriteDayFile
    <3>3. FileOf(bucket, {writer.day}) \in File /\ FileOf(bucket, {writer.day})[writer.day] # "none"
      BY <3>1, FileOfBuckets
    <3>4. writer' \in Archiver /\ writer'.pc = "upload" /\ writer'.day = writer.day /\ writer'.file = FileOf(bucket, {writer.day})
      BY <1>t, <3>2, <3>3 DEF Archiver
    <3> QED BY <1>3, <3>1, <3>3, <3>4 DEF WriteDayFile, ColdTypeOK, Equipped
  <2>2. CASE writer.day \notin Hot
    BY <1>3, <2>2, FileTypes DEF WriteDayFile, ColdTypeOK, Equipped, NotArchiving
  <2> QED BY <2>1, <2>2
<1>4. CASE UploadDay
  <2>1. writer' \in Archiver /\ writer'.pc = "index" /\ writer'.day = writer.day /\ writer'.file = writer.file
    BY <1>4, <1>t DEF UploadDay, Archiver
  <2>2. remote' \in [Path -> File]
    BY <1>4, <1>t DEF UploadDay, Archiver
  <2> QED BY <1>4, <2>1, <2>2 DEF UploadDay, ColdTypeOK, Equipped
<1>5. CASE IndexDay
  <2>1. [object |-> "day", digest |-> writer.file] \in Doc
    BY <1>t DEF Archiver, Doc
  <2>2. writer.day \in Days /\ writer.file[writer.day] # "none"
    BY <1>5 DEF IndexDay, Equipped
  <2>3. index' \in [Days -> Doc] /\ \A d \in Days : index'[d].object # "none" => index'[d].digest[d] # "none"
    BY <1>5, <1>t, <2>1, <2>2 DEF IndexDay
  <2>4. writer' \in Archiver /\ writer'.pc = "cleanup"
    BY <1>5, FileTypes DEF IndexDay, NotArchiving, Archiver
  <2> QED BY <1>5, <2>3, <2>4 DEF IndexDay, ColdTypeOK, Equipped
<1>6. CASE PlanOwnCleanup
  <2>1. Outdated \in SUBSET Days
    BY DEF Outdated, Archived
  <2>2. writer' \in Archiver /\ writer'.pc \in {"idle", "delete"}
    BY <1>6, <2>1, FileTypes DEF PlanOwnCleanup, NotArchiving, Archiver
  <2> QED BY <1>6, <2>2 DEF PlanOwnCleanup, ColdTypeOK, Equipped
<1>7. CASE OwnCleanup \/ Cleanup
  <2>1. bucket' \in [Days -> Rows]
    BY <1>7, <1>t DEF OwnCleanup, Cleanup, Without, Rows
  <2>2. writer' \in Archiver /\ cleaner' \in Cleaner /\ (writer' = writer \/ writer'.pc = "idle")
    <3>1. CASE OwnCleanup
      BY <3>1, <1>t, FileTypes DEF OwnCleanup, NotArchiving
    <3>2. CASE Cleanup
      BY <3>2, <1>t, FileTypes DEF Cleanup
    <3> QED BY <1>7, <3>1, <3>2
  <2> QED BY <1>7, <2>1, <2>2 DEF OwnCleanup, Cleanup, ColdTypeOK, Equipped
<1>8. CASE ArchivingStops
  BY <1>8, <1>i, FileTypes DEF ArchivingStops, ColdTypeOK, Equipped, NotArchiving
<1>9. CASE PlanCleanup
  <2>1. cleaner' \in Cleaner
    BY <1>9 DEF PlanCleanup, Cleaner, Outdated, Archived
  <2> QED BY <1>9, <2>1 DEF PlanCleanup, ColdTypeOK, Equipped
<1>10. ASSUME NEW d \in Days, OtherSourceUploads(d) PROVE ColdTypeOK' /\ Equipped'
  <2>1. remote' \in [Path -> File]
    BY <1>10, <1>t, FileTypes DEF OtherSourceUploads
  <2> QED BY <1>10, <1>i, <2>1 DEF OtherSourceUploads, ColdTypeOK, Equipped
<1>11. ASSUME NEW ds \in Selections, WriteYearFile(ds) PROVE ColdTypeOK' /\ Equipped'
  <2>1. ds \in SUBSET Days /\ \A d \in ds : bucket[d] # "none"
    BY SelectionsAreHot
  <2>2. YearFile(ds) \in File /\ \A d \in ds : YearFile(ds)[d] # "none"
    BY <2>1, FileOfBuckets DEF YearFile
  <2>3. exporter' = [pc |-> "upload", file |-> YearFile(ds), todo |-> ds]
    BY <1>11 DEF WriteYearFile
  <2>4. exporter' \in Exporter /\ exporter'.todo = ds /\ exporter'.file = YearFile(ds)
    BY <2>1, <2>2, <2>3 DEF Exporter
  <2>5. exports' \in 0 .. MaxExports /\ incidents' \in 0 .. MaxIncidents
    BY <1>11, <1>t, <1>i DEF WriteYearFile, ColdTypeOK
  <2> QED BY <1>11, <2>2, <2>4, <2>5 DEF WriteYearFile, ColdTypeOK, Equipped
<1>12. CASE UploadYear
  <2>1. exporter' \in Exporter /\ exporter'.todo = exporter.todo /\ exporter'.file = exporter.file /\ exporter.pc # "idle"
    BY <1>12, <1>t DEF UploadYear, Exporter
  <2>2. remote' \in [Path -> File]
    BY <1>12, <1>t, FileTypes DEF UploadYear, Exporter
  <2> QED BY <1>12, <2>1, <2>2 DEF UploadYear, ColdTypeOK, Equipped
<1>13. ASSUME NEW d \in Days, IndexYear(d) PROVE ColdTypeOK' /\ Equipped'
  <2>1. [object |-> "year", digest |-> exporter.file] \in Doc /\ exporter.file[d] # "none"
    BY <1>13, <1>t DEF IndexYear, Exporter, Doc, Equipped
  <2>2. index' \in [Days -> Doc] /\ \A e \in Days : index'[e].object # "none" => index'[e].digest[e] # "none"
    BY <1>13, <1>t, <2>1 DEF IndexYear
  <2>3. /\ exporter' \in Exporter /\ exporter'.todo \subseteq exporter.todo
        /\ exporter'.todo # {} => exporter'.file = exporter.file
    BY <1>13, <1>t, FileTypes DEF IndexYear, Exporter, NotExporting
  <2> QED BY <1>13, <2>2, <2>3 DEF IndexYear, ColdTypeOK, Equipped
<1>14. CASE ExportStops
  BY <1>14, <1>i, FileTypes DEF ExportStops, ColdTypeOK, Equipped, NotExporting
<1>reads. ASSUME NEW r \in Readers, NEW w \in Reader, reader' = [reader EXCEPT ![r] = w],
                 w.pc # "idle" => w.day \in Days,
                 cache' \in [Path -> File], UNCHANGED ByReader
          PROVE  ColdTypeOK' /\ Equipped'
  BY <1>reads, <1>t DEF ColdTypeOK, Equipped
<1>15. ASSUME NEW r \in Readers, NEW d \in Days, Look(r, d) PROVE ColdTypeOK' /\ Equipped'
  <2> DEFINE w == [NotReading EXCEPT !.pc = "check", !.day = d, !.doc = index[d]]
  <2>1. w \in Reader /\ w.day = d
    BY <1>t, FileTypes DEF NotReading, Reader, Rows
  <2> HIDE DEF w
  <2>2. reader' = [reader EXCEPT ![r] = w] /\ cache' \in [Path -> File] /\ UNCHANGED ByReader
    BY <1>15, <1>t DEF Look, w
  <2> QED BY <2>1, <2>2, <1>reads
<1>goes. ASSUME NEW r \in Readers, reader[r].pc # "idle", cache' \in [Path -> File], UNCHANGED ByReader,
                NEW pc \in {"open", "download", "verify"}, ReaderGoes(r, pc)
         PROVE  ColdTypeOK' /\ Equipped'
  <2> DEFINE w == [reader[r] EXCEPT !.pc = pc]
  <2>1. w \in Reader /\ w.day \in Days
    BY <1>goes, <1>t DEF Reader, Equipped
  <2>2. reader' = [reader EXCEPT ![r] = w]
    BY <1>goes DEF ReaderGoes
  <2> HIDE DEF w
  <2> QED BY <2>1, <2>2, <1>goes, <1>reads
<1>gives. ASSUME NEW r \in Readers, cache' \in [Path -> File], UNCHANGED ByReader, GivesUp(r)
          PROVE  ColdTypeOK' /\ Equipped'
  <2>1. NotReading.pc = "idle"
    BY DEF NotReading
  <2> QED BY <2>1, <1>gives, <1>reads, FileTypes DEF GivesUp
<1>16. ASSUME NEW r \in Readers, CheckCache(r) PROVE ColdTypeOK' /\ Equipped'
  BY <1>16, <1>t, <1>goes DEF CheckCache
<1>17. ASSUME NEW r \in Readers, Download(r) PROVE ColdTypeOK' /\ Equipped'
  <2>1. PathOf(reader[r].doc, reader[r].day) \in Path
    BY <1>17, FileTypes DEF Download, PathOf, Equipped
  <2>2. cache' \in [Path -> File]
    BY <1>17, <1>t, <2>1, FileTypes DEF Download
  <2> QED BY <1>17, <2>2, <1>goes, <1>gives DEF Download
<1>18. ASSUME NEW r \in Readers, Verify(r) PROVE ColdTypeOK' /\ Equipped'
  <2>1. cache' \in [Path -> File]
    BY <1>18, <1>t, FileTypes DEF Verify
  <2> QED BY <1>18, <2>1, <1>goes, <1>gives DEF Verify
<1>19. ASSUME NEW r \in Readers, Open(r) PROVE ColdTypeOK' /\ Equipped'
  <2>1. CASE Cached(r) = NoFile
    BY <1>19, <2>1, <1>t, <1>gives DEF Open, GivesUp
  <2>2. CASE Cached(r) # NoFile
    <3> DEFINE w == [reader[r] EXCEPT !.pc = "done", !.rows = Cached(r)[reader[r].day]]
    <3>1. reader[r].day \in Days /\ reader[r] \in Reader
      BY <1>19, <1>t DEF Open, Equipped
    <3>2. Cached(r) \in File
      BY <1>t, <3>1, FileTypes DEF Cached, PathOf
    <3>3. w \in Reader /\ w.day \in Days
      BY <3>1, <3>2 DEF Reader, File
    <3>4. reader' = [reader EXCEPT ![r] = w]
      BY <1>19, <1>t, <2>2 DEF Open
    <3> HIDE DEF w
    <3> QED BY <1>19, <1>t, <3>3, <3>4, <1>reads DEF Open
  <2> QED BY <2>1, <2>2
<1>20. ASSUME NEW r \in Readers, Return(r) PROVE ColdTypeOK' /\ Equipped'
  BY <1>20, <1>t, <1>gives DEF Return
<1>21. ASSUME NEW p \in Path, Prune(p) PROVE ColdTypeOK' /\ Equipped'
  <2>1. cache' \in [Path -> File]
    BY <1>21, <1>t, FileTypes DEF Prune
  <2> QED BY <1>21, <2>1 DEF Prune, ColdTypeOK, Equipped
<1>22. CASE UNCHANGED vars
  BY <1>22 DEF vars, ColdTypeOK, Equipped
<1> QED
  BY ColdCases, <1>1, <1>2, <1>3, <1>4, <1>5, <1>6, <1>7, <1>8, <1>9, <1>10, <1>11, <1>12, <1>13, <1>14,
     <1>15, <1>16, <1>17, <1>18, <1>19, <1>20, <1>21, <1>22

-----------------------------------------------------------------------------

\* A cleanup deletes buckets of days that were outdated when it was planned: they are
\* still, because an archived day stays archived.
PlansHold ==
  /\ writer.pc = "delete" => writer.old \subseteq Outdated
  /\ cleaner.pc = "delete" => cleaner.old \subseteq Outdated

\* No step takes a day out of the index, so what is outdated stays outdated.
LEMMA ArchivedStays ==
  ASSUME ColdTypeOK, [Next]_vars
  PROVE  Archived \subseteq Archived' /\ Outdated \subseteq Outdated'
<1>1. index' = index \/ IndexDay \/ \E d \in Days : IndexYear(d)
  BY ColdCases DEF NextMonth, FetchDay, WriteDayFile, UploadDay, PlanOwnCleanup, OwnCleanup, ArchivingStops,
     WriteYearFile, UploadYear, ExportStops, Look, CheckCache, Download, Verify, Open, Return, Prune,
     PlanCleanup, Cleanup, OtherSourceUploads, ByOthers, ByTheRest, ByReader, vars
<1>2. Archived \subseteq Archived'
  BY <1>1 DEF Archived, IndexDay, IndexYear, ColdTypeOK
<1>3. ASSUME NEW d \in Outdated PROVE d \in Outdated'
  <2> DEFINE Newer  == {e \in Archived : e > d}
             Newer1 == {e \in Archived' : e > d}
  <2>1. Newer \subseteq Newer1 /\ IsFiniteSet(Newer1)
    <3>1. Newer1 \subseteq Days /\ IsFiniteSet(Days)
      BY ColdAssumption DEF ColdAssumption, Archived
    <3>2. Newer \subseteq Newer1
      BY <1>2
    <3> HIDE DEF Newer1
    <3> QED BY <3>1, <3>2, FS_Subset
  <2>2. Cardinality(Newer) <= Cardinality(Newer1) /\ Cardinality(Newer) \in Nat /\ Cardinality(Newer1) \in Nat
    <3> HIDE DEF Newer, Newer1
    <3> QED BY <2>1, FS_Subset, FS_CardinalityType
  <2>3. Cardinality(Newer) >= HotDays /\ HotDays \in Nat
    BY ColdAssumption DEF ColdAssumption, Outdated
  <2>4. Cardinality(Newer1) >= HotDays
    <3> HIDE DEF Newer, Newer1
    <3> QED BY <2>2, <2>3
  <2> QED BY <1>2, <2>4 DEF Outdated
<1> QED BY <1>2, <1>3

\* A plan is of outdated days, and is not changed once made.
LEMMA PlansStep ==
  ASSUME ColdTypeOK, PlansHold, [Next]_vars
  PROVE  PlansHold'
<1> USE DEF ByOthers, ByTheRest, ByReader
<1>o. Outdated \subseteq Outdated'
  BY ArchivedStays
<1>w. writer' = writer \/ writer'.pc # "delete" \/ PlanOwnCleanup
  <2>1. \/ writer' = writer \/ PlanOwnCleanup
        \/ \E d \in Days, rows \in {"partial", "full"} : FetchDay(d, rows)
        \/ WriteDayFile \/ UploadDay \/ IndexDay \/ OwnCleanup \/ ArchivingStops
    BY ColdCases DEF NextMonth, WriteYearFile, UploadYear, ExportStops, IndexYear, Look, CheckCache, Download,
       Verify, Open, Return, Prune, PlanCleanup, Cleanup, OtherSourceUploads, vars
  <2>2. \A d \in Days, rows \in {"partial", "full"} : FetchDay(d, rows) => writer'.pc = "archive"
    BY DEF FetchDay, NotArchiving
  <2>3. writer \in Archiver
    BY DEF ColdTypeOK
  <2>4. WriteDayFile => writer'.pc \in {"upload", "idle"}
    BY <2>3 DEF WriteDayFile, NotArchiving, Archiver
  <2>5. UploadDay => writer'.pc = "index"
    BY <2>3 DEF UploadDay, Archiver
  <2>6. IndexDay \/ OwnCleanup \/ ArchivingStops => writer'.pc \in {"cleanup", "idle"}
    BY DEF IndexDay, OwnCleanup, ArchivingStops, NotArchiving
  <2> QED BY <2>1, <2>2, <2>4, <2>5, <2>6
<1>c. cleaner' = cleaner \/ cleaner'.pc # "delete" \/ PlanCleanup
  <2>1. cleaner' = cleaner \/ Cleanup \/ PlanCleanup
    BY ColdCases DEF NextMonth, FetchDay, WriteDayFile, UploadDay, IndexDay, PlanOwnCleanup, OwnCleanup,
       ArchivingStops, WriteYearFile, UploadYear, ExportStops, IndexYear, Look, CheckCache, Download, Verify, Open,
       Return, Prune, OtherSourceUploads, vars
  <2>2. Cleanup => cleaner'.pc = "idle"
    BY DEF Cleanup, NotCleaning
  <2> QED BY <2>1, <2>2
<1>1. writer'.pc = "delete" => writer'.old \subseteq Outdated'
  <2>1. CASE PlanOwnCleanup
    BY <2>1, <1>o DEF PlanOwnCleanup, NotArchiving
  <2> QED BY <1>o, <1>w, <2>1 DEF PlansHold
<1>2. cleaner'.pc = "delete" => cleaner'.old \subseteq Outdated'
  <2>1. CASE PlanCleanup
    BY <2>1, <1>o DEF PlanCleanup
  <2> QED BY <1>o, <1>c, <2>1 DEF PlansHold
<1> QED BY <1>1, <1>2 DEF PlansHold

\* Only the two cleanups remove a bucket, and only of an outdated day.
LEMMA CleanupCorrect ==
  ASSUME ColdTypeOK, PlansHold, [Next]_vars, NEW d \in Days, bucket[d] # "none", bucket'[d] = "none"
  PROVE  d \in Archived /\ Cardinality({e \in Archived : e > d}) >= HotDays
<1> USE DEF ByOthers, ByTheRest, ByReader
<1>1. bucket' = bucket \/ OwnCleanup \/ Cleanup \/ \E e \in Days, rows \in {"partial", "full"} : FetchDay(e, rows)
  BY ColdCases DEF NextMonth, WriteDayFile, UploadDay, IndexDay, PlanOwnCleanup, ArchivingStops,
     WriteYearFile, UploadYear, ExportStops, IndexYear, Look, CheckCache, Download, Verify, Open, Return, Prune,
     PlanCleanup, OtherSourceUploads, vars
<1>2. OwnCleanup \/ Cleanup
  <2>1. ASSUME NEW e \in Days, NEW rows \in {"partial", "full"}, FetchDay(e, rows) PROVE FALSE
    BY <2>1 DEF FetchDay, ColdTypeOK
  <2> QED BY <1>1, <2>1
<1>3. d \in Outdated
  BY <1>2 DEF OwnCleanup, Cleanup, Without, PlansHold
<1> QED BY <1>3 DEF Outdated

-----------------------------------------------------------------------------

\* What a reader opens is what its index entry named, or has been pruned.
ReadsHold == \A r \in Readers :
  /\ reader[r].pc = "open" => Cached(r) \in {NoFile, reader[r].doc.digest}
  /\ reader[r].pc = "done" => reader[r].rows = reader[r].doc.digest[reader[r].day]

\* So it is for one reader, whatever is uploaded and pruned meanwhile.
LEMMA ReadsStep ==
  ASSUME ColdTypeOK, Equipped, ReadsHold, [Next]_vars, \A r, q \in Readers : r = q
  PROVE  ReadsHold'
<1> USE DEF ByOthers, ByTheRest, ByReader
<1>t. reader \in [Readers -> Reader] /\ cache \in [Path -> File]
  BY DEF ColdTypeOK
<1> DEFINE Holds(w, c) ==
             /\ w.pc = "open" => c[PathOf(w.doc, w.day)] \in {NoFile, w.doc.digest}
             /\ w.pc = "done" => w.rows = w.doc.digest[w.day]
<1>h. \A r \in Readers : Holds(reader[r], cache)
  BY DEF ReadsHold, Cached
<1>g. (\A r \in Readers : Holds(reader'[r], cache')) => ReadsHold'
  BY DEF ReadsHold, Cached
<1>one. ASSUME NEW r \in Readers, NEW w, reader' = [reader EXCEPT ![r] = w], Holds(w, cache') PROVE ReadsHold'
  <2>1. \A q \in Readers : q = r /\ reader'[q] = w
    BY <1>one, <1>t
  <2> HIDE DEF Holds
  <2> QED BY <1>one, <1>g, <2>1
<1>gives. \A r \in Readers : GivesUp(r) => ReadsHold'
  <2>1. Holds(NotReading, cache')
    BY DEF NotReading
  <2> HIDE DEF Holds
  <2> QED BY <1>one, <2>1 DEF GivesUp
<1>goes. ASSUME NEW r \in Readers, NEW pc, ReaderGoes(r, pc), pc \in {"check", "download", "verify"} \/ (pc = "open" /\ Matches(r) /\ UNCHANGED cache)
         PROVE  ReadsHold'
  <2> DEFINE w == [reader[r] EXCEPT !.pc = pc]
  <2>1. w.pc = pc /\ w.doc = reader[r].doc /\ w.day = reader[r].day
    BY <1>t DEF Reader
  <2>2. Holds(w, cache')
    BY <1>goes, <2>1 DEF Matches, Cached
  <2>3. reader' = [reader EXCEPT ![r] = w]
    BY <1>goes DEF ReaderGoes
  <2> HIDE DEF w, Holds
  <2> QED BY <2>2, <2>3, <1>one
<1>1. ASSUME UNCHANGED <<reader, cache>> PROVE ReadsHold'
  BY <1>1, <1>h, <1>g
<1>2. ASSUME NEW r \in Readers, NEW d \in Days, Look(r, d) PROVE ReadsHold'
  <2> DEFINE w == [NotReading EXCEPT !.pc = "check", !.day = d, !.doc = index[d]]
  <2>1. Holds(w, cache')
    BY DEF NotReading
  <2>2. reader' = [reader EXCEPT ![r] = w]
    BY <1>2 DEF Look
  <2> HIDE DEF w, Holds
  <2> QED BY <2>1, <2>2, <1>one
<1> HIDE DEF Holds
<1>3. ASSUME NEW r \in Readers, CheckCache(r) PROVE ReadsHold'
  BY <1>3, <1>goes DEF CheckCache
<1>4. ASSUME NEW r \in Readers, Download(r) PROVE ReadsHold'
  BY <1>4, <1>goes, <1>gives DEF Download
<1>5. ASSUME NEW r \in Readers, Verify(r) PROVE ReadsHold'
  BY <1>5, <1>goes, <1>gives DEF Verify
<1>6. ASSUME NEW r \in Readers, Open(r) PROVE ReadsHold'
  <2>1. CASE Cached(r) = NoFile
    BY <1>6, <2>1, <1>gives DEF Open, GivesUp
  <2>2. CASE Cached(r) # NoFile
    <3> DEFINE w == [reader[r] EXCEPT !.pc = "done", !.rows = Cached(r)[reader[r].day]]
    <3>1. Cached(r) = reader[r].doc.digest
      BY <1>6, <2>2 DEF Open, ReadsHold
    <3>2. w.pc = "done" /\ w.doc = reader[r].doc /\ w.day = reader[r].day /\ w.rows = Cached(r)[reader[r].day]
      BY <1>t DEF Reader
    <3>3. Holds(w, cache')
      BY <3>1, <3>2 DEF Holds
    <3>4. reader' = [reader EXCEPT ![r] = w]
      BY <1>6, <1>t, <2>2 DEF Open
    <3> HIDE DEF w
    <3> QED BY <3>3, <3>4, <1>one
  <2> QED BY <2>1, <2>2
<1>7. ASSUME NEW r \in Readers, Return(r) PROVE ReadsHold'
  BY <1>7, <1>gives DEF Return
<1>8. ASSUME NEW p \in Path, Prune(p) PROVE ReadsHold'
  <2>1. \A q : q \in Path => cache'[q] \in {NoFile, cache[q]}
    BY <1>8, <1>t DEF Prune
  <2>2. \A r \in Readers : reader[r].pc # "idle" => PathOf(reader[r].doc, reader[r].day) \in Path
    BY FileTypes DEF Equipped, PathOf
  <2> QED BY <1>8, <1>h, <1>g, <2>1, <2>2 DEF Prune, Holds
<1>9. \/ UNCHANGED <<reader, cache>>
      \/ \E r \in Readers : \/ \E d \in Days : Look(r, d)
                            \/ CheckCache(r) \/ Download(r) \/ Verify(r) \/ Open(r) \/ Return(r)
      \/ \E p \in Path : Prune(p)
  BY ColdCases DEF NextMonth, FetchDay, WriteDayFile, UploadDay, IndexDay, PlanOwnCleanup, OwnCleanup,
     ArchivingStops, WriteYearFile, UploadYear, ExportStops, IndexYear, PlanCleanup, Cleanup, OtherSourceUploads, vars
<1> QED BY <1>1, <1>2, <1>3, <1>4, <1>5, <1>6, <1>7, <1>8, <1>9

-----------------------------------------------------------------------------

\* A day is being archived.
Being(d) == writer.day = d /\ writer.pc \in {"archive", "upload", "index"}

\* While nothing went wrong the index is right about the day objects, except about
\* the one that the writer has just replaced.
DayEntriesHold ==
  /\ writer.pc = "index" => remote[writer.day] = writer.file
  /\ \A d \in Days : index[d].object = "day" =>
       remote[d] = index[d].digest \/ (writer.pc = "index" /\ writer.day = d)

\* It is right about the year's object, except about days that a running export is to
\* index yet, and days that were cold when the object was written: these are cold
\* still, or are archived anew.
YearEntriesHold ==
  /\ exporter.pc = "index" => remote[YearObject] = exporter.file
  /\ \A d \in Days : index[d].object = "year" =>
       \/ exporter.pc # "idle" /\ d \in exporter.todo
       \/ exporter.pc # "upload" /\ remote[YearObject] = index[d].digest
       \/ d \notin Hot
       \/ Being(d)

\* Both, as long as nothing went wrong.
EntriesHold == incidents = 0 => DayEntriesHold /\ YearEntriesHold

\* Every step keeps the index right: those that touch neither the index nor an object,
\* then each of the others.
LEMMA EntriesStep ==
  ASSUME ColdTypeOK, Equipped, EntriesHold, [Next]_vars
  PROVE  EntriesHold'
<1> USE DEF ByOthers, ByTheRest, ByReader
<1>t. /\ bucket \in [Days -> Rows] /\ index \in [Days -> Doc] /\ remote \in [Path -> File]
      /\ writer \in Archiver /\ exporter \in Exporter /\ incidents \in Nat
  <2>1. incidents \in Nat
    BY ColdAssumption DEF ColdTypeOK, ColdAssumption
  <2> QED BY <2>1 DEF ColdTypeOK
<1>p. \A d \in Days : d # YearObject /\ d \in Path
  BY FileTypes
<1>no. Incident => EntriesHold'
  BY <1>t DEF Incident, EntriesHold
<1> SUFFICES ASSUME incidents' = 0, ~Incident PROVE DayEntriesHold' /\ YearEntriesHold'
  BY <1>no DEF EntriesHold
<1>inc. incidents = 0
  <2>1. incidents' = incidents \/ Incident
    BY ColdCases DEF NextMonth, FetchDay, WriteDayFile, UploadDay, IndexDay, PlanOwnCleanup, OwnCleanup,
       ArchivingStops, WriteYearFile, UploadYear, ExportStops, IndexYear, Look, CheckCache, Download, Verify, Open,
       Return, Prune, PlanCleanup, Cleanup, OtherSourceUploads, vars
  <2> QED BY <2>1
<1>h. DayEntriesHold /\ YearEntriesHold
  BY <1>inc DEF EntriesHold
<1>1. ASSUME UNCHANGED <<bucket, index, remote, writer, exporter>> PROVE DayEntriesHold' /\ YearEntriesHold'
  BY <1>1, <1>h DEF DayEntriesHold, YearEntriesHold, Hot, Being
<1>2. ASSUME NEW d \in Days, NEW rows \in {"partial", "full"}, FetchDay(d, rows) PROVE DayEntriesHold' /\ YearEntriesHold'
  <2>1. writer'.pc = "archive" /\ writer'.day = d /\ writer.pc = "idle"
    BY <1>2 DEF FetchDay, NotArchiving
  <2>2. DayEntriesHold'
    BY <1>2, <1>h, <2>1 DEF FetchDay, DayEntriesHold
  <2>3. \A e \in Days : e \in Hot' => e \in Hot \/ e = d
    BY <1>2, <1>t DEF FetchDay, Hot
  <2>4. YearEntriesHold'
    BY <1>2, <1>h, <2>1, <2>3 DEF FetchDay, YearEntriesHold, Being
  <2> QED BY <2>2, <2>4
<1>3. CASE WriteDayFile
  <2>1. writer.pc = "archive" /\ UNCHANGED <<bucket, index, remote, exporter>>
    BY <1>3 DEF WriteDayFile
  <2>2. \/ writer.day \in Hot /\ writer'.pc = "upload" /\ writer'.day = writer.day
        \/ writer.day \notin Hot /\ writer'.pc = "idle"
    BY <1>3, <1>t DEF WriteDayFile, NotArchiving, Archiver
  <2>3. DayEntriesHold'
    BY <1>h, <2>1, <2>2 DEF DayEntriesHold
  <2>4. YearEntriesHold'
    BY <1>h, <2>1, <2>2 DEF YearEntriesHold, Being, Hot
  <2> QED BY <2>3, <2>4
<1>4. CASE UploadDay
  <2>1. /\ writer.pc = "upload" /\ UNCHANGED <<bucket, index, exporter>>
        /\ remote' = [remote EXCEPT ![writer.day] = writer.file]
    BY <1>4 DEF UploadDay
  <2>2. writer'.pc = "index" /\ writer'.day = writer.day /\ writer'.file = writer.file
    BY <1>4, <1>t DEF UploadDay, Archiver
  <2>3. writer.day \in Days
    BY <2>1 DEF Equipped
  <2>4. /\ remote'[writer.day] = writer.file /\ remote'[YearObject] = remote[YearObject]
        /\ \A e \in Days : e # writer.day => remote'[e] = remote[e]
    BY <1>t, <1>p, <2>1, <2>3
  <2>5. DayEntriesHold'
    BY <1>h, <2>1, <2>2, <2>4 DEF DayEntriesHold
  <2>6. YearEntriesHold'
    BY <1>h, <2>1, <2>2, <2>4 DEF YearEntriesHold, Being, Hot
  <2> QED BY <2>5, <2>6
<1>5. CASE IndexDay
  <2>1. /\ writer.pc = "index" /\ UNCHANGED <<bucket, remote, exporter>> /\ writer.day \in Days
        /\ index' = [index EXCEPT ![writer.day] = [object |-> "day", digest |-> writer.file]]
    BY <1>5 DEF IndexDay, Equipped
  <2>2. writer'.pc = "cleanup"
    BY <1>5 DEF IndexDay, NotArchiving
  <2>3. /\ index'[writer.day].object = "day" /\ index'[writer.day].digest = writer.file
        /\ \A e \in Days : e # writer.day => index'[e] = index[e]
    BY <1>t, <2>1
  <2>4. DayEntriesHold'
    BY <1>h, <2>1, <2>2, <2>3 DEF DayEntriesHold
  <2>5. YearEntriesHold'
    BY <1>h, <2>1, <2>2, <2>3 DEF YearEntriesHold, Being, Hot
  <2> QED BY <2>4, <2>5
<1>6. CASE PlanOwnCleanup \/ OwnCleanup \/ Cleanup
  <2>1. UNCHANGED <<index, remote, exporter>> /\ Hot' \subseteq Hot
    <3>1. PlanOwnCleanup => bucket' = bucket
      BY DEF PlanOwnCleanup
    <3>2. OwnCleanup \/ Cleanup => Hot' \subseteq Hot
      BY DEF OwnCleanup, Cleanup, Hot, Without
    <3> QED BY <1>6, <3>1, <3>2 DEF PlanOwnCleanup, OwnCleanup, Cleanup, Hot
  <2>2. writer' = writer \/ (writer.pc \in {"cleanup", "delete"} /\ writer'.pc \in {"idle", "delete"})
    <3>1. CASE PlanOwnCleanup
      <4>1. writer.pc = "cleanup"
        BY <3>1 DEF PlanOwnCleanup
      <4>2. writer'.pc \in {"idle", "delete"}
        <5>1. CASE Outdated = {}
          BY <3>1, <5>1 DEF PlanOwnCleanup, NotArchiving
        <5>2. CASE Outdated # {}
          BY <3>1, <5>2 DEF PlanOwnCleanup, NotArchiving
        <5> QED BY <5>1, <5>2
      <4> QED BY <4>1, <4>2
    <3>2. CASE OwnCleanup
      BY <3>2 DEF OwnCleanup, NotArchiving
    <3>3. CASE Cleanup
      BY <3>3 DEF Cleanup
    <3> QED BY <1>6, <3>1, <3>2, <3>3
  <2>3. DayEntriesHold'
    BY <1>h, <2>1, <2>2 DEF DayEntriesHold
  <2>4. YearEntriesHold'
    BY <1>h, <2>1, <2>2 DEF YearEntriesHold, Being
  <2> QED BY <2>3, <2>4
<1>7. ASSUME NEW ds \in Selections, WriteYearFile(ds) PROVE DayEntriesHold' /\ YearEntriesHold'
  <2>1. ds = Hot /\ UNCHANGED <<bucket, index, remote, writer>> /\ exporter.pc = "idle"
    BY <1>7 DEF WriteYearFile
  <2>2. exporter'.pc = "upload" /\ exporter'.todo = ds
    BY <1>7 DEF WriteYearFile
  <2>3. DayEntriesHold'
    BY <1>h, <2>1 DEF DayEntriesHold
  <2>4. YearEntriesHold'
    BY <2>1, <2>2 DEF YearEntriesHold, Hot
  <2> QED BY <2>3, <2>4
<1>8. CASE UploadYear
  <2>1. exporter.pc = "upload" /\ UNCHANGED <<bucket, index, writer>> /\ remote' = [remote EXCEPT ![YearObject] = exporter.file]
    BY <1>8 DEF UploadYear
  <2>2. exporter'.pc = "index" /\ exporter'.todo = exporter.todo /\ exporter'.file = exporter.file
    BY <1>8, <1>t DEF UploadYear, Exporter
  <2>3. remote'[YearObject] = exporter.file /\ \A e \in Days : remote'[e] = remote[e]
    BY <1>t, <1>p, <2>1, FileTypes
  <2>4. DayEntriesHold'
    BY <1>h, <2>1, <2>3 DEF DayEntriesHold, Equipped
  <2>5. YearEntriesHold'
    BY <1>h, <2>1, <2>2, <2>3 DEF YearEntriesHold, Being, Hot
  <2> QED BY <2>4, <2>5
<1>9. ASSUME NEW d \in Days, IndexYear(d) PROVE DayEntriesHold' /\ YearEntriesHold'
  <2>1. /\ exporter.pc = "index" /\ d \in exporter.todo /\ UNCHANGED <<bucket, remote, writer>>
        /\ index' = [index EXCEPT ![d] = [object |-> "year", digest |-> exporter.file]]
    BY <1>9 DEF IndexYear
  <2>2. /\ index'[d].object = "year" /\ index'[d].digest = exporter.file
        /\ \A e \in Days : e # d => index'[e] = index[e]
    BY <1>t, <2>1
  <2>3. \/ exporter'.pc = "index" /\ exporter'.file = exporter.file /\ exporter'.todo = exporter.todo \ {d}
        \/ exporter'.pc = "idle" /\ exporter.todo \ {d} = {}
    BY <1>9, <1>t DEF IndexYear, NotExporting, Exporter
  <2>4. DayEntriesHold'
    BY <1>h, <2>1, <2>2 DEF DayEntriesHold
  <2>5. YearEntriesHold'
    BY <1>h, <2>1, <2>2, <2>3 DEF YearEntriesHold, Being, Hot
  <2> QED BY <2>4, <2>5
<1>10. \/ UNCHANGED <<bucket, index, remote, writer, exporter>>
       \/ \E d \in Days, rows \in {"partial", "full"} : FetchDay(d, rows)
       \/ WriteDayFile \/ UploadDay \/ IndexDay \/ PlanOwnCleanup \/ OwnCleanup \/ Cleanup
       \/ \E ds \in Selections : WriteYearFile(ds)
       \/ UploadYear \/ \E d \in Days : IndexYear(d)
  BY ColdCases DEF NextMonth, ArchivingStops, ExportStops, Look, CheckCache, Download, Verify, Open,
     Return, Prune, PlanCleanup, OtherSourceUploads, vars
<1> QED BY <1>1, <1>2, <1>3, <1>4, <1>5, <1>6, <1>7, <1>8, <1>9, <1>10

-----------------------------------------------------------------------------

\* The inductive invariant.
ColdIInv == ColdTypeOK /\ Equipped /\ PlansHold /\ EntriesHold

\* It holds at first,
LEMMA ColdStarts == Init => ColdIInv
<1> SUFFICES ASSUME Init PROVE ColdIInv
  OBVIOUS
<1>1. ColdTypeOK
  <2>1. month \in Nat
    BY ColdAssumption DEF ColdAssumption, Init, Months
  <2>2. 0 \in 0 .. MaxFetches /\ 0 \in 0 .. MaxExports /\ 0 \in 0 .. MaxIncidents
    BY ColdAssumption DEF ColdAssumption
  <2>3. index \in [Days -> Doc] /\ \A d \in Days : index[d].object = "none"
    BY FileTypes DEF Init, NoDoc
  <2> QED BY <2>1, <2>2, <2>3, FileTypes DEF Init, ColdTypeOK
<1>2. Equipped
  BY DEF Init, Equipped, NotArchiving, NotExporting, NotReading
<1>3. PlansHold
  BY DEF Init, PlansHold, NotArchiving, NotCleaning
<1>4. EntriesHold
  BY DEF Init, EntriesHold, DayEntriesHold, YearEntriesHold, NotArchiving, NotExporting, NoDoc
<1> QED BY <1>1, <1>2, <1>3, <1>4 DEF ColdIInv

\* and every step keeps it.
LEMMA ColdStep == ColdIInv /\ [Next]_vars => ColdIInv'
BY ColdTypeStep, PlansStep, EntriesStep DEF ColdIInv

\* Every behaviour keeps the inductive invariant.
THEOREM ColdInvCorrect == Spec => []ColdIInv
BY ColdStarts, ColdStep, PTL DEF Spec

\* Buckets, index, objects and what processes are at stay of their types, and an index
\* entry (upsert_day_index) is never about an object without its day.
THEOREM ColdTypeCorrect == Spec => []ColdTypeOK
<1>1. ColdIInv => ColdTypeOK
  BY DEF ColdIInv
<1> QED BY <1>1, ColdInvCorrect, PTL

\* Whatever the index lists can be retrieved as long as nothing failed, exports were of
\* everything, and archived days have their buckets, for any days and months: the year's
\* object (archive_stock_year_shards) overwrites what it held of days without a bucket.
THEOREM HotCorrect == Spec => []RetrievableWhileHot
<1>1. ColdIInv => RetrievableWhileHot
  <2> SUFFICES ASSUME ColdIInv, incidents = 0, Archived \subseteq Hot, Settled, NEW d \in Archived
               PROVE  Retrievable(d)
    BY DEF RetrievableWhileHot, IndexedIsRetrievable
  <2>1. index[d] \in Doc /\ index[d].object # "none" /\ d \in Hot /\ d \in Days
    BY DEF ColdIInv, ColdTypeOK, Archived
  <2>2. index[d].object \in {"day", "year"}
    BY <2>1 DEF Doc
  <2>3. DayEntriesHold /\ YearEntriesHold /\ ~Being(d)
    BY DEF ColdIInv, EntriesHold, Settled, Being
  <2> QED BY <2>1, <2>2, <2>3 DEF DayEntriesHold, YearEntriesHold, Retrievable, PathOf, Settled
<1> QED BY <1>1, ColdInvCorrect, PTL

\* A bucket goes only if its day and HotDays newer ones are archived (cleanup_archived_buckets),
\* although the days are read before the buckets are deleted.
THEOREM CleanupIsSafe == Spec => CleanupKeepsNewest
<1> DEFINE Keeps == \A d \in Days :
             bucket[d] # "none" /\ bucket'[d] = "none" =>
               /\ d \in Archived
               /\ Cardinality({e \in Archived : e > d}) >= HotDays
<1>1. ColdIInv /\ [Next]_vars => [Keeps]_vars
  BY CleanupCorrect DEF ColdIInv
<1> QED BY <1>1, ColdInvCorrect, PTL DEF Spec, CleanupKeepsNewest

\* One reader returns the rows of the entry it started from, or none, whatever is archived,
\* exported, cut short or pruned meanwhile.
THEOREM ReadCorrect ==
  ASSUME \A r, q \in Readers : r = q
  PROVE  Spec => []ReadIsVerified
<1>1. Init => ReadsHold
  BY DEF Init, ReadsHold, NotReading
<1>2. ColdIInv /\ ReadsHold /\ [Next]_vars => ReadsHold'
  BY ReadsStep DEF ColdIInv
<1>3. ReadsHold => ReadIsVerified
  BY DEF ReadsHold, ReadIsVerified
<1> QED BY <1>1, <1>2, <1>3, ColdInvCorrect, PTL DEF Spec
=============================================================================
