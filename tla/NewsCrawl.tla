------------------------------ MODULE NewsCrawl ------------------------------
(* One news source of NewsCrawler: the executor's crawls of it, the article  *)
(* collection they write, the list of pending urls a provider may keep, the  *)
(* cold index, run records, pauses and the health that is shown.  Crawls are *)
(* processes of their own (the timer's, the administrator's) that share only *)
(* the database.  Retries of a fetch, dry runs, time ranges and the limit on *)
(* the number of articles are left out.                                      *)
EXTENDS Sequences, SequencesExt, FiniteSets, FiniteSetsExt, Integers

CONSTANTS
  Crawlers,    \* the processes that may crawl the source
  Contents,    \* what each article says, Contents[a] for the a-th published
  PageSize,    \* articles on a page of the feed
  MaxPages,    \* pages a run looks at
  MaxRuns,     \* bound: runs
  MaxFaults,   \* bound: fetches or pages that fail, timeouts, kills, expiries
  MaxCancels   \* bound: cancellations asked for

ASSUME NewsAssumption ==
  /\ DOMAIN Contents = 1..Len(Contents) /\ PageSize \in 0..Len(Contents)
  /\ MaxPages \in Nat /\ MaxRuns \in Nat /\ MaxFaults \in Nat

VARIABLES
  published,   \* how many articles the source has published
  keepsList,   \* the provider keeps a list of pending urls (Bloomberg does)
  pending,     \* that list, as stored
  hot,         \* the stored documents, by _id: the article each one holds
  bundle,      \* the articles of the exported bundle
  cold,        \* the articles of the cold index
  crawlRuns,   \* the run records, in the order they started
  paused,      \* an active pause of the source
  credential,  \* the login of the source is good
  health,      \* the health document
  crawl,       \* what each process is doing
  faults,      \* faults so far
  past         \* history: [overlapped, hazy, gap, dropped, owed]

newsVars == <<published, keepsList, pending, hot, bundle, cold, crawlRuns,
              paused, credential, health, crawl, faults, past>>

Articles == 1..Len(Contents)
Ended == {"succeeded", "partial", "failed", "cancelled"}
Shown == {"none", "online", "warning", "offline", "paused"}

\* What became of a page; "older" is history: an article of it was known, and as itself, from
\* an earlier run.
NoPage == [fetched |-> FALSE, existing |-> FALSE, inserted |-> FALSE, older |-> FALSE]

\* A crawl: its run, what had been published when it began; urls of the list to take up
\* again, the page read last and its urls not taken yet, the list as this process has it;
\* the page at hand and what became of it, whether paging has ended; the article at hand and
\* the document found for it; the run's status, and the health it is to publish.  History: the
\* articles whose documents are this run's own.
Resting == [pc |-> "idle", run |-> 0, began |-> 0, replay |-> {}, page |-> 0,
            urls |-> {}, listed |-> {}, key |-> 0, stats |-> NoPage,
            stopped |-> FALSE, ref |-> 0, match |-> 0, errors |-> FALSE,
            status |-> "running", view |-> "none", own |-> {}]

Active(c) == crawl[c].pc # "idle"
OthersActive(c) == \E d \in Crawlers \ {c} : Active(d)
Quiet == \A c \in Crawlers : ~Active(c)
Crawls(c, state) == crawl' = [crawl EXCEPT ![c] = state]
MayFault == faults < MaxFaults

(***************************************************************************)
(* The feed and the collections.                                           *)
(***************************************************************************)
\* The feed shows the newest first; its pages move while articles appear.
FeedPage(p) ==
  LET newest == published - (p - 1) * PageSize
  IN {a \in Articles : newest - PageSize < a /\ a <= newest}

\* The slots of the documents that have one of the keys of the article.
MatchingById(a) == {s \in DOMAIN hot : hot[s] = a}
Matching(a) == {s \in DOMAIN hot : hot[s] = a \/ Contents[hot[s]] = Contents[a]}

\* The unique index on article_id refuses a second document of an article.
Refused(a, slot) == \E s \in DOMAIN hot : hot[s] = a /\ s # slot

Kept(a) == a \in cold \/ \E s \in DOMAIN hot : Contents[hot[s]] = Contents[a]

(***************************************************************************)
(* Health, projected from the run records and the pause.                   *)
(***************************************************************************)
\* Runs since the last one that ended well, whatever became of them.
FailuresInARow ==
  LET well == {r \in DOMAIN crawlRuns : crawlRuns[r].status \in {"succeeded", "partial"}}
  IN Len(crawlRuns) - Max(well \cup {0})

Projected ==
  LET n == Len(crawlRuns)
      ok == Cardinality({r \in DOMAIN crawlRuns : crawlRuns[r].status = "succeeded"})
  IN IF paused THEN "paused"
     ELSE IF FailuresInARow >= 3 THEN "offline"
     ELSE IF FailuresInARow > 0 \/ n = 0 \/ crawlRuns[n].status = "partial" \/ 5 * ok < 4 * n
       THEN "warning" ELSE "online"

(***************************************************************************)
(* A run.                                                                  *)
(***************************************************************************)
\* A new url joins the list that the run started from.
ListedAlone(list, a) == {a}
Listed(list, a) == list \cup {a}

\* A paused source is not registered; a login that is not good ends discover().
StartCrawl(c) ==
  /\ ~Active(c)
  /\ ~paused
  /\ Len(crawlRuns) < MaxRuns
  /\ crawlRuns' = Append(crawlRuns, [status |-> "running", cancel |-> FALSE])
  /\ LET first == [Resting EXCEPT !.run = Len(crawlRuns) + 1, !.began = published]
     IN Crawls(c, IF keepsList /\ ~credential
                  THEN [first EXCEPT !.pc = "pause"]
                  ELSE [first EXCEPT !.pc = "next", !.replay = pending, !.listed = pending])
  /\ past' = [past EXCEPT !.overlapped = @ \/ OthersActive(c), !.hazy = OthersActive(c)]
  /\ UNCHANGED <<published, keepsList, pending, hot, bundle, cold, paused, credential, health, faults>>

\* A page on which something was fetched and all of that was known ends its group.
BoundaryFetched(stats) == stats.fetched
Boundary(stats) == stats.fetched /\ stats.existing /\ ~stats.inserted

\* History: such a page that shows nothing of an earlier run.
Misled(stats) == stats.fetched /\ stats.existing /\ ~stats.inserted /\ ~stats.older

\* A cancellation is looked at before an article is fetched.
CancelSeen(c) == crawlRuns[crawl[c].run].cancel

\* The executor is handed a reference of page p (0 when it comes from the list) by a crawl
\* that has gone on to self.
Handed(c, a, p, self) ==
  LET turned == self.key # p
      stopped == self.stopped \/ (turned /\ self.key >= 1 /\ Boundary(self.stats))
      here == [self EXCEPT !.key = p, !.stopped = stopped, !.stats = IF turned THEN NoPage ELSE @]
      beyond == p > 1 /\ stopped
  IN \/ beyond /\ Crawls(c, here)
     \/ /\ ~beyond /\ CancelSeen(c)
        /\ Crawls(c, [here EXCEPT !.pc = "finish", !.status = "cancelled"])
     \/ /\ ~beyond /\ ~CancelSeen(c)
        /\ Crawls(c, IF a \in cold THEN [here EXCEPT !.stats.existing = TRUE]
                     ELSE [here EXCEPT !.pc = "fetch", !.ref = a])

\* The urls on the list come first, in whatever order.
Replay(c) ==
  /\ crawl[c].pc = "next"
  /\ \E a \in crawl[c].replay : Handed(c, a, 0, [crawl[c] EXCEPT !.replay = @ \ {a}])
  /\ UNCHANGED <<published, keepsList, pending, hot, bundle, cold, crawlRuns, paused, credential, health,
                 faults, past>>

\* The next page is read when nothing is left of the list and the page before.
AtPage(c) == crawl[c].pc = "next" /\ crawl[c].replay = {} /\ crawl[c].urls = {} /\ crawl[c].page < MaxPages

\* A provider with a list leaves out what it saw in this run.
ReadPage(c) ==
  LET self == crawl[c]
      page == FeedPage(self.page + 1)
      known == IF keepsList THEN self.listed ELSE {}
  IN /\ AtPage(c)
     /\ Crawls(c, [self EXCEPT !.urls = page \ known,
                               !.page = IF page = {} THEN MaxPages ELSE @ + 1])
     /\ UNCHANGED <<published, keepsList, pending, hot, bundle, cold, crawlRuns, paused, credential, health,
                    faults, past>>

\* The newest first; the whole list is stored again before a new url is handed out.
TakeUrl(c) ==
  LET self == crawl[c]
      a == Max(self.urls)
      listed == IF keepsList THEN Listed(self.listed, a) ELSE {}
  IN /\ self.pc = "next"
     /\ self.replay = {} /\ self.urls # {}
     /\ pending' = IF keepsList THEN listed ELSE pending
     /\ Handed(c, a, self.page, [self EXCEPT !.urls = @ \ {a}, !.listed = listed])
     /\ past' = [past EXCEPT !.owed = IF keepsList THEN @ \cup {a} ELSE @,
                             !.gap = @ \/ (crawl'[c].stopped /\ ~self.stopped /\ Misled(self.stats))]
     /\ UNCHANGED <<published, keepsList, hot, bundle, cold, crawlRuns, paused, credential, health, faults>>

\* The pages are used up.
Exhausted(c) ==
  LET self == crawl[c]
  IN /\ self.pc = "next"
     /\ self.replay = {} /\ self.urls = {} /\ self.page = MaxPages
     /\ Crawls(c, [self EXCEPT !.pc = "finish", !.status = IF self.errors THEN "partial" ELSE "succeeded"])
     /\ UNCHANGED <<published, keepsList, pending, hot, bundle, cold, crawlRuns, paused, credential, health,
                    faults, past>>

\* fetch() takes the url off the stored list; the look-up of known documents follows.
FetchOk(c) ==
  LET self == crawl[c]
      a == self.ref
  IN /\ self.pc = "fetch"
     /\ keepsList => credential
     /\ pending' = IF keepsList THEN pending \ {a} ELSE pending
     /\ \E match \in IF Matching(a) = {} THEN {0} ELSE Matching(a) :
          Crawls(c, [self EXCEPT !.pc = "write", !.match = match, !.stats.fetched = TRUE])
     /\ past' = [past EXCEPT !.owed = @ \ {a}]
     /\ UNCHANGED <<published, keepsList, hot, bundle, cold, crawlRuns, paused, credential, health, faults>>

\* A fetch that fails for good is an error of the run; one that is skipped is not.
FetchFails(c) ==
  LET self == crawl[c]
  IN /\ self.pc = "fetch"
     /\ keepsList => credential
     /\ MayFault
     /\ faults' = faults + 1
     /\ \E error \in BOOLEAN :
          Crawls(c, [self EXCEPT !.pc = "next", !.ref = 0, !.errors = @ \/ error])
     /\ past' = [past EXCEPT !.dropped = @ \cup {self.ref}]
     /\ UNCHANGED <<published, keepsList, pending, hot, bundle, cold, crawlRuns, paused, credential, health>>

\* A login that went bad pauses the source.
FetchRefused(c) ==
  /\ crawl[c].pc = "fetch"
  /\ keepsList /\ ~credential
  /\ Crawls(c, [crawl[c] EXCEPT !.pc = "pause", !.ref = 0])
  /\ UNCHANGED <<published, keepsList, pending, hot, bundle, cold, crawlRuns, paused, credential, health,
                 faults, past>>

\* upsert_article(): the document found is overwritten, or a new one inserted.
Store(c) ==
  LET self == crawl[c]
      a == self.ref
      slot == IF self.match = 0 THEN Len(hot) + 1 ELSE self.match
      known == self.match # 0 /\ hot[slot] = a
      stats == IF self.match = 0 THEN [self.stats EXCEPT !.inserted = TRUE]
               ELSE [self.stats EXCEPT !.existing = TRUE, !.older = @ \/ (known /\ a \notin self.own)]
  IN /\ self.pc = "write"
     /\ UNCHANGED <<published, keepsList, pending, bundle, cold, crawlRuns, paused, credential, health, faults>>
     /\ \/ /\ ~Refused(a, slot)
           /\ hot' = IF self.match = 0 THEN Append(hot, a) ELSE [hot EXCEPT ![slot] = a]
           /\ Crawls(c, [self EXCEPT !.pc = "next", !.ref = 0, !.match = 0, !.stats = stats,
                                     !.own = IF known THEN @ ELSE @ \cup {a}])
           /\ UNCHANGED past
        \/ /\ Refused(a, slot)
           /\ Crawls(c, [self EXCEPT !.pc = "finish", !.ref = 0, !.match = 0, !.status = "failed"])
           /\ past' = [past EXCEPT !.dropped = @ \cup {a}, !.gap = TRUE]
           /\ UNCHANGED hot

\* The deadline passes before or after a fetch, or a page of the feed cannot be read.
BreakOff(c) ==
  LET self == crawl[c]
  IN /\ self.pc \in {"fetch", "write"} \/ AtPage(c)
     /\ MayFault
     /\ faults' = faults + 1
     /\ Crawls(c, [self EXCEPT !.pc = "finish", !.ref = 0, !.match = 0, !.status = "failed"])
     /\ past' = [past EXCEPT !.gap = TRUE, !.dropped = IF self.pc = "write" THEN @ \cup {self.ref} ELSE @]
     /\ UNCHANGED <<published, keepsList, pending, hot, bundle, cold, crawlRuns, paused, credential, health>>

(***************************************************************************)
(* The end of a run: pause, run record, health.                            *)
(***************************************************************************)
WritePause(c) ==
  /\ crawl[c].pc = "pause"
  /\ paused' = TRUE
  /\ Crawls(c, [crawl[c] EXCEPT !.pc = "show", !.status = "failed"])
  /\ past' = [past EXCEPT !.gap = TRUE]
  /\ UNCHANGED <<published, keepsList, pending, hot, bundle, cold, crawlRuns, credential, health, faults>>

ShowPause(c) ==
  /\ crawl[c].pc = "show"
  /\ health' = "paused"
  /\ Crawls(c, [crawl[c] EXCEPT !.pc = "finish"])
  /\ UNCHANGED <<published, keepsList, pending, hot, bundle, cold, crawlRuns, paused, credential, faults, past>>

FinishRun(c) ==
  /\ crawl[c].pc = "finish"
  /\ crawlRuns' = [crawlRuns EXCEPT ![crawl[c].run].status = crawl[c].status]
  /\ Crawls(c, [crawl[c] EXCEPT !.pc = "project"])
  /\ past' = [past EXCEPT !.gap = @ \/ crawl[c].status = "cancelled"]
  /\ UNCHANGED <<published, keepsList, pending, hot, bundle, cold, paused, credential, health, faults>>

\* update_health() reads the runs and the pause, and writes what it made of them.
ProjectHealth(c) ==
  /\ crawl[c].pc = "project"
  /\ Crawls(c, [crawl[c] EXCEPT !.pc = "publish", !.view = Projected])
  /\ UNCHANGED <<published, keepsList, pending, hot, bundle, cold, crawlRuns, paused, credential, health,
                 faults, past>>

OutcomeUnlessCancelled(c) == IF crawl[c].status = "cancelled" THEN health ELSE crawl[c].view
Outcome(c) == crawl[c].view

PublishHealth(c) ==
  /\ crawl[c].pc = "publish"
  /\ health' = Outcome(c)
  /\ Crawls(c, Resting)
  /\ UNCHANGED <<published, keepsList, pending, hot, bundle, cold, crawlRuns, paused, credential, faults, past>>

\* The process is killed: its run record says "running" for ever.
KillCrawl(c) ==
  /\ Active(c)
  /\ MayFault
  /\ faults' = faults + 1
  /\ Crawls(c, Resting)
  /\ past' = [past EXCEPT !.hazy = TRUE, !.gap = TRUE,
                          !.dropped = IF crawl[c].pc = "write" THEN @ \cup {crawl[c].ref} ELSE @]
  /\ UNCHANGED <<published, keepsList, pending, hot, bundle, cold, crawlRuns, paused, credential, health>>

(***************************************************************************)
(* The source, the administrator, the archive.                             *)
(***************************************************************************)
PublishArticle ==
  /\ published < Len(Contents)
  /\ published' = published + 1
  /\ UNCHANGED <<keepsList, pending, hot, bundle, cold, crawlRuns, paused, credential, health, crawl, faults, past>>

\* cancel: only a run that is under way takes the request.
RequestCancel(c) ==
  /\ Active(c)
  /\ LET r == crawl[c].run
     IN /\ crawlRuns[r].status = "running" /\ ~crawlRuns[r].cancel
        /\ crawlRuns' = [crawlRuns EXCEPT ![r].cancel = TRUE]
  /\ Cardinality({r \in DOMAIN crawlRuns : crawlRuns[r].cancel}) < MaxCancels
  /\ UNCHANGED <<published, keepsList, pending, hot, bundle, cold, paused, credential, health, crawl, faults, past>>

CredentialExpires ==
  /\ keepsList /\ credential
  /\ MayFault
  /\ faults' = faults + 1
  /\ credential' = FALSE
  /\ UNCHANGED <<published, keepsList, pending, hot, bundle, cold, crawlRuns, paused, health, crawl, past>>

\* Saving a credential clears the pause, and leaves the health as it is.
SaveCredential ==
  /\ ~credential \/ paused
  /\ credential' = TRUE
  /\ paused' = FALSE
  /\ past' = [past EXCEPT !.hazy = TRUE]
  /\ UNCHANGED <<published, keepsList, pending, hot, bundle, cold, crawlRuns, health, crawl, faults>>

\* A bundle of the stored articles, then its entries in the cold index.
ExportBundle ==
  /\ bundle = {}
  /\ hot # <<>>
  /\ bundle' = Range(hot)
  /\ UNCHANGED <<published, keepsList, pending, hot, cold, crawlRuns, paused, credential, health, crawl, faults, past>>

IndexCold ==
  /\ bundle # cold
  /\ cold' = cold \cup bundle
  /\ UNCHANGED <<published, keepsList, pending, hot, bundle, crawlRuns, paused, credential, health, crawl, faults, past>>

NewsInit ==
  /\ published = PageSize
  /\ keepsList \in BOOLEAN
  /\ pending = {} /\ hot = <<>>
  /\ bundle = {} /\ cold = {}
  /\ crawlRuns = <<>>
  /\ paused = FALSE /\ credential = TRUE
  /\ health = "none"
  /\ crawl = [c \in Crawlers |-> Resting]
  /\ faults = 0
  /\ past = [overlapped |-> FALSE, hazy |-> TRUE, gap |-> FALSE, dropped |-> {}, owed |-> {}]

CrawlStep(c) ==
  \/ StartCrawl(c) \/ Replay(c) \/ ReadPage(c) \/ TakeUrl(c) \/ Exhausted(c)
  \/ FetchOk(c) \/ FetchFails(c) \/ FetchRefused(c) \/ Store(c) \/ BreakOff(c)
  \/ WritePause(c) \/ ShowPause(c) \/ FinishRun(c) \/ ProjectHealth(c) \/ PublishHealth(c)
  \/ KillCrawl(c) \/ RequestCancel(c)

NewsNext ==
  \/ \E c \in Crawlers : CrawlStep(c)
  \/ PublishArticle \/ CredentialExpires \/ SaveCredential \/ ExportBundle \/ IndexCold

NewsSpec == NewsInit /\ [][NewsNext]_newsVars

(***************************************************************************)
(* Correctness.                                                            *)
(***************************************************************************)
Stages == {"idle", "next", "fetch", "write", "pause", "show", "finish", "project", "publish"}
Page   == [fetched : BOOLEAN, existing : BOOLEAN, inserted : BOOLEAN, older : BOOLEAN]
Crawl  == [pc : Stages, run : 0..MaxRuns, began : 0..Len(Contents), replay : SUBSET Articles,
           page : 0..MaxPages, urls : SUBSET Articles, listed : SUBSET Articles,
           key : 0..MaxPages, stats : Page, stopped : BOOLEAN, ref : Articles \cup {0},
           match : Nat, errors : BOOLEAN, status : Ended \cup {"running"}, view : Shown, own : SUBSET Articles]

\* Types, and a run record for every process at work.
NewsTypeOK ==
  /\ published \in 0..Len(Contents) /\ keepsList \in BOOLEAN
  /\ pending \subseteq Articles /\ hot \in Seq(Articles)
  /\ bundle \subseteq Articles /\ cold \subseteq bundle
  /\ crawlRuns \in Seq([status : Ended \cup {"running"}, cancel : BOOLEAN]) /\ Len(crawlRuns) <= MaxRuns
  /\ paused \in BOOLEAN /\ credential \in BOOLEAN /\ health \in Shown
  /\ crawl \in [Crawlers -> Crawl]
  /\ faults \in 0..MaxFaults
  /\ past \in [overlapped : BOOLEAN, hazy : BOOLEAN, gap : BOOLEAN, dropped : SUBSET Articles,
               owed : SUBSET Articles]
  /\ \A c \in Crawlers : Active(c) =>
       /\ crawl[c].run \in DOMAIN crawlRuns
       /\ crawl[c].pc \in {"fetch", "write"} => crawl[c].ref \in Articles
       /\ (crawl[c].pc \in {"project", "publish"}) <=> (crawlRuns[crawl[c].run].status \in Ended)

\* Two documents that say the same are stored only when crawls of the source overlapped:
\* the look-up before a write goes by all keys, and nothing else writes.
TwinsNeedOverlap ==
  past.overlapped \/
    \A s, t \in DOMAIN hot : Contents[hot[s]] = Contents[hot[t]] => s = t

\* What a run that ended well leaves behind: everything that was published before it began and
\* is still on its pages is stored, or on the list of the provider; except for fetches that
\* were lost, and, without a list, what was left out for good by a run that broke off, or whose
\* paging ended on a page that showed nothing of an earlier run: only what this run had just
\* stored, the feed having moved, or twins of what was stored.
BoundaryMissesNothing ==
  \A c \in Crawlers :
    LET reach == {a \in 1..crawl[c].began : a > published - MaxPages * PageSize}
    IN ( /\ crawl[c].pc = "project"
         /\ crawl[c].status \in {"succeeded", "partial"}
         /\ ~past.overlapped
         /\ keepsList \/ ~past.gap ) =>
         \A a \in reach : Kept(a) \/ a \in pending \/ a \in past.dropped

\* A url that was found and not fetched since is on the stored list, whatever became of the
\* run: only overlapping crawls overwrite each other's list.
PendingKeepsUnfetched ==
  past.overlapped \/ past.owed \subseteq pending

\* When no crawl is under way the health that is shown is that of the recorded runs and the
\* pause, unless crawls overlapped, one was killed or a credential was saved since.
HealthFollowsRuns == Quiet /\ ~past.hazy => health = Projected
=============================================================================
