------------------------------ MODULE MCServices ------------------------------
(* Three parts that share no state, checked in one run: a behaviour follows one. *)
EXTENDS NewsCrawl, Accounts, SideJobs, TLC

VARIABLE part   \* the part that this behaviour follows

Said == <<"x", "y", "x", "z">>

Alike == Permutations(Crawlers) \cup Permutations(Names) \cup Permutations(Codes) \cup Permutations(Workers)

\* Overlapping crawls are followed through two runs without a fault; otherwise a behaviour
\* has one fault or one cancellation, and no archive and at most three articles in a third run.
OneTrouble ==
  /\ past.overlapped => Len(crawlRuns) <= 2 /\ faults = 0 /\ published <= 2 /\ bundle = {}
  /\ Len(crawlRuns) = 3 => published <= 3 /\ bundle = {}
  /\ faults > 0 => \A r \in DOMAIN crawlRuns : ~crawlRuns[r].cancel

\* A behaviour is about invitations, about VIP codes or about demo accounts.
OneKindOfCode ==
  LET made(for) == {c \in Codes : codes[c] # None /\ codes[c].for = for}
      two == \A c \in Codes : codes[c] # None
      vips == {u \in Names : users[u] # None /\ users[u].vip > 0}
      kinds == << made("invite") # {} /\ two, made("vip") \cup vips # {}, \E d \in Demos : demos[d] # None >>
  IN \A i, j \in 1..3 : kinds[i] /\ kinds[j] => i = j

ServicesInit ==
  /\ part \in {"news", "accounts", "jobs"}
  /\ NewsInit /\ AccountsInit /\ SideJobsInit

ServicesNext ==
  /\ UNCHANGED part
  /\ \/ part = "news" /\ NewsNext /\ UNCHANGED <<accountVars, sideVars>>
     \/ part = "accounts" /\ AccountsNext /\ UNCHANGED <<newsVars, sideVars>>
     \/ part = "jobs" /\ SideJobsNext /\ UNCHANGED <<newsVars, accountVars>>

ServicesSpec == ServicesInit /\ [][ServicesNext]_<<part, newsVars, accountVars, sideVars>>

\* The types of the three parts.
ServicesTypeOK == NewsTypeOK /\ AccountsTypeOK /\ SideJobsTypeOK
=============================================================================
