----------------------------- MODULE ServicesProofs -----------------------------
(***************************************************************************)
(* Proofs about Accounts, NewsCrawl and SideJobs, which share nothing, and  *)
(* about the three in one run.                                             *)
(*                                                                         *)
(* An account that was put out has no session: a session comes only from a  *)
(* login, and a login of an account that is out was past its check when the *)
(* account was put out (LateLoginsCross) or the file of the sessions brings *)
(* it back at a restart, which needs the file to have no more sessions than *)
(* memory has, but for those that ran out (FileFollows).                    *)
(*                                                                         *)
(* The crawls of a source keep no lock.  What the properties say of crawls  *)
(* that did not overlap rests on at most one process being at work          *)
(* (OneAtATime, ViewIsTrue): then what it read is still true when it writes *)
(* (FoundIsRight, ListIsWhole).                                             *)
(*                                                                         *)
(* What the registry says of a job is what was written last: only the       *)
(* controller that holds a process writes about it (Holding), a process     *)
(* that none holds has ended (Processes), and an agent's job that the store *)
(* still has tells its end (Agents).                                        *)
(***************************************************************************)
EXTENDS MCServices, SetLemmas

-----------------------------------------------------------------------------
(* Accounts *)

\* Sessions: what counts for an account is in memory; what is in memory is in the file;
\* the file has one session of an account, and beyond what is in memory only what ran out.
Known == \A u \in Account : current[u] # 0 =>
           sessions[current[u]] # None /\ sessions[current[u]].user = u
FileFollows ==
  /\ \A s, t \in Tokens : savedSessions[s] # None /\ savedSessions[t] # None
                            /\ savedSessions[s].user = savedSessions[t].user => s = t
  /\ \A t \in Tokens : sessions[t] # None =>
       savedSessions[t] # None /\ savedSessions[t].user = sessions[t].user
  /\ \A t \in Tokens : savedSessions[t] # None /\ sessions[t] = None => savedSessions[t].until <= now

\* A session that was ended is neither in memory nor in the file.
EndedIsGone == \A t \in memory.ended : sessions[t] = None /\ savedSessions[t] = None

\* A login of an account that is out was past its check when the account was put out.
LateLoginsCross == \A w \in Workers, u \in Account :
  worker[w].pc = "login" /\ worker[w].who = u /\ Out(u) => u \in memory.crossed

\* An account that is out has no session, or is about to lose it, or was crossed.
OutHasNone == \A u \in Account :
  Out(u) /\ ~UnderWay(u) /\ u \notin memory.crossed => SessionOf(u) = {}

\* What the constants are, and a thread at rest.
LEMMA AccountFacts ==
  /\ MaxNow \in Nat /\ SessionTtl \in Nat /\ DemoLimit \in Nat /\ MaxRestarts \in Nat
  /\ Tokens \subseteq Nat /\ 0 \notin Tokens
  /\ None \notin User /\ None \notin Demo /\ None \notin Code /\ None \notin Session
  /\ Free \in Work /\ Free.pc = "idle"
  /\ Names \subseteq Account /\ Demos \subseteq Account
<1>1. None \notin User /\ None \notin Demo /\ None \notin Code /\ None \notin Session
  BY DEF None, User, Demo, Code, Session
<1> QED BY <1>1, AccountsAssumption DEF AccountsAssumption, Free, Work, Account

\* What a thread has, by what it is doing.
LEMMA WorkKinds ==
  ASSUME NEW w \in Work
  PROVE  /\ w.pc \in {"idle", "create", "login", "drop"}
         /\ w.pc = "create" => w.who \in Names /\ w.code \in Codes
         /\ w.pc \in {"login", "drop"} => w.who \in Account
BY DEF Work

\* Every step is one of these.
LEMMA AccountCases ==
  ASSUME [AccountsNext]_accountVars
  PROVE  \/ \E c \in Codes, for \in {"invite", "vip"} : MakeCode(c, for)
         \/ \E d \in Demos : CreateDemo(d) \/ ResetDemo(d)
         \/ \E u \in Names : GrantVip(u) \/ RevokeVip(u) \/ Enable(u)
         \/ \E t \in Tokens : Request(t) \/ RequestLate(t) \/ Logout(t) \/ SpendDemo(t)
         \/ \E t \in Tokens, c \in Codes : Redeem(t, c)
         \/ \E w \in Workers :
              \/ \E u \in Names, c \in Codes : Register(w, u, c)
              \/ \E u \in Account : Authenticate(w, u) \/ Disable(w, u) \/ Archive(w, u)
              \/ CreateUser(w) \/ StoreSession(w) \/ DropSessions(w)
         \/ Overview \/ Tick \/ Restart
         \/ UNCHANGED accountVars
BY DEF AccountsNext

-----------------------------------------------------------------------------

\* The steps that touch sessions, the session file or the record of ended sessions.
Prolonged(t) ==
  /\ Alive(t)
  /\ sessions' = [sessions EXCEPT ![t].until = now + SessionTtl]
  /\ UNCHANGED <<now, current, savedSessions, memory>>
Removed(gone) ==
  /\ Without(gone)
  /\ gone \subseteq Tokens
  /\ memory' = [memory EXCEPT !.ended = @ \cup gone]
  /\ UNCHANGED now

\* Every step leaves the sessions alone or does one of these to them.
LEMMA SessionCases ==
  ASSUME AccountsTypeOK, [AccountsNext]_accountVars
  PROVE  \/ UNCHANGED <<sessions, current, savedSessions>> /\ memory'.ended = memory.ended /\ now' \in {now, now + 1}
         \/ \E t \in Tokens : Prolonged(t)
         \/ \E gone \in SUBSET Tokens : Removed(gone)
         \/ \E w \in Workers : StoreSession(w)
         \/ Restart
<1>t. now \in Nat /\ memory \in [ended : SUBSET Tokens, crossed : SUBSET Account, restarts : 0..MaxRestarts]
  BY AccountFacts DEF AccountsTypeOK, Times
<1>1. ASSUME NEW t \in Tokens, NEW c \in Codes, Request(t) \/ SpendDemo(t) \/ Redeem(t, c) PROVE Prolonged(t)
  BY <1>1 DEF Request, SpendDemo, Redeem, Prolonged
<1>2. ASSUME NEW t \in Tokens, Request(t) \/ SpendDemo(t) PROVE Prolonged(t)
  BY <1>2 DEF Request, SpendDemo, Prolonged
<1>3. ASSUME NEW t \in Tokens, RequestLate(t) \/ Logout(t) PROVE Removed({t})
  BY <1>3 DEF RequestLate, Logout, Removed
<1>4. ASSUME NEW w \in Workers, DropSessions(w) PROVE Removed(Dropped(worker[w].who))
  BY <1>4 DEF DropSessions, Removed, Dropped, SessionOf
<1>5. \A w \in Workers : Dropped(worker[w].who) \in SUBSET Tokens
  BY DEF Dropped, SessionOf
<1>6. ASSUME \/ \E c \in Codes, for \in {"invite", "vip"} : MakeCode(c, for)
             \/ \E d \in Demos : CreateDemo(d) \/ ResetDemo(d)
             \/ \E u \in Names : GrantVip(u) \/ RevokeVip(u) \/ Enable(u)
             \/ \E w \in Workers :
                  \/ \E u \in Names, c \in Codes : Register(w, u, c)
                  \/ \E u \in Account : Authenticate(w, u) \/ Disable(w, u) \/ Archive(w, u)
                  \/ CreateUser(w)
             \/ Overview \/ Tick \/ UNCHANGED accountVars
      PROVE  UNCHANGED <<sessions, current, savedSessions>> /\ memory'.ended = memory.ended /\ now' \in {now, now + 1}
  <2>1. UNCHANGED <<sessions, current, savedSessions>> /\ (now' = now \/ now' = now + 1)
    BY <1>6 DEF MakeCode, CreateDemo, ResetDemo, GrantVip, RevokeVip, Enable, Register, Authenticate, Disable,
       Archive, CreateUser, Overview, Tick, accountVars
  <2>2. memory' = memory \/ \E u \in Account : memory' = Crossing(u)
    BY <1>6 DEF MakeCode, CreateDemo, ResetDemo, GrantVip, RevokeVip, Enable, Register, Authenticate, Disable,
       Archive, CreateUser, Overview, Tick, accountVars
  <2>3. memory'.ended = memory.ended
    BY <1>t, <2>2 DEF Crossing
  <2> QED BY <1>t, <2>1, <2>3
<1> QED BY AccountCases, <1>1, <1>2, <1>3, <1>4, <1>5, <1>6

SessionsIInv == Known /\ FileFollows /\ EndedIsGone

\* The types of what these steps touch.
SessionTypes ==
  /\ now \in Nat
  /\ sessions \in [Tokens -> Session \cup {None}] /\ savedSessions \in [Tokens -> Session \cup {None}]
  /\ current \in [Account -> Tokens \cup {0}]
  /\ memory.ended \in SUBSET Tokens
  /\ \A t \in Tokens : sessions[t] # None => current[sessions[t].user] = t

\* They hold of the types of all.
LEMMA SessionTypesHold == AccountsTypeOK => SessionTypes
BY AccountFacts DEF AccountsTypeOK, SessionTypes, Times

\* The new token is none that is or was in use.
NewToken == Max({t \in Tokens : sessions[t] # None \/ t \in memory.ended} \cup {0}) + 1

\* It is greater than each of these.
LEMMA TokenIsFresh ==
  ASSUME SessionTypes
  PROVE  /\ NewToken \in Nat
         /\ \A t \in Tokens : sessions[t] # None \/ t \in memory.ended => t < NewToken
<1> DEFINE S == {t \in Tokens : sessions[t] # None \/ t \in memory.ended} \cup {0}
<1>1. S \in SUBSET Nat /\ S # {} /\ IsFiniteSet(S)
  <2>1. IsFiniteSet(Tokens \cup {0})
    BY AccountsAssumption, FS_AddElement DEF AccountsAssumption
  <2>2. S \subseteq Tokens \cup {0}
    OBVIOUS
  <2>3. IsFiniteSet(S)
    <3> HIDE DEF S
    <3> QED BY <2>1, <2>2, FS_Subset
  <2>4. Tokens \cup {0} \subseteq Nat /\ 0 \in S
    BY AccountFacts
  <2> HIDE DEF S
  <2> QED BY <2>2, <2>3, <2>4
<1>2. Max(S) \in Nat /\ \A t \in S : Max(S) >= t
  <2> HIDE DEF S
  <2> QED BY <1>1, MaxIsGreatest
<1>3. NewToken = Max(S) + 1
  BY DEF NewToken
<1>4. \A t \in Tokens : (sessions[t] # None \/ t \in memory.ended) => t \in S /\ t \in Nat
  BY AccountFacts
<1> HIDE DEF S
<1> QED BY <1>2, <1>3, <1>4

\* The sessions keep their types and what is said of them, and a token that was ended stays so.
LEMMA SessionsStep ==
  ASSUME AccountsTypeOK, SessionsIInv, [AccountsNext]_accountVars
  PROVE  /\ sessions' \in [Tokens -> Session \cup {None}] /\ savedSessions' \in [Tokens -> Session \cup {None}]
         /\ current' \in [Account -> Tokens \cup {0}]
         /\ memory'.ended \in SUBSET Tokens
         /\ \A t \in Tokens : sessions'[t] # None => current'[sessions'[t].user] = t
         /\ SessionsIInv'
<1> DEFINE Good ==
         /\ sessions' \in [Tokens -> Session \cup {None}] /\ savedSessions' \in [Tokens -> Session \cup {None}]
         /\ current' \in [Account -> Tokens \cup {0}]
         /\ memory'.ended \in SUBSET Tokens
         /\ \A t \in Tokens : sessions'[t] # None => current'[sessions'[t].user] = t
         /\ SessionsIInv'
<1>t. SessionTypes
  BY SessionTypesHold
<1>m. memory \in [ended : SUBSET Tokens, crossed : SUBSET Account, restarts : 0..MaxRestarts]
      /\ worker \in [Workers -> Work] /\ now \in Times(0)
  BY DEF AccountsTypeOK
<1>u. \A t \in Tokens : sessions[t] # None => sessions[t].user \in Account /\ sessions[t] \in Session
  BY <1>t DEF SessionTypes, Session
<1>v. \A t \in Tokens : savedSessions[t] # None => savedSessions[t].user \in Account /\ savedSessions[t] \in Session
                                                   /\ savedSessions[t].until \in Nat
  <2>1. Times(SessionTtl) \subseteq Nat
    BY AccountFacts DEF Times
  <2> QED BY <1>t, <2>1 DEF SessionTypes, Session
<1>1. ASSUME UNCHANGED <<sessions, current, savedSessions>>, memory'.ended = memory.ended, now' \in {now, now + 1} PROVE Good
  <2>1. now' \in Nat
    BY <1>1, <1>t DEF SessionTypes
  <2>2. \A t \in Tokens : savedSessions[t] # None /\ sessions[t] = None => savedSessions[t].until <= now'
    BY <1>1, <1>t, <1>v DEF SessionsIInv, FileFollows, SessionTypes
  <2> QED BY <1>1, <1>t, <2>2 DEF SessionsIInv, Known, FileFollows, EndedIsGone, SessionTypes
<1>2. ASSUME NEW t \in Tokens, Prolonged(t) PROVE Good
  <2>1. sessions[t] # None /\ UNCHANGED <<now, current, savedSessions, memory>>
    BY <1>2 DEF Prolonged, Alive
  <2>2. \A s \in Tokens : s # t => sessions'[s] = sessions[s]
    BY <1>2, <1>t DEF Prolonged, SessionTypes
  <2>3. sessions'[t] \in Session /\ sessions'[t].user = sessions[t].user
    <3>1. now + SessionTtl \in Times(SessionTtl)
      BY <1>m, AccountFacts DEF Times
    <3>2. sessions'[t] = [sessions[t] EXCEPT !.until = now + SessionTtl]
      BY <1>2, <1>t DEF Prolonged, SessionTypes
    <3> QED BY <1>u, <2>1, <3>1, <3>2 DEF Session
  <2>4. sessions' \in [Tokens -> Session \cup {None}]
    BY <1>2, <1>t, <2>3 DEF Prolonged, SessionTypes
  <2>5. sessions'[t] # None
    BY <2>3, AccountFacts
  <2>6. Known' /\ FileFollows' /\ EndedIsGone'
    <3>1. Known'
      BY <1>t, <2>1, <2>2, <2>3, <2>5 DEF SessionsIInv, Known, SessionTypes
    <3>2. FileFollows'
      BY <1>t, <2>1, <2>2, <2>3, <2>5 DEF SessionsIInv, FileFollows, SessionTypes
    <3>3. EndedIsGone'
      BY <1>t, <2>1, <2>2 DEF SessionsIInv, EndedIsGone, SessionTypes
    <3> QED BY <3>1, <3>2, <3>3
  <2> QED BY <1>t, <2>1, <2>2, <2>3, <2>4, <2>6 DEF SessionsIInv, SessionTypes
<1>3. ASSUME NEW gone \in SUBSET Tokens, Removed(gone) PROVE Good
  <2>1. /\ sessions' = [t \in Tokens |-> IF t \in gone THEN None ELSE sessions[t]]
        /\ current' = [u \in Account |-> IF current[u] \in gone THEN 0 ELSE current[u]]
        /\ savedSessions' = sessions' /\ now' = now
    BY <1>3 DEF Removed, Without
  <2>2. memory'.ended = memory.ended \cup gone
    BY <1>3, <1>m DEF Removed
  <2>3. \A t \in Tokens : /\ t \in gone => sessions'[t] = None
                          /\ t \notin gone => sessions'[t] = sessions[t]
    BY <2>1
  <2>4. \A u \in Account : current'[u] = IF current[u] \in gone THEN 0 ELSE current[u]
    BY <2>1
  <2>5. sessions' \in [Tokens -> Session \cup {None}] /\ current' \in [Account -> Tokens \cup {0}]
    BY <1>t, <2>1 DEF SessionTypes
  <2>6. \A t \in Tokens : sessions'[t] # None => current'[sessions'[t].user] = t
    BY <1>t, <1>u, <2>3, <2>4 DEF SessionTypes
  <2>7. Known'
    <3> SUFFICES ASSUME NEW u \in Account, current'[u] # 0
                 PROVE  sessions'[current'[u]] # None /\ sessions'[current'[u]].user = u
      BY DEF Known
    <3>1. current[u] \notin gone /\ current'[u] = current[u] /\ current[u] \in Tokens
      BY <1>t, <2>4 DEF SessionTypes
    <3> QED BY <2>3, <3>1 DEF SessionsIInv, Known
  <2>8. FileFollows'
    BY <2>1, <2>6 DEF FileFollows
  <2>9. EndedIsGone'
    BY <1>t, <2>1, <2>2, <2>3 DEF SessionsIInv, EndedIsGone, SessionTypes
  <2> QED BY <1>t, <2>1, <2>2, <2>5, <2>6, <2>7, <2>8, <2>9 DEF SessionsIInv, SessionTypes
<1>4. ASSUME NEW w \in Workers, StoreSession(w) PROVE Good
  <2> DEFINE u == worker[w].who
             old == current[u]
             t == NewToken
             new == [user |-> u, until |-> now + SessionTtl]
  <2>0. u \in Account
    BY <1>4, <1>m, WorkKinds DEF StoreSession
  <2>1. /\ t \in Tokens
        /\ sessions' = [s \in Tokens |-> IF s = t THEN new ELSE IF s = old THEN None ELSE sessions[s]]
        /\ current' = [current EXCEPT ![u] = t]
        /\ savedSessions' = sessions' /\ now' = now
        /\ memory' = [memory EXCEPT !.ended = IF old = 0 THEN @ ELSE @ \cup {old}]
    BY <1>4 DEF StoreSession, NewToken
  <2>2. memory'.ended = IF old = 0 THEN memory.ended ELSE memory.ended \cup {old}
    BY <1>m, <2>1
  <2>3. sessions[t] = None /\ t \notin memory.ended
    <3> HIDE DEF t
    <3>1. t \in Nat /\ ~(t < t) /\ t = NewToken
      BY TokenIsFresh, <1>t DEF t
    <3> QED BY <1>t, <2>1, <3>1, TokenIsFresh
  <2>4. old # 0 => old \in Tokens /\ old # t /\ sessions[old] # None /\ sessions[old].user = u
    BY <1>t, <2>0, <2>3 DEF SessionsIInv, Known, SessionTypes
  <2>5. new \in Session /\ new # None /\ new.user = u
    <3>1. now + SessionTtl \in Times(SessionTtl)
      BY <1>m, AccountFacts DEF Times
    <3> QED BY <2>0, <3>1, AccountFacts DEF Session
  <2> HIDE DEF u, old, t, new
  <2>6. \A s \in Tokens : /\ s = t => sessions'[s] = new
                          /\ s # t /\ s = old => sessions'[s] = None
                          /\ s # t /\ s # old => sessions'[s] = sessions[s]
    BY <2>1
  <2>7. current'[u] = t /\ \A v \in Account : v # u => current'[v] = current[v]
    BY <1>t, <2>0, <2>1 DEF SessionTypes
  <2>8. sessions' \in [Tokens -> Session \cup {None}] /\ current' \in [Account -> Tokens \cup {0}]
    BY <1>t, <2>0, <2>1, <2>5 DEF SessionTypes
  <2>o. \A s \in Tokens : sessions[s] # None /\ sessions[s].user = u => s = old
    BY <1>t DEF SessionTypes, old
  <2>9. \A s \in Tokens : sessions'[s] # None => current'[sessions'[s].user] = s
    BY <1>t, <1>u, <2>5, <2>6, <2>7, <2>o DEF SessionTypes
  <2>10. Known'
    <3> SUFFICES ASSUME NEW v \in Account, current'[v] # 0
                 PROVE  sessions'[current'[v]] # None /\ sessions'[current'[v]].user = v
      BY DEF Known
    <3>1. CASE v = u
      BY <2>1, <2>5, <2>6, <2>7, <3>1
    <3>2. CASE v # u
      <4>1. current'[v] = current[v] /\ current[v] # 0 /\ current[v] \in Tokens
        BY <1>t, <2>7, <3>2 DEF SessionTypes
      <4>2. sessions[current[v]] # None /\ sessions[current[v]].user = v
        BY <4>1 DEF SessionsIInv, Known
      <4>3. current[v] # t /\ current[v] # old
        BY <2>3, <2>4, <3>2, <4>1, <4>2
      <4> QED BY <2>6, <4>1, <4>2, <4>3
    <3> QED BY <3>1, <3>2
  <2>11. FileFollows'
    BY <2>1, <2>9 DEF FileFollows
  <2>12. EndedIsGone'
    BY <1>t, <2>1, <2>2, <2>3, <2>4, <2>6 DEF SessionsIInv, EndedIsGone, SessionTypes
  <2>13. memory'.ended \in SUBSET Tokens
    BY <1>t, <2>2, <2>4 DEF SessionTypes
  <2> QED BY <2>1, <2>8, <2>9, <2>10, <2>11, <2>12, <2>13 DEF SessionsIInv
<1>5. CASE Restart
  <2>1. /\ sessions' = [t \in Tokens |-> IF t \in Loaded THEN savedSessions[t] ELSE None]
        /\ current' = [u \in Account |-> Max({0} \cup {t \in Loaded : savedSessions[t].user = u})]
        /\ UNCHANGED <<savedSessions, now>> /\ memory'.ended = memory.ended
    BY <1>5, <1>m DEF Restart
  <2>2. \A t \in Loaded : t \in Tokens /\ savedSessions[t] # None
    BY DEF Loaded
  <2>3. ASSUME NEW t \in Tokens, savedSessions[t] # None, t \notin Loaded PROVE savedSessions[t].until <= now
    <3>1. SUFFICES ASSUME savedSessions[t].until > now PROVE t \in Loaded
      BY <1>v, <1>t, <2>3 DEF SessionTypes
    <3>2. \A s \in Tokens : savedSessions[s] # None /\ savedSessions[s].user = savedSessions[t].user => s = t
      BY <2>3 DEF SessionsIInv, FileFollows
    <3> QED BY <1>v, <2>3, <3>1, <3>2 DEF Loaded
  <2>4. \A t \in Tokens : /\ t \in Loaded => sessions'[t] = savedSessions[t]
                          /\ t \notin Loaded => sessions'[t] = None
    BY <2>1
  <2>5. sessions' \in [Tokens -> Session \cup {None}]
    BY <1>t, <2>1 DEF SessionTypes
  <2>6. ASSUME NEW u \in Account
        PROVE  /\ current'[u] = 0 => \A t \in Loaded : savedSessions[t].user # u
               /\ current'[u] # 0 => current'[u] \in Loaded /\ savedSessions[current'[u]].user = u
    <3> DEFINE S == {0} \cup {t \in Loaded : savedSessions[t].user = u}
    <3>1. IsFiniteSet(Tokens \cup {0})
      BY AccountsAssumption, FS_AddElement DEF AccountsAssumption
    <3>2. S \subseteq Tokens \cup {0} /\ Tokens \cup {0} \subseteq Nat /\ 0 \in S
      BY <2>2, AccountFacts
    <3>3. Max(S) \in S /\ \A x \in S : Max(S) >= x
      <4> HIDE DEF S
      <4>1. S \in SUBSET Nat /\ S # {} /\ IsFiniteSet(S)
        BY <3>1, <3>2, FS_Subset
      <4> QED BY <4>1, MaxIsGreatest
    <3>4. current'[u] = Max(S)
      BY <2>1
    <3>5. \A t \in Loaded : t \in Nat /\ t # 0
      BY <2>2, AccountFacts
    <3>6. \A t \in Loaded : t > 0
      BY <3>5
    <3> QED BY <3>3, <3>4, <3>5, <3>6
  <2>7. current' \in [Account -> Tokens \cup {0}]
    BY <2>1, <2>2, <2>6
  <2>8. \A t \in Tokens : sessions'[t] # None => current'[sessions'[t].user] = t
    <3> SUFFICES ASSUME NEW t \in Loaded PROVE current'[savedSessions[t].user] = t
      BY <2>4
    <3>1. savedSessions[t].user \in Account
      BY <1>v, <2>2
    <3>2. current'[savedSessions[t].user] \in Loaded
      BY <2>6, <3>1
    <3>3. current'[savedSessions[t].user] # 0 /\ savedSessions[current'[savedSessions[t].user]].user = savedSessions[t].user
      BY <2>2, <2>6, <3>1, <3>2, AccountFacts
    <3> QED BY <2>2, <3>2, <3>3 DEF SessionsIInv, FileFollows
  <2>9. Known'
    BY <2>2, <2>4, <2>6 DEF Known
  <2>10. FileFollows'
    BY <2>1, <2>2, <2>3, <2>4 DEF SessionsIInv, FileFollows
  <2>11. EndedIsGone'
    BY <1>t, <2>1, <2>2, <2>4 DEF SessionsIInv, EndedIsGone, SessionTypes
  <2> QED BY <1>t, <2>1, <2>5, <2>7, <2>8, <2>9, <2>10, <2>11 DEF SessionsIInv, SessionTypes
<1> QED BY SessionCases, <1>1, <1>2, <1>3, <1>4, <1>5

-----------------------------------------------------------------------------

\* The types of the rest.
FileTypes ==
  /\ now \in Times(0)
  /\ users \in [Names -> User \cup {None}] /\ demos \in [Demos -> Demo \cup {None}]
  /\ archived \subseteq Account
  /\ codes \in [Codes -> Code \cup {None}]
  /\ worker \in [Workers -> Work]
  /\ memory \in [ended : SUBSET Tokens, crossed : SUBSET Account, restarts : 0..MaxRestarts]

\* A request of a demo account is counted in its window or in a new one.
LEMMA SpendCounts ==
  ASSUME FileTypes, NEW t \in Tokens, SpendDemo(t)
  PROVE  sessions[t].user \in Demos /\ \E x \in Demo : demos' = [demos EXCEPT ![sessions[t].user] = x]
<1> DEFINE d == sessions[t].user
           window == IF now > demos[d].began THEN [began |-> now, count |-> 0] ELSE demos[d]
<1>1. d \in Demos /\ demos[d] \in Demo /\ window.count < DemoLimit /\ demos' = [demos EXCEPT ![d] = [window EXCEPT !.count = @ + 1]]
  BY DEF SpendDemo, FileTypes, WithinBudget
<1>2. window \in Demo
  BY <1>1, AccountFacts DEF Demo, FileTypes
<1> HIDE DEF window
<1>3. [window EXCEPT !.count = @ + 1] \in Demo
  BY <1>1, <1>2, AccountFacts DEF Demo
<1> QED BY <1>1, <1>3

\* Each of them is kept by every step.
LEMMA FileTypesStep ==
  ASSUME AccountsTypeOK, [AccountsNext]_accountVars, memory'.ended \in SUBSET Tokens
  PROVE  FileTypes'
<1>t. FileTypes
  BY DEF AccountsTypeOK, FileTypes
<1>n. /\ now \in Nat /\ now <= MaxNow /\ MaxNow \in Nat
      /\ now \in Times(1) /\ now + 1 \in Times(1) /\ 0 \in Times(1)
  BY <1>t, AccountFacts DEF FileTypes, Times
<1>u. \A u \in Names : Registered(u) => users[u] \in User
  BY <1>t DEF FileTypes, Registered
<1>r. \A u \in Names : users[u] # None => Refreshed(users[u]) \in User
  <2> SUFFICES ASSUME NEW u \in Names, users[u] # None PROVE Refreshed(users[u]) \in User
    OBVIOUS
  <2>1. users[u] \in User
    BY <1>t DEF FileTypes
  <2> QED BY <1>n, <2>1 DEF Refreshed, User
<1>1. now' \in Times(0)
  <2>1. now' = now \/ (now < MaxNow /\ now' = now + 1)
    BY AccountCases DEF MakeCode, CreateDemo, ResetDemo, GrantVip, RevokeVip, Enable, Request, RequestLate, Logout,
       SpendDemo, Redeem, Register, Authenticate, Disable, Archive, CreateUser, StoreSession, DropSessions, Overview,
       Tick, Restart, accountVars
  <2> QED BY <1>t, <1>n, <2>1 DEF FileTypes, Times
<1>2. users' \in [Names -> User \cup {None}]
  <2>1. \/ users' = users
        \/ \E u \in Names : GrantVip(u) \/ RevokeVip(u) \/ Enable(u)
        \/ \E t \in Tokens, c \in Codes : Redeem(t, c)
        \/ \E w \in Workers : CreateUser(w) \/ \E u \in Account : Authenticate(w, u) \/ Disable(w, u) \/ Archive(w, u)
        \/ Overview
    BY AccountCases DEF MakeCode, CreateDemo, ResetDemo, Request, RequestLate, Logout,
       SpendDemo, Register, StoreSession, DropSessions, Tick, Restart, accountVars
  <2>one. ASSUME NEW u \in Names, NEW x \in User, users' = [users EXCEPT ![u] = x] PROVE users' \in [Names -> User \cup {None}]
    BY <2>one, <1>t DEF FileTypes
  <2>vip. ASSUME NEW u \in Names, Registered(u), users' = [users EXCEPT ![u].vip = Later(now, @) + 1],
                 users'[u].vip <= MaxNow + 1
          PROVE  users' \in [Names -> User \cup {None}]
    <3> DEFINE x == [users[u] EXCEPT !.vip = Later(now, @) + 1]
    <3>1. users' = [users EXCEPT ![u] = x]
      BY <2>vip
    <3>2. users[u] \in User /\ users[u].vip \in Nat
      BY <1>u, <2>vip DEF User, Times
    <3>3. Later(now, users[u].vip) + 1 \in Nat
      BY <1>n, <3>2 DEF Later
    <3>4. users'[u].vip = Later(now, users[u].vip) + 1
      BY <1>t, <3>1, <3>2 DEF FileTypes, User
    <3>5. Later(now, users[u].vip) + 1 \in Times(1)
      BY <1>n, <2>vip, <3>3, <3>4 DEF Times
    <3>6. x \in User
      BY <3>2, <3>5 DEF User
    <3> HIDE DEF x
    <3> QED BY <3>1, <3>6, <2>one
  <2>2. ASSUME NEW u \in Names, GrantVip(u) PROVE users' \in [Names -> User \cup {None}]
    BY <2>2, <2>vip DEF GrantVip
  <2>3. ASSUME NEW u \in Names, RevokeVip(u) \/ Enable(u) PROVE users' \in [Names -> User \cup {None}]
    <3>1. users[u] \in User
      BY <1>u, <2>3 DEF RevokeVip, Enable
    <3>2. [users[u] EXCEPT !.vip = 0] \in User /\ [users[u] EXCEPT !.banned = FALSE, !.until = 0] \in User
      BY <1>n, <3>1 DEF User
    <3>3. \/ users' = [users EXCEPT ![u] = [users[u] EXCEPT !.vip = 0]]
          \/ users' = [users EXCEPT ![u] = [users[u] EXCEPT !.banned = FALSE, !.until = 0]]
      BY <1>t, <2>3 DEF RevokeVip, Enable, FileTypes
    <3> QED BY <3>2, <3>3, <2>one
  <2>4. ASSUME NEW t \in Tokens, NEW c \in Codes, Redeem(t, c) PROVE users' \in [Names -> User \cup {None}]
    <3>1. sessions[t].user \in Names /\ Registered(sessions[t].user)
      BY <2>4 DEF Redeem, Registered
    <3> QED BY <2>4, <3>1, <2>vip DEF Redeem
  <2>5. ASSUME NEW w \in Workers, CreateUser(w) PROVE users' \in [Names -> User \cup {None}]
    <3>1. worker[w].who \in Names
      BY <1>t, <2>5, WorkKinds DEF CreateUser, FileTypes
    <3>2. [vip |-> 0, banned |-> FALSE, until |-> 0] \in User
      BY <1>n DEF User
    <3> QED BY <2>5, <1>t, <3>1, <3>2, <2>one DEF CreateUser, FileTypes
  <2>6. ASSUME NEW w \in Workers, NEW u \in Account, Authenticate(w, u) PROVE users' \in [Names -> User \cup {None}]
    <3>1. users' = users \/ (u \in Names /\ users[u] # None /\ users' = [users EXCEPT ![u] = Refreshed(users[u])])
      BY <2>6 DEF Authenticate, Registered
    <3> QED BY <1>t, <3>1, <1>r, <2>one DEF FileTypes
  <2>7. ASSUME NEW w \in Workers, NEW u \in Account, Disable(w, u) PROVE users' \in [Names -> User \cup {None}]
    <3>1. u \in Names /\ users[u] \in User
      BY <1>u, <2>7 DEF Disable, Registered
    <3>2. [users[u] EXCEPT !.banned = TRUE, !.until = now + 1] \in User
      BY <1>n, <3>1 DEF User
    <3>3. users' = [users EXCEPT ![u] = [users[u] EXCEPT !.banned = TRUE, !.until = now + 1]]
      BY <1>t, <2>7, <3>1 DEF Disable, FileTypes
    <3> QED BY <3>1, <3>2, <3>3, <2>one
  <2>8. ASSUME NEW w \in Workers, NEW u \in Account, Archive(w, u) PROVE users' \in [Names -> User \cup {None}]
    BY <2>8, <1>t DEF Archive, FileTypes
  <2>9. CASE Overview
    BY <2>9, <1>r DEF Overview
  <2> QED BY <1>t, <2>1, <2>2, <2>3, <2>4, <2>5, <2>6, <2>7, <2>8, <2>9 DEF FileTypes
<1>3. demos' \in [Demos -> Demo \cup {None}]
  <2>1. \/ demos' = demos
        \/ \E d \in Demos : CreateDemo(d) \/ ResetDemo(d)
        \/ \E t \in Tokens : SpendDemo(t)
        \/ \E w \in Workers, u \in Account : Archive(w, u)
    BY AccountCases DEF MakeCode, GrantVip, RevokeVip, Enable, Request, RequestLate, Logout,
       Redeem, Register, Authenticate, Disable, CreateUser, StoreSession, DropSessions, Overview,
       Tick, Restart, accountVars
  <2>2. [began |-> now, count |-> 0] \in Demo
    BY <1>t, AccountFacts DEF Demo, FileTypes
  <2>3. ASSUME NEW d \in Demos, CreateDemo(d) \/ ResetDemo(d) PROVE demos' \in [Demos -> Demo \cup {None}]
    BY <2>3, <2>2, <1>t DEF CreateDemo, ResetDemo, FileTypes
  <2>4. ASSUME NEW t \in Tokens, SpendDemo(t) PROVE demos' \in [Demos -> Demo \cup {None}]
    BY <1>t, <2>4, SpendCounts DEF FileTypes
  <2>5. ASSUME NEW w \in Workers, NEW u \in Account, Archive(w, u) PROVE demos' \in [Demos -> Demo \cup {None}]
    BY <2>5, <1>t DEF Archive, FileTypes
  <2> QED BY <1>t, <2>1, <2>3, <2>4, <2>5 DEF FileTypes
<1>4. archived' \subseteq Account
  <2>1. archived' = archived \/ \E u \in Account : archived' = archived \cup {u}
    BY AccountCases DEF MakeCode, CreateDemo, ResetDemo, GrantVip, RevokeVip, Enable, Request, RequestLate, Logout,
       SpendDemo, Redeem, Register, Authenticate, Disable, Archive, CreateUser, StoreSession, DropSessions, Overview,
       Tick, Restart, accountVars
  <2> QED BY <1>t, <2>1 DEF FileTypes
<1>5. codes' \in [Codes -> Code \cup {None}]
  <2>1. \/ codes' = codes
        \/ \E c \in Codes, for \in {"invite", "vip"} : codes' = [codes EXCEPT ![c] = [for |-> for, until |-> now + 1, used |-> FALSE]]
        \/ \E c \in Codes, for \in {"invite", "vip"} : Unused(c, for) /\ Use(c)
    <3>1. \A w \in Workers : CreateUser(w) => codes' = codes \/ (worker[w].code \in Codes /\ Unused(worker[w].code, "invite") /\ Use(worker[w].code))
      BY <1>t, WorkKinds DEF CreateUser, Acceptable, FileTypes
    <3>2. \A t \in Tokens, c \in Codes : Redeem(t, c) => Unused(c, "vip") /\ Use(c)
      BY DEF Redeem
    <3>3. \/ codes' = codes
          \/ \E c \in Codes, for \in {"invite", "vip"} : MakeCode(c, for)
          \/ \E t \in Tokens, c \in Codes : Redeem(t, c)
          \/ \E w \in Workers : CreateUser(w)
      BY AccountCases DEF CreateDemo, ResetDemo, GrantVip, RevokeVip, Enable, Request, RequestLate, Logout,
         SpendDemo, Register, Authenticate, Disable, Archive, StoreSession, DropSessions, Overview,
         Tick, Restart, accountVars
    <3> QED BY <3>1, <3>2, <3>3 DEF MakeCode
  <2>2. \A for \in {"invite", "vip"} : [for |-> for, until |-> now + 1, used |-> FALSE] \in Code
    BY <1>n DEF Code
  <2>3. ASSUME NEW c \in Codes, NEW for \in {"invite", "vip"}, Unused(c, for), Use(c) PROVE codes' \in [Codes -> Code \cup {None}]
    <3>1. codes[c] \in Code
      BY <2>3, <1>t DEF Unused, Made, FileTypes
    <3>2. [codes[c] EXCEPT !.used = TRUE] \in Code
      BY <3>1 DEF Code
    <3> QED BY <1>t, <2>3, <3>2 DEF Use, FileTypes
  <2> QED BY <1>t, <2>1, <2>2, <2>3 DEF FileTypes
<1>6. worker' \in [Workers -> Work]
  <2>1. \/ worker' = worker
        \/ \E w \in Workers : \/ \E u \in Names, c \in Codes : Becomes(w, [pc |-> "create", who |-> u, code |-> c])
                              \/ \E u \in Account, pc \in {"login", "drop"} : Becomes(w, [pc |-> pc, who |-> u])
                              \/ Becomes(w, Free)
        \/ worker' = [w \in Workers |-> Free]
    <3>1. ASSUME NEW w \in Workers, CreateUser(w)
          PROVE  \/ Becomes(w, Free)
                 \/ worker[w].who \in Account /\ Becomes(w, [pc |-> "login", who |-> worker[w].who])
      <4>1. worker[w].who \in Account
        BY <3>1, <1>t, WorkKinds, AccountFacts DEF CreateUser, FileTypes
      <4> QED BY <3>1, <4>1 DEF CreateUser
    <3>2. \A w \in Workers, u \in Account : Authenticate(w, u) \/ Disable(w, u) \/ Archive(w, u) =>
            \E pc \in {"login", "drop"} : Becomes(w, [pc |-> pc, who |-> u])
      BY DEF Authenticate, Disable, Archive
    <3>3. \/ worker' = worker \/ Restart
          \/ \E w \in Workers :
               \/ \E u \in Names, c \in Codes : Register(w, u, c)
               \/ \E u \in Account : Authenticate(w, u) \/ Disable(w, u) \/ Archive(w, u)
               \/ CreateUser(w) \/ StoreSession(w) \/ DropSessions(w)
      BY AccountCases DEF MakeCode, CreateDemo, ResetDemo, GrantVip, RevokeVip, Enable, Request, RequestLate, Logout,
         SpendDemo, Redeem, Overview, Tick, accountVars
    <3>4. \A w \in Workers : StoreSession(w) \/ DropSessions(w) => Becomes(w, Free)
      BY DEF StoreSession, DropSessions
    <3>5. \A w \in Workers, u \in Names, c \in Codes : Register(w, u, c) => Becomes(w, [pc |-> "create", who |-> u, code |-> c])
      BY DEF Register
    <3>6. Restart => worker' = [w \in Workers |-> Free]
      BY DEF Restart
    <3>7. \A w \in Workers : CreateUser(w) => Becomes(w, Free) \/ \E u \in Account, pc \in {"login", "drop"} : Becomes(w, [pc |-> pc, who |-> u])
      BY <3>1
    <3> QED BY <3>2, <3>3, <3>4, <3>5, <3>6, <3>7, Zenon
  <2>2. /\ \A u \in Names, c \in Codes : [pc |-> "create", who |-> u, code |-> c] \in Work
        /\ \A u \in Account, pc \in {"login", "drop"} : [pc |-> pc, who |-> u] \in Work
    BY DEF Work
  <2>3. ASSUME NEW w \in Workers, NEW x \in Work, Becomes(w, x) PROVE worker' \in [Workers -> Work]
    BY <2>3, <1>t DEF Becomes, FileTypes
  <2> QED BY <1>t, <2>1, <2>2, <2>3, AccountFacts DEF FileTypes
<1>7. memory' \in [ended : SUBSET Tokens, crossed : SUBSET Account, restarts : 0..MaxRestarts]
  <2>1. \/ memory' = memory
        \/ \E e : memory' = [memory EXCEPT !.ended = e]
        \/ \E u \in Account : memory' = Crossing(u)
        \/ \E x \in SUBSET Account, n \in 0..MaxRestarts : memory' = [memory EXCEPT !.restarts = n, !.crossed = x]
    <3>1. Restart => \E x \in SUBSET Account, n \in 0..MaxRestarts : memory' = [memory EXCEPT !.restarts = n, !.crossed = x]
      <4> SUFFICES ASSUME Restart PROVE \E x \in SUBSET Account, n \in 0..MaxRestarts : memory' = [memory EXCEPT !.restarts = n, !.crossed = x]
        OBVIOUS
      <4> DEFINE x == memory.crossed \cup {worker[w].who : w \in {v \in Workers : worker[v].pc = "drop"}}
                 n == memory.restarts + 1
      <4>1. x \in SUBSET Account
        BY <1>t, WorkKinds DEF FileTypes
      <4>2. n \in 0..MaxRestarts
        BY <1>t, AccountFacts DEF FileTypes, Restart
      <4>3. memory' = [memory EXCEPT !.restarts = n, !.crossed = x]
        BY DEF Restart
      <4> HIDE DEF x, n
      <4> QED BY <4>1, <4>2, <4>3
    <3>2. \A w \in Workers, u \in Account : Disable(w, u) \/ Archive(w, u) => memory' = Crossing(u)
      BY DEF Disable, Archive
    <3>3. \A t \in Tokens : RequestLate(t) \/ Logout(t) => \E e : memory' = [memory EXCEPT !.ended = e]
      BY DEF RequestLate, Logout
    <3>4. \A w \in Workers : StoreSession(w) \/ DropSessions(w) => \E e : memory' = [memory EXCEPT !.ended = e]
      BY DEF StoreSession, DropSessions
    <3>5. \/ memory' = memory \/ Restart
          \/ \E t \in Tokens : RequestLate(t) \/ Logout(t)
          \/ \E w \in Workers : StoreSession(w) \/ DropSessions(w) \/ \E u \in Account : Disable(w, u) \/ Archive(w, u)
      BY AccountCases DEF MakeCode, CreateDemo, ResetDemo, GrantVip, RevokeVip, Enable, Request,
         SpendDemo, Redeem, Register, Authenticate, CreateUser, Overview, Tick, accountVars
    <3> QED BY <3>1, <3>2, <3>3, <3>4, <3>5
  <2>2. ASSUME NEW u \in Account, memory' = Crossing(u) PROVE memory' \in [ended : SUBSET Tokens, crossed : SUBSET Account, restarts : 0..MaxRestarts]
    BY <2>2, <1>t DEF Crossing, FileTypes
  <2>3. ASSUME NEW e, memory' = [memory EXCEPT !.ended = e] PROVE memory' \in [ended : SUBSET Tokens, crossed : SUBSET Account, restarts : 0..MaxRestarts]
    <3>1. memory'.ended = e
      BY <2>3, <1>t DEF FileTypes
    <3> QED BY <2>3, <3>1, <1>t DEF FileTypes
  <2> QED BY <1>t, <2>1, <2>2, <2>3 DEF FileTypes
<1> QED BY <1>1, <1>2, <1>3, <1>4, <1>5, <1>6, <1>7 DEF FileTypes

-----------------------------------------------------------------------------

\* A ban counts until it runs out, whether somebody has lifted it or not.
LEMMA BannedMeans ==
  \A u \in Account : FileTypes => (Banned(u) <=> Registered(u) /\ users[u].banned /\ users[u].until > now)
<1> SUFFICES ASSUME NEW u \in Account, FileTypes
             PROVE  Banned(u) <=> Registered(u) /\ users[u].banned /\ users[u].until > now
  OBVIOUS
<1>1. CASE ~Registered(u)
  BY <1>1 DEF Banned
<1>2. CASE Registered(u)
  <2>1. users[u] \in User /\ users[u].until \in Nat /\ now \in Nat
    BY <1>2, AccountFacts DEF Registered, FileTypes, User, Times
  <2>2. CASE users[u].banned /\ users[u].until <= now
    BY <1>2, <2>1, <2>2 DEF Banned, Refreshed, User
  <2>3. CASE ~(users[u].banned /\ users[u].until <= now)
    BY <1>2, <2>1, <2>3 DEF Banned, Refreshed, User
  <2> QED BY <2>2, <2>3
<1> QED BY <1>1, <1>2

\* The same in the next state.
LEMMA BannedMeansNext ==
  (\A u \in Account : FileTypes => (Banned(u) <=> Registered(u) /\ users[u].banned /\ users[u].until > now))'
BY BannedMeans, PTL

\* What puts no account out.
NotWorse ==
  /\ archived' = archived /\ now' \in {now, now + 1}
  /\ \A u \in Names : users[u] # None => users'[u] # None
  /\ \A u \in Names : users'[u] # None /\ users'[u].banned /\ users'[u].until > now =>
       users[u] # None /\ users[u].banned /\ users[u].until = users'[u].until
  /\ \A d \in Demos : demos'[d] = None => demos[d] = None

\* Such a step leaves everybody where they were.
LEMMA NobodyIsPutOut ==
  ASSUME FileTypes, FileTypes', NotWorse, NEW u \in Account, Out(u)'
  PROVE  Out(u)
<1>1. CASE Banned(u)'
  <2>1. Registered(u)' /\ users'[u].banned /\ users'[u].until > now'
    BY <1>1, BannedMeansNext
  <2>2. u \in Names /\ users'[u] # None
    BY <2>1 DEF Registered
  <2>3. now \in Nat /\ now' \in {now, now + 1} /\ users'[u].until \in Nat
    BY <2>2, AccountFacts DEF FileTypes, Times, User, NotWorse
  <2>4. users[u] # None /\ users[u].banned /\ users[u].until > now
    BY <2>1, <2>2, <2>3 DEF NotWorse
  <2> QED BY <2>2, <2>4, BannedMeans DEF Registered, Out
<1>2. CASE u \in archived' /\ ~Registered(u)' /\ (u \in Demos => demos'[u] = None)
  BY <1>2 DEF NotWorse, Registered, Out
<1> QED BY <1>1, <1>2 DEF Out

\* Only the administrator's disabling and archiving put an account out.
LEMMA OnlyAdministratorPutsOut ==
  ASSUME AccountsTypeOK, [AccountsNext]_accountVars
  PROVE  NotWorse \/ \E w \in Workers, u \in Account : Disable(w, u) \/ Archive(w, u)
<1>t. FileTypes
  BY DEF AccountsTypeOK, FileTypes
<1>n. \A u \in Names : users[u] # None => users[u] \in User
  BY <1>t DEF FileTypes
<1>one. ASSUME NEW u \in Names, NEW x, users' = [users EXCEPT ![u] = x], x # None, UNCHANGED <<archived, now, demos>>,
               x.banned /\ x.until > now => users[u] # None /\ users[u].banned /\ users[u].until = x.until
        PROVE  NotWorse
  <2>1. users'[u] = x /\ \A v \in Names : v # u => users'[v] = users[v]
    BY <1>one, <1>t DEF FileTypes
  <2> QED BY <1>one, <2>1 DEF NotWorse
<1>vip. ASSUME NEW u \in Names, Registered(u), NEW n, users' = [users EXCEPT ![u].vip = n], UNCHANGED <<archived, now, demos>>
        PROVE  NotWorse
  <2> DEFINE x == [users[u] EXCEPT !.vip = n]
  <2>1. users[u] # None /\ users[u] \in User
    BY <1>vip, <1>n DEF Registered
  <2>2. x.banned = users[u].banned /\ x.until = users[u].until /\ x \in [vip : {n}, banned : BOOLEAN, until : Times(1)]
    BY <2>1 DEF User
  <2>3. x # None
    BY <2>2 DEF None
  <2>4. users' = [users EXCEPT ![u] = x]
    BY <1>vip, <1>t DEF FileTypes
  <2> HIDE DEF x
  <2> QED BY <1>vip, <2>1, <2>2, <2>3, <2>4, <1>one
<1>r. \A u \in Names : users[u] # None =>
        /\ Refreshed(users[u]) # None
        /\ Refreshed(users[u]).banned => Refreshed(users[u]) = users[u]
  <2> SUFFICES ASSUME NEW u \in Names, users[u] \in User
               PROVE  /\ Refreshed(users[u]) # None
                      /\ Refreshed(users[u]).banned => Refreshed(users[u]) = users[u]
    BY <1>n
  <2>1. CASE users[u].banned /\ users[u].until <= now
    <3>1. Refreshed(users[u]) = [users[u] EXCEPT !.banned = FALSE, !.until = 0]
      BY <2>1 DEF Refreshed
    <3>2. Refreshed(users[u]) \in [vip : Times(1), banned : BOOLEAN, until : {0, users[u].until}] /\ ~Refreshed(users[u]).banned
      BY <3>1 DEF User
    <3> QED BY <3>2 DEF None
  <2>2. CASE ~(users[u].banned /\ users[u].until <= now)
    BY <2>2, AccountFacts DEF Refreshed
  <2> QED BY <2>1, <2>2
<1>1. ASSUME NEW u \in Names, GrantVip(u) \/ RevokeVip(u) PROVE NotWorse
  BY <1>1, <1>vip DEF GrantVip, RevokeVip
<1>2. ASSUME NEW t \in Tokens, NEW c \in Codes, Redeem(t, c) PROVE NotWorse
  <2>1. sessions[t].user \in Names /\ Registered(sessions[t].user)
    BY <1>2 DEF Redeem, Registered
  <2> QED BY <1>2, <2>1, <1>vip DEF Redeem
<1>3. ASSUME NEW u \in Names, Enable(u) PROVE NotWorse
  <2> DEFINE x == [users[u] EXCEPT !.banned = FALSE, !.until = 0]
  <2>1. users[u] \in User
    BY <1>3, <1>n DEF Enable, Registered
  <2>2. x \in [vip : Times(1), banned : {FALSE}, until : {0}]
    BY <2>1 DEF User
  <2>3. x # None /\ x.banned = FALSE
    BY <2>2 DEF None
  <2>4. users' = [users EXCEPT ![u] = x] /\ UNCHANGED <<archived, now, demos>>
    BY <1>3, <1>t DEF Enable, FileTypes
  <2> HIDE DEF x
  <2> QED BY <2>3, <2>4, <1>one
<1>4. ASSUME NEW w \in Workers, CreateUser(w) PROVE NotWorse
  <2> DEFINE x == [vip |-> 0, banned |-> FALSE, until |-> 0]
  <2>1. worker[w].who \in Names
    BY <1>t, <1>4, WorkKinds DEF CreateUser, FileTypes
  <2>2. x # None /\ x.banned = FALSE
    BY DEF None
  <2>3. CASE users' = users
    BY <1>4, <2>3 DEF CreateUser, NotWorse
  <2>4. CASE users' = [users EXCEPT ![worker[w].who] = x]
    <3> HIDE DEF x
    <3> QED BY <1>4, <2>1, <2>2, <2>4, <1>one DEF CreateUser
  <2> QED BY <1>4, <2>3, <2>4 DEF CreateUser
<1>5. ASSUME NEW w \in Workers, NEW u \in Account, Authenticate(w, u) PROVE NotWorse
  <2>1. UNCHANGED <<archived, now, demos>>
    BY <1>5 DEF Authenticate
  <2>2. CASE users' = users
    BY <2>1, <2>2 DEF NotWorse
  <2>3. CASE u \in Names /\ users[u] # None /\ users' = [users EXCEPT ![u] = Refreshed(users[u])]
    BY <2>1, <2>3, <1>r, <1>one
  <2>4. users' = users \/ (Registered(u) /\ users' = [users EXCEPT ![u] = Refreshed(@)])
    BY <1>5 DEF Authenticate
  <2> QED BY <2>2, <2>3, <2>4 DEF Registered
<1>6. CASE Overview
  <2>1. \A u \in Names : /\ users[u] = None => users'[u] = None
                         /\ users[u] # None => users'[u] = Refreshed(users[u])
    BY <1>6 DEF Overview
  <2> QED BY <1>6, <1>r, <2>1 DEF Overview, NotWorse
<1>7. CASE Tick
  BY <1>7 DEF Tick, NotWorse
<1>8. ASSUME NEW d \in Demos, CreateDemo(d) \/ ResetDemo(d) PROVE NotWorse
  <2>1. \A e \in Demos : demos'[e] = None => demos[e] = None
    <3>1. [began |-> now, count |-> 0] # None
      BY DEF None
    <3>2. demos' = [demos EXCEPT ![d] = [began |-> now, count |-> 0]]
      BY <1>8 DEF CreateDemo, ResetDemo
    <3> QED BY <1>t, <3>1, <3>2 DEF FileTypes
  <2> QED BY <1>8, <2>1 DEF CreateDemo, ResetDemo, NotWorse
<1>9. ASSUME NEW t \in Tokens, SpendDemo(t) PROVE NotWorse
  <2>1. sessions[t].user \in Demos /\ demos[sessions[t].user] # None /\ UNCHANGED <<now, users, archived>>
    BY <1>9 DEF SpendDemo
  <2>2. \A e \in Demos : e # sessions[t].user => demos'[e] = demos[e]
    BY <1>9, <1>t DEF SpendDemo, FileTypes
  <2>3. demos'[sessions[t].user] # None
    BY <1>9, <1>t, SpendCounts, AccountFacts DEF FileTypes
  <2> QED BY <2>1, <2>2, <2>3 DEF NotWorse
<1>10. CASE UNCHANGED <<users, demos, archived, now>>
  BY <1>10 DEF NotWorse
<1>11. \/ UNCHANGED <<users, demos, archived, now>>
       \/ \E u \in Names : GrantVip(u) \/ RevokeVip(u) \/ Enable(u)
       \/ \E t \in Tokens, c \in Codes : Redeem(t, c)
       \/ \E w \in Workers : CreateUser(w) \/ \E u \in Account : Authenticate(w, u) \/ Disable(w, u) \/ Archive(w, u)
       \/ Overview \/ Tick
       \/ \E d \in Demos : CreateDemo(d) \/ ResetDemo(d)
       \/ \E t \in Tokens : SpendDemo(t)
  BY AccountCases DEF MakeCode, Request, RequestLate, Logout, Register, StoreSession, DropSessions, Restart, accountVars
<1> QED BY <1>1, <1>2, <1>3, <1>4, <1>5, <1>6, <1>7, <1>8, <1>9, <1>10, <1>11

-----------------------------------------------------------------------------

\* The inductive invariant.
AccountsIInv == AccountsTypeOK /\ SessionsIInv /\ LateLoginsCross /\ OutHasNone

\* A new session of one account takes none to another,
LEMMA StoreOther ==
  ASSUME NEW w \in Workers, NEW u \in Account, StoreSession(w), worker[w].who # u
  PROVE  SessionOf(u)' \subseteq SessionOf(u)
<1> DEFINE t == NewToken
           new == [user |-> worker[w].who, until |-> now + SessionTtl]
           old == current[worker[w].who]
<1>1. sessions' = [s \in Tokens |-> IF s = t THEN new ELSE IF s = old THEN None ELSE sessions[s]]
  BY DEF StoreSession, NewToken
<1>2. new.user # u
  OBVIOUS
<1> HIDE DEF t, new, old
<1> QED BY <1>1, <1>2 DEF SessionOf

\* and nothing else but a restart brings sessions.
LEMMA FewerSessions ==
  ASSUME AccountsTypeOK, [AccountsNext]_accountVars, NEW u \in Account
  PROVE  \/ SessionOf(u)' \subseteq SessionOf(u)
         \/ \E w \in Workers : StoreSession(w)
         \/ Restart
<1>t. SessionTypes
  BY SessionTypesHold
<1>1. CASE UNCHANGED <<sessions, current, savedSessions>>
  BY <1>1 DEF SessionOf
<1>2. ASSUME NEW t \in Tokens, Prolonged(t) PROVE SessionOf(u)' \subseteq SessionOf(u)
  <2>1. sessions[t] \in Session /\ sessions[t] # None
    BY <1>2, <1>t DEF Prolonged, Alive, SessionTypes
  <2>2. \A s \in Tokens : IF s = t THEN sessions'[s].user = sessions[s].user ELSE sessions'[s] = sessions[s]
    BY <1>2, <1>t, <2>1 DEF Prolonged, SessionTypes, Session
  <2> QED BY <2>1, <2>2 DEF SessionOf
<1>3. ASSUME NEW gone \in SUBSET Tokens, Removed(gone) PROVE SessionOf(u)' \subseteq SessionOf(u)
  BY <1>3 DEF Removed, Without, SessionOf
<1> QED BY SessionCases, <1>1, <1>2, <1>3

\* Who was put out while a login of its was past its check is known as crossed, and who was
\* put out otherwise has no session once the request is done.
LEMMA OutStep ==
  ASSUME AccountsIInv, AccountsTypeOK', [AccountsNext]_accountVars
  PROVE  LateLoginsCross' /\ OutHasNone'
<1>t. FileTypes /\ FileTypes' /\ SessionTypes /\ AccountsTypeOK /\ SessionsIInv
  BY SessionTypesHold DEF AccountsIInv, AccountsTypeOK, FileTypes
<1>w. \A w \in Workers : worker[w] \in Work /\ (worker[w].pc \in {"login", "drop"} => worker[w].who \in Account)
  BY <1>t, WorkKinds DEF FileTypes
<1>v. \A w \in Workers : worker'[w] \in Work /\ (worker'[w].pc \in {"login", "drop"} => worker'[w].who \in Account)
  BY <1>t, WorkKinds DEF FileTypes
<1>c. memory.crossed \subseteq memory'.crossed
  <2>1. memory \in [ended : SUBSET Tokens, crossed : SUBSET Account, restarts : 0..MaxRestarts]
    BY <1>t DEF FileTypes
  <2>2. \/ memory' = memory \/ Restart
        \/ \E t \in Tokens : RequestLate(t) \/ Logout(t)
        \/ \E w \in Workers : StoreSession(w) \/ DropSessions(w) \/ \E u \in Account : Disable(w, u) \/ Archive(w, u)
    BY AccountCases DEF MakeCode, CreateDemo, ResetDemo, GrantVip, RevokeVip, Enable, Request,
       SpendDemo, Redeem, Register, Authenticate, CreateUser, Overview, Tick, accountVars
  <2>3. Restart => memory.crossed \subseteq memory'.crossed
    BY <2>1 DEF Restart
  <2>4. \A t \in Tokens : RequestLate(t) \/ Logout(t) => memory'.crossed = memory.crossed
    BY <2>1 DEF RequestLate, Logout
  <2>5. \A w \in Workers : StoreSession(w) \/ DropSessions(w) => memory'.crossed = memory.crossed
    BY <2>1 DEF StoreSession, DropSessions
  <2>6. \A w \in Workers, u \in Account : Disable(w, u) \/ Archive(w, u) => memory.crossed \subseteq memory'.crossed
    BY <2>1 DEF Disable, Archive, Crossing
  <2> QED BY <2>2, <2>3, <2>4, <2>5, <2>6
\* An account that the step does not put out.
<1> DEFINE Fine(u) == Out(u)' => Out(u)
           Good(u) == Out(u)' /\ ~UnderWay(u)' /\ u \notin memory'.crossed => SessionOf(u)' = {}
<1>fine. ASSUME NotWorse, NEW u \in Account PROVE Fine(u)
  BY <1>fine, <1>t, NobodyIsPutOut
<1>login. ASSUME NEW w \in Workers, NEW u \in Account, worker[w].pc = "login", worker[w].who = u, Out(u) PROVE u \in memory'.crossed
  BY <1>login, <1>c DEF AccountsIInv, LateLoginsCross
<1>keep. ASSUME NEW u \in Account, Fine(u), UnderWay(u) => UnderWay(u)', SessionOf(u)' \subseteq SessionOf(u) PROVE Good(u)
  BY <1>keep, <1>c DEF AccountsIInv, OutHasNone
<1>busy. ASSUME NEW w \in Workers, NEW x, Becomes(w, x)
         PROVE  worker'[w] = x /\ \A v \in Workers : v # w => worker'[v] = worker[v]
  BY <1>busy, <1>t DEF Becomes, FileTypes
\* The two goals, for one account.
<1>late. (\A w \in Workers, u \in Account : worker'[w].pc = "login" /\ worker'[w].who = u /\ Out(u)' => u \in memory'.crossed)
           => LateLoginsCross'
  BY DEF LateLoginsCross
<1>good. (\A u \in Account : Good(u)) => OutHasNone'
  BY DEF OutHasNone
\* It is put out by nobody, and no login of it begins.
<1>1. ASSUME NotWorse,
             \A w \in Workers : worker'[w].pc = "login" => worker'[w] = worker[w]
      PROVE  LateLoginsCross'
  BY <1>1, <1>fine, <1>login, <1>late
<1>2. ASSUME worker' = worker, NotWorse, \A u \in Account : SessionOf(u)' \subseteq SessionOf(u)
      PROVE  LateLoginsCross' /\ OutHasNone'
  <2>1. LateLoginsCross'
    BY <1>1, <1>2
  <2>2. \A u \in Account : UnderWay(u) => UnderWay(u)'
    BY <1>2 DEF UnderWay
  <2> HIDE DEF Good, Fine
  <2> QED BY <1>2, <1>good, <1>keep, <1>fine, <2>1, <2>2
\* A thread that is idle, or registering somebody, is under way with nobody.
<1>same. ASSUME NEW w \in Workers, worker[w].pc \in {"idle", "create"},
                \A v \in Workers : v # w => worker'[v] = worker[v], NEW u \in Account
         PROVE  UnderWay(u) => UnderWay(u)'
  BY <1>same DEF UnderWay
<1>kept. ASSUME sessions' = sessions, NEW u \in Account PROVE SessionOf(u)' \subseteq SessionOf(u)
  BY <1>kept DEF SessionOf
<1>3. ASSUME NEW w \in Workers, NEW u \in Names, NEW c \in Codes, Register(w, u, c) PROVE LateLoginsCross' /\ OutHasNone'
  <2>1. worker[w].pc = "idle" /\ UNCHANGED <<sessions, users, demos, archived, now>>
    BY <1>3 DEF Register, Idle
  <2>2. worker'[w].pc = "create" /\ \A v \in Workers : v # w => worker'[v] = worker[v]
    BY <1>3, <1>busy DEF Register
  <2>3. NotWorse
    BY <2>1 DEF NotWorse
  <2>4. LateLoginsCross'
    BY <1>1, <2>2, <2>3
  <2> HIDE DEF Good, Fine
  <2> QED BY <1>good, <1>keep, <1>fine, <1>same, <1>kept, <2>1, <2>2, <2>3, <2>4
\* The login of an account that is not out begins.
<1>begins. ASSUME NEW w \in Workers, NEW u \in Account, worker[w].pc \in {"idle", "create"}, Becomes(w, [pc |-> "login", who |-> u]),
                  NotWorse, ~Out(u)', sessions' = sessions
           PROVE  LateLoginsCross' /\ OutHasNone'
  <2>1. worker'[w].pc = "login" /\ worker'[w].who = u /\ \A v \in Workers : v # w => worker'[v] = worker[v]
    BY <1>begins, <1>busy
  <2>2. LateLoginsCross'
    BY <1>begins, <1>late, <1>login, <1>fine, <2>1
  <2> HIDE DEF Good, Fine
  <2> QED BY <1>begins, <1>good, <1>keep, <1>fine, <1>same, <1>kept, <2>1, <2>2
<1>admin. ASSUME NEW w \in Workers, NEW u \in Account, Disable(w, u) \/ Archive(w, u)
          PROVE  /\ worker[w].pc = "idle" /\ worker'[w].pc = "drop" /\ worker'[w].who = u
                 /\ \A v \in Workers : v # w => worker'[v] = worker[v]
  <2>1. worker[w].pc = "idle" /\ Becomes(w, [pc |-> "drop", who |-> u])
    BY <1>admin DEF Disable, Archive, Idle
  <2> QED BY <2>1, <1>busy
<1>worse. ASSUME \A w \in Workers : worker'[w].pc = "drop" => worker'[w] = worker[w] PROVE NotWorse
  BY <1>worse, <1>t, <1>admin, OnlyAdministratorPutsOut
<1>4. ASSUME NEW w \in Workers, NEW u \in Account, Authenticate(w, u) PROVE LateLoginsCross' /\ OutHasNone'
  <2>1. worker[w].pc = "idle" /\ sessions' = sessions /\ archived' = archived /\ Becomes(w, [pc |-> "login", who |-> u]) /\ demos' = demos
    BY <1>4 DEF Authenticate, Idle
  <2>2. worker'[w].pc = "login" /\ \A v \in Workers : v # w => worker'[v] = worker[v]
    BY <2>1, <1>busy
  <2>3. NotWorse
    BY <1>worse, <2>2
  <2>4. ~Out(u)
    <3>1. CASE Registered(u) /\ ~Banned(u)
      BY <3>1, AccountsAssumption DEF Out, Registered
    <3>2. CASE u \in Demos /\ demos[u] # None
      BY <3>2, AccountsAssumption DEF AccountsAssumption, Out, Banned, Registered
    <3> QED BY <1>4, <3>1, <3>2 DEF Authenticate
  <2>5. ~Out(u)'
    BY <2>3, <2>4, <1>fine
  <2> QED BY <1>begins, <2>1, <2>3, <2>5
<1>5. ASSUME NEW w \in Workers, CreateUser(w) PROVE LateLoginsCross' /\ OutHasNone'
  <2>1. PICK u \in Names : u = worker[w].who /\ u \in Account
    BY <1>5, <1>w, WorkKinds, AccountFacts DEF CreateUser
  <2>2. worker[w].pc = "create" /\ sessions' = sessions /\ UNCHANGED <<now, demos, archived>>
    BY <1>5 DEF CreateUser
  <2>3. CASE Becomes(w, [pc |-> "login", who |-> u]) /\ users' = [users EXCEPT ![u] = [vip |-> 0, banned |-> FALSE, until |-> 0]]
    <3>1. worker'[w].pc = "login" /\ \A v \in Workers : v # w => worker'[v] = worker[v]
      BY <2>3, <1>busy
    <3>2. NotWorse
      BY <1>worse, <3>1
    <3>3. users'[u] = [vip |-> 0, banned |-> FALSE, until |-> 0]
      BY <2>3, <1>t DEF FileTypes
    <3>4. users'[u] # None /\ users'[u].banned = FALSE
      BY <3>3 DEF None
    <3>5. Registered(u)' /\ ~Banned(u)'
      BY <2>1, <3>4, <1>t, BannedMeansNext DEF Registered
    <3>6. ~Out(u)'
      BY <3>5 DEF Out
    <3> QED BY <1>begins, <2>1, <2>2, <2>3, <3>2, <3>6
  <2>4. CASE Becomes(w, Free) /\ users' = users
    <3>1. worker'[w].pc = "idle" /\ \A v \in Workers : v # w => worker'[v] = worker[v]
      BY <2>4, <1>busy, AccountFacts
    <3>2. NotWorse
      BY <1>worse, <3>1
    <3>3. LateLoginsCross'
      BY <1>1, <3>1, <3>2
    <3> HIDE DEF Good, Fine
    <3> QED BY <1>good, <1>keep, <1>fine, <1>same, <1>kept, <2>2, <3>1, <3>2, <3>3
  <2> QED BY <1>5, <2>1, <2>3, <2>4 DEF CreateUser
<1>6. ASSUME NEW w \in Workers, StoreSession(w) PROVE LateLoginsCross' /\ OutHasNone'
  <2>0. PICK u \in Account : u = worker[w].who
    BY <1>6, <1>w DEF StoreSession
  <2>1. worker[w].pc = "login" /\ Becomes(w, Free) /\ UNCHANGED <<users, demos, archived, now>>
    BY <1>6 DEF StoreSession
  <2>2. worker'[w].pc = "idle" /\ \A v \in Workers : v # w => worker'[v] = worker[v]
    BY <1>busy, <2>1, AccountFacts
  <2>3. NotWorse
    BY <2>1 DEF NotWorse
  <2>4. LateLoginsCross'
    BY <1>1, <2>2, <2>3
  <2>5. ASSUME NEW a \in Account, a # u PROVE Good(a)
    <3>1. SessionOf(a)' \subseteq SessionOf(a)
      BY <1>6, <2>0, <2>5, StoreOther
    <3>2. UnderWay(a) => UnderWay(a)'
      BY <2>0, <2>2, <2>5 DEF UnderWay
    <3> HIDE DEF Good, Fine
    <3> QED BY <1>fine, <1>keep, <2>3, <3>1, <3>2
  <2>6. Good(u)
    BY <1>fine, <1>login, <2>0, <2>1, <2>3
  <2> HIDE DEF Good
  <2> QED BY <1>good, <2>4, <2>5, <2>6
<1>7. ASSUME NEW w \in Workers, NEW u \in Account, Disable(w, u) \/ Archive(w, u) PROVE LateLoginsCross' /\ OutHasNone'
  <2>1. worker[w].pc = "idle" /\ worker'[w].pc = "drop" /\ worker'[w].who = u /\ \A v \in Workers : v # w => worker'[v] = worker[v]
    BY <1>7, <1>admin
  <2>2. sessions' = sessions /\ now' = now /\ memory' = Crossing(u)
    BY <1>7 DEF Disable, Archive
  <2>3. ASSUME NEW a \in Account, a # u PROVE Fine(a)
    <3>1. CASE Disable(w, u)
      <4>1. /\ \A n \in Names : n # u => users'[n] = users[n]
            /\ UNCHANGED <<demos, archived>>
        BY <3>1, <1>t DEF Disable, FileTypes
      <4> QED BY <2>2, <2>3, <4>1 DEF Out, Banned, Registered, Refreshed
    <3>2. CASE Archive(w, u)
      <4>1. /\ \A n \in Names : n # u => users'[n] = users[n]
            /\ \A n \in Demos : n # u => demos'[n] = demos[n]
            /\ archived' = archived \cup {u}
        BY <3>2, <1>t DEF Archive, FileTypes
      <4> QED BY <2>2, <2>3, <4>1 DEF Out, Banned, Registered, Refreshed
    <3> QED BY <1>7, <3>1, <3>2
  <2>4. ASSUME NEW v \in Workers, worker[v].pc = "login", worker[v].who = u PROVE u \in memory'.crossed
    BY <2>2, <2>4, <1>t DEF Crossing, LoggingIn, FileTypes
  <2>5. LateLoginsCross'
    BY <2>1, <2>3, <2>4, <1>late, <1>login
  <2>6. \A a \in Account : a # u => Good(a)
    <3> HIDE DEF Good, Fine
    <3> QED BY <1>keep, <1>same, <1>kept, <2>1, <2>2, <2>3
  <2>7. Good(u)
    BY <2>1 DEF UnderWay
  <2> HIDE DEF Good
  <2> QED BY <1>good, <2>5, <2>6, <2>7
<1>8. ASSUME NEW w \in Workers, DropSessions(w) PROVE LateLoginsCross' /\ OutHasNone'
  <2>0. PICK u \in Account : u = worker[w].who
    BY <1>8, <1>w DEF DropSessions
  <2>1. worker[w].pc = "drop" /\ Becomes(w, Free) /\ UNCHANGED <<users, demos, archived, now>> /\ Without(SessionOf(u))
    BY <1>8, <2>0 DEF DropSessions, Dropped
  <2>2. worker'[w].pc = "idle" /\ \A v \in Workers : v # w => worker'[v] = worker[v]
    BY <1>busy, <2>1, AccountFacts
  <2>3. NotWorse
    BY <2>1 DEF NotWorse
  <2>4. LateLoginsCross'
    BY <1>1, <2>2, <2>3
  <2>5. ASSUME NEW a \in Account, a # u PROVE Good(a)
    <3>1. SessionOf(a)' \subseteq SessionOf(a)
      BY <2>1 DEF Without, SessionOf
    <3>2. UnderWay(a) => UnderWay(a)'
      BY <2>0, <2>2, <2>5 DEF UnderWay
    <3> HIDE DEF Good, Fine
    <3> QED BY <1>fine, <1>keep, <2>3, <3>1, <3>2
  <2>6. SessionOf(u)' = {}
    BY <2>1 DEF Without, SessionOf
  <2> QED BY <1>good, <2>4, <2>5, <2>6
<1>9. CASE Restart
  <2>1. \A w \in Workers : worker'[w].pc = "idle"
    BY <1>9, AccountFacts DEF Restart
  <2>2. NotWorse /\ now' = now
    BY <1>9 DEF Restart, NotWorse
  <2>3. LateLoginsCross'
    BY <1>1, <2>1, <2>2
  <2>4. ASSUME NEW u \in Account PROVE Good(u)
    <3> SUFFICES ASSUME Out(u), u \notin memory'.crossed, NEW t \in SessionOf(u)' PROVE FALSE
      BY <1>fine, <2>2
    <3>1. \A w \in Workers : worker[w].pc = "drop" => worker[w].who # u
      BY <1>9, <1>t DEF Restart, FileTypes
    <3>2. ~UnderWay(u)
      BY <1>login, <3>1 DEF UnderWay
    <3>3. SessionOf(u) = {}
      BY <1>c, <3>2 DEF AccountsIInv, OutHasNone
    <3>4. t \in Loaded /\ t \in Tokens /\ savedSessions[t].user = u
      BY <1>9 DEF Restart, SessionOf
    <3>5. savedSessions[t] # None /\ savedSessions[t].until > now
      BY <3>4 DEF Loaded
    <3>6. sessions[t] # None
      <4>1. savedSessions[t].until \in Nat /\ now \in Nat
        BY <1>t, <3>4, <3>5, AccountFacts DEF SessionTypes, Session, Times
      <4> QED BY <1>t, <3>4, <3>5, <4>1 DEF SessionsIInv, FileFollows
    <3>7. sessions[t].user = u
      BY <1>t, <3>4, <3>6 DEF SessionsIInv, FileFollows
    <3> QED BY <3>3, <3>4, <3>6, <3>7 DEF SessionOf
  <2> HIDE DEF Good
  <2> QED BY <1>good, <2>3, <2>4
<1>10. CASE worker' = worker /\ ~Restart
  <2>1. NotWorse
    BY <1>10, <1>worse
  <2>2. ~ \E w \in Workers : StoreSession(w)
    <3> SUFFICES ASSUME NEW w \in Workers, StoreSession(w) PROVE FALSE
      OBVIOUS
    <3> QED BY <1>10, <1>busy, AccountFacts DEF StoreSession
  <2> QED BY <1>10, <1>2, <1>t, <2>1, <2>2, FewerSessions
<1>11. \/ worker' = worker \/ Restart
       \/ \E w \in Workers :
            \/ \E u \in Names, c \in Codes : Register(w, u, c)
            \/ \E u \in Account : Authenticate(w, u) \/ Disable(w, u) \/ Archive(w, u)
            \/ CreateUser(w) \/ StoreSession(w) \/ DropSessions(w)
  BY AccountCases DEF MakeCode, CreateDemo, ResetDemo, GrantVip, RevokeVip, Enable, Request, RequestLate, Logout,
     SpendDemo, Redeem, Overview, Tick, accountVars
<1> QED BY <1>3, <1>4, <1>5, <1>6, <1>7, <1>8, <1>9, <1>10, <1>11

\* The invariant holds at first,
LEMMA AccountsStart == AccountsInit => AccountsIInv
<1> SUFFICES ASSUME AccountsInit PROVE AccountsIInv
  OBVIOUS
<1>1. AccountsTypeOK
  <2>1. 0 \in Times(0) /\ 0 \in 0..MaxRestarts
    BY AccountFacts DEF Times
  <2> QED BY <2>1, AccountFacts DEF AccountsInit, AccountsTypeOK, NoSessions
<1>2. SessionsIInv
  BY DEF AccountsInit, SessionsIInv, Known, FileFollows, EndedIsGone, NoSessions
<1>3. LateLoginsCross
  BY AccountFacts DEF AccountsInit, LateLoginsCross
<1>4. OutHasNone
  BY DEF AccountsInit, OutHasNone, SessionOf, NoSessions
<1> QED BY <1>1, <1>2, <1>3, <1>4 DEF AccountsIInv

\* and every step keeps it.
LEMMA AccountsStep == AccountsIInv /\ [AccountsNext]_accountVars => AccountsIInv'
<1> SUFFICES ASSUME AccountsIInv, [AccountsNext]_accountVars PROVE AccountsIInv'
  OBVIOUS
<1>1. AccountsTypeOK /\ SessionsIInv
  BY DEF AccountsIInv
<1>2. AccountsTypeOK' /\ SessionsIInv'
  BY <1>1, SessionsStep, FileTypesStep DEF AccountsTypeOK, FileTypes
<1> QED BY <1>2, OutStep DEF AccountsIInv

\* The invariant holds of the accounts for any names, codes, tokens and threads.
THEOREM AccountsInvCorrect == AccountsSpec => []AccountsIInv
BY AccountsStart, AccountsStep, PTL DEF AccountsSpec

\* An account has at most one session, known by its token, and budgets are kept
\* (AccountsTypeOK), whatever workers, restarts and the administrator do at once.
THEOREM AccountsTypeCorrect == AccountsSpec => []AccountsTypeOK
<1>1. AccountsIInv => AccountsTypeOK
  BY DEF AccountsIInv
<1> QED BY <1>1, AccountsInvCorrect, PTL

\* Who is out has no session, and a session that was ended is not answered again, for any
\* accounts, tokens, threads, and restarts.
THEOREM OutCorrect == AccountsSpec => []OutMeansOut
<1>1. AccountsIInv => OutMeansOut
  BY DEF AccountsIInv, SessionsIInv, EndedIsGone, OutHasNone, OutMeansOut
<1> QED BY <1>1, AccountsInvCorrect, PTL

-----------------------------------------------------------------------------
(* The crawls of a source *)

AtFeed == {"next", "fetch", "write"}
AtEnd  == {"project", "publish"}

\* A process at work has a run of its own, an article where it needs one, and a status for
\* its run before it records it; only a recorded run is projected.
AtWork(c) ==
  /\ crawl[c].run \in DOMAIN crawlRuns
  /\ crawl[c].pc \in {"fetch", "write"} => crawl[c].ref \in Articles
  /\ (crawl[c].pc \in {"project", "publish"}) <=> (crawlRuns[crawl[c].run].status \in Ended)
Ready == \A c \in Crawlers : crawl[c].pc \in {"show", "finish"} => crawl[c].status \in Ended
RunsDiffer == \A c, d \in Crawlers : Active(c) /\ Active(d) /\ crawl[c].run = crawl[d].run => c = d
NewsWork ==
  /\ crawl \in [Crawlers -> Crawl]
  /\ \A c \in Crawlers : Active(c) => AtWork(c)
  /\ Ready /\ RunsDiffer

\* The types of all else.
Record == [status : Ended \cup {"running"}, cancel : BOOLEAN]
Past == [overlapped : BOOLEAN, hazy : BOOLEAN, gap : BOOLEAN, dropped : SUBSET Articles,
         owed : SUBSET Articles]
StoreTypes ==
  /\ published \in 0..Len(Contents) /\ keepsList \in BOOLEAN
  /\ pending \subseteq Articles /\ hot \in Seq(Articles)
  /\ bundle \subseteq Articles /\ cold \subseteq bundle
  /\ paused \in BOOLEAN /\ credential \in BOOLEAN /\ health \in Shown
  /\ faults \in 0..MaxFaults
  /\ past \in Past
RunTypes == crawlRuns \in Seq(Record) /\ Len(crawlRuns) <= MaxRuns

\* The types, taken apart.
LEMMA NewsParts == NewsTypeOK /\ Ready /\ RunsDiffer <=> StoreTypes /\ RunTypes /\ NewsWork
BY DEF NewsTypeOK, StoreTypes, RunTypes, NewsWork, AtWork, Record, Past

\* What the constants are, and a process at rest.
LEMMA NewsFacts ==
  /\ Len(Contents) \in Nat /\ PageSize \in Nat /\ MaxPages \in Nat /\ MaxRuns \in Nat /\ MaxFaults \in Nat
  /\ IsFiniteSet(Articles) /\ Articles \in SUBSET Nat /\ 0 \notin Articles
  /\ Resting \in Crawl /\ Resting.pc = "idle" /\ NoPage \in Page
<1>1. Len(Contents) \in Nat /\ PageSize \in Nat /\ MaxPages \in Nat /\ MaxRuns \in Nat /\ MaxFaults \in Nat
  BY NewsAssumption DEF NewsAssumption
<1>2. IsFiniteSet(Articles) /\ Articles \in SUBSET Nat /\ 0 \notin Articles
  BY <1>1, FS_Interval DEF Articles
<1>3. Resting \in Crawl /\ Resting.pc = "idle" /\ NoPage \in Page
  BY <1>1 DEF Resting, Crawl, NoPage, Page, Stages, Shown, Ended
<1> QED BY <1>1, <1>2, <1>3

\* A process that is handed a reference passes it over, is cancelled or goes to fetch it.
Taken(c, w, self) ==
  /\ Crawls(c, w) /\ w \in Crawl
  /\ w.pc \in {"next", "finish", "fetch"}
  /\ w.pc = "fetch" => w.ref \in Articles
  /\ w.pc = "finish" => w.status \in Ended
  /\ w.run = self.run /\ w.listed = self.listed

\* Whatever way the executor is handed a reference, it does one of these.
LEMMA HandedTakes ==
  ASSUME NEW c \in Crawlers, NEW a \in Articles, NEW p \in 0..MaxPages,
         NEW self \in Crawl, self.pc = "next", Handed(c, a, p, self)
  PROVE  \E w : Taken(c, w, self)
<1> DEFINE turned == self.key # p
           stopped == self.stopped \/ (turned /\ self.key >= 1 /\ Boundary(self.stats))
           here == [self EXCEPT !.key = p, !.stopped = stopped, !.stats = IF turned THEN NoPage ELSE @]
           u == [here EXCEPT !.pc = "finish", !.status = "cancelled"]
           v == [here EXCEPT !.stats.existing = TRUE]
           w == [here EXCEPT !.pc = "fetch", !.ref = a]
<1>1. Crawls(c, here) \/ Crawls(c, u) \/ Crawls(c, v) \/ Crawls(c, w)
  BY DEF Handed
<1>2. here \in Crawl /\ here.pc = "next" /\ here.run = self.run /\ here.listed = self.listed
  <2>1. stopped \in BOOLEAN
    BY DEF Crawl, Boundary, Page
  <2>2. (IF turned THEN NoPage ELSE self.stats) \in Page
    BY NewsFacts DEF Crawl
  <2> HIDE DEF stopped, turned
  <2> QED BY <2>1, <2>2 DEF Crawl
<1>3. u \in Crawl /\ v \in Crawl /\ w \in Crawl
  <2> HIDE DEF here
  <2> QED BY <1>2 DEF Crawl, Ended, Stages, Page
<1>4. /\ u.pc = "finish" /\ u.status \in Ended /\ u.run = self.run /\ u.listed = self.listed
      /\ v.pc = "next" /\ v.run = self.run /\ v.listed = self.listed
      /\ w.pc = "fetch" /\ w.ref \in Articles /\ w.run = self.run /\ w.listed = self.listed
  <2> HIDE DEF here
  <2> QED BY <1>2 DEF Crawl, Ended
<1> HIDE DEF here, u, v, w
<1>5. Taken(c, here, self) \/ Taken(c, u, self) \/ Taken(c, v, self) \/ Taken(c, w, self)
  BY <1>1, <1>2, <1>3, <1>4 DEF Taken
<1> QED BY <1>5

\* The steps of a crawl between its start and its end.
Proceeds(c, w) ==
  /\ Crawls(c, w) /\ w \in Crawl
  /\ Active(c) /\ w.pc # "idle"
  /\ w.run = crawl[c].run
  /\ w.pc \in {"fetch", "write"} => w.ref \in Articles
  /\ w.pc \in {"show", "finish"} => w.status \in Ended
  /\ (w.pc \in AtEnd) <=> (crawl[c].pc \in AtEnd)
  /\ w.pc \in AtFeed => crawl[c].pc \in AtFeed

\* The url that is taken is one of them.
LEMMA MaxOfUrls ==
  ASSUME NEW S \in SUBSET Articles, S # {}
  PROVE  Max(S) \in S
<1>1. S \in SUBSET Nat /\ IsFiniteSet(S)
  BY NewsFacts, FS_Subset
<1> QED BY <1>1, MaxIsGreatest

\* What a process has, by name.
LEMMA OfCrawl ==
  ASSUME NEW w \in Crawl
  PROVE  /\ w.pc \in Stages /\ w.run \in Nat /\ w.began \in 0..Len(Contents)
         /\ w.replay \subseteq Articles /\ w.urls \subseteq Articles /\ w.listed \subseteq Articles
         /\ w.page \in 0..MaxPages /\ w.ref \in Articles \cup {0} /\ w.match \in Nat
         /\ w.status \in Ended \cup {"running"} /\ w.view \in Shown
BY NewsFacts DEF Crawl

\* A projected health is one that can be shown.
LEMMA ProjectedShown == Projected \in Shown
BY DEF Projected, Shown

\* A url of the stored list is taken up again.
LEMMA ReplayProceeds ==
  ASSUME NewsWork, NEW c \in Crawlers, Replay(c)
  PROVE  \E w : Proceeds(c, w) /\ w.listed = crawl[c].listed /\ w.pc \notin {"write", "publish"}
<1>1. crawl[c] \in Crawl /\ crawl[c].pc = "next"
  BY DEF Replay, NewsWork
<1>2. PICK a \in crawl[c].replay : Handed(c, a, 0, [crawl[c] EXCEPT !.replay = @ \ {a}])
  BY DEF Replay
<1> DEFINE self == [crawl[c] EXCEPT !.replay = @ \ {a}]
<1>3. self \in Crawl /\ self.pc = "next" /\ self.run = crawl[c].run /\ self.listed = crawl[c].listed
  BY <1>1 DEF Crawl
<1>4. a \in Articles /\ 0 \in 0..MaxPages
  BY <1>1, OfCrawl, NewsFacts
<1>5. \E w : Taken(c, w, self)
  <2> HIDE DEF self
  <2> QED BY <1>2, <1>3, <1>4, HandedTakes DEF self
<1> HIDE DEF self
<1> QED BY <1>1, <1>3, <1>5 DEF Taken, Proceeds, Active, AtFeed, AtEnd

\* A url of the page is taken, and the list follows.
LEMMA TakeUrlProceeds ==
  ASSUME NewsWork, pending \subseteq Articles, NEW c \in Crawlers, TakeUrl(c)
  PROVE  /\ Max(crawl[c].urls) \in Articles
         /\ crawl[c].pc = "next"
         /\ \E w : /\ Proceeds(c, w) /\ w.pc \notin {"write", "publish"}
                   /\ w.listed = IF keepsList THEN crawl[c].listed \cup {Max(crawl[c].urls)} ELSE {}
<1> DEFINE a == Max(crawl[c].urls)
           listed == IF keepsList THEN Listed(crawl[c].listed, a) ELSE {}
           self == [crawl[c] EXCEPT !.urls = @ \ {a}, !.listed = listed]
<1>1. crawl[c] \in Crawl /\ crawl[c].pc = "next" /\ crawl[c].urls # {}
  BY DEF TakeUrl, NewsWork
<1>2. a \in Articles /\ crawl[c].page \in 0..MaxPages
  BY <1>1, OfCrawl, MaxOfUrls
<1>3. Handed(c, a, crawl[c].page, self)
  BY DEF TakeUrl
<1>4. listed \subseteq Articles
  <2> HIDE DEF a
  <2> QED BY <1>1, <1>2, OfCrawl DEF Listed
<1>5. self \in Crawl /\ self.pc = "next" /\ self.run = crawl[c].run /\ self.listed = listed
  <2> HIDE DEF a, listed
  <2> QED BY <1>1, <1>4 DEF Crawl
<1>6. listed = IF keepsList THEN crawl[c].listed \cup {a} ELSE {}
  BY DEF Listed
<1>7. \E w : Taken(c, w, self)
  <2> HIDE DEF self, a
  <2> QED BY <1>2, <1>3, <1>5, HandedTakes
<1>8. \E w : Proceeds(c, w) /\ w.pc \notin {"write", "publish"} /\ w.listed = listed
  <2> HIDE DEF self, listed
  <2> QED BY <1>1, <1>5, <1>7 DEF Taken, Proceeds, Active, AtFeed, AtEnd
<1> HIDE DEF a, self, listed
<1> QED BY <1>1, <1>2, <1>6, <1>8 DEF a

\* An article is fetched, and a document looked for.
LEMMA FetchProceeds ==
  ASSUME NewsWork, hot \in Seq(Articles), NEW c \in Crawlers, FetchOk(c)
  PROVE  \E w : /\ Proceeds(c, w) /\ w.listed = crawl[c].listed /\ w.pc = "write"
                /\ w.ref = crawl[c].ref
                /\ IF Matching(w.ref) = {} THEN w.match = 0 ELSE w.match \in Matching(w.ref)
<1>1. crawl[c] \in Crawl /\ crawl[c].pc = "fetch" /\ crawl[c].ref \in Articles
  BY DEF FetchOk, NewsWork, Active, AtWork
<1>2. PICK match \in IF Matching(crawl[c].ref) = {} THEN {0} ELSE Matching(crawl[c].ref) :
        Crawls(c, [crawl[c] EXCEPT !.pc = "write", !.match = match, !.stats.fetched = TRUE])
  BY DEF FetchOk
<1>3. match \in Nat
  BY DEF Matching
<1> DEFINE w == [crawl[c] EXCEPT !.pc = "write", !.match = match, !.stats.fetched = TRUE]
<1>4. w \in Crawl /\ w.pc = "write" /\ w.match = match /\ w.ref = crawl[c].ref /\ w.run = crawl[c].run
        /\ w.listed = crawl[c].listed
  BY <1>1, <1>3 DEF Crawl, Stages, Page
<1> HIDE DEF w
<1>5. Crawls(c, w)
  BY <1>2 DEF w
<1> QED BY <1>1, <1>2, <1>4, <1>5 DEF Proceeds, Active, AtFeed, AtEnd

\* The other steps of a crawl that is not cut off.
LEMMA OthersProceed ==
  ASSUME NewsWork, hot \in Seq(Articles), NEW c \in Crawlers,
         \/ ReadPage(c) \/ Exhausted(c) \/ FetchFails(c) \/ FetchRefused(c) \/ Store(c) \/ BreakOff(c)
         \/ WritePause(c) \/ ShowPause(c) \/ ProjectHealth(c)
  PROVE  \E w : /\ Proceeds(c, w) /\ w.listed = crawl[c].listed /\ w.pc # "write"
                /\ w.pc = "publish" => ProjectHealth(c) /\ w.view = Projected
<1> DEFINE Goal == \E w : /\ Proceeds(c, w) /\ w.listed = crawl[c].listed /\ w.pc # "write"
                          /\ w.pc = "publish" => ProjectHealth(c) /\ w.view = Projected
           Fits(w) == /\ w \in Crawl /\ w.listed = crawl[c].listed /\ w.run = crawl[c].run
                      /\ w.pc \notin {"idle", "write", "publish", "project", "fetch"}
                      /\ w.pc \in {"show", "finish"} => w.status \in Ended
                      /\ w.pc \in AtFeed => crawl[c].pc \in AtFeed
<1>1. crawl[c] \in Crawl /\ (crawl[c].pc = "show" => crawl[c].status \in Ended)
  BY DEF NewsWork, Ready
<1>s. ASSUME NEW w, Crawls(c, w), Fits(w), Active(c), crawl[c].pc \notin AtEnd PROVE Goal
  BY <1>s DEF Proceeds, AtFeed, AtEnd
<1>2. CASE ReadPage(c)
  <2> DEFINE page == FeedPage(crawl[c].page + 1)
             known == IF keepsList THEN crawl[c].listed ELSE {}
             w == [crawl[c] EXCEPT !.urls = page \ known, !.page = IF page = {} THEN MaxPages ELSE @ + 1]
  <2>1. crawl[c].pc = "next" /\ crawl[c].page < MaxPages /\ crawl[c].page \in Nat /\ MaxPages \in Nat
    BY <1>1, <1>2, OfCrawl, NewsFacts DEF ReadPage, AtPage
  <2>2. page \subseteq Articles /\ crawl[c].page + 1 \in 0..MaxPages /\ MaxPages \in 0..MaxPages
    BY <2>1 DEF FeedPage
  <2>3. Fits(w)
    <3> HIDE DEF page
    <3> QED BY <1>1, <2>1, <2>2 DEF Crawl, AtFeed
  <2>4. Crawls(c, w)
    BY <1>2 DEF ReadPage
  <2> HIDE DEF w, Fits
  <2> QED BY <1>s, <2>1, <2>3, <2>4 DEF Active, AtEnd
<1>3. CASE Exhausted(c)
  <2> DEFINE w == [crawl[c] EXCEPT !.pc = "finish", !.status = IF crawl[c].errors THEN "partial" ELSE "succeeded"]
  <2>1. Fits(w)
    BY <1>1 DEF Crawl, Stages, Ended, AtFeed
  <2>2. Crawls(c, w) /\ crawl[c].pc = "next"
    BY <1>3 DEF Exhausted
  <2> HIDE DEF w, Fits
  <2> QED BY <1>s, <2>1, <2>2 DEF Active, AtEnd
<1>4. CASE FetchFails(c)
  <2>1. PICK error \in BOOLEAN : Crawls(c, [crawl[c] EXCEPT !.pc = "next", !.ref = 0, !.errors = @ \/ error])
    BY <1>4 DEF FetchFails
  <2> DEFINE w == [crawl[c] EXCEPT !.pc = "next", !.ref = 0, !.errors = @ \/ error]
  <2>2. crawl[c].pc = "fetch"
    BY <1>4 DEF FetchFails
  <2>3. Fits(w)
    BY <1>1, <2>2 DEF Crawl, Stages, AtFeed
  <2>4. Crawls(c, w)
    BY <2>1
  <2> HIDE DEF w, Fits
  <2> QED BY <1>s, <2>2, <2>3, <2>4 DEF Active, AtEnd
<1>5. CASE FetchRefused(c)
  <2> DEFINE w == [crawl[c] EXCEPT !.pc = "pause", !.ref = 0]
  <2>1. Fits(w)
    BY <1>1 DEF Crawl, Stages, AtFeed
  <2>2. Crawls(c, w) /\ crawl[c].pc = "fetch"
    BY <1>5 DEF FetchRefused
  <2> HIDE DEF w, Fits
  <2> QED BY <1>s, <2>1, <2>2 DEF Active, AtEnd
<1>6. CASE Store(c)
  <2>0. crawl[c].pc = "write"
    BY <1>6 DEF Store
  <2> DEFINE st == crawl[c].stats
             slot == IF crawl[c].match = 0 THEN Len(hot) + 1 ELSE crawl[c].match
             known == crawl[c].match # 0 /\ hot[slot] = crawl[c].ref
             marked == IF crawl[c].match = 0 THEN [st EXCEPT !.inserted = TRUE]
                       ELSE [st EXCEPT !.existing = TRUE, !.older = @ \/ (known /\ crawl[c].ref \notin crawl[c].own)]
             stored == [crawl[c] EXCEPT !.pc = "next", !.ref = 0, !.match = 0, !.stats = marked,
                                        !.own = IF known THEN @ ELSE @ \cup {crawl[c].ref}]
             refused == [crawl[c] EXCEPT !.pc = "finish", !.ref = 0, !.match = 0, !.status = "failed"]
  <2>1. Fits(stored)
    <3>1. marked \in Page
      <4>1. st \in Page
        BY <1>1 DEF Crawl
      <4> HIDE DEF st, slot
      <4> QED BY <4>1 DEF Page
    <3> HIDE DEF known
    <3> HIDE DEF marked
    <3>2. stored \in Crawl
      <4>1. (IF known THEN crawl[c].own ELSE crawl[c].own \cup {crawl[c].ref}) \in SUBSET Articles
        BY <1>1, <2>0 DEF Crawl, NewsWork, AtWork, Active
      <4> QED BY <1>1, <3>1, <4>1 DEF Crawl, Stages
    <3>3. stored.pc = "next" /\ stored.listed = crawl[c].listed /\ stored.run = crawl[c].run
      BY <1>1 DEF Crawl
    <3> QED BY <2>0, <3>2, <3>3 DEF AtFeed
  <2>2. Fits(refused)
    BY <1>1 DEF Crawl, Stages, Ended, AtFeed
  <2>3. Crawls(c, stored) \/ Crawls(c, refused)
    BY <1>6 DEF Store
  <2> HIDE DEF stored, refused, Fits
  <2> QED BY <1>s, <2>0, <2>1, <2>2, <2>3 DEF Active, AtEnd
<1>7. CASE BreakOff(c)
  <2> DEFINE w == [crawl[c] EXCEPT !.pc = "finish", !.ref = 0, !.match = 0, !.status = "failed"]
  <2>1. Fits(w)
    BY <1>1 DEF Crawl, Stages, Ended, AtFeed
  <2>2. Crawls(c, w) /\ crawl[c].pc \in {"fetch", "write", "next"}
    BY <1>7 DEF BreakOff, AtPage
  <2> HIDE DEF w, Fits
  <2> QED BY <1>s, <2>1, <2>2 DEF Active, AtEnd
<1>8. CASE WritePause(c)
  <2> DEFINE w == [crawl[c] EXCEPT !.pc = "show", !.status = "failed"]
  <2>1. Fits(w)
    BY <1>1 DEF Crawl, Stages, Ended, AtFeed
  <2>2. Crawls(c, w) /\ crawl[c].pc = "pause"
    BY <1>8 DEF WritePause
  <2> HIDE DEF w, Fits
  <2> QED BY <1>s, <2>1, <2>2 DEF Active, AtEnd
<1>9. CASE ShowPause(c)
  <2> DEFINE w == [crawl[c] EXCEPT !.pc = "finish"]
  <2>0. Crawls(c, w) /\ crawl[c].pc = "show"
    BY <1>9 DEF ShowPause
  <2>1. Fits(w)
    BY <1>1, <2>0 DEF Crawl, Stages, AtFeed
  <2> HIDE DEF w, Fits
  <2> QED BY <1>s, <2>0, <2>1 DEF Active, AtEnd
<1>10. CASE ProjectHealth(c)
  <2> DEFINE w == [crawl[c] EXCEPT !.pc = "publish", !.view = Projected]
  <2>0. Crawls(c, w) /\ crawl[c].pc = "project"
    BY <1>10 DEF ProjectHealth
  <2>1. w \in Crawl /\ w.pc = "publish" /\ w.listed = crawl[c].listed /\ w.run = crawl[c].run /\ w.view = Projected
    BY <1>1, ProjectedShown DEF Crawl, Stages
  <2> HIDE DEF w
  <2> QED BY <1>10, <2>0, <2>1 DEF Proceeds, Active, AtFeed, AtEnd
<1> HIDE DEF Goal
<1> QED BY <1>2, <1>3, <1>4, <1>5, <1>6, <1>7, <1>8, <1>9, <1>10

\* Every step is one of these.
Ordinary(c) ==
  \/ Replay(c) \/ ReadPage(c) \/ TakeUrl(c) \/ Exhausted(c) \/ FetchOk(c) \/ FetchFails(c) \/ FetchRefused(c)
  \/ Store(c) \/ BreakOff(c) \/ WritePause(c) \/ ShowPause(c) \/ ProjectHealth(c)
Leaves(c) == PublishHealth(c) \/ KillCrawl(c)
Aside == PublishArticle \/ CredentialExpires \/ SaveCredential \/ ExportBundle \/ IndexCold

\* Every step is one of these.
LEMMA NewsCases ==
  ASSUME [NewsNext]_newsVars
  PROVE  \/ \E c \in Crawlers : StartCrawl(c) \/ Ordinary(c) \/ FinishRun(c) \/ Leaves(c) \/ RequestCancel(c)
         \/ Aside \/ UNCHANGED newsVars
BY DEF NewsNext, CrawlStep, Ordinary, Leaves, Aside

\* All of them but start and end go on with the run.
LEMMA OrdinaryProceeds ==
  ASSUME NewsWork, StoreTypes, NEW c \in Crawlers, Ordinary(c)
  PROVE  UNCHANGED crawlRuns /\ \E w : Proceeds(c, w)
<1>1. UNCHANGED crawlRuns
  BY DEF Ordinary, Replay, ReadPage, TakeUrl, Exhausted, FetchOk, FetchFails, FetchRefused, Store, BreakOff,
     WritePause, ShowPause, ProjectHealth
<1>2. pending \subseteq Articles /\ hot \in Seq(Articles)
  BY DEF StoreTypes
<1>3. \E w : Proceeds(c, w)
  BY <1>2, ReplayProceeds, TakeUrlProceeds, FetchProceeds, OthersProceed, Zenon DEF Ordinary
<1> QED BY <1>1, <1>3

\* To go on keeps the processes as they should be.
LEMMA ProceedsKeepsWork ==
  ASSUME NewsWork, NEW c \in Crawlers, NEW w, Proceeds(c, w), UNCHANGED crawlRuns
  PROVE  NewsWork'
<1>1. crawl' \in [Crawlers -> Crawl] /\ crawl'[c] = w /\ \A d \in Crawlers \ {c} : crawl'[d] = crawl[d]
  BY DEF NewsWork, Proceeds, Crawls
<1>2. \A d \in Crawlers : crawl'[d].run = crawl[d].run /\ (crawl'[d].pc # "idle" <=> crawl[d].pc # "idle")
  BY <1>1 DEF Proceeds, Active
<1>3. ASSUME NEW d \in Crawlers, crawl'[d].pc # "idle" PROVE AtWork(d)'
  <2>1. AtWork(d)
    BY <1>2, <1>3 DEF NewsWork, Active
  <2>2. CASE d = c
    BY <1>1, <2>1, <2>2 DEF AtWork, Proceeds, AtEnd
  <2>3. CASE d # c
    BY <1>1, <2>1, <2>3 DEF AtWork
  <2> QED BY <2>2, <2>3
<1>4. Ready'
  BY <1>1 DEF NewsWork, Ready, Proceeds
<1>5. RunsDiffer'
  BY <1>2 DEF NewsWork, RunsDiffer, Active
<1> QED BY <1>1, <1>3, <1>4, <1>5 DEF NewsWork, Active

\* Every step keeps the processes as they should be, and the runs.
LEMMA WorkStep ==
  ASSUME NewsWork, StoreTypes, RunTypes, [NewsNext]_newsVars
  PROVE  NewsWork' /\ RunTypes'
<1>1. ASSUME NEW c \in Crawlers, Ordinary(c) PROVE NewsWork' /\ RunTypes'
  BY <1>1, OrdinaryProceeds, ProceedsKeepsWork DEF RunTypes
<1>2. ASSUME NEW c \in Crawlers, StartCrawl(c) PROVE NewsWork' /\ RunTypes'
  <2> DEFINE run == Len(crawlRuns) + 1
             first == [Resting EXCEPT !.run = run, !.began = published]
             u == [first EXCEPT !.pc = "pause"]
             v == [first EXCEPT !.pc = "next", !.replay = pending, !.listed = pending]
             new == [status |-> "running", cancel |-> FALSE]
  <2>0. MaxRuns \in Nat /\ crawlRuns \in Seq(Record) /\ Len(crawlRuns) < MaxRuns /\ new \in Record
    BY <1>2, NewsFacts DEF StartCrawl, RunTypes, Record
  <2>1. run \in 0..MaxRuns /\ run \notin DOMAIN crawlRuns
    BY <2>0
  <2>2. first \in Crawl /\ first.run = run
    <3> HIDE DEF run
    <3> QED BY <2>1, NewsFacts DEF Crawl, StoreTypes
  <2>3. u \in Crawl /\ v \in Crawl /\ u.run = run /\ v.run = run /\ u.pc = "pause" /\ v.pc = "next"
    <3> HIDE DEF first, run
    <3> QED BY <2>2 DEF Crawl, Stages, StoreTypes
  <2>4. Crawls(c, u) \/ Crawls(c, v)
    BY <1>2 DEF StartCrawl
  <2>5. crawlRuns' = Append(crawlRuns, new)
    BY <1>2 DEF StartCrawl
  <2>6. RunTypes'
    <3> HIDE DEF new
    <3> QED BY <2>0, <2>5 DEF RunTypes
  <2>7. /\ DOMAIN crawlRuns' = DOMAIN crawlRuns \cup {run}
        /\ \A r \in DOMAIN crawlRuns : crawlRuns'[r] = crawlRuns[r]
        /\ crawlRuns'[run].status \notin Ended
    BY <2>0, <2>5 DEF Ended
  <2> HIDE DEF u, v, first, run, new
  <2>8. PICK w \in Crawl : Crawls(c, w) /\ w.run = run /\ w.pc \in {"pause", "next"}
    BY <2>3, <2>4
  <2>9. crawl' \in [Crawlers -> Crawl] /\ crawl'[c] = w /\ \A d \in Crawlers \ {c} : crawl'[d] = crawl[d]
    BY <2>8 DEF NewsWork, Crawls
  <2>10. ASSUME NEW d \in Crawlers, crawl'[d].pc # "idle" PROVE AtWork(d)'
    <3>1. CASE d = c
      BY <2>7, <2>8, <2>9, <3>1 DEF AtWork
    <3>2. CASE d # c
      <4>1. AtWork(d) /\ crawl'[d] = crawl[d]
        BY <2>9, <2>10, <3>2 DEF NewsWork, Active
      <4> QED BY <2>7, <4>1 DEF AtWork
    <3> QED BY <3>1, <3>2
  <2>11. Ready'
    BY <2>8, <2>9 DEF NewsWork, Ready
  <2>12. RunsDiffer'
    <3>1. \A d \in Crawlers \ {c} : Active(d) => crawl[d].run # run
      BY <2>1 DEF NewsWork, AtWork
    <3> QED BY <2>8, <2>9, <3>1 DEF NewsWork, RunsDiffer, Active
  <2> QED BY <2>6, <2>9, <2>10, <2>11, <2>12 DEF NewsWork, Active
<1>3. ASSUME NEW c \in Crawlers, FinishRun(c) PROVE NewsWork' /\ RunTypes'
  <2> DEFINE r == crawl[c].run
             w == [crawl[c] EXCEPT !.pc = "project"]
  <2>1. crawl[c] \in Crawl /\ AtWork(c) /\ crawl[c].pc = "finish" /\ crawl[c].status \in Ended
    BY <1>3 DEF FinishRun, NewsWork, Ready, Active
  <2>2. w \in Crawl /\ w.pc = "project" /\ w.run = r
    BY <2>1 DEF Crawl, Stages
  <2>3. crawlRuns' = [crawlRuns EXCEPT ![r].status = crawl[c].status] /\ Crawls(c, w)
    BY <1>3 DEF FinishRun
  <2>4. r \in DOMAIN crawlRuns /\ crawlRuns \in Seq(Record)
    BY <2>1 DEF AtWork, RunTypes
  <2>5. [crawlRuns[r] EXCEPT !.status = crawl[c].status] \in Record
    <3>1. PICK q \in Record : q = crawlRuns[r]
      BY <2>4
    <3>2. [q EXCEPT !.status = crawl[c].status] \in Record
      BY <2>1 DEF Record
    <3> QED BY <3>1, <3>2
  <2>6. /\ RunTypes' /\ DOMAIN crawlRuns' = DOMAIN crawlRuns
        /\ \A q \in DOMAIN crawlRuns \ {r} : crawlRuns'[q] = crawlRuns[q]
        /\ crawlRuns'[r].status = crawl[c].status
    <3>1. crawlRuns' = [crawlRuns EXCEPT ![r] = [crawlRuns[r] EXCEPT !.status = crawl[c].status]]
      BY <2>3
    <3>2. crawlRuns' \in Seq(Record) /\ Len(crawlRuns') = Len(crawlRuns) /\ DOMAIN crawlRuns' = DOMAIN crawlRuns
      <4> HIDE DEF r
      <4> QED BY <2>4, <2>5, <3>1
    <3>3. crawlRuns'[r].status = crawl[c].status
      <4>1. crawlRuns[r] \in Record
        BY <2>4
      <4> QED BY <2>4, <3>1, <4>1 DEF Record
    <3>4. \A q \in DOMAIN crawlRuns \ {r} : crawlRuns'[q] = crawlRuns[q]
      BY <2>4, <3>1
    <3> QED BY <3>2, <3>3, <3>4 DEF RunTypes
  <2>7. crawl' \in [Crawlers -> Crawl] /\ crawl'[c] = w /\ \A d \in Crawlers \ {c} : crawl'[d] = crawl[d]
    BY <2>2, <2>3 DEF NewsWork, Crawls
  <2>8. \A d \in Crawlers \ {c} : Active(d) => crawl[d].run # r
    BY <2>1 DEF NewsWork, RunsDiffer, Active
  <2> HIDE DEF w, r
  <2>9. ASSUME NEW d \in Crawlers, crawl'[d].pc # "idle" PROVE AtWork(d)'
    <3>1. CASE d = c
      BY <2>1, <2>2, <2>4, <2>6, <2>7, <3>1 DEF AtWork
    <3>2. CASE d # c
      <4>1. AtWork(d) /\ crawl'[d] = crawl[d] /\ crawl[d].run # r
        BY <2>7, <2>8, <2>9, <3>2 DEF NewsWork, Active
      <4> QED BY <2>6, <4>1 DEF AtWork
    <3> QED BY <3>1, <3>2
  <2>10. Ready'
    BY <2>2, <2>7 DEF NewsWork, Ready
  <2>11. RunsDiffer'
    <3>1. \A d \in Crawlers : crawl'[d].run = crawl[d].run /\ (crawl'[d].pc # "idle" <=> crawl[d].pc # "idle")
      BY <2>1, <2>2, <2>7 DEF r
    <3> QED BY <3>1 DEF NewsWork, RunsDiffer, Active
  <2> QED BY <2>6, <2>7, <2>9, <2>10, <2>11 DEF NewsWork, Active
<1>4. ASSUME NEW c \in Crawlers, Leaves(c) PROVE NewsWork' /\ RunTypes'
  <2>1. Crawls(c, Resting) /\ UNCHANGED crawlRuns
    BY <1>4 DEF Leaves, PublishHealth, KillCrawl
  <2>2. crawl' \in [Crawlers -> Crawl] /\ crawl'[c].pc = "idle" /\ \A d \in Crawlers \ {c} : crawl'[d] = crawl[d]
    BY <2>1, NewsFacts DEF NewsWork, Crawls
  <2>3. \A d \in Crawlers : crawl'[d].pc # "idle" => d # c /\ crawl'[d] = crawl[d]
    BY <2>2
  <2>4. ASSUME NEW d \in Crawlers, crawl'[d].pc # "idle" PROVE AtWork(d)'
    <3>1. AtWork(d) /\ crawl'[d] = crawl[d]
      BY <2>3, <2>4 DEF NewsWork, Active
    <3> QED BY <2>1, <3>1 DEF AtWork
  <2>5. Ready' /\ RunsDiffer'
    BY <2>3 DEF NewsWork, Ready, RunsDiffer, Active
  <2> QED BY <2>1, <2>2, <2>4, <2>5 DEF NewsWork, RunTypes, Active
<1>5. ASSUME NEW c \in Crawlers, RequestCancel(c) PROVE NewsWork' /\ RunTypes'
  <2> DEFINE r == crawl[c].run
  <2>1. r \in DOMAIN crawlRuns /\ crawlRuns \in Seq(Record)
    BY <1>5 DEF RequestCancel, NewsWork, AtWork, RunTypes
  <2>2. crawlRuns' = [crawlRuns EXCEPT ![r] = [crawlRuns[r] EXCEPT !.cancel = TRUE]] /\ UNCHANGED crawl
    BY <1>5 DEF RequestCancel
  <2>3. [crawlRuns[r] EXCEPT !.cancel = TRUE] \in Record /\ [crawlRuns[r] EXCEPT !.cancel = TRUE].status = crawlRuns[r].status
    <3>1. PICK q \in Record : q = crawlRuns[r]
      BY <2>1
    <3>2. [q EXCEPT !.cancel = TRUE] \in Record /\ [q EXCEPT !.cancel = TRUE].status = q.status
      BY DEF Record
    <3> QED BY <3>1, <3>2
  <2> HIDE DEF r
  <2>4. RunTypes' /\ DOMAIN crawlRuns' = DOMAIN crawlRuns
    BY <2>1, <2>2, <2>3 DEF RunTypes
  <2>5. \A q \in DOMAIN crawlRuns : crawlRuns'[q].status = crawlRuns[q].status
    BY <2>1, <2>2, <2>3
  <2>6. \A d \in Crawlers : AtWork(d) => AtWork(d)'
    BY <2>2, <2>4, <2>5 DEF AtWork
  <2> QED BY <2>2, <2>4, <2>6 DEF NewsWork, Ready, RunsDiffer, Active
<1>6. ASSUME Aside \/ UNCHANGED newsVars PROVE NewsWork' /\ RunTypes'
  <2>1. UNCHANGED <<crawl, crawlRuns>>
    BY <1>6 DEF Aside, PublishArticle, CredentialExpires, SaveCredential, ExportBundle, IndexCold, newsVars
  <2>2. \A d \in Crawlers : AtWork(d) => AtWork(d)'
    BY <2>1 DEF AtWork
  <2> QED BY <2>1, <2>2 DEF NewsWork, RunTypes, Ready, RunsDiffer, Active
<1> QED BY NewsCases, <1>1, <1>2, <1>3, <1>4, <1>5, <1>6

\* What a step makes of the history that the properties speak of.
PastMoves ==
  /\ past' \in Past
  /\ past.overlapped => past'.overlapped
  /\ past'.owed # past.owed => \E c \in Crawlers : TakeUrl(c) \/ FetchOk(c)
  /\ \A c \in Crawlers : StartCrawl(c) =>
       past'.overlapped = (past.overlapped \/ OthersActive(c)) /\ past'.hazy = OthersActive(c)
  /\ \A c \in Crawlers : TakeUrl(c) =>
       past'.owed = IF keepsList THEN past.owed \cup {Max(crawl[c].urls)} ELSE past.owed
  /\ \A c \in Crawlers : FetchOk(c) => past'.owed = past.owed \ {crawl[c].ref}
  /\ past'.hazy # past.hazy => SaveCredential \/ \E c \in Crawlers : StartCrawl(c) \/ KillCrawl(c)
  /\ SaveCredential \/ (\E c \in Crawlers : KillCrawl(c)) => past'.hazy

\* Every step moves it so.
LEMMA PastStep ==
  ASSUME NewsWork, StoreTypes, [NewsNext]_newsVars
  PROVE  PastMoves
<1> past \in Past
  BY DEF StoreTypes
<1>a. \A c \in Crawlers : crawl[c] \in Crawl
  BY DEF NewsWork
<1>1. ASSUME NEW c \in Crawlers, StartCrawl(c)
      PROVE  past' \in Past /\ past'.owed = past.owed
               /\ past'.overlapped = (past.overlapped \/ OthersActive(c)) /\ past'.hazy = OthersActive(c)
  <2>1. past' = [past EXCEPT !.overlapped = @ \/ OthersActive(c), !.hazy = OthersActive(c)]
    BY <1>1 DEF StartCrawl
  <2>2. OthersActive(c) \in BOOLEAN
    BY DEF OthersActive
  <2> QED BY <2>1, <2>2 DEF Past
<1>2. ASSUME NEW c \in Crawlers, TakeUrl(c)
      PROVE  past' \in Past /\ past'.overlapped = past.overlapped /\ past'.hazy = past.hazy
               /\ past'.owed = IF keepsList THEN past.owed \cup {Max(crawl[c].urls)} ELSE past.owed
  <2> DEFINE a == Max(crawl[c].urls)
  <2>1. a \in Articles
    BY <1>2, TakeUrlProceeds DEF StoreTypes
  <2>2. PICK g : past' = [past EXCEPT !.owed = IF keepsList THEN @ \cup {a} ELSE @, !.gap = @ \/ g] /\ g \in BOOLEAN
    BY <1>2 DEF TakeUrl
  <2> HIDE DEF a
  <2>3. past' \in Past
    BY <2>1, <2>2 DEF Past
  <2> QED BY <2>2, <2>3 DEF Past, a
<1>3. ASSUME NEW c \in Crawlers, FetchOk(c)
      PROVE  past' \in Past /\ past'.overlapped = past.overlapped /\ past'.hazy = past.hazy
               /\ past'.owed = past.owed \ {crawl[c].ref}
  <2>1. past' = [past EXCEPT !.owed = @ \ {crawl[c].ref}]
    BY <1>3 DEF FetchOk
  <2> QED BY <2>1 DEF Past
<1>4. ASSUME NEW c \in Crawlers, KillCrawl(c)
      PROVE  past' \in Past /\ past'.overlapped = past.overlapped /\ past'.hazy /\ past'.owed = past.owed
  <2>1. past' = [past EXCEPT !.hazy = TRUE, !.gap = TRUE,
                             !.dropped = IF crawl[c].pc = "write" THEN @ \cup {crawl[c].ref} ELSE @]
    BY <1>4 DEF KillCrawl
  <2>2. crawl[c].pc = "write" => crawl[c].ref \in Articles
    BY DEF NewsWork, Active, AtWork
  <2>3. past' \in Past
    BY <2>1, <2>2 DEF Past
  <2> QED BY <2>1, <2>3 DEF Past
<1>5. ASSUME SaveCredential
      PROVE  past' \in Past /\ past'.overlapped = past.overlapped /\ past'.hazy /\ past'.owed = past.owed
  <2>1. past' = [past EXCEPT !.hazy = TRUE]
    BY <1>5 DEF SaveCredential
  <2> QED BY <2>1 DEF Past
<1> DEFINE Same == past' \in Past /\ past'.overlapped = past.overlapped /\ past'.hazy = past.hazy /\ past'.owed = past.owed
<1>6. ASSUME NEW c \in Crawlers, Store(c) \/ FetchFails(c) \/ BreakOff(c) \/ WritePause(c) \/ FinishRun(c) PROVE Same
  <2>1. crawl[c].pc \in {"fetch", "write"} => crawl[c].ref \in Articles
    BY DEF NewsWork, Active, AtWork
  <2>2. CASE Store(c)
    <3>1. past' = past \/ past' = [past EXCEPT !.dropped = @ \cup {crawl[c].ref}, !.gap = TRUE]
      BY <2>2 DEF Store
    <3>2. crawl[c].ref \in Articles
      BY <2>1, <2>2 DEF Store
    <3> QED BY <3>1, <3>2, ZenonT(40) DEF Past
  <2>3. CASE FetchFails(c)
    <3>1. past' = [past EXCEPT !.dropped = @ \cup {crawl[c].ref}] /\ crawl[c].ref \in Articles
      BY <2>1, <2>3 DEF FetchFails
    <3> QED BY <3>1 DEF Past
  <2>4. CASE BreakOff(c)
    <3>1. past' = [past EXCEPT !.gap = TRUE, !.dropped = IF crawl[c].pc = "write" THEN @ \cup {crawl[c].ref} ELSE @]
      BY <2>4 DEF BreakOff
    <3>2. past' \in Past
      BY <2>1, <3>1 DEF Past
    <3> QED BY <3>1, <3>2 DEF Past
  <2>5. CASE WritePause(c)
    <3>1. past' = [past EXCEPT !.gap = TRUE]
      BY <2>5 DEF WritePause
    <3> QED BY <3>1 DEF Past
  <2>6. CASE FinishRun(c)
    <3>1. past' = [past EXCEPT !.gap = @ \/ crawl[c].status = "cancelled"]
      BY <2>6 DEF FinishRun
    <3> QED BY <3>1 DEF Past
  <2> QED BY <1>6, <2>2, <2>3, <2>4, <2>5, <2>6
<1>7. ASSUME \/ \E c \in Crawlers : \/ Replay(c) \/ ReadPage(c) \/ Exhausted(c) \/ FetchRefused(c) \/ ShowPause(c)
                                    \/ ProjectHealth(c) \/ PublishHealth(c) \/ RequestCancel(c)
             \/ PublishArticle \/ CredentialExpires \/ ExportBundle \/ IndexCold \/ UNCHANGED newsVars
      PROVE  Same
  <2>1. past' = past
    BY <1>7 DEF Replay, ReadPage, Exhausted, FetchRefused, ShowPause, ProjectHealth, PublishHealth, RequestCancel,
       PublishArticle, CredentialExpires, ExportBundle, IndexCold, newsVars
  <2> QED BY <2>1
<1> QED
  <2>1. \/ \E c \in Crawlers : StartCrawl(c) \/ TakeUrl(c) \/ FetchOk(c) \/ KillCrawl(c)
        \/ SaveCredential \/ Same
    BY NewsCases, <1>6, <1>7, Zenon DEF Ordinary, Leaves, Aside
  <2> QED BY <1>1, <1>2, <1>3, <1>4, <1>5, <2>1 DEF PastMoves

\* The rest keeps its types.
LEMMA StoreStep ==
  ASSUME NewsWork, StoreTypes, [NewsNext]_newsVars
  PROVE  StoreTypes'
<1> Len(Contents) \in Nat /\ MaxFaults \in Nat
  BY NewsFacts
<1>1. published' \in 0..Len(Contents) /\ keepsList' \in BOOLEAN /\ paused' \in BOOLEAN /\ credential' \in BOOLEAN
  <2>1. /\ published' = published \/ (published < Len(Contents) /\ published' = published + 1)
        /\ keepsList' = keepsList /\ paused' \in {paused, TRUE, FALSE} /\ credential' \in {credential, TRUE, FALSE}
    BY NewsCases, ZenonT(40) DEF Ordinary, Leaves, Aside, StartCrawl, Replay, ReadPage, TakeUrl, Exhausted, FetchOk, FetchFails,
       FetchRefused, Store, BreakOff, WritePause, ShowPause, ProjectHealth, FinishRun, PublishHealth, KillCrawl,
       RequestCancel, PublishArticle, CredentialExpires, SaveCredential, ExportBundle, IndexCold, newsVars
  <2>2. published \in 0..Len(Contents) /\ keepsList \in BOOLEAN /\ paused \in BOOLEAN /\ credential \in BOOLEAN
    BY DEF StoreTypes
  <2>3. published' \in 0..Len(Contents)
    BY <2>1, <2>2
  <2> QED BY <2>1, <2>2, <2>3, Zenon
<1>2. faults' \in 0..MaxFaults
  <2>1. faults' = faults \/ (MayFault /\ faults' = faults + 1)
    BY NewsCases, ZenonT(40) DEF Ordinary, Leaves, Aside, StartCrawl, Replay, ReadPage, TakeUrl, Exhausted, FetchOk, FetchFails,
       FetchRefused, Store, BreakOff, WritePause, ShowPause, ProjectHealth, FinishRun, PublishHealth, KillCrawl,
       RequestCancel, PublishArticle, CredentialExpires, SaveCredential, ExportBundle, IndexCold, newsVars
  <2> QED BY <2>1 DEF StoreTypes, MayFault
<1>3. pending' \subseteq Articles
  <2>1. \/ pending' = pending
        \/ \E c \in Crawlers : TakeUrl(c) \/ FetchOk(c)
    BY NewsCases, ZenonT(40) DEF Ordinary, Leaves, Aside, StartCrawl, Replay, ReadPage, Exhausted, FetchFails,
       FetchRefused, Store, BreakOff, WritePause, ShowPause, ProjectHealth, FinishRun, PublishHealth, KillCrawl,
       RequestCancel, PublishArticle, CredentialExpires, SaveCredential, ExportBundle, IndexCold, newsVars
  <2>2. ASSUME NEW c \in Crawlers, TakeUrl(c) PROVE pending' \subseteq Articles
    <3>1. Max(crawl[c].urls) \in Articles /\ crawl[c].listed \subseteq Articles
      BY <2>2, TakeUrlProceeds, OfCrawl DEF StoreTypes, NewsWork
    <3>2. pending' \in {pending, crawl[c].listed \cup {Max(crawl[c].urls)}}
      BY <2>2 DEF TakeUrl, Listed
    <3> QED BY <3>1, <3>2 DEF StoreTypes
  <2>3. ASSUME NEW c \in Crawlers, FetchOk(c) PROVE pending' \subseteq Articles
    BY <2>3 DEF FetchOk, StoreTypes
  <2> QED BY <2>1, <2>2, <2>3 DEF StoreTypes
<1>4. hot' \in Seq(Articles)
  <2>1. hot' = hot \/ \E c \in Crawlers : Store(c)
    BY NewsCases DEF Ordinary, Leaves, Aside, StartCrawl, Replay, ReadPage, TakeUrl, Exhausted, FetchOk, FetchFails,
       FetchRefused, BreakOff, WritePause, ShowPause, ProjectHealth, FinishRun, PublishHealth, KillCrawl,
       RequestCancel, PublishArticle, CredentialExpires, SaveCredential, ExportBundle, IndexCold, newsVars
  <2>2. ASSUME NEW c \in Crawlers, Store(c) PROVE hot' \in Seq(Articles)
    <3>1. crawl[c].ref \in Articles
      BY <2>2 DEF Store, NewsWork, Active, AtWork
    <3>2. \/ hot' = hot \/ hot' = Append(hot, crawl[c].ref)
          \/ hot' = [hot EXCEPT ![crawl[c].match] = crawl[c].ref]
      BY <2>2 DEF Store
    <3> QED BY SMTT(20), <3>1, <3>2 DEF StoreTypes
  <2> QED BY <2>1, <2>2 DEF StoreTypes
<1>5. bundle' \subseteq Articles /\ cold' \subseteq bundle'
  <2>1. \/ UNCHANGED <<bundle, cold>> \/ ExportBundle \/ IndexCold
    BY NewsCases, ZenonT(40) DEF Ordinary, Leaves, Aside, StartCrawl, Replay, ReadPage, TakeUrl, Exhausted, FetchOk, FetchFails,
       FetchRefused, Store, BreakOff, WritePause, ShowPause, ProjectHealth, FinishRun, PublishHealth, KillCrawl,
       RequestCancel, PublishArticle, CredentialExpires, SaveCredential, newsVars
  <2>2. CASE ExportBundle
    BY <2>2 DEF ExportBundle, StoreTypes, Range
  <2>3. CASE IndexCold
    BY <2>3 DEF IndexCold, StoreTypes
  <2> QED BY <2>1, <2>2, <2>3 DEF StoreTypes
<1>6. health' \in Shown
  <2>1. health' = health \/ health' = "paused" \/ \E c \in Crawlers : health' = crawl[c].view
    BY NewsCases, ZenonT(40) DEF Ordinary, Leaves, Aside, StartCrawl, Replay, ReadPage, TakeUrl, Exhausted, FetchOk, FetchFails,
       FetchRefused, Store, BreakOff, WritePause, ShowPause, ProjectHealth, FinishRun, PublishHealth, KillCrawl,
       RequestCancel, PublishArticle, CredentialExpires, SaveCredential, ExportBundle, IndexCold, newsVars, Outcome
  <2>2. \A c \in Crawlers : crawl[c].view \in Shown
    BY OfCrawl DEF NewsWork
  <2> QED BY <2>1, <2>2 DEF StoreTypes, Shown
<1>7. past' \in Past
  BY PastStep DEF PastMoves
<1> QED BY <1>1, <1>2, <1>3, <1>4, <1>5, <1>6, <1>7 DEF StoreTypes

-----------------------------------------------------------------------------

\* Unless crawls overlapped at most one process is at work, what it found for its article
\* still holds when it writes, and no two documents say the same.
OneAtATime == ~past.overlapped => \A c, d \in Crawlers : Active(c) /\ Active(d) => c = d
FoundIsRight == ~past.overlapped => \A c \in Crawlers : crawl[c].pc = "write" =>
  IF Matching(crawl[c].ref) = {} THEN crawl[c].match = 0 ELSE crawl[c].match \in Matching(crawl[c].ref)

\* The list in memory has all that the stored one should have.
ListIsWhole ==
  /\ ~keepsList => past.owed = {}
  /\ ~past.overlapped => \A c \in Crawlers : crawl[c].pc \in AtFeed => past.owed \subseteq crawl[c].listed

\* What is about to be shown is what the runs say.
ViewIsTrue == ~past.hazy => \A c, d \in Crawlers :
  /\ Active(c) /\ Active(d) => c = d
  /\ crawl[c].pc = "publish" => crawl[c].view = Projected

NewsIInv ==
  /\ NewsTypeOK /\ Ready /\ RunsDiffer
  /\ OneAtATime /\ FoundIsRight /\ TwinsNeedOverlap
  /\ ListIsWhole /\ PendingKeepsUnfetched
  /\ ViewIsTrue /\ HealthFollowsRuns

\* Who is at work after a step.
LEMMA WhoIsActive ==
  ASSUME NewsWork, StoreTypes, [NewsNext]_newsVars
  PROVE  \/ \E c \in Crawlers : /\ StartCrawl(c) /\ ~Active(c)
                                /\ \A d \in Crawlers \ {c} : crawl'[d] = crawl[d]
                                /\ crawl'[c].pc \in {"pause", "next"} 
                                /\ crawl'[c].pc = "next" => crawl'[c].listed = pending
         \/ /\ ~ \E c \in Crawlers : StartCrawl(c)
            /\ \A d \in Crawlers : Active(d)' => Active(d)
<1>1. ASSUME NEW c \in Crawlers, StartCrawl(c)
      PROVE  /\ ~Active(c) /\ \A d \in Crawlers \ {c} : crawl'[d] = crawl[d]
             /\ crawl'[c].pc \in {"pause", "next"} 
             /\ crawl'[c].pc = "next" => crawl'[c].listed = pending
  <2> DEFINE first == [Resting EXCEPT !.run = Len(crawlRuns) + 1, !.began = published]
             u == [first EXCEPT !.pc = "pause"]
             v == [first EXCEPT !.pc = "next", !.replay = pending, !.listed = pending]
  <2>1. crawl' = [crawl EXCEPT ![c] = u] \/ crawl' = [crawl EXCEPT ![c] = v]
    BY <1>1 DEF StartCrawl, Crawls
  <2>2. u.pc = "pause" /\ v.pc = "next" /\ v.listed = pending
    BY DEF Resting
  <2> HIDE DEF u, v
  <2> QED BY <1>1, <2>1, <2>2 DEF NewsWork, StartCrawl
<1>2. ASSUME ~ \E c \in Crawlers : StartCrawl(c), NEW d \in Crawlers, Active(d)' PROVE Active(d)
  <2>1. ASSUME NEW c \in Crawlers, Ordinary(c) PROVE Active(d)
    <3>1. PICK w : Proceeds(c, w)
      BY <2>1, OrdinaryProceeds
    <3> QED BY <1>2, <3>1 DEF Proceeds, Crawls, Active, NewsWork
  <2>2. ASSUME NEW c \in Crawlers, FinishRun(c) PROVE Active(d)
    BY <1>2, <2>2 DEF FinishRun, Crawls, Active, NewsWork
  <2>3. ASSUME NEW c \in Crawlers, Leaves(c) PROVE Active(d)
    BY <1>2, <2>3, NewsFacts DEF Leaves, PublishHealth, KillCrawl, Crawls, Active, NewsWork
  <2>4. ASSUME \/ \E c \in Crawlers : RequestCancel(c)
               \/ Aside \/ UNCHANGED newsVars
        PROVE  Active(d)
    BY <1>2, <2>4 DEF RequestCancel, Aside, PublishArticle, CredentialExpires, SaveCredential, ExportBundle, IndexCold,
       newsVars, Active
  <2> QED BY NewsCases, <1>2, <2>1, <2>2, <2>3, <2>4
<1> QED BY <1>1, <1>2

\* Only one process is at work as long as no crawl was started beside another.
LEMMA OneStep ==
  ASSUME NewsWork, StoreTypes, OneAtATime, [NewsNext]_newsVars
  PROVE  OneAtATime'
<1> PastMoves
  BY PastStep
<1>1. CASE \A d \in Crawlers : Active(d)' => Active(d)
  BY <1>1 DEF PastMoves, OneAtATime
<1>2. CASE \E c \in Crawlers : StartCrawl(c) /\ \A d \in Crawlers \ {c} : crawl'[d] = crawl[d]
  <2>1. PICK c \in Crawlers : StartCrawl(c) /\ \A d \in Crawlers \ {c} : crawl'[d] = crawl[d]
    BY <1>2
  <2>2. past'.overlapped = (past.overlapped \/ OthersActive(c))
    BY <2>1 DEF PastMoves
  <2>3. ~OthersActive(c) => \A d \in Crawlers : Active(d)' => d = c
    BY <2>1 DEF OthersActive, Active
  <2> QED BY <2>2, <2>3 DEF OneAtATime
<1> QED BY WhoIsActive, <1>1, <1>2

\* Whether a process comes to "write", and what it found, is a matter of FetchOk alone.
LEMMA WhoWrites ==
  ASSUME NewsWork, StoreTypes, [NewsNext]_newsVars, ~ \E c \in Crawlers : FetchOk(c),
         NEW d \in Crawlers, crawl'[d].pc = "write"
  PROVE  crawl'[d] = crawl[d] /\ ~Store(d)
<1> pending \subseteq Articles /\ hot \in Seq(Articles) /\ crawl \in [Crawlers -> Crawl]
  BY DEF StoreTypes, NewsWork
<1>1. ASSUME NEW c \in Crawlers, Ordinary(c) PROVE crawl'[d] = crawl[d] /\ ~Store(d)
  <2>1. PICK w : Crawls(c, w) /\ w.pc # "write"
    <3>1. \/ Replay(c) \/ TakeUrl(c)
          \/ ReadPage(c) \/ Exhausted(c) \/ FetchFails(c) \/ FetchRefused(c) \/ Store(c) \/ BreakOff(c)
          \/ WritePause(c) \/ ShowPause(c) \/ ProjectHealth(c)
      BY <1>1 DEF Ordinary
    <3>2. CASE Replay(c)
      <4>1. PICK w : Proceeds(c, w) /\ w.pc \notin {"write", "publish"}
        BY <3>2, ReplayProceeds
      <4> QED BY <4>1 DEF Proceeds
    <3>3. CASE TakeUrl(c)
      <4>1. PICK w : Proceeds(c, w) /\ w.pc \notin {"write", "publish"}
        BY <3>3, TakeUrlProceeds
      <4> QED BY <4>1 DEF Proceeds
    <3>4. CASE \/ ReadPage(c) \/ Exhausted(c) \/ FetchFails(c) \/ FetchRefused(c) \/ Store(c) \/ BreakOff(c)
               \/ WritePause(c) \/ ShowPause(c) \/ ProjectHealth(c)
      <4>1. PICK w : Proceeds(c, w) /\ w.pc # "write"
        BY <3>4, OthersProceed
      <4> QED BY <4>1 DEF Proceeds
    <3> QED BY <3>1, <3>2, <3>3, <3>4
  <2>2. d # c /\ crawl'[d] = crawl[d]
    BY <2>1 DEF Crawls
  <2>3. ASSUME Store(d) PROVE FALSE
    <3>1. PICK v : Crawls(d, v) /\ v.pc # "write"
      <4>1. PICK v : Proceeds(d, v) /\ v.pc # "write"
        BY <2>3, OthersProceed
      <4> QED BY <4>1 DEF Proceeds
    <3> QED BY <3>1 DEF Crawls
  <2> QED BY <2>2, <2>3
<1>n. ~Store(d)
  <2> SUFFICES ASSUME Store(d) PROVE FALSE
    OBVIOUS
  <2> QED BY <1>1 DEF Ordinary
<1>2. ASSUME NEW c \in Crawlers, StartCrawl(c) PROVE crawl'[d] = crawl[d]
  BY <1>2, WhoIsActive
<1>3. ASSUME NEW c \in Crawlers, FinishRun(c) PROVE crawl'[d] = crawl[d]
  <2>1. Crawls(c, [crawl[c] EXCEPT !.pc = "project"]) /\ crawl[c] \in Crawl
    BY <1>3 DEF FinishRun
  <2>2. [crawl[c] EXCEPT !.pc = "project"].pc # "write"
    BY <2>1 DEF Crawl
  <2> QED BY <2>1, <2>2 DEF Crawls
<1>4. ASSUME NEW c \in Crawlers, Leaves(c) PROVE crawl'[d] = crawl[d]
  BY <1>4, NewsFacts DEF Leaves, PublishHealth, KillCrawl, Crawls
<1>5. ASSUME \/ \E c \in Crawlers : RequestCancel(c)
             \/ Aside \/ UNCHANGED newsVars
      PROVE  crawl'[d] = crawl[d]
  BY <1>5 DEF RequestCancel, Aside, PublishArticle, CredentialExpires, SaveCredential, ExportBundle, IndexCold, newsVars
<1> QED BY NewsCases, <1>1, <1>n, <1>2, <1>3, <1>4, <1>5

\* Only a store changes the documents.
LEMMA HotSteps ==
  ASSUME [NewsNext]_newsVars
  PROVE  UNCHANGED hot \/ \E c \in Crawlers : Store(c)
BY NewsCases, ZenonT(40) DEF Ordinary, Leaves, Aside, StartCrawl, Replay, ReadPage, TakeUrl, Exhausted, FetchOk, FetchFails,
   FetchRefused, BreakOff, WritePause, ShowPause, ProjectHealth, FinishRun, PublishHealth, KillCrawl,
   RequestCancel, PublishArticle, CredentialExpires, SaveCredential, ExportBundle, IndexCold, newsVars

FoundFits(c) == IF Matching(crawl[c].ref) = {} THEN crawl[c].match = 0 ELSE crawl[c].match \in Matching(crawl[c].ref)

\* What a process found stays right until it writes, as long as it is alone.
LEMMA FoundStep ==
  ASSUME NewsWork, StoreTypes, OneAtATime, FoundIsRight, [NewsNext]_newsVars
  PROVE  FoundIsRight'
<1> PastMoves
  BY PastStep
<1> SUFFICES ASSUME ~past'.overlapped, NEW d \in Crawlers, crawl'[d].pc = "write" PROVE FoundFits(d)'
  BY DEF FoundIsRight, FoundFits
<1>0. ~past.overlapped
  BY DEF PastMoves
<1>1. ASSUME NEW c \in Crawlers, FetchOk(c) PROVE FoundFits(d)'
  <2>1. PICK w : /\ Proceeds(c, w) /\ w.ref = crawl[c].ref
                 /\ IF Matching(w.ref) = {} THEN w.match = 0 ELSE w.match \in Matching(w.ref)
    BY <1>1, FetchProceeds DEF StoreTypes
  <2>2. UNCHANGED hot
    BY <1>1 DEF FetchOk
  <2>3. Active(c) /\ crawl' = [crawl EXCEPT ![c] = w] /\ crawl \in [Crawlers -> Crawl]
    BY <2>1 DEF Proceeds, Crawls, NewsWork
  <2>4. d = c
    <3> SUFFICES ASSUME d # c PROVE FALSE
      OBVIOUS
    <3>1. Active(d)
      BY <2>3 DEF Active
    <3> QED BY <1>0, <2>3, <3>1 DEF OneAtATime
  <2>5. crawl'[d] = w
    BY <2>3, <2>4
  <2>6. \A a : Matching(a)' = Matching(a)
    BY <2>2 DEF Matching
  <2> QED BY <2>1, <2>5, <2>6 DEF FoundFits
<1>2. CASE ~ \E c \in Crawlers : FetchOk(c)
  <2>1. crawl'[d] = crawl[d] /\ ~Store(d)
    BY <1>2, WhoWrites
  <2>2. UNCHANGED hot
    <3> SUFFICES ASSUME NEW c \in Crawlers, Store(c) PROVE FALSE
      BY HotSteps
    <3>1. Active(c) /\ Active(d)
      BY <2>1 DEF Store, Active
    <3> QED BY <1>0, <2>1, <3>1 DEF OneAtATime
  <2>3. FoundFits(d)
    BY <1>0, <2>1 DEF FoundIsRight, FoundFits
  <2>4. \A a : Matching(a)' = Matching(a)
    BY <2>2 DEF Matching
  <2> QED BY <2>1, <2>3, <2>4 DEF FoundFits
<1> QED BY <1>1, <1>2

\* A process that writes what it found makes no twin.
LEMMA TwinsStep ==
  ASSUME NewsWork, StoreTypes, FoundIsRight, TwinsNeedOverlap, [NewsNext]_newsVars
  PROVE  TwinsNeedOverlap'
<1> PastMoves
  BY PastStep
<1> SUFFICES ASSUME ~past'.overlapped PROVE \A s, t \in DOMAIN hot' : Contents[hot'[s]] = Contents[hot'[t]] => s = t
  BY DEF TwinsNeedOverlap
<1>0. ~past.overlapped /\ \A s, t \in DOMAIN hot : Contents[hot[s]] = Contents[hot[t]] => s = t
  BY DEF PastMoves, TwinsNeedOverlap
<1>1. ASSUME NEW c \in Crawlers, Store(c)
      PROVE  \A s, t \in DOMAIN hot' : Contents[hot'[s]] = Contents[hot'[t]] => s = t
  <2> DEFINE a == crawl[c].ref
  <2>1. hot \in Seq(Articles) /\ a \in Articles /\ FoundFits(c)
    BY <1>0, <1>1 DEF StoreTypes, Store, FoundIsRight, FoundFits, NewsWork, Active, AtWork
  <2>2. hot' = hot \/ (crawl[c].match = 0 /\ hot' = Append(hot, a))
          \/ (crawl[c].match # 0 /\ hot' = [hot EXCEPT ![crawl[c].match] = a])
    BY <1>1 DEF Store
  <2>3. CASE crawl[c].match = 0 /\ hot' = Append(hot, a)
    <3>1. Matching(a) = {}
      <4>1. 0 \notin Matching(a)
        BY <2>1 DEF Matching
      <4> QED BY <2>1, <2>3, <4>1 DEF FoundFits
    <3>2. \A s \in DOMAIN hot : Contents[hot[s]] # Contents[a]
      BY <3>1 DEF Matching
    <3>3. /\ DOMAIN hot' = DOMAIN hot \cup {Len(hot) + 1} /\ hot'[Len(hot) + 1] = a
          /\ \A s \in DOMAIN hot : hot'[s] = hot[s]
      <4> HIDE DEF a
      <4> QED BY <2>1, <2>3
    <3> HIDE DEF a
    <3> QED BY <1>0, <3>2, <3>3
  <2>4. CASE crawl[c].match # 0 /\ hot' = [hot EXCEPT ![crawl[c].match] = a]
    <3> DEFINE m == crawl[c].match
    <3>1. m \in DOMAIN hot /\ Contents[hot[m]] = Contents[a]
      BY <2>1, <2>4 DEF FoundFits, Matching
    <3>2. DOMAIN hot' = DOMAIN hot /\ hot'[m] = a /\ \A s \in DOMAIN hot \ {m} : hot'[s] = hot[s]
      BY <2>1, <2>4, <3>1
    <3>3. \A s \in DOMAIN hot : Contents[hot'[s]] = Contents[hot[s]]
      <4> HIDE DEF m, a
      <4> QED BY <3>1, <3>2
    <3> HIDE DEF m, a
    <3> QED BY <1>0, <3>2, <3>3
  <2> QED BY <1>0, <2>2, <2>3, <2>4
<1> QED BY HotSteps, <1>0, <1>1

-----------------------------------------------------------------------------

\* Who changes the stored list.
LEMMA PendingSteps ==
  ASSUME [NewsNext]_newsVars
  PROVE  /\ keepsList' = keepsList
         /\ UNCHANGED pending \/ \E c \in Crawlers : TakeUrl(c) \/ FetchOk(c)
BY NewsCases, ZenonT(40) DEF Ordinary, Leaves, Aside, StartCrawl, Replay, ReadPage, TakeUrl, Exhausted, FetchOk, FetchFails, Store,
   FetchRefused, BreakOff, WritePause, ShowPause, ProjectHealth, FinishRun, PublishHealth, KillCrawl,
   RequestCancel, PublishArticle, CredentialExpires, SaveCredential, ExportBundle, IndexCold, newsVars

\* A process that is at the feed after a step was there before, with the same list, unless it
\* has just begun or taken a url.
LEMMA WhoIsAtFeed ==
  ASSUME NewsWork, StoreTypes, [NewsNext]_newsVars, ~ \E c \in Crawlers : StartCrawl(c) \/ TakeUrl(c),
         NEW d \in Crawlers, crawl'[d].pc \in AtFeed
  PROVE  crawl[d].pc \in AtFeed /\ crawl'[d].listed = crawl[d].listed
<1> pending \subseteq Articles /\ hot \in Seq(Articles) /\ crawl \in [Crawlers -> Crawl]
  BY DEF StoreTypes, NewsWork
<1>1. ASSUME NEW c \in Crawlers, Ordinary(c) PROVE crawl[d].pc \in AtFeed /\ crawl'[d].listed = crawl[d].listed
  <2>1. PICK w : Proceeds(c, w) /\ w.listed = crawl[c].listed
    <3>1. \/ Replay(c) \/ FetchOk(c)
          \/ ReadPage(c) \/ Exhausted(c) \/ FetchFails(c) \/ FetchRefused(c) \/ Store(c) \/ BreakOff(c)
          \/ WritePause(c) \/ ShowPause(c) \/ ProjectHealth(c)
      BY <1>1 DEF Ordinary
    <3> QED BY <3>1, ReplayProceeds, FetchProceeds, OthersProceed
  <2> QED BY <2>1 DEF Proceeds, Crawls
<1>2. ASSUME NEW c \in Crawlers, FinishRun(c) PROVE crawl'[d] = crawl[d]
  <2>1. Crawls(c, [crawl[c] EXCEPT !.pc = "project"]) /\ crawl[c] \in Crawl
    BY <1>2 DEF FinishRun
  <2>2. [crawl[c] EXCEPT !.pc = "project"].pc \notin AtFeed
    BY <2>1 DEF Crawl, AtFeed
  <2> QED BY <2>1, <2>2 DEF Crawls
<1>3. ASSUME NEW c \in Crawlers, Leaves(c) PROVE crawl'[d] = crawl[d]
  BY <1>3, NewsFacts DEF Leaves, PublishHealth, KillCrawl, Crawls, AtFeed
<1>4. ASSUME \/ \E c \in Crawlers : RequestCancel(c)
             \/ Aside \/ UNCHANGED newsVars
      PROVE  crawl'[d] = crawl[d]
  BY <1>4 DEF RequestCancel, Aside, PublishArticle, CredentialExpires, SaveCredential, ExportBundle, IndexCold, newsVars
<1> QED BY NewsCases, <1>1, <1>2, <1>3, <1>4

\* The list in memory is whole, and so is the one it is stored as.
LEMMA ListStep ==
  ASSUME NewsWork, StoreTypes, OneAtATime, ListIsWhole, PendingKeepsUnfetched, [NewsNext]_newsVars
  PROVE  ListIsWhole' /\ PendingKeepsUnfetched'
<1> PastMoves /\ keepsList' = keepsList
  BY PastStep, PendingSteps
<1>a. pending \subseteq Articles /\ hot \in Seq(Articles) /\ crawl \in [Crawlers -> Crawl]
  BY DEF StoreTypes, NewsWork
<1>b. OneAtATime'
  BY OneStep
<1>c. ASSUME NEW c \in Crawlers, ~past'.overlapped, crawl'[c].pc # "idle", NEW d \in Crawlers, crawl'[d].pc \in AtFeed
      PROVE  d = c
  BY <1>b, <1>c DEF OneAtATime, Active, AtFeed
<1>1. ASSUME NEW c \in Crawlers, TakeUrl(c) PROVE ListIsWhole' /\ PendingKeepsUnfetched'
  <2> DEFINE a == Max(crawl[c].urls)
  <2>1. PICK w : Proceeds(c, w) /\ w.listed = IF keepsList THEN crawl[c].listed \cup {a} ELSE {}
    BY <1>1, <1>a, TakeUrlProceeds
  <2>2. crawl[c].pc \in AtFeed /\ crawl'[c] = w /\ w.pc # "idle"
    BY <1>1, <1>a, <2>1 DEF TakeUrl, AtFeed, Proceeds, Crawls
  <2>3. /\ past'.owed = IF keepsList THEN past.owed \cup {a} ELSE past.owed
        /\ pending' = IF keepsList THEN crawl[c].listed \cup {a} ELSE pending
    BY <1>1 DEF PastMoves, TakeUrl, Listed
  <2> HIDE DEF a
  <2>4. ~past'.overlapped => past'.owed \subseteq w.listed /\ past'.owed \subseteq pending'
    BY <2>1, <2>2, <2>3 DEF ListIsWhole, PastMoves, PendingKeepsUnfetched
  <2>5. ~keepsList' => past'.owed = {}
    BY <2>3 DEF ListIsWhole
  <2> QED BY <1>c, <2>2, <2>4, <2>5 DEF ListIsWhole, PendingKeepsUnfetched
<1>2. ASSUME NEW c \in Crawlers, FetchOk(c) PROVE ListIsWhole' /\ PendingKeepsUnfetched'
  <2>1. PICK w : Proceeds(c, w) /\ w.listed = crawl[c].listed
    BY <1>2, <1>a, FetchProceeds
  <2>2. crawl[c].pc \in AtFeed /\ crawl'[c] = w /\ w.pc # "idle"
    BY <1>2, <1>a, <2>1 DEF FetchOk, AtFeed, Proceeds, Crawls
  <2>3. /\ past'.owed = past.owed \ {crawl[c].ref}
        /\ pending' = IF keepsList THEN pending \ {crawl[c].ref} ELSE pending
    BY <1>2 DEF PastMoves, FetchOk
  <2>4. ~past'.overlapped => past'.owed \subseteq w.listed /\ past'.owed \subseteq pending'
    BY <2>1, <2>2, <2>3 DEF ListIsWhole, PastMoves, PendingKeepsUnfetched
  <2>5. ~keepsList' => past'.owed = {}
    BY <2>3 DEF ListIsWhole
  <2> QED BY <1>c, <2>2, <2>4, <2>5 DEF ListIsWhole, PendingKeepsUnfetched
<1>3. CASE ~ \E c \in Crawlers : TakeUrl(c) \/ FetchOk(c)
  <2>1. past'.owed = past.owed /\ pending' = pending
    BY <1>3, PendingSteps DEF PastMoves
  <2>2. PendingKeepsUnfetched'
    BY <2>1 DEF PendingKeepsUnfetched, PastMoves
  <2>3. ASSUME ~past'.overlapped, NEW d \in Crawlers, crawl'[d].pc \in AtFeed PROVE past.owed \subseteq crawl'[d].listed
    <3>1. CASE \E c \in Crawlers : StartCrawl(c)
      <4>1. PICK c \in Crawlers : /\ crawl'[c].pc \in {"pause", "next"}
                                  /\ crawl'[c].pc = "next" => crawl'[c].listed = pending
        BY <3>1, WhoIsActive
      <4>2. d = c
        BY <1>c, <2>3, <4>1
      <4>3. crawl'[d].listed = pending
        BY <2>3, <4>1, <4>2 DEF AtFeed
      <4> QED BY <2>3, <4>3 DEF PendingKeepsUnfetched, PastMoves
    <3>2. CASE ~ \E c \in Crawlers : StartCrawl(c)
      <4>1. crawl[d].pc \in AtFeed /\ crawl'[d].listed = crawl[d].listed
        BY <1>3, <2>3, <3>2, WhoIsAtFeed
      <4> QED BY <2>3, <4>1 DEF ListIsWhole, PastMoves
    <3> QED BY <3>1, <3>2
  <2>4. ListIsWhole'
    BY <2>1, <2>3 DEF ListIsWhole
  <2> QED BY <2>2, <2>4
<1> QED BY <1>1, <1>2, <1>3

-----------------------------------------------------------------------------

\* The runs and the pause that the health is made of.
LEMMA ShownSteps ==
  ASSUME [NewsNext]_newsVars
  PROVE  \/ UNCHANGED <<crawlRuns, paused>>
         \/ SaveCredential
         \/ \E c \in Crawlers : StartCrawl(c) \/ FinishRun(c) \/ RequestCancel(c) \/ WritePause(c)
BY NewsCases, ZenonT(40) DEF Ordinary, Leaves, Aside, Replay, ReadPage, TakeUrl, Exhausted, FetchOk, FetchFails, Store,
   FetchRefused, BreakOff, ShowPause, ProjectHealth, PublishHealth, KillCrawl,
   PublishArticle, CredentialExpires, ExportBundle, IndexCold, newsVars

\* Who changes the health.
LEMMA HealthSteps ==
  ASSUME [NewsNext]_newsVars
  PROVE  UNCHANGED health \/ \E c \in Crawlers : ShowPause(c) \/ PublishHealth(c)
BY NewsCases, ZenonT(40) DEF Ordinary, Leaves, Aside, StartCrawl, Replay, ReadPage, TakeUrl, Exhausted, FetchOk, FetchFails, Store,
   FetchRefused, BreakOff, WritePause, ProjectHealth, FinishRun, KillCrawl, RequestCancel,
   PublishArticle, CredentialExpires, SaveCredential, ExportBundle, IndexCold, newsVars

\* The health is made of the runs and the pause only.
LEMMA SameView == UNCHANGED <<crawlRuns, paused>> => Projected' = Projected
BY DEF Projected, FailuresInARow

\* A process that is about to publish has just projected the health, or does nothing.
LEMMA WhoPublishes ==
  ASSUME NewsWork, StoreTypes, [NewsNext]_newsVars, NEW d \in Crawlers, crawl'[d].pc = "publish"
  PROVE  \/ ProjectHealth(d) /\ crawl'[d].view = Projected
         \/ crawl'[d] = crawl[d]
<1> pending \subseteq Articles /\ hot \in Seq(Articles) /\ crawl \in [Crawlers -> Crawl]
  BY DEF StoreTypes, NewsWork
<1>1. ASSUME NEW c \in Crawlers, Ordinary(c), d # c PROVE crawl'[d] = crawl[d]
  BY <1>1, OrdinaryProceeds DEF Proceeds, Crawls
<1>2. ASSUME Ordinary(d) PROVE ProjectHealth(d) /\ crawl'[d].view = Projected
  <2>1. \/ Replay(d) \/ TakeUrl(d) \/ FetchOk(d)
        \/ ReadPage(d) \/ Exhausted(d) \/ FetchFails(d) \/ FetchRefused(d) \/ Store(d) \/ BreakOff(d)
        \/ WritePause(d) \/ ShowPause(d) \/ ProjectHealth(d)
    BY <1>2 DEF Ordinary
  <2>2. ASSUME NEW w, Proceeds(d, w) PROVE crawl'[d] = w
    BY <2>2 DEF Proceeds, Crawls
  <2>3. CASE Replay(d) \/ TakeUrl(d) \/ FetchOk(d)
    <3>1. PICK w : Proceeds(d, w) /\ w.pc # "publish"
      BY <2>3, ReplayProceeds, TakeUrlProceeds, FetchProceeds
    <3> QED BY <2>2, <3>1
  <2>4. CASE \/ ReadPage(d) \/ Exhausted(d) \/ FetchFails(d) \/ FetchRefused(d) \/ Store(d) \/ BreakOff(d)
             \/ WritePause(d) \/ ShowPause(d) \/ ProjectHealth(d)
    <3>1. PICK w : Proceeds(d, w) /\ (w.pc = "publish" => ProjectHealth(d) /\ w.view = Projected)
      BY <2>4, OthersProceed
    <3> QED BY <2>2, <3>1
  <2> QED BY <2>1, <2>3, <2>4
<1>3. ASSUME NEW c \in Crawlers, StartCrawl(c) PROVE crawl'[d] = crawl[d]
  <2>1. PICK u \in Crawlers : /\ \A e \in Crawlers \ {u} : crawl'[e] = crawl[e]
                              /\ crawl'[u].pc \in {"pause", "next"}
    BY <1>3, WhoIsActive
  <2> QED BY <2>1
<1>4. ASSUME NEW c \in Crawlers, FinishRun(c) PROVE crawl'[d] = crawl[d]
  <2>1. Crawls(c, [crawl[c] EXCEPT !.pc = "project"]) /\ crawl[c] \in Crawl
    BY <1>4 DEF FinishRun
  <2>2. [crawl[c] EXCEPT !.pc = "project"].pc # "publish"
    BY <2>1 DEF Crawl
  <2> QED BY <2>1, <2>2 DEF Crawls
<1>5. ASSUME NEW c \in Crawlers, Leaves(c) PROVE crawl'[d] = crawl[d]
  BY <1>5, NewsFacts DEF Leaves, PublishHealth, KillCrawl, Crawls
<1>6. ASSUME \/ \E c \in Crawlers : RequestCancel(c)
             \/ Aside \/ UNCHANGED newsVars
      PROVE  crawl'[d] = crawl[d]
  BY <1>6 DEF RequestCancel, Aside, PublishArticle, CredentialExpires, SaveCredential, ExportBundle, IndexCold, newsVars
<1> QED BY NewsCases, <1>1, <1>2, <1>3, <1>4, <1>5, <1>6

\* What is to be published is still true as long as nobody else came in.
LEMMA ViewStep ==
  ASSUME NewsWork, StoreTypes, RunTypes, ViewIsTrue, [NewsNext]_newsVars
  PROVE  ViewIsTrue'
<1> PastMoves
  BY PastStep
<1> SUFFICES ASSUME ~past'.hazy, NEW d \in Crawlers
             PROVE  /\ \A c \in Crawlers : Active(c)' /\ Active(d)' => c = d
                    /\ crawl'[d].pc = "publish" => crawl'[d].view = Projected'
  BY DEF ViewIsTrue
<1>1. ASSUME NEW u \in Crawlers, StartCrawl(u), \A e \in Crawlers \ {u} : crawl'[e] = crawl[e],
             crawl'[u].pc \in {"pause", "next"}
      PROVE  /\ \A c \in Crawlers : Active(c)' /\ Active(d)' => c = d
             /\ crawl'[d].pc # "publish"
  <2>1. ~OthersActive(u)
    BY <1>1 DEF PastMoves
  <2>2. \A e \in Crawlers : Active(e)' => e = u
    BY <1>1, <2>1 DEF OthersActive, Active
  <2> QED BY <1>1, <2>2 DEF Active
<1>2. CASE ~ (\E c \in Crawlers : StartCrawl(c)) /\ \A e \in Crawlers : Active(e)' => Active(e)
  <2>1. ~past.hazy /\ ~SaveCredential /\ ~ \E c \in Crawlers : KillCrawl(c)
    BY <1>2 DEF PastMoves
  <2>2. \A c, e \in Crawlers : Active(c) /\ Active(e) => c = e
    BY <2>1 DEF ViewIsTrue
  <2>3. ASSUME crawl'[d].pc = "publish" PROVE crawl'[d].view = Projected'
    <3>1. CASE ProjectHealth(d) /\ crawl'[d].view = Projected
      <4>1. UNCHANGED <<crawlRuns, paused>>
        BY <3>1 DEF ProjectHealth
      <4> QED BY <3>1, <4>1, SameView
    <3>2. CASE crawl'[d] = crawl[d]
      <4>1. Active(d) /\ crawl[d].pc = "publish" /\ crawl[d].view = Projected
        BY <2>1, <2>3, <3>2 DEF Active, ViewIsTrue
      <4>2. UNCHANGED <<crawlRuns, paused>>
        <5>1. ASSUME NEW c \in Crawlers, FinishRun(c) \/ WritePause(c) PROVE FALSE
          <6>1. Active(c) /\ crawl[c].pc # "publish"
            BY <5>1 DEF FinishRun, WritePause, Active
          <6> QED BY <2>2, <4>1, <6>1
        <5>2. ASSUME NEW c \in Crawlers, RequestCancel(c) PROVE FALSE
          <6>1. Active(c) /\ crawlRuns[crawl[c].run].status = "running"
            BY <5>2 DEF RequestCancel
          <6>2. c = d /\ AtWork(d)
            BY <2>2, <4>1, <6>1 DEF NewsWork
          <6> QED BY <4>1, <6>1, <6>2 DEF AtWork, Ended
        <5> QED BY ShownSteps, <1>2, <2>1, <5>1, <5>2
      <4> QED BY <3>2, <4>1, <4>2, SameView
    <3> QED BY <2>3, <3>1, <3>2, WhoPublishes
  <2> QED BY <1>2, <2>2, <2>3
<1> QED BY WhoIsActive, <1>1, <1>2

\* What is shown is true when all is quiet.
LEMMA HealthStep ==
  ASSUME NewsWork, StoreTypes, RunTypes, ViewIsTrue, HealthFollowsRuns, [NewsNext]_newsVars
  PROVE  HealthFollowsRuns'
<1> PastMoves
  BY PastStep
<1> SUFFICES ASSUME \A c \in Crawlers : ~Active(c)', ~past'.hazy PROVE health' = Projected'
  BY DEF HealthFollowsRuns, Quiet
<1>1. ~ \E c \in Crawlers : StartCrawl(c)
  <2> SUFFICES ASSUME NEW c \in Crawlers, StartCrawl(c) PROVE FALSE
    OBVIOUS
  <2>1. PICK u \in Crawlers : crawl'[u].pc \in {"pause", "next"}
    BY WhoIsActive
  <2> QED BY <2>1 DEF Active
<1>2. ~past.hazy /\ ~SaveCredential /\ ~ \E c \in Crawlers : KillCrawl(c)
  BY <1>1 DEF PastMoves
<1>3. \A c \in Crawlers : ~Ordinary(c) /\ ~FinishRun(c) /\ ~RequestCancel(c)
  <2>1. ASSUME NEW c \in Crawlers, Ordinary(c) PROVE FALSE
    <3>1. PICK w : Proceeds(c, w)
      BY <2>1, OrdinaryProceeds
    <3> QED BY <3>1 DEF Proceeds, Crawls, Active, NewsWork
  <2>2. ASSUME NEW c \in Crawlers, FinishRun(c) PROVE FALSE
    <3>1. crawl' = [crawl EXCEPT ![c] = [crawl[c] EXCEPT !.pc = "project"]] /\ crawl[c] \in Crawl
      BY <2>2 DEF FinishRun, Crawls, NewsWork
    <3>2. [crawl[c] EXCEPT !.pc = "project"].pc = "project"
      BY <3>1 DEF Crawl
    <3> QED BY <3>1, <3>2 DEF NewsWork, Active
  <2>3. ASSUME NEW c \in Crawlers, RequestCancel(c) PROVE FALSE
    BY <2>3 DEF RequestCancel, Active
  <2> QED BY <2>1, <2>2, <2>3
<1>4. UNCHANGED <<crawlRuns, paused>>
  BY ShownSteps, <1>1, <1>2, <1>3 DEF Ordinary
<1>5. ASSUME NEW c \in Crawlers, PublishHealth(c) PROVE health' = Projected
  BY <1>2, <1>5 DEF PublishHealth, Outcome, ViewIsTrue
<1>6. CASE ~ \E c \in Crawlers : PublishHealth(c)
  <2>1. health' = health
    BY HealthSteps, <1>3, <1>6 DEF Ordinary
  <2>2. UNCHANGED crawl
    BY NewsCases, <1>1, <1>2, <1>3, <1>6 DEF Leaves, Aside, PublishArticle, CredentialExpires, ExportBundle, IndexCold, newsVars
  <2>3. Quiet
    BY <2>2 DEF Quiet, Active
  <2> QED BY <1>2, <1>4, <2>1, <2>3, SameView DEF HealthFollowsRuns
<1> QED BY <1>4, <1>5, <1>6, SameView

-----------------------------------------------------------------------------

\* The invariant holds at first,
LEMMA NewsStart == NewsInit => NewsIInv
<1> SUFFICES ASSUME NewsInit PROVE NewsIInv
  OBVIOUS
<1>1. \A c \in Crawlers : ~Active(c) /\ crawl[c] = Resting
  BY NewsFacts DEF NewsInit, Active
<1>2. StoreTypes
  <2>1. past \in Past
    BY DEF NewsInit, Past
  <2>2. published \in 0..Len(Contents) /\ faults \in 0..MaxFaults
    BY NewsFacts, NewsAssumption DEF NewsInit, NewsAssumption
  <2>3. hot \in Seq(Articles) /\ health \in Shown
    BY DEF NewsInit, Shown
  <2>4. /\ keepsList \in BOOLEAN /\ paused \in BOOLEAN /\ credential \in BOOLEAN
        /\ pending \subseteq Articles /\ bundle \subseteq Articles /\ cold \subseteq bundle
    BY DEF NewsInit
  <2> QED BY <2>1, <2>2, <2>3, <2>4 DEF StoreTypes
<1>3. RunTypes
  BY NewsFacts DEF NewsInit, RunTypes
<1>4. NewsWork
  BY <1>1, NewsFacts DEF NewsInit, NewsWork, Ready, RunsDiffer, Active
<1>5. past.owed = {} /\ past.hazy
  BY DEF NewsInit
<1>6. OneAtATime /\ FoundIsRight
  BY <1>1, NewsFacts DEF OneAtATime, FoundIsRight
<1>7. TwinsNeedOverlap
  BY DEF NewsInit, TwinsNeedOverlap
<1>8. ListIsWhole /\ PendingKeepsUnfetched /\ ViewIsTrue /\ HealthFollowsRuns
  BY <1>5 DEF ListIsWhole, PendingKeepsUnfetched, ViewIsTrue, HealthFollowsRuns
<1> QED BY <1>2, <1>3, <1>4, <1>6, <1>7, <1>8, NewsParts DEF NewsIInv

\* and every step keeps it.
LEMMA NewsStep == NewsIInv /\ [NewsNext]_newsVars => NewsIInv'
<1> SUFFICES ASSUME NewsIInv, [NewsNext]_newsVars PROVE NewsIInv'
  OBVIOUS
<1>1. StoreTypes /\ RunTypes /\ NewsWork
  BY NewsParts DEF NewsIInv
<1>2. StoreTypes' /\ RunTypes' /\ NewsWork'
  BY <1>1, StoreStep, WorkStep
<1>3. NewsTypeOK' /\ Ready' /\ RunsDiffer'
  BY <1>2, NewsParts, PTL
<1>4. OneAtATime' /\ FoundIsRight' /\ TwinsNeedOverlap'
  BY <1>1, OneStep, FoundStep, TwinsStep DEF NewsIInv
<1>5. ListIsWhole' /\ PendingKeepsUnfetched'
  BY <1>1, ListStep DEF NewsIInv
<1>6. ViewIsTrue' /\ HealthFollowsRuns'
  BY <1>1, ViewStep, HealthStep DEF NewsIInv
<1> QED BY <1>3, <1>4, <1>5, <1>6 DEF NewsIInv

\* NewsIInv is an invariant of the crawls of a source.
THEOREM NewsInvCorrect == NewsSpec => []NewsIInv
BY NewsStart, NewsStep, PTL DEF NewsSpec

\* Every variable of the crawls has its type: a run that is projected has ended, and a process
\* that fetches or writes has an article.
THEOREM NewsTypeCorrect == NewsSpec => []NewsTypeOK
<1>1. NewsIInv => NewsTypeOK
  BY DEF NewsIInv
<1> QED BY <1>1, NewsInvCorrect, PTL

\* upsert_article: two documents of one article, or of equal ones, need crawls of the source that
\* overlapped, for any number of processes and articles.
THEOREM TwinsCorrect == NewsSpec => []TwinsNeedOverlap
<1>1. NewsIInv => TwinsNeedOverlap
  BY DEF NewsIInv
<1> QED BY <1>1, NewsInvCorrect, PTL

\* A provider's list of pending urls keeps every url that was handed out and not fetched, as
\* long as crawls do not overlap, wherever a run is cancelled, times out, is killed or is paused.
THEOREM PendingCorrect == NewsSpec => []PendingKeepsUnfetched
<1>1. NewsIInv => PendingKeepsUnfetched
  BY DEF NewsIInv
<1> QED BY <1>1, NewsInvCorrect, PTL

\* update_health: when no crawl is under way the health that is shown is the one of the runs and
\* the pause, unless a run was killed, overlapped or the credential was saved since.
THEOREM HealthCorrect == NewsSpec => []HealthFollowsRuns
<1>1. NewsIInv => HealthFollowsRuns
  BY DEF NewsIInv
<1> QED BY <1>1, NewsInvCorrect, PTL

-----------------------------------------------------------------------------
(* What a run that ended well leaves behind *)

\* Whether the pages hold what they should is asked of an article that was stored, or whose fetch
\* was lost; InPages(k) is what the first k pages of the feed show, and all that is newer.
Good == {"succeeded", "partial"}
Reached(b) == Kept(b) \/ b \in past.dropped
InPages(k) == {b \in Articles : b > published - k * PageSize}
Full(X) == \A x \in X, b \in InPages(MaxPages) : b <= x => Reached(b)

\* What a process has in hand of its page, and what a run has to answer for: what it stored, and
\* what was published before it began.
Hand(w) == w.urls \cup IF w.pc \in {"fetch", "write"} THEN {w.ref} ELSE {}
Top(w)  == w.own \cup 1..w.began
Done(w) == w.pc \in {"finish", "project", "publish"} /\ w.status \in Good

Rests == \A c \in Crawlers : ~Active(c) => crawl[c] = Resting
Began == \A c \in Crawlers : crawl[c].began <= published

\* A run that did not end well has left its mark by the time it is recorded.
ToldOf(w) ==
  /\ w.pc = "show" => w.status = "failed" /\ past.gap
  /\ w.pc = "finish" => w.status \in Good \cup {"cancelled"} \/ (w.status = "failed" /\ past.gap)
  /\ w.pc \in AtEnd => w.status \in Good \/ past.gap
Told == \A c \in Crawlers : ToldOf(crawl[c])

\* Without a list a process has pages only, and takes each from its newest article on.
Shape(w) ==
  /\ w.pc \notin {"pause", "show"} /\ w.replay = {}
  /\ w.own \cup w.urls \subseteq 1..published
  /\ w.key <= w.page
  /\ w.urls # {} => w.page >= 1
  /\ w.stopped => w.page >= 2
  /\ w.pc \in {"fetch", "write"} =>
       /\ ~w.stopped /\ w.page >= 1 /\ w.key = w.page
       /\ w.ref <= published /\ \A y \in w.urls : y < w.ref
Pages == ~keepsList => pending = {} /\ \A c \in Crawlers : Shape(crawl[c])

\* A run has seen, or has in hand, all that is older than what it answers for, as far as its pages
\* go and as what it has in hand goes.  Once it has met an article of an earlier run as itself
\* nothing more is missing anywhere on its pages, because an earlier run left nothing out below.
Swept(w) ==
  \A x \in w.own \cup Hand(w) \cup (IF w.page > 0 THEN 1..w.began ELSE {}), b \in Articles :
    b <= x /\ (b \in InPages(w.page) \/ \E y \in Hand(w) : y <= b) => Reached(b) \/ b \in Hand(w)
Ground(w) == w.stats.older => Full(Top(w) \cup IF w.key = w.page THEN Hand(w) ELSE {})
Sweep(w) ==
  /\ w.pc \in AtFeed /\ ~w.stopped => Swept(w) /\ Ground(w)
  /\ (w.pc \in AtFeed /\ w.stopped) \/ Done(w) => Full(Top(w))
Deep == \A s \in DOMAIN hot : (\A c \in Crawlers : hot[s] \notin crawl[c].own) => Full({hot[s]})
Unbroken == ~keepsList /\ ~past.overlapped /\ ~past.gap
Sweeps == Unbroken => Deep /\ \A c \in Crawlers : Sweep(crawl[c])

\* With a list, what was found and is not seen yet is on the stored list or in hand.
Held(b) == Reached(b) \/ b \in pending
Listing(w) ==
  /\ w.pc \in AtFeed =>
       /\ pending \subseteq w.listed
       /\ \A b \in w.listed : Held(b) \/ b \in Hand(w)
       /\ w.page > 0 => \A b \in InPages(w.page) : b <= w.began => Held(b) \/ b \in Hand(w)
  /\ Done(w) => \A b \in InPages(MaxPages) : b <= w.began => Held(b)
Lists == keepsList /\ ~past.overlapped => \A c \in Crawlers : Listing(crawl[c])

BoundaryIInv == NewsIInv /\ Rests /\ Began /\ Told /\ Pages /\ Sweeps /\ Lists

\* What only grows.
Grows ==
  /\ keepsList' = keepsList /\ published <= published' /\ cold \subseteq cold'
  /\ past.overlapped => past'.overlapped
  /\ past.gap => past'.gap
  /\ past.dropped \subseteq past'.dropped

\* A provider keeps its list or does not, articles and the archive only become more, and the
\* history forgets nothing.
LEMMA GrowsStep ==
  ASSUME StoreTypes, [NewsNext]_newsVars
  PROVE  Grows
<1>1. past \in Past /\ published \in Nat /\ cold \subseteq bundle
  BY NewsFacts DEF StoreTypes
<1>2. ASSUME NEW c \in Crawlers, StartCrawl(c) \/ Ordinary(c) \/ FinishRun(c) \/ Leaves(c) \/ RequestCancel(c)
      PROVE  UNCHANGED <<keepsList, published, cold>>
  BY <1>2, ZenonT(40) DEF Ordinary, Leaves, StartCrawl, Replay, ReadPage, TakeUrl, Exhausted, FetchOk,
     FetchFails, FetchRefused, Store, BreakOff, WritePause, ShowPause, ProjectHealth, FinishRun, PublishHealth, KillCrawl,
     RequestCancel
<1>3. ASSUME NEW c \in Crawlers, StartCrawl(c) \/ Ordinary(c) \/ FinishRun(c) \/ Leaves(c) \/ RequestCancel(c)
      PROVE  /\ past.overlapped => past'.overlapped
             /\ past.gap => past'.gap
             /\ past.dropped \subseteq past'.dropped
  <2>1. CASE \/ Replay(c) \/ ReadPage(c) \/ Exhausted(c) \/ FetchRefused(c) \/ ShowPause(c) \/ ProjectHealth(c)
             \/ PublishHealth(c) \/ RequestCancel(c)
    BY <2>1 DEF Replay, ReadPage, Exhausted, FetchRefused, ShowPause, ProjectHealth, PublishHealth, RequestCancel
  <2>2. CASE StartCrawl(c) \/ TakeUrl(c) \/ FetchOk(c) \/ FetchFails(c)
    BY <1>1, <2>2 DEF StartCrawl, TakeUrl, FetchOk, FetchFails, Past
  <2>3. CASE Store(c)
    BY <1>1, <2>3 DEF Store, Past
  <2>4. CASE BreakOff(c)
    BY <1>1, <2>4 DEF BreakOff, Past
  <2>5. CASE WritePause(c) \/ FinishRun(c)
    BY <1>1, <2>5 DEF WritePause, FinishRun, Past
  <2>6. CASE KillCrawl(c)
    BY <1>1, <2>6 DEF KillCrawl, Past
  <2> QED BY <1>3, <2>1, <2>2, <2>3, <2>4, <2>5, <2>6 DEF Ordinary, Leaves
<1>4. ASSUME Aside \/ UNCHANGED newsVars PROVE Grows
  BY <1>1, <1>4 DEF Aside, PublishArticle, CredentialExpires, SaveCredential, ExportBundle, IndexCold, newsVars, Grows, Past
<1> QED BY NewsCases, <1>1, <1>2, <1>3, <1>4 DEF Grows

\* What was stored stays stored as long as crawls do not overlap: a document is overwritten by an
\* article that says the same.
LEMMA SeenGrows ==
  ASSUME StoreTypes, NewsWork, FoundIsRight, [NewsNext]_newsVars, ~past'.overlapped, NEW b \in Articles, Reached(b)
  PROVE  Reached(b)'
<1>1. Grows
  BY GrowsStep
<1>2. ASSUME NEW c \in Crawlers, Store(c), NEW s \in DOMAIN hot
      PROVE  s \in DOMAIN hot' /\ Contents[hot'[s]] = Contents[hot[s]]
  <2> DEFINE a == crawl[c].ref
  <2>1. hot \in Seq(Articles) /\ a \in Articles /\ FoundFits(c)
    BY <1>1, <1>2 DEF Grows, StoreTypes, Store, FoundIsRight, FoundFits, NewsWork, Active, AtWork
  <2>2. hot' = hot \/ (crawl[c].match = 0 /\ hot' = Append(hot, a))
          \/ (crawl[c].match # 0 /\ hot' = [hot EXCEPT ![crawl[c].match] = a])
    BY <1>2 DEF Store
  <2>3. CASE hot' = Append(hot, a)
    <3> HIDE DEF a
    <3> QED BY <1>2, <2>1, <2>3
  <2>4. CASE crawl[c].match # 0 /\ hot' = [hot EXCEPT ![crawl[c].match] = a]
    BY <1>2, <2>1, <2>4 DEF FoundFits, Matching
  <2> QED BY <1>2, <2>2, <2>3, <2>4
<1>3. ASSUME NEW s \in DOMAIN hot
      PROVE  s \in DOMAIN hot' /\ Contents[hot'[s]] = Contents[hot[s]]
  BY HotSteps, <1>2, <1>3
<1> QED BY <1>1, <1>3 DEF Reached, Kept, Grows

\* Arithmetic that holds for a product as for any other number.
LEMMA Lower ==
  ASSUME NEW p \in Nat, NEW q \in Nat, p <= q, NEW n \in Nat, NEW b \in Nat, b > q - n
  PROVE  b > p - n
OBVIOUS

\* The pages move down.
LEMMA PagesMove ==
  ASSUME StoreTypes, Grows, published' \in Nat, NEW k \in Nat
  PROVE  InPages(k)' \subseteq InPages(k)
<1> DEFINE n == k * PageSize
<1>1. n \in Nat /\ published \in Nat /\ published <= published'
  BY NewsFacts DEF StoreTypes, Grows
<1>2. InPages(k) = {b \in Articles : b > published - n} /\ InPages(k)' = {b \in Articles : b > published' - n}
  BY DEF InPages
<1>3. ASSUME NEW b \in Articles, b > published' - n PROVE b > published - n
  <2>1. b \in Nat
    BY NewsFacts
  <2> HIDE DEF n
  <2> QED BY <1>1, <1>3, <2>1, Lower
<1> HIDE DEF n
<1> QED BY <1>2, <1>3

-----------------------------------------------------------------------------

\* What a process has, by name.
LEMMA OfSweep ==
  ASSUME NEW v \in Crawl
  PROVE  /\ v.pc \in Stages /\ v.began \in Nat /\ v.own \subseteq Articles /\ v.urls \subseteq Articles
         /\ v.page \in Nat /\ v.page <= MaxPages /\ v.key \in Nat /\ v.stopped \in BOOLEAN
         /\ v.stats \in Page /\ v.stats.older \in BOOLEAN /\ v.ref \in Nat
<1>1. /\ v.own \subseteq Articles /\ v.key \in 0..MaxPages /\ v.stopped \in BOOLEAN /\ v.stats \in Page
      /\ v.stats.older \in BOOLEAN
  BY DEF Crawl, Page
<1>2. /\ v.pc \in Stages /\ v.began \in 0..Len(Contents) /\ v.urls \subseteq Articles /\ v.page \in 0..MaxPages
      /\ v.ref \in Articles \cup {0}
  BY OfCrawl
<1>3. v.ref \in Nat
  <2>1. \A x \in Articles : x \in Nat
    BY NewsFacts
  <2> QED BY <1>2, <2>1
<1> QED BY <1>1, <1>2, <1>3, NewsFacts

\* Nothing happens to the pages of a process.
SamePlace(v, w) ==
  /\ w.began = v.began /\ w.own = v.own /\ w.page = v.page /\ w.urls = v.urls
  /\ w.replay = v.replay /\ w.listed = v.listed
  /\ w.key = v.key /\ w.stopped = v.stopped /\ w.stats.older = v.stats.older

\* What the executor does with a reference it is handed.
Passed(a, v, w) ==
  /\ w.key = v.page
  /\ w.stopped = (v.stopped \/ (v.key # v.page /\ v.key >= 1 /\ Boundary(v.stats)))
  /\ w.stats.older = (v.key = v.page /\ v.stats.older)
  /\ \/ w.pc = "next" /\ v.page > 1 /\ w.stopped
     \/ w.pc = "next" /\ a \in cold /\ ~(v.page > 1 /\ w.stopped)
     \/ w.pc = "fetch" /\ w.ref = a /\ ~(v.page > 1 /\ w.stopped)
     \/ w.pc = "finish" /\ w.status = "cancelled"

\* It goes on to fetch it, passes it over, or ends the run.
LEMMA HandedEffect ==
  ASSUME NewsWork, NEW c \in Crawlers, NEW a \in Articles, NEW p \in 0..MaxPages,
         NEW self \in Crawl, self.pc = "next", Handed(c, a, p, self)
  PROVE  LET w == crawl'[c] IN
         /\ w.began = self.began /\ w.own = self.own /\ w.page = self.page /\ w.urls = self.urls
         /\ w.replay = self.replay /\ w.listed = self.listed
         /\ w.key = p
         /\ w.stopped = (self.stopped \/ (self.key # p /\ self.key >= 1 /\ Boundary(self.stats)))
         /\ w.stats.older = (self.key = p /\ self.stats.older)
         /\ \/ w.pc = "next" /\ p > 1 /\ w.stopped
            \/ w.pc = "next" /\ a \in cold /\ ~(p > 1 /\ w.stopped)
            \/ w.pc = "fetch" /\ w.ref = a /\ ~(p > 1 /\ w.stopped)
            \/ w.pc = "finish" /\ w.status = "cancelled"
<1> DEFINE turned == self.key # p
           stopped == self.stopped \/ (turned /\ self.key >= 1 /\ Boundary(self.stats))
           stats == IF turned THEN NoPage ELSE self.stats
           here == [self EXCEPT !.key = p, !.stopped = stopped, !.stats = stats]
           u == [here EXCEPT !.pc = "finish", !.status = "cancelled"]
           v == [here EXCEPT !.stats.existing = TRUE]
           w == [here EXCEPT !.pc = "fetch", !.ref = a]
           beyond == p > 1 /\ stopped
           Fits(x) ==
             /\ x.began = self.began /\ x.own = self.own /\ x.page = self.page /\ x.urls = self.urls
             /\ x.replay = self.replay /\ x.listed = self.listed
             /\ x.key = p /\ x.stopped = stopped
             /\ x.stats.older = (self.key = p /\ self.stats.older)
<1>1. \/ beyond /\ Crawls(c, here)
      \/ Crawls(c, u)
      \/ ~beyond /\ a \in cold /\ Crawls(c, v)
      \/ ~beyond /\ Crawls(c, w)
  BY DEF Handed
<1>2. here \in Crawl /\ here.pc = "next" /\ Fits(here)
  <2>1. stopped \in BOOLEAN
    BY DEF Crawl, Boundary, Page
  <2>2. stats \in Page /\ stats.older = (self.key = p /\ self.stats.older)
    BY NewsFacts DEF Crawl, NoPage, Page
  <2> HIDE DEF stopped, turned, stats
  <2> QED BY <2>1, <2>2 DEF Crawl
<1>3. /\ Fits(u) /\ u.pc = "finish" /\ u.status = "cancelled"
      /\ Fits(w) /\ w.pc = "fetch" /\ w.ref = a
  <2> HIDE DEF here, stopped, turned, stats
  <2> QED BY <1>2 DEF Crawl
<1>4. Fits(v) /\ v.pc = "next"
  <2>1. here.stats \in Page
    BY <1>2 DEF Crawl
  <2> HIDE DEF here, stopped, turned, stats
  <2> QED BY <1>2, <2>1 DEF Crawl, Page
<1>5. crawl'[c] \in {here, u, v, w} /\ \A x : Crawls(c, x) => crawl'[c] = x
  BY <1>1 DEF Crawls, NewsWork
<1> HIDE DEF here, u, v, w
<1> QED BY <1>1, <1>2, <1>3, <1>4, <1>5, ZenonT(40)

\* A url of the page is taken.
Took(a, v, w) ==
  /\ v.pc = "next" /\ v.urls # {} /\ a \in v.urls /\ (\A y \in v.urls : a >= y)
  /\ w.began = v.began /\ w.own = v.own /\ w.page = v.page /\ w.replay = v.replay
  /\ w.urls = v.urls \ {a}
  /\ w.listed = (IF keepsList THEN v.listed \cup {a} ELSE {})
  /\ Passed(a, v, w)

\* TakeUrl takes the newest url of the page.
LEMMA TakeEffect ==
  ASSUME NewsWork, NEW c \in Crawlers, TakeUrl(c), NEW v, v = crawl[c], NEW w, w = crawl'[c],
         NEW a, a = Max(v.urls)
  PROVE  Took(a, v, w)
<1> DEFINE listed == IF keepsList THEN Listed(v.listed, a) ELSE {}
           self == [v EXCEPT !.urls = @ \ {a}, !.listed = listed]
<1>1. v \in Crawl /\ v.pc = "next" /\ v.urls # {} /\ v.page \in 0..MaxPages
  BY OfCrawl DEF TakeUrl, NewsWork
<1>2. a \in v.urls /\ a \in Articles /\ \A y \in v.urls : a >= y
  <2>1. v.urls \in SUBSET Nat /\ IsFiniteSet(v.urls) /\ v.urls \subseteq Articles
    BY <1>1, OfCrawl, NewsFacts, FS_Subset
  <2> QED BY <1>1, <2>1, MaxIsGreatest
<1>3. Handed(c, a, v.page, self)
  BY DEF TakeUrl
<1>4. listed \subseteq Articles /\ listed = IF keepsList THEN v.listed \cup {a} ELSE {}
  BY <1>1, <1>2, OfCrawl DEF Listed
<1>5. /\ self \in Crawl /\ self.pc = "next" /\ self.listed = listed /\ self.urls = v.urls \ {a}
      /\ self.began = v.began /\ self.own = v.own /\ self.page = v.page /\ self.replay = v.replay
      /\ self.key = v.key /\ self.stopped = v.stopped /\ self.stats = v.stats
  <2> HIDE DEF listed
  <2> QED BY <1>1, <1>4, ZenonT(40) DEF Crawl
<1> HIDE DEF self, listed
<1>6. LET x == crawl'[c] IN
      /\ x.began = self.began /\ x.own = self.own /\ x.page = self.page /\ x.urls = self.urls
      /\ x.replay = self.replay /\ x.listed = self.listed
      /\ x.key = v.page
      /\ x.stopped = (self.stopped \/ (self.key # v.page /\ self.key >= 1 /\ Boundary(self.stats)))
      /\ x.stats.older = (self.key = v.page /\ self.stats.older)
      /\ \/ x.pc = "next" /\ v.page > 1 /\ x.stopped
         \/ x.pc = "next" /\ a \in cold /\ ~(v.page > 1 /\ x.stopped)
         \/ x.pc = "fetch" /\ x.ref = a /\ ~(v.page > 1 /\ x.stopped)
         \/ x.pc = "finish" /\ x.status = "cancelled"
  BY <1>1, <1>2, <1>3, <1>5, HandedEffect
<1> QED BY <1>1, <1>2, <1>4, <1>5, <1>6 DEF Passed, Took

\* A url of the stored list is taken up again.
TookUp(v, w) ==
  /\ v.pc = "next" /\ v.replay # {}
  /\ w.began = v.began /\ w.page = v.page /\ w.urls = v.urls /\ w.listed = v.listed
  /\ w.pc \in {"next", "fetch"} \/ (w.pc = "finish" /\ w.status = "cancelled")

\* Replay takes one.
LEMMA ReplayEffect ==
  ASSUME NewsWork, NEW c \in Crawlers, Replay(c), NEW v, v = crawl[c], NEW w, w = crawl'[c]
  PROVE  TookUp(v, w)
<1>1. v \in Crawl /\ v.pc = "next"
  BY DEF Replay, NewsWork
<1>2. PICK a \in v.replay : Handed(c, a, 0, [v EXCEPT !.replay = @ \ {a}])
  BY DEF Replay
<1> DEFINE self == [v EXCEPT !.replay = @ \ {a}]
<1>3. /\ self \in Crawl /\ self.pc = "next" /\ self.listed = v.listed /\ self.urls = v.urls
      /\ self.began = v.began /\ self.page = v.page
  BY <1>1 DEF Crawl
<1>4. a \in Articles /\ 0 \in 0..MaxPages
  BY <1>1, OfCrawl, NewsFacts
<1> HIDE DEF self
<1>5. Handed(c, a, 0, self)
  BY <1>2 DEF self
<1> QED BY <1>1, <1>2, <1>3, <1>4, <1>5, HandedEffect DEF TookUp

\* The next page is read.
Turned(v, w) ==
  /\ v.pc = "next" /\ w.pc = "next" /\ v.replay = {} /\ v.urls = {} /\ v.page < MaxPages
  /\ w.began = v.began /\ w.own = v.own /\ w.replay = v.replay /\ w.listed = v.listed
  /\ w.key = v.key /\ w.stopped = v.stopped /\ w.stats.older = v.stats.older
  /\ w.urls = FeedPage(v.page + 1) \ (IF keepsList THEN v.listed ELSE {})
  /\ w.page = IF FeedPage(v.page + 1) = {} THEN MaxPages ELSE v.page + 1

\* ReadPage turns it.
LEMMA ReadEffect ==
  ASSUME NewsWork, NEW c \in Crawlers, ReadPage(c), NEW v, v = crawl[c], NEW w, w = crawl'[c]
  PROVE  Turned(v, w)
<1> DEFINE page == FeedPage(v.page + 1)
           known == IF keepsList THEN v.listed ELSE {}
<1>1. v \in Crawl
  BY DEF NewsWork
<1>2. /\ v.pc = "next" /\ v.replay = {} /\ v.urls = {} /\ v.page < MaxPages
      /\ w = [v EXCEPT !.urls = page \ known, !.page = IF page = {} THEN MaxPages ELSE @ + 1]
  BY DEF ReadPage, AtPage, Crawls, NewsWork
<1> HIDE DEF page, known
<1>3. /\ w.pc = v.pc /\ w.urls = page \ known /\ w.page = IF page = {} THEN MaxPages ELSE v.page + 1
      /\ w.began = v.began /\ w.own = v.own /\ w.replay = v.replay /\ w.listed = v.listed
      /\ w.key = v.key /\ w.stopped = v.stopped /\ w.stats = v.stats
  BY <1>1, <1>2 DEF Crawl
<1> QED BY <1>2, <1>3 DEF Turned, page, known

\* The steps that leave the pages as they are.
LEMMA FeedEffect ==
  ASSUME NewsWork, NEW c \in Crawlers, NEW v, v = crawl[c], NEW w, w = crawl'[c]
  PROVE  /\ Exhausted(c) => /\ SamePlace(v, w) /\ w.pc = "finish" /\ w.status \in Good
                            /\ v.pc = "next" /\ v.replay = {} /\ v.urls = {} /\ v.page = MaxPages
         /\ FetchOk(c) => SamePlace(v, w) /\ v.pc = "fetch" /\ w.pc = "write" /\ w.ref = v.ref
         /\ FetchFails(c) => SamePlace(v, w) /\ v.pc = "fetch" /\ w.pc = "next"
         /\ FetchRefused(c) => SamePlace(v, w) /\ keepsList /\ w.pc = "pause"
<1>1. v \in Crawl /\ crawl \in [Crawlers -> Crawl]
  BY DEF NewsWork
<1>2. Exhausted(c) => /\ SamePlace(v, w) /\ w.pc = "finish" /\ w.status \in Good
                      /\ v.pc = "next" /\ v.replay = {} /\ v.urls = {} /\ v.page = MaxPages
  BY <1>1 DEF Exhausted, Crawls, SamePlace, Crawl, Good
<1>3. FetchOk(c) => SamePlace(v, w) /\ v.pc = "fetch" /\ w.pc = "write" /\ w.ref = v.ref
  <2> SUFFICES ASSUME FetchOk(c) PROVE SamePlace(v, w) /\ v.pc = "fetch" /\ w.pc = "write" /\ w.ref = v.ref
    OBVIOUS
  <2>0. PICK match : Crawls(c, [v EXCEPT !.pc = "write", !.match = match, !.stats.fetched = TRUE])
    BY DEF FetchOk
  <2>1. w = [v EXCEPT !.pc = "write", !.match = match, !.stats.fetched = TRUE]
    BY <1>1, <2>0 DEF Crawls
  <2>2. v.pc = "fetch" /\ v.stats \in Page
    BY <1>1 DEF FetchOk, Crawl
  <2> QED BY <1>1, <2>1, <2>2 DEF SamePlace, Crawl, Page
<1>4. FetchFails(c) => SamePlace(v, w) /\ v.pc = "fetch" /\ w.pc = "next"
  BY <1>1 DEF FetchFails, Crawls, SamePlace, Crawl
<1>5. FetchRefused(c) => SamePlace(v, w) /\ keepsList /\ w.pc = "pause"
  BY <1>1 DEF FetchRefused, Crawls, SamePlace, Crawl
<1> QED BY <1>2, <1>3, <1>4, <1>5

\* The steps that end a run leave them so too.
LEMMA EndEffect ==
  ASSUME NewsWork, NEW c \in Crawlers, NEW v, v = crawl[c], NEW w, w = crawl'[c]
  PROVE  /\ BreakOff(c) => SamePlace(v, w) /\ w.pc = "finish" /\ w.status = "failed"
         /\ WritePause(c) => SamePlace(v, w) /\ v.pc = "pause" /\ w.pc = "show" /\ w.status = "failed"
         /\ ShowPause(c) => SamePlace(v, w) /\ v.pc = "show" /\ w.pc = "finish" /\ w.status = v.status
         /\ FinishRun(c) => SamePlace(v, w) /\ v.pc = "finish" /\ w.pc = "project" /\ w.status = v.status
         /\ ProjectHealth(c) => SamePlace(v, w) /\ v.pc = "project" /\ w.pc = "publish" /\ w.status = v.status
<1>1. v \in Crawl /\ crawl \in [Crawlers -> Crawl]
  BY DEF NewsWork
<1>2. BreakOff(c) => SamePlace(v, w) /\ w.pc = "finish" /\ w.status = "failed"
  BY <1>1 DEF BreakOff, Crawls, SamePlace, Crawl
<1>3. WritePause(c) => SamePlace(v, w) /\ v.pc = "pause" /\ w.pc = "show" /\ w.status = "failed"
  BY <1>1 DEF WritePause, Crawls, SamePlace, Crawl
<1>4. ShowPause(c) => SamePlace(v, w) /\ v.pc = "show" /\ w.pc = "finish" /\ w.status = v.status
  BY <1>1 DEF ShowPause, Crawls, SamePlace, Crawl
<1>5. FinishRun(c) => SamePlace(v, w) /\ v.pc = "finish" /\ w.pc = "project" /\ w.status = v.status
  BY <1>1 DEF FinishRun, Crawls, SamePlace, Crawl
<1>6. ProjectHealth(c) => SamePlace(v, w) /\ v.pc = "project" /\ w.pc = "publish" /\ w.status = v.status
  BY <1>1 DEF ProjectHealth, Crawls, SamePlace, Crawl
<1> QED BY <1>2, <1>3, <1>4, <1>5, <1>6

\* A document is written, or its write refused.
KnownAs(v) == v.match # 0 /\ hot[v.match] = v.ref
Written(v, w) ==
  /\ w.pc = "next" /\ UNCHANGED past
  /\ v.match # 0 => ~Refused(v.ref, v.match)
  /\ hot' = IF v.match = 0 THEN Append(hot, v.ref) ELSE [hot EXCEPT ![v.match] = v.ref]
  /\ w.own = (IF KnownAs(v) THEN v.own ELSE v.own \cup {v.ref})
  /\ w.stats.older = (v.stats.older \/ (KnownAs(v) /\ v.ref \notin v.own))
NotWritten(v, w) ==
  /\ w.pc = "finish" /\ w.status = "failed" /\ w.own = v.own
  /\ UNCHANGED hot /\ past' = [past EXCEPT !.dropped = @ \cup {v.ref}, !.gap = TRUE]
Stored(v, w) ==
  /\ v.pc = "write" /\ v.ref \in Articles
  /\ w.began = v.began /\ w.page = v.page /\ w.urls = v.urls /\ w.replay = v.replay /\ w.listed = v.listed
  /\ w.key = v.key /\ w.stopped = v.stopped
  /\ Written(v, w) \/ NotWritten(v, w)

\* Store does one or the other.
LEMMA StoreEffect ==
  ASSUME NewsWork, hot \in Seq(Articles), NEW c \in Crawlers, Store(c), NEW v, v = crawl[c], NEW w, w = crawl'[c]
  PROVE  Stored(v, w)
<1> DEFINE a == v.ref
           slot == IF v.match = 0 THEN Len(hot) + 1 ELSE v.match
           known == v.match # 0 /\ hot[slot] = a
           stats == IF v.match = 0 THEN [v.stats EXCEPT !.inserted = TRUE]
                    ELSE [v.stats EXCEPT !.existing = TRUE, !.older = @ \/ (known /\ a \notin v.own)]
           own == IF known THEN v.own ELSE v.own \cup {a}
           stored == [v EXCEPT !.pc = "next", !.ref = 0, !.match = 0, !.stats = stats, !.own = own]
           refused == [v EXCEPT !.pc = "finish", !.ref = 0, !.match = 0, !.status = "failed"]
<1>1. v \in Crawl /\ crawl \in [Crawlers -> Crawl] /\ v.pc = "write" /\ a \in Articles /\ v.stats \in Page
  BY DEF NewsWork, Store, Active, AtWork, Crawl
<1>2. stats.older = (v.stats.older \/ (known /\ a \notin v.own))
  <2> HIDE DEF slot
  <2> QED BY <1>1 DEF Page
<1>3. \/ /\ Crawls(c, stored) /\ UNCHANGED past /\ ~Refused(a, slot)
         /\ hot' = IF v.match = 0 THEN Append(hot, a) ELSE [hot EXCEPT ![slot] = a]
      \/ /\ Crawls(c, refused) /\ UNCHANGED hot
         /\ past' = [past EXCEPT !.dropped = @ \cup {a}, !.gap = TRUE]
  BY DEF Store
<1>k. known = KnownAs(v)
  BY DEF KnownAs
<1> HIDE DEF stats, own, known
<1>4. /\ stored.pc = "next" /\ stored.stats = stats /\ stored.own = own
      /\ stored.began = v.began /\ stored.page = v.page /\ stored.urls = v.urls /\ stored.replay = v.replay
      /\ stored.listed = v.listed /\ stored.key = v.key /\ stored.stopped = v.stopped
  BY <1>1 DEF Crawl
<1>5. /\ refused.pc = "finish" /\ refused.status = "failed" /\ refused.own = v.own
      /\ refused.began = v.began /\ refused.page = v.page /\ refused.urls = v.urls /\ refused.replay = v.replay
      /\ refused.listed = v.listed /\ refused.key = v.key /\ refused.stopped = v.stopped
  BY <1>1 DEF Crawl
<1>6. \A x : Crawls(c, x) => w = x
  BY <1>1 DEF Crawls
<1> HIDE DEF stored, refused
<1> QED BY <1>1, <1>2, <1>3, <1>4, <1>5, <1>6, <1>k DEF Stored, Written, NotWritten, own

\* A run begins.
Begun(w) ==
  /\ w.pc = "next" \/ (w.pc = "pause" /\ keepsList)
  /\ w.pc = "next" => w.replay = pending /\ w.listed = pending
  /\ w.began = published /\ w.own = {} /\ w.urls = {} /\ w.replay \subseteq pending /\ w.page = 0
  /\ w.key = 0 /\ w.stopped = FALSE /\ w.stats.older = FALSE

\* StartCrawl begins one in a process that was at rest.
LEMMA StartEffect ==
  ASSUME NewsWork, NEW c \in Crawlers, StartCrawl(c), NEW w, w = crawl'[c]
  PROVE  ~Active(c) /\ Begun(w)
<1> DEFINE first == [Resting EXCEPT !.run = Len(crawlRuns) + 1, !.began = published]
           u == [first EXCEPT !.pc = "pause"]
           v == [first EXCEPT !.pc = "next", !.replay = pending, !.listed = pending]
<1>1. w = v \/ (w = u /\ keepsList)
  BY DEF StartCrawl, Crawls, NewsWork
<1>2. /\ u.pc = "pause" /\ v.pc = "next" /\ v.replay = pending /\ v.listed = pending
      /\ u.began = published /\ u.own = {} /\ u.urls = {} /\ u.replay = {} /\ u.page = 0
      /\ u.key = 0 /\ u.stopped = FALSE /\ u.stats.older = FALSE
      /\ v.began = published /\ v.own = {} /\ v.urls = {} /\ v.page = 0
      /\ v.key = 0 /\ v.stopped = FALSE /\ v.stats.older = FALSE
  BY DEF Resting, NoPage
<1> HIDE DEF u, v
<1> QED BY <1>1, <1>2 DEF StartCrawl, Begun

-----------------------------------------------------------------------------

\* Pages are apart by their size: the next one has what lies below the pages before it.
LEMMA NextPage ==
  ASSUME published \in Nat, published <= Len(Contents), NEW k \in Nat
  PROVE  /\ FeedPage(k + 1) \subseteq 1..published
         /\ FeedPage(k + 1) \subseteq InPages(k + 1)
         /\ \A b \in InPages(k + 1) : b <= published => b \in InPages(k) \/ b \in FeedPage(k + 1)
         /\ \A x \in FeedPage(k + 1), b \in InPages(k) : x < b
         /\ \A b \in InPages(0) : b > published
<1> DEFINE n == k * PageSize
<1>1. PageSize \in Nat /\ Len(Contents) \in Nat /\ Articles = 1..Len(Contents)
  BY NewsFacts DEF Articles
<1>2. n \in Nat /\ (k + 1) * PageSize = n + PageSize /\ ((k + 1) - 1) * PageSize = n /\ 0 * PageSize = 0
  BY <1>1
<1>3. FeedPage(k + 1) = {a \in Articles : (published - n) - PageSize < a /\ a <= published - n}
  BY <1>2 DEF FeedPage
<1>4. /\ InPages(k + 1) = {b \in Articles : b > published - (n + PageSize)}
      /\ InPages(k) = {b \in Articles : b > published - n}
      /\ InPages(0) = {b \in Articles : b > published - 0}
  BY <1>2 DEF InPages
<1> HIDE DEF n
<1> QED BY <1>1, <1>2, <1>3, <1>4

\* Pages reach upward.
LEMMA Upward ==
  ASSUME published \in Nat, NEW k \in Nat, NEW y \in InPages(k), NEW b \in Articles, y <= b
  PROVE  b \in InPages(k)
<1> DEFINE n == published - k * PageSize
<1>1. n \in Int /\ y \in Nat /\ b \in Nat /\ y > n
  BY NewsFacts DEF InPages
<1>2. InPages(k) = {x \in Articles : x > n}
  BY DEF InPages
<1> HIDE DEF n
<1>3. b > n
  BY <1>1
<1> QED BY <1>2, <1>3

\* When the feed has no next page the pages before it had all that is published, however many more
\* a run may look at.
LEMMA NoNextPage ==
  ASSUME published \in Nat, published <= Len(Contents), NEW k \in Nat, FeedPage(k + 1) = {}
  PROVE  \A b \in InPages(MaxPages) : b <= published => b \in InPages(k)
<1> SUFFICES ASSUME NEW b \in InPages(MaxPages), b <= published PROVE b \in InPages(k)
  OBVIOUS
<1> DEFINE n == k * PageSize
           top == published - n
<1>1. PageSize \in Nat /\ Len(Contents) \in Nat /\ Articles = 1..Len(Contents) /\ MaxPages \in Nat
  BY NewsFacts DEF Articles
<1>2. n \in Nat /\ ((k + 1) - 1) * PageSize = n
  BY <1>1
<1>3. FeedPage(k + 1) = {a \in Articles : top - PageSize < a /\ a <= top}
  BY <1>2 DEF FeedPage
<1>4. b \in Articles /\ b > published - MaxPages * PageSize
  BY DEF InPages
<1>5. PageSize # 0
  BY <1>1, <1>4
<1>6. top < 1
  <2> SUFFICES ASSUME top >= 1 PROVE FALSE
    BY <1>2
  <2>1. top \in Articles
    BY <1>1, <1>2
  <2>2. top - PageSize < top
    BY <1>1, <1>2, <1>5
  <2>3. top <= top
    BY <1>1, <1>2
  <2> HIDE DEF top
  <2> QED BY <1>3, <2>1, <2>2, <2>3
<1>7. b > top
  BY <1>1, <1>2, <1>4, <1>6
<1> QED BY <1>4, <1>7 DEF InPages

-----------------------------------------------------------------------------

\* A process at rest.
LEMMA AtRest ==
  /\ Resting.pc = "idle" /\ Resting.began = 0 /\ Resting.own = {} /\ Resting.urls = {} /\ Resting.replay = {}
  /\ Resting.page = 0 /\ Resting.key = 0 /\ Resting.stopped = FALSE /\ Resting.stats.older = FALSE
BY DEF Resting, NoPage

\* The steps of a run, and the others.
Runs(c) == StartCrawl(c) \/ Ordinary(c) \/ FinishRun(c) \/ Leaves(c)

\* One process moves, and the others stay; or none moves, nothing is stored and nothing is lost.
LEMMA OneMoves ==
  ASSUME StoreTypes, NewsWork, [NewsNext]_newsVars
  PROVE  \/ \E c \in Crawlers : Runs(c) /\ \A d \in Crawlers \ {c} : crawl'[d] = crawl[d]
         \/ /\ UNCHANGED <<crawl, hot, pending>>
            /\ past'.overlapped = past.overlapped /\ past'.gap = past.gap /\ past'.dropped = past.dropped
<1>1. ASSUME NEW c \in Crawlers, Runs(c) PROVE \A d \in Crawlers \ {c} : crawl'[d] = crawl[d]
  <2>1. CASE StartCrawl(c)
    BY <2>1 DEF StartCrawl, Crawls, NewsWork
  <2>2. CASE Ordinary(c)
    <3>1. PICK w : Proceeds(c, w)
      BY <2>2, OrdinaryProceeds
    <3> QED BY <3>1 DEF Proceeds, Crawls
  <2>3. CASE FinishRun(c) \/ Leaves(c)
    BY <2>3 DEF FinishRun, Leaves, PublishHealth, KillCrawl, Crawls, NewsWork
  <2> QED BY <1>1, <2>1, <2>2, <2>3 DEF Runs
<1>2. ASSUME (\E c \in Crawlers : RequestCancel(c)) \/ Aside \/ UNCHANGED newsVars
      PROVE  /\ UNCHANGED <<crawl, hot, pending>>
             /\ past'.overlapped = past.overlapped /\ past'.gap = past.gap /\ past'.dropped = past.dropped
  <2>1. past \in Past
    BY DEF StoreTypes
  <2> QED BY <1>2, <2>1 DEF Aside, RequestCancel, PublishArticle, CredentialExpires, SaveCredential, ExportBundle, IndexCold,
        newsVars, Past
<1> QED BY NewsCases, <1>1, <1>2 DEF Runs

\* Only what is at work is not at rest, and a run answers for what had been published.
LEMMA RestsStep ==
  ASSUME StoreTypes, NewsWork, Rests, Began, published' \in Nat, [NewsNext]_newsVars
  PROVE  Rests' /\ Began'
<1>0. published \in Nat /\ published <= published'
  BY GrowsStep, NewsFacts DEF StoreTypes, Grows
<1>a. \A d \in Crawlers : crawl[d] \in Crawl /\ crawl[d].began \in Nat /\ crawl[d].began <= published
  BY OfSweep DEF NewsWork, Began
<1>1. ASSUME NEW c \in Crawlers, Runs(c)
      PROVE  (crawl'[c].pc = "idle" => crawl'[c] = Resting) /\ crawl'[c].began <= published'
  <2>1. CASE StartCrawl(c)
    BY <1>0, <2>1, StartEffect DEF Begun
  <2>2. CASE Ordinary(c)
    <3>1. crawl'[c].pc # "idle"
      <4>1. PICK w : Proceeds(c, w)
        BY <2>2, OrdinaryProceeds
      <4> QED BY <4>1 DEF Proceeds, Crawls, NewsWork
    <3>2. crawl'[c].began = crawl[c].began
      <4>1. CASE Replay(c) \/ ReadPage(c)
        BY <4>1, ReplayEffect, ReadEffect DEF TookUp, Turned
      <4>4. CASE TakeUrl(c)
        <5>1. PICK a : a = Max(crawl[c].urls)
          OBVIOUS
        <5>2. Took(a, crawl[c], crawl'[c])
          BY <4>4, <5>1, TakeEffect
        <5> QED BY <5>2 DEF Took
      <4>2. CASE Store(c)
        BY <4>2, StoreEffect DEF StoreTypes, Stored
      <4>3. CASE \/ Exhausted(c) \/ FetchOk(c) \/ FetchFails(c) \/ FetchRefused(c) \/ BreakOff(c) \/ WritePause(c)
                 \/ ShowPause(c) \/ ProjectHealth(c)
        BY <4>3, FeedEffect, EndEffect DEF SamePlace
      <4> QED BY <2>2, <4>1, <4>2, <4>3, <4>4 DEF Ordinary
    <3> QED BY <1>0, <1>a, <3>1, <3>2
  <2>3. CASE FinishRun(c)
    BY <1>0, <1>a, <2>3, EndEffect DEF SamePlace
  <2>4. CASE Leaves(c)
    <3>1. crawl'[c] = Resting
      BY <2>4 DEF Leaves, PublishHealth, KillCrawl, Crawls, NewsWork
    <3> QED BY <1>0, <3>1, AtRest
  <2> QED BY <1>1, <2>1, <2>2, <2>3, <2>4 DEF Runs
<1> QED BY OneMoves, <1>0, <1>a, <1>1 DEF Rests, Began, Active

\* A run that did not end well has left its mark.
LEMMA ToldStep ==
  ASSUME StoreTypes, NewsWork, Told, [NewsNext]_newsVars
  PROVE  Told'
<1>0. past \in Past /\ hot \in Seq(Articles) /\ (past.gap => past'.gap)
  BY GrowsStep DEF StoreTypes, Grows
<1> DEFINE Fine(w) == /\ w.pc = "show" => w.status = "failed" /\ past'.gap
                      /\ w.pc = "finish" => w.status \in Good \cup {"cancelled"} \/ (w.status = "failed" /\ past'.gap)
                      /\ w.pc \in AtEnd => w.status \in Good \/ past'.gap
<1>1. ASSUME NEW c \in Crawlers, Runs(c), NEW v, v = crawl[c], NEW w, w = crawl'[c] PROVE Fine(w)
  <2>0. ToldOf(v)
    BY <1>1 DEF Told
  <2>1. CASE StartCrawl(c)
    BY <1>1, <2>1, StartEffect DEF AtEnd, Begun
  <2>2. CASE Replay(c) \/ ReadPage(c) \/ TakeUrl(c)
    <3>1. w.pc \in {"next", "fetch"} \/ (w.pc = "finish" /\ w.status = "cancelled")
      <4>1. CASE Replay(c) \/ ReadPage(c)
        BY <1>1, <4>1, ReplayEffect, ReadEffect DEF TookUp, Turned
      <4>2. CASE TakeUrl(c)
        <5>1. PICK a : a = Max(v.urls)
          OBVIOUS
        <5>2. Took(a, v, w)
          BY <1>1, <4>2, <5>1, TakeEffect
        <5> QED BY <5>2 DEF Took, Passed
      <4> QED BY <2>2, <4>1, <4>2
    <3> QED BY <3>1 DEF AtEnd
  <2>3. CASE Exhausted(c) \/ FetchOk(c) \/ FetchFails(c) \/ FetchRefused(c)
    BY <1>1, <2>3, FeedEffect DEF AtEnd
  <2>4. CASE Store(c)
    <3>1. w.pc = "next" \/ (w.pc = "finish" /\ w.status = "failed" /\ past'.gap)
      <4>1. Stored(v, w)
        BY <1>0, <1>1, <2>4, StoreEffect
      <4> QED BY <1>0, <4>1 DEF Past, Stored, Written, NotWritten
    <3> QED BY <3>1 DEF AtEnd
  <2>5. CASE BreakOff(c) \/ WritePause(c)
    <3>1. past'.gap
      BY <1>0, <2>5 DEF BreakOff, WritePause, Past
    <3>2. w.status = "failed" /\ w.pc \in {"finish", "show"}
      BY <1>1, <2>5, EndEffect
    <3> QED BY <3>1, <3>2 DEF AtEnd
  <2>6. CASE ShowPause(c) \/ ProjectHealth(c)
    <3>1. ((v.pc = "show" /\ w.pc = "finish") \/ (v.pc = "project" /\ w.pc = "publish")) /\ w.status = v.status
      BY <1>1, <2>6, EndEffect
    <3> QED BY <1>0, <2>0, <3>1 DEF ToldOf, AtEnd
  <2>7. CASE FinishRun(c)
    <3>1. v.pc = "finish" /\ w.pc = "project" /\ w.status = v.status
      BY <1>1, <2>7, EndEffect
    <3>2. v.status = "cancelled" => past'.gap
      BY <1>0, <1>1, <2>7 DEF FinishRun, Past
    <3> QED BY <1>0, <2>0, <3>1, <3>2 DEF ToldOf, AtEnd
  <2>8. CASE Leaves(c)
    <3>1. w = Resting
      BY <1>1, <2>8 DEF Leaves, PublishHealth, KillCrawl, Crawls, NewsWork
    <3> QED BY <3>1, AtRest DEF AtEnd
  <2> HIDE DEF Fine
  <2> QED BY <1>1, <2>1, <2>2, <2>3, <2>4, <2>5, <2>6, <2>7, <2>8 DEF Runs, Ordinary
<1>2. ASSUME NEW d \in Crawlers, crawl'[d] = crawl[d] PROVE Fine(crawl'[d])
  BY <1>0, <1>2 DEF Told, ToldOf
<1>3. \A d \in Crawlers : Fine(crawl'[d])
  <2> HIDE DEF Fine
  <2> QED BY OneMoves, <1>1, <1>2
<1> QED BY <1>3 DEF Told, ToldOf

\* Without a list the pages are taken in order.
LEMMA ShapeStep ==
  ASSUME StoreTypes, NewsWork, NewsWork', ~keepsList, pending = {}, published' \in Nat, published <= published',
         NEW c \in Crawlers, Runs(c), NEW v, v = crawl[c], NEW w, w = crawl'[c], Shape(v)
  PROVE  Shape(w)'
<1> SUFFICES /\ w.pc \notin {"pause", "show"} /\ w.replay = {}
             /\ w.own \cup w.urls \subseteq 1..published
             /\ w.key <= w.page
             /\ w.urls # {} => w.page >= 1
             /\ w.stopped => w.page >= 2
             /\ w.pc \in {"fetch", "write"} =>
                  /\ ~w.stopped /\ w.page >= 1 /\ w.key = w.page
                  /\ w.ref <= published /\ \A y \in w.urls : y < w.ref
  <2>1. published \in Nat
    BY NewsFacts DEF StoreTypes
  <2>2. 1..published \subseteq 1..published'
    BY <2>1
  <2>3. w.ref \in Nat
    BY OfSweep DEF NewsWork
  <2> QED BY <2>1, <2>2, <2>3 DEF Shape
<1>0. /\ published \in Nat /\ published <= Len(Contents) /\ hot \in Seq(Articles)
      /\ v.page \in Nat /\ v.key \in Nat /\ v.page <= MaxPages /\ MaxPages \in Nat /\ v.stopped \in BOOLEAN
  BY OfSweep, NewsFacts DEF NewsWork, StoreTypes
<1>1. CASE StartCrawl(c)
  <2>1. Begun(w)
    BY <1>1, StartEffect
  <2> QED BY <2>1 DEF Begun
<1>2. CASE Replay(c)
  <2>1. TookUp(v, w)
    BY <1>2, ReplayEffect
  <2> QED BY <2>1 DEF TookUp, Shape
<1>3. CASE ReadPage(c)
  <2>1. Turned(v, w)
    BY <1>3, ReadEffect
  <2>2. FeedPage(v.page + 1) \subseteq 1..published
    BY <1>0, NextPage
  <2>3. w.page \in Nat /\ w.page > v.page
    BY <1>0, <2>1 DEF Turned
  <2>4. w.urls \subseteq 1..published /\ w.page >= 1
    BY <1>0, <2>1, <2>2, <2>3, SMTT(20) DEF Turned
  <2>5. w.key <= w.page /\ (w.stopped => w.page >= 2)
    <3>1. w.key = v.key /\ w.stopped = v.stopped /\ v.key <= v.page /\ (v.stopped => v.page >= 2)
      BY <2>1 DEF Turned, Shape
    <3> QED BY <1>0, <2>3, <3>1
  <2>6. w.own \subseteq 1..published /\ w.pc = "next" /\ w.replay = {}
    BY <2>1 DEF Turned, Shape
  <2> QED BY <2>4, <2>5, <2>6
<1>4. CASE TakeUrl(c)
  <2>1. PICK a : a = Max(v.urls)
    OBVIOUS
  <2>2. Took(a, v, w)
    BY <1>4, <2>1, TakeEffect
  <2>3. w.stopped => v.stopped \/ (v.key # v.page /\ v.key >= 1)
    BY <2>2 DEF Took, Passed
  <2>4. w.stopped => w.page >= 2
    BY <1>0, <2>2, <2>3 DEF Took, Shape
  <2>5. w.pc \in {"next", "finish"} \/ (w.pc = "fetch" /\ w.ref = a /\ ~(v.page > 1 /\ w.stopped))
    BY <2>2 DEF Took, Passed
  <2>6. a <= published /\ \A y \in w.urls : y < a
    <3>1. a \in 1..published /\ v.urls \subseteq 1..published
      BY <2>2 DEF Took, Shape
    <3> QED BY <1>0, <2>2, <3>1 DEF Took
  <2>7. w.key = w.page /\ w.page = v.page
    BY <2>2 DEF Took, Passed
  <2>8. v.page >= 1
    BY <2>2 DEF Took, Shape
  <2>9. w.pc = "fetch" => ~w.stopped
    BY <1>0, <2>4, <2>5, <2>7
  <2> QED BY SMTT(20), <1>0, <2>2, <2>4, <2>5, <2>6, <2>7, <2>8, <2>9 DEF Took, Shape
<1>5. CASE FetchOk(c)
  <2>1. SamePlace(v, w) /\ v.pc = "fetch" /\ w.pc = "write" /\ w.ref = v.ref
    BY <1>5, FeedEffect
  <2> QED BY <2>1 DEF SamePlace, Shape
<1>6. CASE Exhausted(c) \/ FetchFails(c) \/ FetchRefused(c)
  <2>1. SamePlace(v, w) /\ w.pc \in {"finish", "next"}
    BY <1>6, FeedEffect
  <2> QED BY <2>1 DEF SamePlace, Shape
<1>7. CASE BreakOff(c) \/ WritePause(c) \/ ShowPause(c) \/ FinishRun(c) \/ ProjectHealth(c)
  <2>1. SamePlace(v, w) /\ (w.pc \in {"finish", "project", "publish"} \/ v.pc = "pause")
    BY <1>7, EndEffect
  <2> QED BY <2>1 DEF SamePlace, Shape
<1>8. CASE Store(c)
  <2>1. Stored(v, w)
    BY <1>0, <1>8, StoreEffect
  <2>2. v.ref \in 1..published
    BY <1>0, <2>1, NewsFacts DEF Stored, Shape, Articles
  <2>3. w.own \subseteq v.own \cup {v.ref} /\ w.pc \in {"next", "finish"}
    BY <2>1 DEF Stored, Written, NotWritten
  <2> QED BY <2>1, <2>2, <2>3 DEF Stored, Shape
<1>9. CASE Leaves(c)
  <2>1. w = Resting
    BY <1>9 DEF Leaves, PublishHealth, KillCrawl, Crawls, NewsWork
  <2> QED BY <2>1, AtRest
<1> QED BY <1>1, <1>2, <1>3, <1>4, <1>5, <1>6, <1>7, <1>8, <1>9 DEF Runs, Ordinary

\* Every process keeps its pages in order.
LEMMA PagesStep ==
  ASSUME StoreTypes, StoreTypes', NewsWork, NewsWork', Pages, [NewsNext]_newsVars
  PROVE  Pages'
<1>0. keepsList' = keepsList /\ published <= published' /\ published' \in Nat
  BY GrowsStep, NewsFacts DEF StoreTypes, Grows
<1> SUFFICES ASSUME ~keepsList PROVE pending' = {} /\ \A d \in Crawlers : Shape(crawl[d])'
  BY <1>0 DEF Pages
<1>1. pending = {} /\ \A d \in Crawlers : Shape(crawl[d])
  BY DEF Pages
<1>2. pending' = {}
  BY <1>1, PendingSteps DEF TakeUrl, FetchOk
<1>3. ASSUME NEW c \in Crawlers, Runs(c) PROVE Shape(crawl[c])'
  <2>1. PICK v, w : v = crawl[c] /\ w = crawl'[c]
    OBVIOUS
  <2>2. Shape(w)'
    BY <1>0, <1>1, <1>3, <2>1, ShapeStep
  <2> QED BY <2>1, <2>2 DEF Shape
<1>4. ASSUME NEW d \in Crawlers, crawl'[d] = crawl[d] PROVE Shape(crawl[d])'
  <2>1. Shape(crawl[d]) /\ crawl[d].ref \in Nat /\ published \in Nat
    BY <1>1, OfSweep, NewsFacts DEF NewsWork, StoreTypes
  <2>2. 1..published \subseteq 1..published'
    BY <1>0, <2>1
  <2> QED BY <1>0, <1>4, <2>1, <2>2 DEF Shape
<1> QED BY OneMoves, <1>2, <1>3, <1>4

-----------------------------------------------------------------------------

\* What holds of the pages and the documents from a step to the next, crawls not overlapping.
NoLoss ==
  /\ \A b \in Articles : Reached(b) => Reached(b)'
  /\ \A k \in Nat : InPages(k)' \subseteq InPages(k)

\* Both hold of every step.
LEMMA LosesNothing ==
  ASSUME StoreTypes, StoreTypes', NewsWork, FoundIsRight, [NewsNext]_newsVars, ~past'.overlapped
  PROVE  NoLoss
<1>1. Grows /\ published' \in Nat
  BY GrowsStep, NewsFacts DEF StoreTypes
<1> QED BY <1>1, SeenGrows, PagesMove DEF NoLoss

\* It is enough to look at the pages as they were.
LEMMA FullNow ==
  ASSUME NoLoss, NEW X, \A x \in X, b \in InPages(MaxPages) : b <= x => Reached(b)'
  PROVE  Full(X)'
<1>1. InPages(MaxPages)' \subseteq InPages(MaxPages)
  BY NewsFacts DEF NoLoss
<1> QED BY <1>1 DEF Full

\* What is full stays so, and all parts of it.
LEMMA FullStays ==
  ASSUME NoLoss, NEW X, NEW Y, Full(X), Y \subseteq X
  PROVE  Full(Y)'
<1>1. \A x \in Y, b \in InPages(MaxPages) : b <= x => Reached(b)'
  BY DEF NoLoss, Full, InPages
<1> QED BY <1>1, FullNow

\* So it is for what a run has seen.
LEMMA SweptNow ==
  ASSUME NoLoss, NEW w, w.page \in Nat,
         \A x \in w.own \cup Hand(w) \cup (IF w.page > 0 THEN 1..w.began ELSE {}), b \in Articles :
           b <= x /\ (b \in InPages(w.page) \/ \E y \in Hand(w) : y <= b) => Reached(b)' \/ b \in Hand(w)
  PROVE  Swept(w)'
<1>1. InPages(w.page)' \subseteq InPages(w.page)
  BY DEF NoLoss
<1> QED BY <1>1 DEF Swept, Hand

\* Articles that a process has no more in hand and that are seen now make no difference.
LEMMA SweepShrinks ==
  ASSUME NoLoss, NEW v, NEW w, v.page \in Nat, Swept(v), Ground(v),
         w.own = v.own, w.began = v.began, w.page = v.page,
         Hand(w) \subseteq Hand(v), \A b \in Hand(v) : b \in Hand(w) \/ Reached(b)',
         w.stats.older => v.stats.older /\ (w.key = w.page => v.key = v.page)
  PROVE  Swept(w)' /\ Ground(w)'
<1>1. Swept(w)'
  <2>1. ASSUME NEW x \in w.own \cup Hand(w) \cup (IF w.page > 0 THEN 1..w.began ELSE {}), NEW b \in Articles,
               b <= x, b \in InPages(w.page) \/ \E y \in Hand(w) : y <= b
        PROVE  Reached(b)' \/ b \in Hand(w)
    <3>1. x \in v.own \cup Hand(v) \cup (IF v.page > 0 THEN 1..v.began ELSE {})
      OBVIOUS
    <3>2. b \in InPages(v.page) \/ \E y \in Hand(v) : y <= b
      BY <2>1
    <3>3. Reached(b) \/ b \in Hand(v)
      BY <2>1, <3>1, <3>2 DEF Swept
    <3> QED BY <3>3 DEF NoLoss
  <2> QED BY <2>1, SweptNow
<1>2. Ground(w)'
  <2> DEFINE X == Top(v) \cup IF v.key = v.page THEN Hand(v) ELSE {}
             Y == Top(w) \cup IF w.key = w.page THEN Hand(w) ELSE {}
  <2>1. w.stats.older => Full(X) /\ Y \subseteq X
    BY DEF Ground, Top
  <2>2. w.stats.older => Full(Y)'
    <3> HIDE DEF X, Y
    <3> QED BY <2>1, FullStays
  <2> QED BY <2>2 DEF Ground, Top, Hand
<1> QED BY <1>1, <1>2

\* A page that is read, or found missing, leaves nothing out between the pages.
LEMMA SweepRead ==
  ASSUME NoLoss, published \in Nat, published <= Len(Contents), ~keepsList,
         NEW v \in Crawl, NEW w \in Crawl, Turned(v, w), Shape(v), v.began <= published, Sweep(v)
  PROVE  Sweep(w)'
<1>0. /\ v.page \in Nat /\ v.key \in Nat /\ v.page < MaxPages /\ MaxPages \in Nat /\ w.page \in Nat /\ w.page > v.page
      /\ v.began \in Nat
  BY OfSweep, NewsFacts DEF Turned
<1>1. /\ v.pc = "next" /\ w.pc = "next" /\ w.own = v.own /\ w.began = v.began /\ w.key = v.key
      /\ w.stopped = v.stopped /\ w.stats.older = v.stats.older
      /\ Hand(v) = {} /\ Hand(w) = FeedPage(v.page + 1) /\ Top(w) = Top(v)
      /\ w.page = IF FeedPage(v.page + 1) = {} THEN MaxPages ELSE v.page + 1
  BY DEF Turned, Hand, Top
<1>2. CASE v.stopped
  <2>1. Full(Top(w))'
    BY <1>1, <1>2, FullStays DEF Sweep, AtFeed
  <2> QED BY <1>1, <1>2, <2>1 DEF Sweep, Done, Top
<1>3. CASE ~v.stopped
  <2>0. Swept(v) /\ Ground(v)
    BY <1>1, <1>3 DEF Sweep, AtFeed
  <2>1. ASSUME NEW x \in w.own \cup Hand(w) \cup (IF w.page > 0 THEN 1..w.began ELSE {}), NEW b \in Articles,
               b <= x, b \in InPages(w.page) \/ \E y \in Hand(w) : y <= b
        PROVE  Reached(b)' \/ b \in Hand(w)
    <3>1. x \in 1..published /\ b \in Nat /\ b <= published
      <4>1. v.own \subseteq 1..published /\ FeedPage(v.page + 1) \subseteq 1..published
        BY <1>0, NextPage DEF Shape
      <4>2. x \in 1..published
        BY <1>0, <1>1, <4>1
      <4> QED BY <2>1, <4>2, NewsFacts
    <3>2. b \in InPages(w.page)
      <4> SUFFICES ASSUME NEW y \in Hand(w), y <= b PROVE b \in InPages(w.page)
        BY <2>1
      <4>1. y \in InPages(v.page + 1) /\ w.page = v.page + 1
        BY <1>0, <1>1, NextPage
      <4> QED BY <1>0, <4>1, Upward
    <3>3. b \in InPages(v.page) \/ b \in Hand(w)
      <4>1. CASE FeedPage(v.page + 1) = {}
        BY <1>0, <1>1, <3>1, <3>2, <4>1, NoNextPage
      <4>2. CASE FeedPage(v.page + 1) # {}
        BY <1>0, <1>1, <3>1, <3>2, <4>2, NextPage
      <4> QED BY <4>1, <4>2
    <3>4. CASE b \in InPages(v.page)
      <4>1. x \notin Hand(w)
        <5>1. x \in Hand(w) => x < b
          BY <1>0, <1>1, <3>4, NextPage
        <5> QED BY <2>1, <3>1, <5>1
      <4>2. v.page > 0
        <5>1. \A z \in InPages(0) : z > published
          BY <1>0, NextPage
        <5> QED BY <1>0, <3>1, <3>4, <5>1
      <4>3. x \in v.own \cup Hand(v) \cup (IF v.page > 0 THEN 1..v.began ELSE {})
        BY <1>0, <1>1, <2>1, <4>1, <4>2
      <4>4. Reached(b)
        BY <1>1, <2>0, <2>1, <3>4, <4>3 DEF Swept
      <4> QED BY <4>4 DEF NoLoss
    <3> QED BY <3>3, <3>4
  <2>2. Swept(w)'
    BY <1>0, <2>1, SweptNow
  <2>3. Ground(w)'
    <3>1. w.stats.older => Full(Top(w))'
      BY <1>1, <2>0, FullStays DEF Ground
    <3>2. w.key # w.page
      BY <1>0, <1>1 DEF Shape
    <3> QED BY <3>1, <3>2 DEF Ground, Full, Top, Hand
  <2> QED BY <1>1, <1>3, <2>2, <2>3 DEF Sweep, Done
<1> QED BY <1>2, <1>3, OfSweep

\* A url that is taken is in hand, or known to the archive; paging ends only where all is known.
LEMMA SweepTake ==
  ASSUME NoLoss, NEW a \in Articles, NEW v \in Crawl, NEW w \in Crawl, Took(a, v, w), Shape(v), Sweep(v),
         w.stopped /\ ~v.stopped => ~Misled(v.stats)
  PROVE  Sweep(w)'
<1>1. /\ v.pc = "next" /\ w.pc \in {"next", "fetch", "finish"} /\ (w.pc = "finish" => w.status = "cancelled")
      /\ w.own = v.own /\ w.began = v.began /\ w.page = v.page /\ w.key = v.page /\ Top(w) = Top(v)
      /\ w.urls = v.urls \ {a} /\ a \in v.urls
      /\ (w.stats.older => v.stats.older /\ v.key = v.page)
      /\ (w.stopped => v.stopped \/ Boundary(v.stats))
      /\ (w.pc = "fetch" => w.ref = a)
      /\ (w.pc = "next" => w.stopped \/ a \in cold)
  BY DEF Took, Passed, Top
<1>2. ~Done(w)
  BY <1>1 DEF Done, Good
<1>3. CASE w.stopped
  <2>1. Full(Top(v))
    <3>1. CASE v.stopped
      BY <1>1, <3>1 DEF Sweep, AtFeed
    <3>2. CASE ~v.stopped
      <4>1. v.stats.older
        BY <1>1, <1>3, <3>2 DEF Boundary, Misled
      <4>2. Ground(v)
        BY <1>1, <3>2 DEF Sweep, AtFeed
      <4> QED BY <4>1, <4>2 DEF Ground, Full
    <3> QED BY <3>1, <3>2, OfSweep
  <2>2. Full(Top(w))'
    BY <1>1, <2>1, FullStays
  <2> QED BY <1>2, <1>3, <2>2 DEF Sweep, Done, Top
<1>4. CASE ~w.stopped
  <2>1. ~v.stopped
    BY <1>4 DEF Took, Passed
  <2>2. Swept(v) /\ Ground(v)
    BY <1>1, <2>1 DEF Sweep, AtFeed
  <2>3. Hand(v) = v.urls
    BY <1>1 DEF Hand
  <2>4. w.pc \in AtFeed => Hand(w) \subseteq Hand(v) /\ \A b \in Hand(v) : b \in Hand(w) \/ b = a
    BY <1>1, <2>3 DEF Hand
  <2>5. w.pc \in AtFeed => a \in Hand(w) \/ Reached(a)'
    <3>1. CASE w.pc = "fetch"
      BY <1>1, <3>1 DEF Hand
    <3>2. CASE w.pc = "next"
      <4>1. Reached(a)
        BY <1>1, <1>4, <3>2 DEF Reached, Kept
      <4> QED BY <4>1 DEF NoLoss
    <3> QED BY <1>1, <3>1, <3>2 DEF AtFeed
  <2>6. w.pc \in AtFeed => Swept(w)' /\ Ground(w)'
    <3> SUFFICES ASSUME w.pc \in AtFeed PROVE Swept(w)' /\ Ground(w)'
      OBVIOUS
    <3>1. \A b \in Hand(v) : b \in Hand(w) \/ Reached(b)'
      BY <2>4, <2>5
    <3>2. v.page \in Nat
      BY OfSweep
    <3> QED BY <1>1, <2>2, <2>4, <3>1, <3>2, SweepShrinks
  <2> QED BY <1>2, <1>4, <2>6 DEF Sweep, Done
<1> QED BY <1>3, <1>4, OfSweep

\* A fetch changes nothing, unless it is lost.
LEMMA SweepFetch ==
  ASSUME NoLoss, NEW v \in Crawl, NEW w \in Crawl, SamePlace(v, w), Sweep(v), v.pc = "fetch",
         (w.pc = "write" /\ w.ref = v.ref) \/ (w.pc = "next" /\ Reached(v.ref)')
  PROVE  Sweep(w)'
<1>1. /\ w.own = v.own /\ w.began = v.began /\ w.page = v.page /\ w.key = v.key /\ w.urls = v.urls
      /\ w.stopped = v.stopped /\ w.stats.older = v.stats.older /\ Top(w) = Top(v)
  BY DEF SamePlace, Top
<1>2. ~Done(w) /\ w.pc \in AtFeed /\ v.pc \in AtFeed
  BY DEF Done, AtFeed
<1>3. CASE v.stopped
  <2>1. Full(Top(w))'
    BY <1>1, <1>2, <1>3, FullStays DEF Sweep
  <2> QED BY <1>1, <1>2, <1>3, <2>1 DEF Sweep, Done, Top
<1>4. CASE ~v.stopped
  <2>1. Swept(v) /\ Ground(v)
    BY <1>2, <1>4 DEF Sweep
  <2>2. Hand(w) \subseteq Hand(v) /\ \A b \in Hand(v) : b \in Hand(w) \/ Reached(b)'
    BY <1>1 DEF Hand
  <2>3. v.page \in Nat
    BY OfSweep
  <2>4. Swept(w)' /\ Ground(w)'
    BY <1>1, <2>1, <2>2, <2>3, SweepShrinks
  <2> QED BY <1>1, <1>2, <1>4, <2>4 DEF Sweep, Done
<1> QED BY <1>3, <1>4, OfSweep

\* When the pages are used up nothing is missing on them.
LEMMA SweepExhausted ==
  ASSUME NoLoss, published \in Nat, published <= Len(Contents),
         NEW v \in Crawl, NEW w \in Crawl, SamePlace(v, w), Sweep(v), Shape(v), v.began <= published,
         v.pc = "next", v.urls = {}, v.page = MaxPages, w.pc = "finish"
  PROVE  Sweep(w)'
<1>1. w.pc \notin AtFeed /\ Top(w) = Top(v) /\ Hand(v) = {}
  BY DEF SamePlace, Top, AtFeed, Hand
<1>2. CASE v.stopped
  <2>1. Full(Top(w))'
    BY <1>1, <1>2, FullStays DEF Sweep, AtFeed
  <2> QED BY <1>1, <2>1 DEF Sweep, Top
<1>3. CASE ~v.stopped
  <2>1. Swept(v)
    BY <1>3 DEF Sweep, AtFeed
  <2>2. ASSUME NEW x \in Top(v), NEW b \in InPages(MaxPages), b <= x PROVE Reached(b)'
    <3>1. MaxPages \in Nat /\ b \in Articles /\ b \in Nat /\ v.began \in Nat
      BY OfSweep, NewsFacts DEF InPages
    <3>2. x \in 1..published
      BY <3>1 DEF Top, Shape
    <3>3. v.page > 0
      <4>1. \A z \in InPages(0) : z > published
        BY NextPage
      <4> QED BY <2>2, <3>1, <3>2, <4>1
    <3>4. x \in v.own \cup Hand(v) \cup (IF v.page > 0 THEN 1..v.began ELSE {})
      BY <3>3 DEF Top
    <3>5. Reached(b)
      BY <1>1, <2>1, <2>2, <3>1, <3>4 DEF Swept
    <3> QED BY <3>1, <3>5 DEF NoLoss
  <2>3. Full(Top(w))'
    BY <1>1, <2>2, FullNow
  <2> QED BY <1>1, <2>3 DEF Sweep, Top
<1> QED BY <1>2, <1>3, OfSweep

\* The steps that end a run keep what it found.
LEMMA SweepEnds ==
  ASSUME NoLoss, NEW v, NEW w, SamePlace(v, w), Sweep(v), w.pc \notin AtFeed, Done(w) => Done(v)
  PROVE  Sweep(w)'
<1>1. Top(w) = Top(v)
  BY DEF SamePlace, Top
<1>2. Done(w) => Full(Top(w))'
  BY <1>1, FullStays DEF Sweep
<1> QED BY <1>2 DEF Sweep, Done, Top, AtFeed

\* An article that is written is seen.
LEMMA StoredIsSeen ==
  ASSUME hot \in Seq(Articles), NEW v, NEW w, Written(v, w), v.ref \in Articles,
         v.match # 0 => v.match \in DOMAIN hot
  PROVE  Reached(v.ref)'
<1> DEFINE a == v.ref
<1>1. \E s \in DOMAIN hot' : hot'[s] = a
  <2>1. CASE v.match = 0
    <3>1. hot' = Append(hot, a)
      BY <2>1 DEF Written
    <3>2. Len(hot) + 1 \in DOMAIN hot' /\ hot'[Len(hot) + 1] = a
      <4> HIDE DEF a
      <4> QED BY <3>1
    <3> QED BY <3>2
  <2>2. CASE v.match # 0
    BY <2>2 DEF Written
  <2> QED BY <2>1, <2>2
<1> QED BY <1>1 DEF Reached, Kept

\* An article that was known as itself from an earlier run shows that all below it is seen as well.
LEMMA SweepStore ==
  ASSUME NoLoss, published \in Nat, hot \in Seq(Articles), Deep,
         NEW v \in Crawl, NEW w \in Crawl, Stored(v, w), Written(v, w), Shape(v), Sweep(v),
         v.match # 0 => v.match \in DOMAIN hot,
         \A c \in Crawlers : crawl[c].own \subseteq v.own
  PROVE  Sweep(w)'
<1> DEFINE a == v.ref
<1>1. /\ v.pc = "write" /\ w.pc = "next" /\ a \in Articles
      /\ w.began = v.began /\ w.page = v.page /\ w.key = v.key /\ w.urls = v.urls /\ w.stopped = v.stopped
      /\ w.own \subseteq v.own \cup {a} /\ Hand(v) = v.urls \cup {a} /\ Hand(w) = v.urls
      /\ Top(w) \subseteq Top(v) \cup {a}
  BY DEF Stored, Written, Hand, Top
<1>2. ~v.stopped /\ v.page > 0 /\ v.key = v.page /\ (\A y \in v.urls : y < a) /\ v.urls \subseteq Nat
  BY <1>1, OfSweep, NewsFacts DEF Shape
<1>3. Swept(v) /\ Ground(v)
  BY <1>1, <1>2 DEF Sweep, AtFeed
<1>4. Reached(a)'
  BY <1>1, StoredIsSeen
<1>5. Swept(w)'
  <2>1. ASSUME NEW x \in w.own \cup Hand(w) \cup (IF w.page > 0 THEN 1..w.began ELSE {}), NEW b \in Articles,
               b <= x, b \in InPages(w.page) \/ \E y \in Hand(w) : y <= b
        PROVE  Reached(b)' \/ b \in Hand(w)
    <3>1. x \in v.own \cup Hand(v) \cup (IF v.page > 0 THEN 1..v.began ELSE {})
      BY <1>1
    <3>2. b \in InPages(v.page) \/ \E y \in Hand(v) : y <= b
      BY <1>1, <2>1
    <3>3. Reached(b) \/ b \in Hand(v)
      BY <1>3, <2>1, <3>1, <3>2 DEF Swept
    <3> QED BY <1>1, <1>4, <3>3 DEF NoLoss
  <2>2. w.page \in Nat
    BY OfSweep
  <2> QED BY <2>1, <2>2, SweptNow
<1>6. Ground(w)'
  <2> DEFINE Y == Top(w) \cup IF w.key = w.page THEN Hand(w) ELSE {}
  <2>0. Y \subseteq Top(v) \cup Hand(v)
    BY <1>1
  <2>1. CASE v.stats.older
    <3>1. Full(Top(v) \cup Hand(v))
      BY <1>2, <1>3, <2>1 DEF Ground
    <3>2. Full(Y)'
      <4> HIDE DEF Y
      <4> QED BY <2>0, <3>1, FullStays
    <3> QED BY <3>2 DEF Ground, Top, Hand
  <2>2. CASE ~v.stats.older /\ w.stats.older
    <3>1. KnownAs(v) /\ a \notin v.own
      BY <2>2 DEF Written
    <3>2. Full({a})
      <4>1. v.match \in DOMAIN hot /\ hot[v.match] = a
        BY <3>1 DEF KnownAs
      <4> QED BY <3>1, <4>1 DEF Deep
    <3>3. w.own = v.own
      BY <3>1 DEF Written
    <3>4. ASSUME NEW x \in Y, NEW b \in InPages(MaxPages), b <= x PROVE Reached(b)'
      <4>1. b \in Articles /\ b \in Nat /\ a \in Nat
        BY <1>1, NewsFacts DEF InPages
      <4>2. CASE b <= a
        BY <3>2, <4>1, <4>2 DEF Full, NoLoss
      <4>3. CASE a < b
        <5>1. x \notin v.urls /\ x # a
          BY <1>2, <3>4, <4>1, <4>3
        <5>2. x \in v.own \cup Hand(v) \cup (IF v.page > 0 THEN 1..v.began ELSE {})
          BY <1>1, <1>2, <3>3, <3>4, <5>1 DEF Top
        <5>3. a \in Hand(v) /\ a <= b /\ b \notin Hand(v)
          BY <1>1, <1>2, <4>1, <4>3
        <5>4. Reached(b)
          BY <1>3, <3>4, <4>1, <5>2, <5>3 DEF Swept
        <5> QED BY <4>1, <5>4 DEF NoLoss
      <4> QED BY <4>1, <4>2, <4>3
    <3>5. Full(Y)'
      <4> HIDE DEF Y
      <4> QED BY <3>4, FullNow
    <3> QED BY <3>5 DEF Ground, Top, Hand
  <2>3. CASE ~w.stats.older
    BY <2>3 DEF Ground
  <2> QED BY <2>1, <2>2, <2>3
<1> QED BY <1>1, <1>2, <1>5, <1>6 DEF Sweep, Done

\* The process that moves keeps its sweep.
LEMMA SweepMoves ==
  ASSUME StoreTypes, StoreTypes', NewsWork, NewsWork', OneAtATime, FoundIsRight, Rests, Began, Told, Pages, Sweeps,
         [NewsNext]_newsVars, NEW c \in Crawlers, Runs(c), Unbroken', NEW v, v = crawl[c], NEW w, w = crawl'[c]
  PROVE  Sweep(w)'
<1>1. Grows /\ past \in Past
  BY GrowsStep DEF StoreTypes
<1>2. ~keepsList /\ ~past.overlapped /\ ~past.gap /\ ~past'.overlapped /\ ~past'.gap
  BY <1>1 DEF Grows, Unbroken
<1>3. NoLoss
  BY <1>2, LosesNothing
<1>4. Deep /\ Sweep(v) /\ Shape(v) /\ v \in Crawl /\ w \in Crawl /\ v.began <= published
  BY <1>2 DEF Sweeps, Unbroken, Pages, NewsWork, Began
<1>5. published \in Nat /\ published <= Len(Contents) /\ hot \in Seq(Articles)
  BY NewsFacts DEF StoreTypes
<1>6. CASE StartCrawl(c)
  <2>1. Begun(w)
    BY <1>6, StartEffect
  <2>2. ~Done(w) /\ ~w.stopped /\ ~w.stats.older /\ w.own = {} /\ w.page = 0 /\ (w.pc \in AtFeed => Hand(w) = {})
    BY <2>1 DEF Begun, Done, Hand, AtFeed
  <2> QED BY <2>2 DEF Sweep, Swept, Ground, Done, Hand
<1>7. CASE Replay(c)
  BY <1>4, <1>7 DEF Replay, Shape
<1>8. CASE ReadPage(c)
  <2>1. Turned(v, w)
    BY <1>8, ReadEffect
  <2> QED BY <1>2, <1>3, <1>4, <1>5, <2>1, SweepRead
<1>9. CASE TakeUrl(c)
  <2>1. PICK a : a = Max(v.urls)
    OBVIOUS
  <2>2. Took(a, v, w)
    BY <1>9, <2>1, TakeEffect
  <2>3. a \in Articles
    BY <1>4, <2>2, OfSweep DEF Took
  <2>4. past' = [past EXCEPT !.owed = IF keepsList THEN @ \cup {a} ELSE @,
                             !.gap = @ \/ (w.stopped /\ ~v.stopped /\ Misled(v.stats))]
    BY <1>9, <2>1 DEF TakeUrl
  <2>5. w.stopped /\ ~v.stopped => ~Misled(v.stats)
    BY <1>1, <1>2, <2>4 DEF Past
  <2> QED BY <1>3, <1>4, <2>2, <2>3, <2>5, SweepTake
<1>10. CASE Exhausted(c)
  <2>1. SamePlace(v, w) /\ v.pc = "next" /\ v.urls = {} /\ v.page = MaxPages /\ w.pc = "finish"
    BY <1>10, FeedEffect
  <2> QED BY <1>3, <1>4, <1>5, <2>1, SweepExhausted
<1>11. CASE FetchOk(c)
  <2>1. SamePlace(v, w) /\ v.pc = "fetch" /\ w.pc = "write" /\ w.ref = v.ref
    BY <1>11, FeedEffect
  <2> QED BY <1>3, <1>4, <2>1, SweepFetch
<1>12. CASE FetchFails(c)
  <2>1. SamePlace(v, w) /\ v.pc = "fetch" /\ w.pc = "next"
    BY <1>12, FeedEffect
  <2>2. past' = [past EXCEPT !.dropped = @ \cup {v.ref}]
    BY <1>12 DEF FetchFails
  <2>3. Reached(v.ref)'
    BY <1>1, <2>2 DEF Reached, Past
  <2> QED BY <1>3, <1>4, <2>1, <2>3, SweepFetch
<1>13. CASE FetchRefused(c)
  BY <1>2, <1>13 DEF FetchRefused
<1>14. CASE Store(c)
  <2>1. Stored(v, w)
    BY <1>5, <1>14, StoreEffect
  <2>2. Written(v, w)
    BY <1>1, <1>2, <2>1 DEF Stored, NotWritten, Past
  <2>3. v.match # 0 => v.match \in DOMAIN hot
    BY <1>2, <2>1 DEF FoundIsRight, Matching, Stored
  <2>4. \A d \in Crawlers : crawl[d].own \subseteq v.own
    <3>1. Active(c)
      BY <2>1 DEF Active, Stored
    <3>2. ASSUME NEW d \in Crawlers, d # c PROVE crawl[d].own = {}
      BY <1>2, <3>1, <3>2, AtRest DEF OneAtATime, Rests
    <3> QED BY <3>2
  <2> QED BY <1>3, <1>4, <1>5, <2>1, <2>2, <2>3, <2>4, SweepStore
<1>15. CASE BreakOff(c) \/ WritePause(c)
  BY <1>1, <1>2, <1>15 DEF BreakOff, WritePause, Past
<1>16. CASE ShowPause(c)
  BY <1>4, <1>16 DEF ShowPause, Shape
<1>17. CASE FinishRun(c) \/ ProjectHealth(c)
  <2>1. /\ SamePlace(v, w) /\ w.status = v.status
        /\ (v.pc = "finish" /\ w.pc = "project") \/ (v.pc = "project" /\ w.pc = "publish")
    BY <1>17, EndEffect
  <2>2. w.pc \notin AtFeed /\ (Done(w) => Done(v))
    BY <2>1 DEF Done, AtFeed
  <2> QED BY <1>3, <1>4, <2>1, <2>2, SweepEnds
<1>18. CASE Leaves(c)
  <2>1. w = Resting
    BY <1>18 DEF Leaves, PublishHealth, KillCrawl, Crawls, NewsWork
  <2>2. w.pc \notin AtFeed /\ ~Done(w)
    BY <2>1, AtRest DEF AtFeed, Done
  <2> QED BY <2>2 DEF Sweep, Done
<1> QED BY <1>6, <1>7, <1>8, <1>9, <1>10, <1>11, <1>12, <1>13, <1>14, <1>15, <1>16, <1>17, <1>18 DEF Runs, Ordinary

\* What is stored and not of a run under way has nothing missing below it.
LEMMA DeepStep ==
  ASSUME StoreTypes, StoreTypes', NewsWork, NewsWork', OneAtATime, FoundIsRight, Rests, Told, Pages, Sweeps,
         [NewsNext]_newsVars, Unbroken'
  PROVE  Deep'
<1>1. Grows /\ past \in Past
  BY GrowsStep DEF StoreTypes
<1>2. ~keepsList /\ ~past.overlapped /\ ~past.gap /\ ~past'.overlapped /\ ~past'.gap
  BY <1>1 DEF Grows, Unbroken
<1>3. NoLoss
  BY <1>2, LosesNothing
<1>4. Deep /\ \A c \in Crawlers : Sweep(crawl[c])
  BY <1>2 DEF Sweeps, Unbroken
<1> SUFFICES ASSUME NEW s \in DOMAIN hot', \A c \in Crawlers : hot'[s] \notin crawl'[c].own, NEW x, x = hot'[s]
             PROVE  Full({x})'
  BY DEF Deep, Full
<1>5. hot \in Seq(Articles)
  BY DEF StoreTypes
<1>6. ASSUME NEW c \in Crawlers, Store(c), \A d \in Crawlers \ {c} : crawl'[d] = crawl[d] PROVE Full({x})'
  <2>1. PICK v, w : v = crawl[c] /\ w = crawl'[c]
    OBVIOUS
  <2>2. Stored(v, w)
    BY <1>5, <1>6, <2>1, StoreEffect
  <2>3. Written(v, w)
    BY <1>1, <1>2, <2>2 DEF Stored, NotWritten, Past
  <2>4. v.match # 0 => v.match \in DOMAIN hot
    BY <1>2, <2>1, <2>2 DEF FoundIsRight, Matching, Stored
  <2>5. v.own \subseteq w.own /\ (KnownAs(v) \/ v.ref \in w.own)
    BY <2>3 DEF Written
  <2>6. s \in DOMAIN hot /\ hot[s] = x
    <3>1. CASE v.match = 0
      <4>1. hot' = Append(hot, v.ref) /\ v.ref \in w.own
        BY <2>3, <2>5, <3>1 DEF Written, KnownAs
      <4>2. s # Len(hot) + 1
        BY <1>5, <2>1, <2>2, <4>1 DEF Stored
      <4> QED BY <1>5, <2>2, <4>1, <4>2 DEF Stored
    <3>2. CASE v.match # 0
      <4>1. hot' = [hot EXCEPT ![v.match] = v.ref]
        BY <2>3, <3>2 DEF Written
      <4>2. CASE s = v.match
        BY <2>1, <2>4, <2>5, <3>2, <4>1, <4>2 DEF KnownAs
      <4>3. CASE s # v.match
        BY <1>5, <2>4, <3>2, <4>1, <4>3
      <4> QED BY <4>2, <4>3
    <3> QED BY <3>1, <3>2
  <2>7. \A d \in Crawlers : x \notin crawl[d].own
    BY <1>6, <2>1, <2>5
  <2>8. Full({x})
    BY <1>4, <2>6, <2>7 DEF Deep
  <2> QED BY <1>3, <2>8, FullStays
<1>7. ASSUME UNCHANGED hot, \A c \in Crawlers : crawl[c].own \subseteq crawl'[c].own \/ Full(crawl[c].own) PROVE Full({x})'
  <2>1. s \in DOMAIN hot /\ hot[s] = x
    BY <1>7
  <2>2. Full({x})
    <3>1. CASE \A c \in Crawlers : x \notin crawl[c].own
      BY <1>4, <2>1, <3>1 DEF Deep
    <3>2. CASE \E c \in Crawlers : x \in crawl[c].own
      BY <1>7, <3>2 DEF Full
    <3> QED BY <3>1, <3>2
  <2> QED BY <1>3, <2>2, FullStays
<1>8. ASSUME NEW c \in Crawlers, Runs(c), ~Store(c)
      PROVE  UNCHANGED hot /\ (crawl[c].own \subseteq crawl'[c].own \/ Full(crawl[c].own))
  <2>1. PICK v, w : v = crawl[c] /\ w = crawl'[c]
    OBVIOUS
  <2>2. UNCHANGED hot
    BY <1>8, ZenonT(40) DEF Runs, Ordinary, Leaves, StartCrawl, Replay, ReadPage, TakeUrl, Exhausted, FetchOk, FetchFails,
       FetchRefused, BreakOff, WritePause, ShowPause, ProjectHealth, FinishRun, PublishHealth, KillCrawl
  <2>3. Shape(v) /\ ToldOf(v) /\ Sweep(v)
    BY <1>2, <1>4, <2>1 DEF Pages, Told
  <2>4. CASE StartCrawl(c)
    <3>1. ~Active(c)
      BY <2>4 DEF StartCrawl
    <3> QED BY <2>2, <3>1, AtRest DEF Rests
  <2>5. CASE Replay(c) \/ ReadPage(c) \/ TakeUrl(c)
    <3>1. w.own = v.own
      <4>1. CASE Replay(c)
        BY <2>1, <2>3, <4>1 DEF Replay, Shape
      <4>2. CASE ReadPage(c)
        <5>1. Turned(v, w)
          BY <2>1, <4>2, ReadEffect
        <5> QED BY <5>1 DEF Turned
      <4>3. CASE TakeUrl(c)
        <5>1. PICK a : a = Max(v.urls)
          OBVIOUS
        <5>2. Took(a, v, w)
          BY <2>1, <4>3, <5>1, TakeEffect
        <5> QED BY <5>2 DEF Took
      <4> QED BY <2>5, <4>1, <4>2, <4>3
    <3> QED BY <2>1, <2>2, <3>1
  <2>6. CASE \/ Exhausted(c) \/ FetchOk(c) \/ FetchFails(c) \/ FetchRefused(c)
    <3>1. SamePlace(v, w)
      BY <2>1, <2>6, FeedEffect
    <3> QED BY <2>1, <2>2, <3>1 DEF SamePlace
  <2>7. CASE \/ BreakOff(c) \/ WritePause(c) \/ ShowPause(c) \/ FinishRun(c) \/ ProjectHealth(c)
    <3>1. SamePlace(v, w)
      BY <2>1, <2>7, EndEffect
    <3> QED BY <2>1, <2>2, <3>1 DEF SamePlace
  <2>8. CASE Leaves(c)
    <3>1. PublishHealth(c)
      BY <1>1, <1>2, <2>8 DEF Leaves, KillCrawl, Past
    <3>2. Done(v)
      BY <1>2, <2>1, <2>3, <3>1 DEF PublishHealth, ToldOf, Done, AtEnd
    <3>3. Full(v.own)
      BY <2>3, <3>2 DEF Sweep, Full, Top
    <3> QED BY <2>1, <2>2, <3>3
  <2> QED BY <1>8, <2>4, <2>5, <2>6, <2>7, <2>8 DEF Runs, Ordinary
<1> QED BY OneMoves, <1>6, <1>7, <1>8

\* The runs under way and the documents go on in step.
LEMMA SweepsStep ==
  ASSUME StoreTypes, StoreTypes', NewsWork, NewsWork', OneAtATime, FoundIsRight, Rests, Began, Told, Pages, Sweeps,
         [NewsNext]_newsVars
  PROVE  Sweeps'
<1> SUFFICES ASSUME Unbroken' PROVE Deep' /\ \A d \in Crawlers : Sweep(crawl[d])'
  BY DEF Sweeps
<1>1. NoLoss /\ Unbroken
  BY GrowsStep, LosesNothing DEF Grows, Unbroken
<1>2. ASSUME NEW c \in Crawlers, Runs(c) PROVE Sweep(crawl[c])'
  <2>1. PICK v, w : v = crawl[c] /\ w = crawl'[c]
    OBVIOUS
  <2>2. Sweep(w)'
    BY <1>2, <2>1, SweepMoves
  <2> QED BY <2>1, <2>2 DEF Sweep, Swept, Ground, Top, Hand, Done
<1>3. ASSUME NEW d \in Crawlers, crawl'[d] = crawl[d] PROVE Sweep(crawl[d])'
  <2>1. PICK v : v = crawl[d]
    OBVIOUS
  <2>2. Sweep(v) /\ v.page \in Nat
    BY <1>1, <2>1, OfSweep DEF Sweeps, NewsWork
  <2>3. Swept(v) /\ Ground(v) => Swept(v)' /\ Ground(v)'
    BY <1>1, <2>2, SweepShrinks
  <2>4. Full(Top(v)) => Full(Top(v))'
    BY <1>1, FullStays DEF Top
  <2>5. Sweep(v)'
    BY <2>2, <2>3, <2>4 DEF Sweep, Done, Top
  <2> QED BY <1>3, <2>1, <2>5 DEF Sweep, Swept, Ground, Top, Hand, Done
<1> QED BY OneMoves, DeepStep, <1>2, <1>3

-----------------------------------------------------------------------------

\* What a run of a provider with a list has yet to answer for is on the list as long as only it
\* takes urls off it.
ListingNow(w) ==
  /\ w.pc \in AtFeed =>
       /\ pending' \subseteq w.listed
       /\ \A b \in w.listed : Held(b)' \/ b \in Hand(w)
       /\ w.page > 0 => \A b \in InPages(w.page) : b <= w.began => Held(b)' \/ b \in Hand(w)
  /\ Done(w) => \A b \in InPages(MaxPages) : b <= w.began => Held(b)'

\* It is enough to look at the pages as they were.
LEMMA ListingNext ==
  ASSUME NoLoss, NEW w \in Crawl, ListingNow(w)
  PROVE  Listing(w)'
<1>1. w.page \in Nat /\ MaxPages \in Nat
  BY OfSweep, NewsFacts
<1>2. InPages(w.page)' \subseteq InPages(w.page) /\ InPages(MaxPages)' \subseteq InPages(MaxPages)
  BY <1>1 DEF NoLoss
<1> QED BY <1>2 DEF ListingNow, Listing, Hand, Done

\* A process that changes neither its pages nor the stored list.
LEMMA ListingShrinks ==
  ASSUME NoLoss, NEW v \in Crawl, NEW w \in Crawl, Listing(v), UNCHANGED pending,
         w.began = v.began, w.page = v.page, w.listed = v.listed,
         w.pc \in AtFeed => v.pc \in AtFeed /\ \A b \in Hand(v) : b \in Hand(w) \/ Reached(b)',
         Done(w) => Done(v)
  PROVE  Listing(w)'
<1>1. \A b \in Articles : Held(b) => Held(b)'
  BY DEF NoLoss, Held
<1>2. w.listed \subseteq Articles /\ InPages(w.page) \subseteq Articles /\ InPages(MaxPages) \subseteq Articles
  BY OfCrawl DEF InPages
<1>3. ListingNow(w)
  BY <1>1, <1>2 DEF ListingNow, Listing, Held
<1> QED BY <1>3, ListingNext

\* A page that is read adds to the hand what is not on the list.
LEMMA ListingRead ==
  ASSUME NoLoss, published \in Nat, published <= Len(Contents), keepsList, UNCHANGED pending,
         NEW v \in Crawl, NEW w \in Crawl, Turned(v, w), v.began <= published, Listing(v)
  PROVE  Listing(w)'
<1>0. v.page \in Nat /\ v.began \in Nat /\ MaxPages \in Nat /\ v.listed \subseteq Articles
  BY OfSweep, OfCrawl, NewsFacts
<1>1. /\ v.pc = "next" /\ w.pc = "next" /\ w.began = v.began /\ w.listed = v.listed
      /\ Hand(v) = {} /\ Hand(w) = FeedPage(v.page + 1) \ v.listed
      /\ w.page = IF FeedPage(v.page + 1) = {} THEN MaxPages ELSE v.page + 1
  BY DEF Turned, Hand
<1>2. \A b \in Articles : Held(b) => Held(b)'
  BY DEF NoLoss, Held
<1>3. /\ pending \subseteq v.listed
      /\ \A b \in v.listed : Held(b)
      /\ v.page > 0 => \A b \in InPages(v.page) : b <= v.began => Held(b)
  BY <1>1 DEF Listing, AtFeed
<1>4. ASSUME NEW b \in InPages(w.page), b <= w.began PROVE Held(b)' \/ b \in Hand(w)
  <2>1. b \in Articles /\ b \in Nat /\ b <= published
    BY <1>0, <1>1, <1>4, NewsFacts DEF InPages
  <2>2. b \in InPages(v.page) \/ b \in FeedPage(v.page + 1)
    <3>1. CASE FeedPage(v.page + 1) = {}
      BY <1>0, <1>1, <2>1, <3>1, <1>4, NoNextPage
    <3>2. CASE FeedPage(v.page + 1) # {}
      BY <1>0, <1>1, <2>1, <3>2, <1>4, NextPage
    <3> QED BY <3>1, <3>2
  <2>3. CASE b \in InPages(v.page)
    <3>1. v.page > 0
      <4>1. \A z \in InPages(0) : z > published
        BY <1>0, NextPage
      <4> QED BY <1>0, <2>1, <2>3, <4>1
    <3> QED BY <1>1, <1>2, <1>3, <1>4, <2>1, <2>3, <3>1
  <2>4. CASE b \in FeedPage(v.page + 1)
    BY <1>1, <1>2, <1>3, <2>1, <2>4
  <2> QED BY <2>2, <2>3, <2>4
<1>5. ListingNow(w)
  <2>1. pending' \subseteq w.listed
    BY <1>1, <1>3
  <2>2. \A b \in w.listed : Held(b)' \/ b \in Hand(w)
    BY <1>0, <1>1, <1>2, <1>3
  <2> QED BY <1>1, <1>4, <2>1, <2>2 DEF ListingNow, Done
<1> QED BY <1>5, ListingNext

\* A url that is taken joins the list, which is stored as the process has it.
LEMMA ListingTake ==
  ASSUME NoLoss, keepsList, NEW a, NEW v \in Crawl, NEW w \in Crawl, Took(a, v, w), Listing(v),
         pending' = w.listed
  PROVE  Listing(w)'
<1>1. /\ v.pc = "next" /\ w.pc \in {"next", "fetch", "finish"} /\ (w.pc = "finish" => w.status = "cancelled")
      /\ w.began = v.began /\ w.page = v.page /\ w.listed = v.listed \cup {a} /\ w.urls = v.urls \ {a}
  BY DEF Took, Passed
<1>2. ~Done(w) /\ Hand(v) = v.urls /\ w.urls \subseteq Hand(w)
  BY <1>1 DEF Done, Good, Hand
<1>3. \A b \in Articles : Held(b) \/ b \in Hand(v) => Held(b)' \/ b \in Hand(w)
  <2>1. pending \subseteq v.listed
    BY <1>1 DEF Listing, AtFeed
  <2> QED BY <1>1, <1>2, <2>1 DEF NoLoss, Held
<1>4. \A b \in w.listed : Held(b)'
  BY DEF Held
<1>5. InPages(w.page) \subseteq Articles
  BY DEF InPages
<1>6. ListingNow(w)
  BY <1>1, <1>2, <1>3, <1>4, <1>5 DEF ListingNow, Listing, AtFeed
<1> QED BY <1>6, ListingNext

\* A url that is fetched leaves the stored list, and is in hand.
LEMMA ListingFetch ==
  ASSUME NoLoss, NEW v \in Crawl, NEW w \in Crawl, SamePlace(v, w), Listing(v),
         v.pc = "fetch", w.pc = "write", w.ref = v.ref, pending' = pending \ {v.ref}
  PROVE  Listing(w)'
<1>1. w.began = v.began /\ w.page = v.page /\ w.listed = v.listed /\ Hand(w) = Hand(v) /\ v.ref \in Hand(w) /\ ~Done(w)
  BY DEF SamePlace, Hand, Done
<1>2. \A b \in Articles : Held(b) => Held(b)' \/ b \in Hand(w)
  BY <1>1 DEF NoLoss, Held
<1>3. w.listed \subseteq Articles /\ InPages(w.page) \subseteq Articles
  BY OfCrawl DEF InPages
<1>4. ListingNow(w)
  BY <1>1, <1>2, <1>3 DEF ListingNow, Listing, AtFeed
<1> QED BY <1>4, ListingNext

\* When the pages are used up nothing on them is left out.
LEMMA ListingExhausted ==
  ASSUME NoLoss, published \in Nat, published <= Len(Contents), UNCHANGED pending,
         NEW v \in Crawl, NEW w \in Crawl, SamePlace(v, w), Listing(v), v.began <= published,
         v.pc = "next", v.urls = {}, v.page = MaxPages, w.pc = "finish"
  PROVE  Listing(w)'
<1>1. w.began = v.began /\ Hand(v) = {} /\ w.pc \notin AtFeed /\ MaxPages \in Nat /\ v.began \in Nat
  BY OfSweep, NewsFacts DEF SamePlace, Hand, AtFeed
<1>2. ASSUME NEW b \in InPages(MaxPages), b <= w.began PROVE Held(b)'
  <2>1. b \in Articles /\ b \in Nat
    BY NewsFacts DEF InPages
  <2>2. MaxPages > 0
    <3>1. \A z \in InPages(0) : z > published
      BY NextPage
    <3> QED BY <1>1, <1>2, <2>1, <3>1
  <2>3. Held(b)
    BY <1>1, <1>2, <2>2 DEF Listing, AtFeed
  <2> QED BY <2>1, <2>3 DEF NoLoss, Held
<1>3. ListingNow(w)
  BY <1>1, <1>2 DEF ListingNow
<1> QED BY <1>3, ListingNext

\* The process that moves keeps its list.
LEMMA ListingMoves ==
  ASSUME StoreTypes, StoreTypes', NewsWork, NewsWork', FoundIsRight, Began, Told, Lists,
         [NewsNext]_newsVars, NEW c \in Crawlers, Runs(c), keepsList, ~past'.overlapped,
         NEW v, v = crawl[c], NEW w, w = crawl'[c]
  PROVE  Listing(w)'
<1>1. Grows /\ past \in Past
  BY GrowsStep DEF StoreTypes
<1>2. ~past.overlapped
  BY <1>1 DEF Grows
<1>3. NoLoss
  BY LosesNothing
<1>4. Listing(v) /\ v \in Crawl /\ w \in Crawl /\ v.began <= published /\ ToldOf(v)
  BY <1>2 DEF Lists, NewsWork, Began, Told
<1>5. published \in Nat /\ published <= Len(Contents) /\ hot \in Seq(Articles)
  BY NewsFacts DEF StoreTypes
<1>6. ASSUME w.pc \notin AtFeed, ~Done(w) PROVE Listing(w)'
  BY <1>6 DEF Listing, Done
<1>7. CASE StartCrawl(c)
  <2>1. Begun(w) /\ UNCHANGED pending
    BY <1>7, StartEffect DEF StartCrawl
  <2>2. w.pc = "next" => w.listed = pending /\ w.page = 0 /\ ~Done(w)
    BY <2>1 DEF Begun, Done
  <2>3. w.pc = "next" => ListingNow(w)
    BY <2>1, <2>2 DEF ListingNow, Held
  <2> QED BY <1>3, <1>4, <1>6, <2>1, <2>3, ListingNext DEF Begun, AtFeed, Done
<1>8. CASE Replay(c)
  <2>1. TookUp(v, w) /\ UNCHANGED pending
    BY <1>8, ReplayEffect DEF Replay
  <2>2. ~Done(w) /\ v.pc = "next" /\ \A b \in Hand(v) : b \in Hand(w)
    BY <2>1 DEF TookUp, Done, Good, Hand
  <2> QED BY <1>3, <1>4, <2>1, <2>2, ListingShrinks DEF TookUp, AtFeed
<1>9. CASE ReadPage(c)
  <2>1. Turned(v, w) /\ UNCHANGED pending
    BY <1>9, ReadEffect DEF ReadPage
  <2> QED BY <1>3, <1>4, <1>5, <2>1, ListingRead
<1>10. CASE TakeUrl(c)
  <2>1. PICK a : a = Max(v.urls)
    OBVIOUS
  <2>2. Took(a, v, w)
    BY <1>10, <2>1, TakeEffect
  <2>3. pending' = v.listed \cup {a}
    BY <1>10, <2>1 DEF TakeUrl, Listed
  <2>4. pending' = w.listed
    BY <2>2, <2>3 DEF Took
  <2> QED BY <1>3, <1>4, <2>2, <2>4, ListingTake
<1>11. CASE Exhausted(c)
  <2>1. SamePlace(v, w) /\ v.pc = "next" /\ v.urls = {} /\ v.page = MaxPages /\ w.pc = "finish"
    BY <1>11, FeedEffect
  <2>2. UNCHANGED pending
    BY <1>11 DEF Exhausted
  <2> QED BY <1>3, <1>4, <1>5, <2>1, <2>2, ListingExhausted
<1>12. CASE FetchOk(c)
  <2>1. SamePlace(v, w) /\ v.pc = "fetch" /\ w.pc = "write" /\ w.ref = v.ref
    BY <1>12, FeedEffect
  <2>2. pending' = pending \ {v.ref}
    BY <1>12 DEF FetchOk
  <2> QED BY <1>3, <1>4, <2>1, <2>2, ListingFetch
<1>13. CASE FetchFails(c)
  <2>1. SamePlace(v, w) /\ v.pc = "fetch" /\ w.pc = "next"
    BY <1>13, FeedEffect
  <2>2. past' = [past EXCEPT !.dropped = @ \cup {v.ref}] /\ UNCHANGED pending
    BY <1>13 DEF FetchFails
  <2>3. Reached(v.ref)'
    BY <1>1, <2>2 DEF Reached, Past
  <2>4. ~Done(w) /\ \A b \in Hand(v) : b \in Hand(w) \/ Reached(b)'
    BY <2>1, <2>3 DEF SamePlace, Done, Hand
  <2> QED BY <1>3, <1>4, <2>1, <2>2, <2>4, ListingShrinks DEF SamePlace, AtFeed
<1>14. CASE FetchRefused(c)
  BY <1>6, <1>14, FeedEffect DEF AtFeed, Done
<1>15. CASE Store(c)
  <2>1. Stored(v, w) /\ UNCHANGED pending
    BY <1>5, <1>15, StoreEffect DEF Store
  <2>2. CASE Written(v, w)
    <3>1. v.match # 0 => v.match \in DOMAIN hot
      BY <1>2, <2>1 DEF FoundIsRight, Matching, Stored
    <3>2. Reached(v.ref)'
      BY <1>5, <2>1, <2>2, <3>1, StoredIsSeen DEF Stored
    <3>3. w.pc = "next" /\ ~Done(w) /\ \A b \in Hand(v) : b \in Hand(w) \/ Reached(b)'
      BY <2>1, <2>2, <3>2 DEF Stored, Written, Done, Hand
    <3> QED BY <1>3, <1>4, <2>1, <3>3, ListingShrinks DEF Stored, AtFeed
  <2>3. CASE NotWritten(v, w)
    BY <1>6, <2>3 DEF NotWritten, AtFeed, Done, Good
  <2> QED BY <2>1, <2>2, <2>3 DEF Stored
<1>16. CASE BreakOff(c) \/ WritePause(c)
  BY <1>6, <1>16, EndEffect DEF AtFeed, Done, Good
<1>17. CASE ShowPause(c) \/ FinishRun(c) \/ ProjectHealth(c)
  <2>1. /\ SamePlace(v, w) /\ w.status = v.status
        /\ \/ v.pc = "show" /\ w.pc = "finish"
           \/ v.pc = "finish" /\ w.pc = "project"
           \/ v.pc = "project" /\ w.pc = "publish"
    BY <1>17, EndEffect
  <2>2. w.pc \notin AtFeed /\ (Done(w) => Done(v))
    BY <1>4, <2>1 DEF Done, AtFeed, ToldOf, Good
  <2>3. UNCHANGED pending
    BY <1>17 DEF ShowPause, FinishRun, ProjectHealth
  <2> QED BY <1>3, <1>4, <2>1, <2>2, <2>3, ListingShrinks DEF SamePlace
<1>18. CASE Leaves(c)
  <2>1. w = Resting
    BY <1>18 DEF Leaves, PublishHealth, KillCrawl, Crawls, NewsWork
  <2> QED BY <1>6, <2>1, AtRest DEF AtFeed, Done
<1> QED BY <1>7, <1>8, <1>9, <1>10, <1>11, <1>12, <1>13, <1>14, <1>15, <1>16, <1>17, <1>18 DEF Runs, Ordinary

\* The others are at rest.
LEMMA ListsStep ==
  ASSUME StoreTypes, StoreTypes', NewsWork, NewsWork', OneAtATime, FoundIsRight, Began, Told, Lists,
         [NewsNext]_newsVars
  PROVE  Lists'
<1> SUFFICES ASSUME keepsList, ~past'.overlapped PROVE \A d \in Crawlers : Listing(crawl[d])'
  BY GrowsStep DEF Lists, Grows
<1>1. NoLoss /\ ~past.overlapped /\ OneAtATime'
  BY GrowsStep, LosesNothing, OneStep DEF Grows
<1>2. ASSUME NEW c \in Crawlers, Runs(c), NEW d \in Crawlers, d # c, crawl'[d] = crawl[d] PROVE Listing(crawl[d])'
  <2>1. Active(c) \/ Active(c)'
    <3>1. CASE StartCrawl(c)
      <4>1. Begun(crawl'[c])
        BY <3>1, StartEffect
      <4> QED BY <4>1 DEF Begun, Active
    <3>2. CASE Ordinary(c)
      BY <3>2, ZenonT(40) DEF Ordinary, Replay, ReadPage, AtPage, TakeUrl, Exhausted, FetchOk, FetchFails, FetchRefused, Store,
         BreakOff, WritePause, ShowPause, ProjectHealth, Active
    <3>3. CASE FinishRun(c) \/ Leaves(c)
      BY <3>3 DEF FinishRun, Leaves, PublishHealth, KillCrawl, Active
    <3> QED BY <1>2, <3>1, <3>2, <3>3 DEF Runs
  <2>2. ~Active(d)'
    BY <1>1, <1>2, <2>1 DEF OneAtATime, Active
  <2> QED BY <2>2 DEF Listing, Done, AtFeed, Active
<1>3. ASSUME NEW c \in Crawlers, Runs(c) PROVE Listing(crawl[c])'
  <2>1. PICK v, w : v = crawl[c] /\ w = crawl'[c]
    OBVIOUS
  <2>2. Listing(w)'
    BY <1>3, <2>1, ListingMoves
  <2> QED BY <2>1, <2>2 DEF Listing, Hand, Done
<1>4. ASSUME UNCHANGED <<crawl, hot, pending>>, NEW d \in Crawlers PROVE Listing(crawl[d])'
  <2>1. PICK v : v = crawl[d]
    OBVIOUS
  <2>2. Listing(v)'
    BY <1>1, <1>4, <2>1, ListingShrinks DEF Lists, NewsWork
  <2> QED BY <1>4, <2>1, <2>2 DEF Listing, Hand, Done
<1> QED BY OneMoves, <1>2, <1>3, <1>4

-----------------------------------------------------------------------------

\* The invariant holds at first,
LEMMA BoundaryStart == NewsInit => BoundaryIInv
<1> SUFFICES ASSUME NewsInit PROVE BoundaryIInv
  OBVIOUS
<1>1. NewsIInv
  BY NewsStart
<1>2. \A c \in Crawlers : crawl[c] = Resting
  BY DEF NewsInit
<1>3. pending = {} /\ hot = <<>> /\ published \in Nat
  BY NewsFacts DEF NewsInit
<1>4. Rests /\ Began
  BY <1>2, <1>3, AtRest DEF Rests, Began
<1>5. Told
  BY <1>2, AtRest DEF Told, ToldOf, AtEnd
<1>6. Pages
  BY <1>2, <1>3, AtRest DEF Pages, Shape
<1>7. Resting.pc \notin AtFeed /\ ~Done(Resting)
  BY AtRest DEF AtFeed, Done
<1>8. Sweeps
  BY <1>2, <1>3, <1>7 DEF Sweeps, Deep, Sweep
<1>9. Lists
  BY <1>2, <1>7 DEF Lists, Listing
<1> QED BY <1>1, <1>4, <1>5, <1>6, <1>8, <1>9 DEF BoundaryIInv

\* and every step keeps it.
LEMMA BoundaryStep == BoundaryIInv /\ [NewsNext]_newsVars => BoundaryIInv'
<1> SUFFICES ASSUME BoundaryIInv, [NewsNext]_newsVars PROVE BoundaryIInv'
  OBVIOUS
<1>1. NewsIInv /\ Rests /\ Began /\ Told /\ Pages /\ Sweeps /\ Lists
  BY DEF BoundaryIInv
<1>2. StoreTypes /\ RunTypes /\ NewsWork /\ OneAtATime /\ FoundIsRight
  BY <1>1, NewsParts DEF NewsIInv
<1>3. StoreTypes' /\ NewsWork' /\ published' \in Nat
  BY <1>2, StoreStep, WorkStep, NewsFacts DEF StoreTypes
<1>4. NewsIInv'
  BY <1>1, NewsStep
<1>5. Rests' /\ Began' /\ Told'
  BY <1>1, <1>2, <1>3, RestsStep, ToldStep
<1>6. Pages'
  BY <1>1, <1>2, <1>3, PagesStep
<1>7. Sweeps'
  BY <1>1, <1>2, <1>3, SweepsStep
<1>8. Lists'
  BY <1>1, <1>2, <1>3, ListsStep
<1> QED BY <1>4, <1>5, <1>6, <1>7, <1>8 DEF BoundaryIInv

\* BoundaryIInv is an invariant of the crawls of a source.
THEOREM BoundaryInvCorrect == NewsSpec => []BoundaryIInv
BY BoundaryStart, BoundaryStep, PTL DEF NewsSpec

\* What a run that ended well leaves behind, for any number of articles, pages and processes: all
\* that had been published before it began and is on its pages is stored, listed by the provider
\* or its fetch was lost, as far as BoundaryMissesNothing goes.  _finalize_page_boundary ends the
\* paging on a page it knew whole, and that is right because an earlier run that stored an
\* article as itself left nothing out below it.
THEOREM BoundaryCorrect == NewsSpec => []BoundaryMissesNothing
<1>1. BoundaryIInv => BoundaryMissesNothing
  <2> SUFFICES ASSUME BoundaryIInv, NEW c \in Crawlers,
                      NEW a \in 1..crawl[c].began, a > published - MaxPages * PageSize,
                      crawl[c].pc = "project", crawl[c].status \in Good,
                      ~past.overlapped, keepsList \/ ~past.gap
               PROVE  Kept(a) \/ a \in pending \/ a \in past.dropped
    BY DEF BoundaryMissesNothing, Good
  <2>1. Done(crawl[c])
    BY DEF Done
  <2>2. a \in InPages(MaxPages)
    <3>1. NewsWork
      BY NewsParts DEF BoundaryIInv, NewsIInv
    <3>2. crawl[c].began \in 0..Len(Contents)
      BY <3>1, OfCrawl DEF NewsWork
    <3>3. a \in Articles
      BY <3>2, NewsFacts DEF Articles
    <3> QED BY <3>3 DEF InPages
  <2>3. CASE keepsList
    BY <2>1, <2>2, <2>3 DEF BoundaryIInv, Lists, Listing, Held, Reached
  <2>4. CASE ~keepsList
    <3>1. Full(Top(crawl[c]))
      BY <2>1, <2>4 DEF BoundaryIInv, Sweeps, Unbroken, Sweep
    <3>2. a \in Top(crawl[c]) /\ a <= a
      BY DEF Top
    <3> QED BY <2>2, <3>1, <3>2 DEF Full, Reached
  <2> QED BY <2>3, <2>4
<1> QED BY <1>1, BoundaryInvCorrect, PTL

-----------------------------------------------------------------------------
(* Controllers and agent jobs *)

\* Entries of jobs, each once, and no more than are kept.
Status == Final \cup {"queued", "running", "stopping"}
Entry == [job : Nat, status : Status]
Once(entries) == \A i, k \in DOMAIN entries : entries[i].job = entries[k].job => i = k
Tidy(entries) == entries \in Seq(Entry) /\ Len(entries) <= Retained /\ Once(entries)

LEMMA EntryIs ==
  ASSUME NEW entries, Once(entries), NEW e \in Range(entries)
  PROVE  Has(entries, e.job) /\ EntryOf(entries, e.job) = e
<1>1. PICK i \in DOMAIN entries : entries[i] = e
  BY DEF Range
<1>2. Has(entries, e.job)
  BY <1>1 DEF Has
<1>3. Place(entries, e.job) \in DOMAIN entries /\ entries[Place(entries, e.job)].job = e.job
  BY <1>2 DEF Has, Place
<1>4. Place(entries, e.job) = i
  BY <1>1, <1>3 DEF Once
<1> QED BY <1>1, <1>2, <1>4 DEF EntryOf

LEMMA EntryHas ==
  ASSUME NEW entries, NEW j, Has(entries, j)
  PROVE  EntryOf(entries, j) \in Range(entries) /\ EntryOf(entries, j).job = j
<1>1. Place(entries, j) \in DOMAIN entries /\ entries[Place(entries, j)].job = j
  BY DEF Has, Place
<1> QED BY <1>1 DEF EntryOf, Range

LEMMA AppendTidy ==
  ASSUME NEW entries \in Seq(Entry), Once(entries), NEW e \in Entry, ~Has(entries, e.job)
  PROVE  /\ Append(entries, e) \in Seq(Entry)
         /\ Len(Append(entries, e)) = Len(entries) + 1
         /\ Once(Append(entries, e))
         /\ Range(Append(entries, e)) = Range(entries) \cup {e}
<1> DEFINE longer == Append(entries, e)
<1>1. /\ longer \in Seq(Entry) /\ Len(longer) = Len(entries) + 1 /\ Len(entries) \in Nat
      /\ DOMAIN entries = 1..Len(entries) /\ DOMAIN longer = 1..Len(entries) + 1
      /\ \A i \in 1..Len(entries) : longer[i] = entries[i]
      /\ longer[Len(entries) + 1] = e
  OBVIOUS
<1> HIDE DEF longer
<1>2. Once(longer)
  <2> SUFFICES ASSUME NEW i \in DOMAIN longer, NEW k \in DOMAIN longer, longer[i].job = longer[k].job
               PROVE  i = k
    BY DEF Once
  <2>1. CASE i \in DOMAIN entries /\ k \in DOMAIN entries
    BY <1>1, <2>1 DEF Once
  <2>2. CASE i \notin DOMAIN entries /\ k \in DOMAIN entries
    <3>1. longer[i] = e /\ longer[k] = entries[k]
      BY <1>1, <2>2
    <3> QED BY <2>2, <3>1 DEF Has
  <2>3. CASE i \in DOMAIN entries /\ k \notin DOMAIN entries
    <3>1. longer[k] = e /\ longer[i] = entries[i]
      BY <1>1, <2>3
    <3> QED BY <2>3, <3>1 DEF Has
  <2>4. CASE i \notin DOMAIN entries /\ k \notin DOMAIN entries
    BY <1>1, <2>4
  <2> QED BY <2>1, <2>2, <2>3, <2>4
<1>3. Range(longer) = Range(entries) \cup {e}
  <2>1. ASSUME NEW i \in DOMAIN longer PROVE longer[i] \in Range(entries) \cup {e}
    <3>1. CASE i \in DOMAIN entries
      BY <1>1, <3>1 DEF Range
    <3>2. CASE i = Len(entries) + 1
      BY <1>1, <3>2
    <3> QED BY <1>1, <3>1, <3>2
  <2>2. ASSUME NEW i \in DOMAIN entries PROVE entries[i] \in Range(longer)
    <3>1. i \in DOMAIN longer /\ longer[i] = entries[i]
      BY <1>1
    <3> QED BY <3>1 DEF Range
  <2>3. e \in Range(longer)
    <3>1. Len(entries) + 1 \in DOMAIN longer
      BY <1>1
    <3> QED BY <1>1, <3>1 DEF Range
  <2> QED BY <2>1, <2>2, <2>3 DEF Range
<1> QED BY <1>1, <1>2, <1>3 DEF longer

LEMMA NewestTidy ==
  ASSUME NEW entries \in Seq(Entry), Once(entries), entries # <<>>
  PROVE  /\ Tidy(Newest(entries))
         /\ Range(Newest(entries)) \subseteq Range(entries)
         /\ entries[Len(entries)] \in Range(Newest(entries))
<1> DEFINE n == Len(entries)
           from == Max({1, n - Retained + 1})
           kept == Newest(entries)
<1>1. n \in Nat /\ n > 0 /\ DOMAIN entries = 1..n /\ \A i \in 1..n : entries[i] \in Entry
  OBVIOUS
<1>2. Retained \in Nat /\ Retained > 0
  BY SideJobsAssumption DEF SideJobsAssumption
<1>3. from \in {1, n - Retained + 1} /\ from >= 1 /\ from >= n - Retained + 1
  <2>1. \E x \in {1, n - Retained + 1} : \A y \in {1, n - Retained + 1} : x >= y
    <3>1. 1 >= n - Retained + 1 \/ n - Retained + 1 >= 1
      BY <1>1, <1>2
    <3> QED BY <3>1, <1>1, <1>2
  <2> QED BY <2>1 DEF Max
<1>4. from \in 1..n
  BY <1>1, <1>2, <1>3
<1> HIDE DEF n, from
<1>5. /\ kept \in Seq(Entry) /\ Len(kept) = n - from + 1
      /\ \A i \in 1..(n - from + 1) : kept[i] = entries[from + i - 1]
  <2>1. \A i \in from..n : entries[i] \in Entry
    BY <1>1, <1>4
  <2>2. kept = SubSeq(entries, from, n) /\ from \in Int /\ n \in Int /\ from <= n
    BY <1>1, <1>4 DEF Newest, n, from
  <2> HIDE DEF kept
  <2>3. /\ SubSeq(entries, from, n) \in Seq(Entry)
        /\ Len(SubSeq(entries, from, n)) = IF from <= n THEN n - from + 1 ELSE 0
        /\ \A i \in 1..(n - from + 1) : SubSeq(entries, from, n)[i] = entries[from + i - 1]
    BY <2>1, <2>2
  <2> QED BY <2>2, <2>3
<1> HIDE DEF kept
<1>6. DOMAIN kept = 1..(n - from + 1)
  BY <1>5
<1>7. \A i \in DOMAIN kept : from + i - 1 \in DOMAIN entries /\ kept[i] = entries[from + i - 1]
  BY <1>1, <1>4, <1>5, <1>6
<1>8. Once(kept)
  BY <1>4, <1>6, <1>7 DEF Once
<1>9. Len(kept) <= Retained
  BY <1>1, <1>2, <1>3, <1>4, <1>5
<1>10. Range(kept) \subseteq Range(entries)
  BY <1>7 DEF Range
<1>11. entries[n] \in Range(kept)
  <2>1. n - from + 1 \in DOMAIN kept /\ kept[n - from + 1] = entries[n]
    BY <1>1, <1>4, <1>5, <1>6
  <2> QED BY <2>1 DEF Range
<1> QED BY <1>5, <1>8, <1>9, <1>10, <1>11 DEF Tidy, n, kept

\* Creating: 
LEMMA CreatedTidy ==
  ASSUME NEW entries, Tidy(entries), NEW j \in Nat, ~Has(entries, j), NEW status \in Status
  PROVE  /\ Tidy(Created(entries, j, status))
         /\ Range(Created(entries, j, status)) \subseteq Range(entries) \cup {[job |-> j, status |-> status]}
         /\ [job |-> j, status |-> status] \in Range(Created(entries, j, status))
<1> DEFINE e == [job |-> j, status |-> status]
<1>1. e \in Entry /\ e.job = j
  BY DEF Entry
<1>2. entries \in Seq(Entry) /\ Once(entries)
  BY DEF Tidy
<1>3. /\ Append(entries, e) \in Seq(Entry) /\ Once(Append(entries, e))
      /\ Len(Append(entries, e)) = Len(entries) + 1
      /\ Range(Append(entries, e)) = Range(entries) \cup {e}
  BY <1>1, <1>2, AppendTidy
<1>4. Append(entries, e) # <<>> /\ Append(entries, e)[Len(entries) + 1] = e
  BY <1>1, <1>2
<1> HIDE DEF e
<1> QED BY <1>3, <1>4, NewestTidy DEF Created, e

\* Dropping the entry of a job.
LEMMA OthersTidy ==
  ASSUME NEW entries, Tidy(entries), NEW j, Has(entries, j)
  PROVE  /\ Others(entries, j) \in Seq(Entry) /\ Once(Others(entries, j))
         /\ Len(Others(entries, j)) = Len(entries) - 1
         /\ Range(Others(entries, j)) = {e \in Range(entries) : e.job # j}
<1> DEFINE n == Len(entries)
           p == Place(entries, j)
           front == SubSeq(entries, 1, p - 1)
           back == SubSeq(entries, p + 1, n)
           rest == Others(entries, j)
<1>1. n \in Nat /\ DOMAIN entries = 1..n /\ \A i \in 1..n : entries[i] \in Entry
  BY DEF Tidy
<1>2. p \in 1..n /\ entries[p].job = j
  BY <1>1 DEF Has, Place
<1>3. rest = front \o back
  BY DEF Others, RemoveAt
<1> HIDE DEF rest, p, n
<1>4. /\ front \in Seq(Entry) /\ Len(front) = p - 1
      /\ \A i \in 1..(p - 1) : front[i] = entries[i]
  <2>1. \A i \in 1..(p - 1) : entries[i] \in Entry
    BY <1>1, <1>2
  <2>2. 1 \in Int /\ p - 1 \in Int /\ (p - 1) - 1 + 1 = p - 1
    BY <1>1, <1>2
  <2>3. /\ front \in Seq(Entry)
        /\ Len(front) = IF 1 <= p - 1 THEN (p - 1) - 1 + 1 ELSE 0
        /\ \A i \in 1..((p - 1) - 1 + 1) : front[i] = entries[1 + i - 1]
    BY <2>1, <2>2
  <2> HIDE DEF front
  <2> QED BY <2>3, <1>1, <1>2
<1>5. /\ back \in Seq(Entry) /\ Len(back) = n - p
      /\ \A i \in 1..(n - p) : back[i] = entries[p + i]
  <2>1. \A i \in (p + 1)..n : entries[i] \in Entry
    BY <1>1, <1>2
  <2>2. p + 1 \in Int /\ n \in Int
    BY <1>1, <1>2
  <2>3. /\ back \in Seq(Entry)
        /\ Len(back) = IF p + 1 <= n THEN n - (p + 1) + 1 ELSE 0
        /\ \A i \in 1..(n - (p + 1) + 1) : back[i] = entries[(p + 1) + i - 1]
    BY <2>1, <2>2
  <2> HIDE DEF back
  <2> QED BY <2>3, <1>1, <1>2
<1> HIDE DEF front, back
<1>6. /\ rest \in Seq(Entry) /\ Len(rest) = n - 1
      /\ \A i \in 1..(n - 1) : rest[i] = IF i < p THEN entries[i] ELSE entries[i + 1]
  <2>1. /\ front \o back \in Seq(Entry) /\ Len(front \o back) = Len(front) + Len(back)
        /\ \A i \in 1..Len(front) + Len(back) :
             (front \o back)[i] = IF i <= Len(front) THEN front[i] ELSE back[i - Len(front)]
    BY <1>4, <1>5
  <2> HIDE DEF rest
  <2>2. \A i \in 1..(n - 1) : (front \o back)[i] = IF i < p THEN entries[i] ELSE entries[i + 1]
    <3> SUFFICES ASSUME NEW i \in 1..(n - 1)
                 PROVE  (front \o back)[i] = IF i < p THEN entries[i] ELSE entries[i + 1]
      OBVIOUS
    <3>1. CASE i < p
      BY <3>1, <2>1, <1>1, <1>2, <1>4, <1>5
    <3>2. CASE i >= p
      <4>1. (front \o back)[i] = back[i - (p - 1)]
        BY <3>2, <2>1, <1>1, <1>2, <1>4, <1>5
      <4>2. i - (p - 1) \in 1..(n - p) /\ p + (i - (p - 1)) = i + 1
        BY <3>2, <1>1, <1>2
      <4> QED BY <3>2, <4>1, <4>2, <1>2, <1>5
    <3>3. i < p \/ i >= p
      BY <1>1, <1>2
    <3> QED BY <3>1, <3>2, <3>3, Zenon
  <2>3. Len(front) + Len(back) = n - 1
    BY <1>1, <1>2, <1>4, <1>5
  <2> QED BY <2>1, <2>2, <2>3, <1>3
<1>7. DOMAIN rest = 1..(n - 1)
  BY <1>6
<1>8. \A i \in DOMAIN rest : \E k \in DOMAIN entries : k # p /\ rest[i] = entries[k] /\ k = IF i < p THEN i ELSE i + 1
  BY <1>1, <1>2, <1>6, <1>7
<1>9. Once(rest)
  <2> SUFFICES ASSUME NEW i \in DOMAIN rest, NEW k \in DOMAIN rest, rest[i].job = rest[k].job PROVE i = k
    BY DEF Once
  <2>1. PICK x \in DOMAIN entries : rest[i] = entries[x] /\ x = IF i < p THEN i ELSE i + 1
    BY <1>8
  <2>2. PICK y \in DOMAIN entries : rest[k] = entries[y] /\ y = IF k < p THEN k ELSE k + 1
    BY <1>8
  <2>3. x = y
    BY <2>1, <2>2 DEF Tidy, Once
  <2> QED BY <2>1, <2>2, <2>3, <1>1, <1>2, <1>7
<1>10. \A k \in DOMAIN entries : k # p => entries[k] \in Range(rest)
  <2> SUFFICES ASSUME NEW k \in DOMAIN entries, k # p PROVE entries[k] \in Range(rest)
    OBVIOUS
  <2>1. CASE k < p
    <3>1. k \in DOMAIN rest /\ rest[k] = entries[k]
      BY <2>1, <1>1, <1>2, <1>6, <1>7
    <3> QED BY <3>1 DEF Range
  <2>2. CASE k > p
    <3>1. k - 1 \in DOMAIN rest /\ rest[k - 1] = entries[(k - 1) + 1] /\ (k - 1) + 1 = k
      BY <2>2, <1>1, <1>2, <1>6, <1>7
    <3> QED BY <3>1 DEF Range
  <2> QED BY <2>1, <2>2, <1>1, <1>2
<1>11. \A k \in DOMAIN entries : entries[k].job = j <=> k = p
  BY <1>1, <1>2 DEF Tidy, Once
<1>12. Range(rest) = {e \in Range(entries) : e.job # j}
  <2>1. ASSUME NEW i \in DOMAIN rest PROVE rest[i] \in Range(entries) /\ rest[i].job # j
    BY <1>8, <1>11 DEF Range
  <2>2. ASSUME NEW k \in DOMAIN entries, entries[k].job # j PROVE entries[k] \in Range(rest)
    BY <1>10, <1>11, <2>2
  <2> QED BY <2>1, <2>2 DEF Range
<1> QED BY <1>6, <1>9, <1>12 DEF rest, n

\* Updating.
LEMMA UpdatedTidy ==
  ASSUME NEW entries, Tidy(entries), NEW j \in Nat, NEW status \in Status
  PROVE  /\ Tidy(Updated(entries, j, status))
         /\ Has(entries, j) => Range(Updated(entries, j, status)) =
              {e \in Range(entries) : e.job # j} \cup {[job |-> j, status |-> status]}
         /\ ~Has(entries, j) => Updated(entries, j, status) = entries
<1>1. CASE Has(entries, j)
  <2> DEFINE e == [job |-> j, status |-> status]
  <2>1. e \in Entry /\ e.job = j
    BY DEF Entry
  <2>2. /\ Others(entries, j) \in Seq(Entry) /\ Once(Others(entries, j))
        /\ Len(Others(entries, j)) = Len(entries) - 1
        /\ Range(Others(entries, j)) = {d \in Range(entries) : d.job # j}
    BY <1>1, OthersTidy
  <2>3. ~Has(Others(entries, j), j)
    <3>1. ASSUME NEW i \in DOMAIN Others(entries, j), Others(entries, j)[i].job = j PROVE FALSE
      <4>1. Others(entries, j)[i] \in Range(Others(entries, j))
        BY DEF Range
      <4> QED BY <3>1, <4>1, <2>2
    <3> QED BY <3>1 DEF Has
  <2> HIDE DEF e
  <2>4. /\ Append(Others(entries, j), e) \in Seq(Entry) /\ Once(Append(Others(entries, j), e))
        /\ Len(Append(Others(entries, j), e)) = Len(Others(entries, j)) + 1
        /\ Range(Append(Others(entries, j), e)) = Range(Others(entries, j)) \cup {e}
    BY <2>1, <2>2, <2>3, AppendTidy
  <2>5. Updated(entries, j, status) = Append(Others(entries, j), e)
    BY <1>1 DEF Updated, UpdatedAnyway, e
  <2>6. Len(entries) \in Nat /\ Len(entries) <= Retained
    BY DEF Tidy
  <2>7. Tidy(Updated(entries, j, status))
    BY <2>2, <2>4, <2>5, <2>6 DEF Tidy
  <2> QED BY <1>1, <2>2, <2>4, <2>5, <2>7 DEF e
<1>2. CASE ~Has(entries, j)
  BY <1>2 DEF Updated
<1> QED BY <1>1, <1>2

\* The order in which a restart leaves the entries is one.
LEMMA InOrderIs ==
  ASSUME NEW entries, Tidy(entries)
  PROVE  InOrder(entries) \in Bijection(DOMAIN entries, DOMAIN entries)
<1> DEFINE n == Len(entries)
           R == {w \in (1..n) \X (1..n) : Before(entries, w[1], w[2])}
<1>1. n \in Nat /\ DOMAIN entries = 1..n
  BY DEF Tidy
<1>2. \A x \in 1..n : entries[x].job \in Nat
  <2>1. \A x \in 1..n : entries[x] \in Entry
    BY DEF Tidy
  <2> QED BY <2>1 DEF Entry
<1>3. \A x, y \in 1..n : entries[x].job = entries[y].job => x = y
  BY <1>1 DEF Tidy, Once
<1> HIDE DEF n
<1>4. R \in SUBSET ((1..n) \X (1..n)) /\ \A x, y \in 1..n : <<x, y>> \in R <=> Before(entries, x, y)
  OBVIOUS
<1>5. \A x \in 1..n : ~Before(entries, x, x)
  BY <1>1, <1>2 DEF Before
<1>6. \A x, y \in 1..n : x # y => Before(entries, x, y) \/ Before(entries, y, x)
  BY <1>1, <1>2, <1>3 DEF Before
<1>7. \A x, y, z \in 1..n : Before(entries, x, y) /\ Before(entries, y, z) => Before(entries, x, z)
  BY <1>1, <1>2 DEF Before
<1> HIDE DEF R
<1>8. \E p \in Bijection(1..n, 1..n) : \A i, k \in 1..n : i < k => <<p[i], p[k]>> \in R
  BY <1>1, <1>4, <1>5, <1>6, <1>7, SortingExists
<1>9. \A p \in Bijection(1..n, 1..n) : \A i \in 1..n : p[i] \in 1..n
  BY DEF Bijection, Surjection
<1>10. \E p \in Bijection(1..n, 1..n) : \A i, k \in 1..n : i < k => Before(entries, p[i], p[k])
  BY <1>4, <1>8, <1>9
<1> QED BY <1>1, <1>10 DEF InOrder

\* A restart keeps every entry, and none is left open.
LEMMA InterruptedTidy ==
  ASSUME NEW entries, Tidy(entries)
  PROVE  /\ Tidy(Interrupted(entries))
         /\ Range(Interrupted(entries)) = {Failed(e) : e \in Range(entries)}
<1> DEFINE n == Len(entries)
           order == InOrder(entries)
           left == Interrupted(entries)
<1>1. n \in Nat /\ DOMAIN entries = 1..n /\ \A i \in 1..n : entries[i] \in Entry
  BY DEF Tidy
<1>2. order \in Bijection(1..n, 1..n)
  BY <1>1, InOrderIs
<1>3. \A i \in 1..n : order[i] \in 1..n
  BY <1>2 DEF Bijection, Surjection
<1>4. \A i, k \in 1..n : order[i] = order[k] => i = k
  <2>1. DOMAIN order = 1..n /\ IsInjective(order)
    BY <1>2 DEF Bijection, Injection
  <2> QED BY <2>1 DEF IsInjective
<1>5. \A k \in 1..n : \E i \in 1..n : order[i] = k
  BY <1>2 DEF Bijection, Surjection
<1>6. \A e \in Entry : Failed(e) \in Entry /\ Failed(e).job = e.job
  BY DEF Entry, Failed, Open, Status, Final
<1>7. left = [i \in 1..n |-> Failed(entries[order[i]])]
  BY <1>1 DEF Interrupted
<1> HIDE DEF n, order, left
<1>8. left \in Seq(Entry) /\ Len(left) = n /\ DOMAIN left = 1..n
  <2>1. \A i \in 1..n : Failed(entries[order[i]]) \in Entry
    BY <1>1, <1>3, <1>6
  <2> QED BY <1>1, <1>7, <2>1
<1>9. Once(left)
  <2> SUFFICES ASSUME NEW i \in 1..n, NEW k \in 1..n, left[i].job = left[k].job PROVE i = k
    BY <1>8 DEF Once
  <2>1. left[i].job = entries[order[i]].job /\ left[k].job = entries[order[k]].job
    BY <1>1, <1>3, <1>6, <1>7
  <2>2. order[i] = order[k]
    BY <1>1, <1>3, <2>1 DEF Tidy, Once
  <2> QED BY <1>4, <2>2
<1>10. Range(left) = {Failed(e) : e \in Range(entries)}
  <2>1. Range(left) = {left[i] : i \in 1..n} /\ Range(entries) = {entries[k] : k \in 1..n}
    BY <1>1, <1>8 DEF Range
  <2>2. \A i \in 1..n : left[i] = Failed(entries[order[i]])
    BY <1>7
  <2> HIDE DEF Failed
  <2>3. ASSUME NEW x \in Range(left) PROVE \E e \in Range(entries) : x = Failed(e)
    BY <1>3, <2>1, <2>2
  <2>4. ASSUME NEW e \in Range(entries) PROVE Failed(e) \in Range(left)
    <3>1. PICK k \in 1..n : e = entries[k]
      BY <2>1
    <3>2. PICK i \in 1..n : order[i] = k
      BY <1>5
    <3> QED BY <2>1, <2>2, <3>1, <3>2
  <2> QED BY <2>3, <2>4
<1> QED BY <1>1, <1>8, <1>9, <1>10 DEF Tidy, left, n

\* Has, by the members.
LEMMA HasIs ==
  ASSUME NEW entries, NEW j
  PROVE  Has(entries, j) <=> \E e \in Range(entries) : e.job = j
BY DEF Has, Range

LEMMA CreatedFacts ==
  ASSUME NEW entries, Tidy(entries), NEW j \in Nat, ~Has(entries, j), NEW status \in Status
  PROVE  /\ Tidy(Created(entries, j, status))
         /\ \A e \in Range(Created(entries, j, status)) :
              (e \in Range(entries) /\ e.job # j) \/ e = [job |-> j, status |-> status]
         /\ Has(Created(entries, j, status), j)
         /\ \A i : Has(Created(entries, j, status), i) => i = j \/ Has(entries, i)
<1> DEFINE new == [job |-> j, status |-> status]
           made == Created(entries, j, status)
<1>1. Tidy(made) /\ Range(made) \subseteq Range(entries) \cup {new} /\ new \in Range(made)
  BY CreatedTidy
<1>2. new.job = j
  OBVIOUS
<1>3. \A e \in Range(entries) : e.job # j
  BY HasIs
<1> HIDE DEF new, made
<1>4. Has(made, j) /\ \A i : Has(made, i) => i = j \/ Has(entries, i)
  BY <1>1, <1>2, HasIs
<1>5. \A e \in Range(made) : (e \in Range(entries) /\ e.job # j) \/ e = new
  BY <1>1, <1>3
<1> QED BY <1>1, <1>4, <1>5 DEF new, made

LEMMA UpdatedFacts ==
  ASSUME NEW entries, Tidy(entries), NEW j \in Nat, NEW status \in Status
  PROVE  /\ Tidy(Updated(entries, j, status))
         /\ \A e \in Range(Updated(entries, j, status)) :
              (e \in Range(entries) /\ e.job # j) \/ (Has(entries, j) /\ e = [job |-> j, status |-> status])
         /\ \A i : Has(Updated(entries, j, status), i) <=> Has(entries, i)
<1> DEFINE new == [job |-> j, status |-> status]
           made == Updated(entries, j, status)
<1>1. Tidy(made) /\ (Has(entries, j) => Range(made) = {e \in Range(entries) : e.job # j} \cup {new})
      /\ (~Has(entries, j) => made = entries)
  BY UpdatedTidy
<1>2. new.job = j
  OBVIOUS
<1> HIDE DEF new, made
<1>3. CASE Has(entries, j)
  <2>1. \A i : Has(made, i) <=> Has(entries, i)
    BY <1>1, <1>2, <1>3, HasIs
  <2> QED BY <1>1, <1>3, <2>1 DEF new, made
<1>4. CASE ~Has(entries, j)
  <2>1. \A e \in Range(entries) : e.job # j
    BY <1>4, HasIs
  <2> QED BY <1>1, <1>4, <2>1 DEF made
<1> QED BY <1>3, <1>4

LEMMA InterruptedFacts ==
  ASSUME NEW entries, Tidy(entries)
  PROVE  /\ Tidy(Interrupted(entries))
         /\ \A i : Has(Interrupted(entries), i) <=> Has(entries, i)
<1>1. Tidy(Interrupted(entries)) /\ Range(Interrupted(entries)) = {Failed(e) : e \in Range(entries)}
  BY InterruptedTidy
<1>2. \A e \in Range(entries) : Failed(e).job = e.job
  <2>1. \A e \in Range(entries) : e \in Entry
    BY DEF Tidy, Range
  <2> QED BY <2>1 DEF Failed, Open, Entry
<1>3. \A i : Has(Interrupted(entries), i) <=> Has(entries, i)
  BY <1>1, <1>2, HasIs
<1> QED BY <1>1, <1>3

\* Jobs, and where their threads are.
Steps == {"none", "register", "reused", "begin", "tell begin", "work", "end", "tell end", "done"}
Job == [kind : Controllers \cup {"agent"}, process : {"running", "ok", "bad"}, pc : Steps,
        born : Nat, trimmed : BOOLEAN]
JobTypes == /\ jobs \in Seq(Job) /\ reboots \in Nat
            /\ handle \in [Controllers -> Nat]
            /\ shown \in [Controllers -> [job : Nat, status : Status \cup {"idle"}]]
            /\ Tidy(registry) /\ Tidy(store)
            /\ \A j : Has(registry, j) \/ Has(store, j) => j \in JobIds
            /\ \A j \in JobIds : jobs[j].born <= reboots

\* A controller holds a process of its own, and only one with a stop button was told to stop.
Holding == \A c \in Controllers : handle[c] # 0 =>
  /\ handle[c] \in JobIds /\ jobs[handle[c]].kind = c
  /\ shown[c].job = handle[c]
  /\ shown[c].status = "stopping" => c \in Stoppable

\* What is known of an agent job by where its thread is; one that the store dropped is marked.
AgentAt(job) ==
  /\ job.kind = "agent" <=> job.pc # "none"
  /\ job.pc \in {"register", "begin", "tell begin", "work"} => job.process = "running"
  /\ job.pc \in {"end", "tell end", "done"} => job.process # "running"
  /\ job.pc = "reused" => job.process = "ok"
Agents == \A j \in JobIds :
  /\ AgentAt(jobs[j])
  /\ jobs[j].pc \in {"register", "reused"} => ~Has(registry, j)
  /\ IsAgent(j) /\ ~jobs[j].trimmed => Has(store, j)

\* A process that no controller holds has ended, or is left from before a restart.
Loose(j) == \A c \in Controllers : handle[c] # j
Processes == \A j \in JobIds : ~IsAgent(j) /\ jobs[j].born = reboots /\ Loose(j) => ~Running(j)

\* What the registry says of a job that is over.
Outcomes == \A e \in Range(registry) : jobs[e.job].born = reboots /\ ~jobs[e.job].trimmed =>
  /\ jobs[e.job].pc = "done" => e.status = AgentStatus(e.job)
  /\ ~IsAgent(e.job) /\ Loose(e.job) =>
       e.status = AgentStatus(e.job) \/ (jobs[e.job].kind \in Stoppable /\ e.status = "stopped")

SideIInv == JobTypes /\ Holding /\ Agents /\ Processes /\ Outcomes

\* The state after a step, in terms of the operators.
LEMMA AfterStep ==
  /\ \A i : Has(registry, i)' <=> Has(registry', i)
  /\ \A i : Has(store, i)' <=> Has(store', i)
  /\ Tidy(registry)' <=> Tidy(registry')
  /\ Tidy(store)' <=> Tidy(store')
BY DEF Has, Tidy, Once

LEMMA JobIs ==
  ASSUME jobs \in Seq(Job), NEW j \in JobIds
  PROVE  /\ jobs[j] \in Job /\ j \in Nat \ {0}
         /\ jobs[j].kind \in Controllers \cup {"agent"} /\ jobs[j].process \in {"running", "ok", "bad"}
         /\ jobs[j].pc \in Steps /\ jobs[j].born \in Nat /\ jobs[j].trimmed \in BOOLEAN
<1>1. jobs[j] \in Job /\ j \in Nat \ {0}
  BY DEF JobIds
<1> QED BY <1>1 DEF Job

LEMMA OneJob ==
  ASSUME jobs \in Seq(Job), NEW j \in JobIds, NEW job \in Job, jobs' = [jobs EXCEPT ![j] = job]
  PROVE  /\ jobs' \in Seq(Job) /\ JobIds' = JobIds
         /\ \A i \in JobIds : jobs'[i] = IF i = j THEN job ELSE jobs[i]
BY DEF JobIds

\* An agent's thread goes on.
Advances(j, pc, process) ==
  /\ pc \in Steps \ {"none", "register", "reused"} /\ process \in {"running", "ok", "bad"}
  /\ jobs' = [jobs EXCEPT ![j] = [jobs[j] EXCEPT !.pc = pc, !.process = process]]
  /\ UNCHANGED <<handle, shown, reboots>>
  /\ pc \in {"begin", "tell begin", "work"} => process = "running"
  /\ pc \in {"end", "tell end", "done"} => process # "running"
  /\ Tidy(registry') /\ Tidy(store')
  /\ \A i : Has(store', i) <=> Has(store, i)
  /\ \A e \in Range(registry') :
       \/ e \in Range(registry) /\ e.job # j
       \/ e.job = j /\ (pc = "done" => jobs[j].trimmed \/ e.status = IF process = "ok" THEN "succeeded" ELSE "failed")

LEMMA AgentStep ==
  ASSUME SideIInv, NEW j \in JobIds, IsAgent(j), NEW pc, NEW process, Advances(j, pc, process)
  PROVE  SideIInv'
<1> DEFINE job == [jobs[j] EXCEPT !.pc = pc, !.process = process]
<1> USE DEF Advances
<1>0. JobTypes /\ Holding /\ Agents /\ Processes /\ Outcomes
  BY DEF SideIInv
<1>1. jobs[j] \in Job
  <2>1. jobs \in Seq(Job)
    BY <1>0 DEF JobTypes
  <2> QED BY <2>1, JobIs, Zenon
<1>2. /\ job \in Job /\ job.kind = jobs[j].kind /\ job.pc = pc /\ job.process = process
      /\ job.born = jobs[j].born /\ job.trimmed = jobs[j].trimmed
  BY <1>1 DEF Job
<1> HIDE DEF job
<1>3. /\ jobs' \in Seq(Job) /\ JobIds' = JobIds
      /\ \A i \in JobIds : jobs'[i] = IF i = j THEN job ELSE jobs[i]
  BY <1>2, OneJob DEF SideIInv, JobTypes, job
<1>4. \A i : Has(registry', i) => i \in JobIds
  <2>1. \A e \in Range(registry) : e.job \in JobIds
    BY HasIs DEF SideIInv, JobTypes
  <2>2. \A e \in Range(registry') : e.job \in JobIds
    BY <2>1
  <2> QED BY <2>2, HasIs
<1>5. JobTypes'
  <2>1. \A i : Has(store', i) => i \in JobIds
    BY DEF SideIInv, JobTypes
  <2>2. \A i \in JobIds' : jobs'[i].born <= reboots'
    <3> SUFFICES ASSUME NEW i \in JobIds PROVE jobs'[i].born <= reboots
      BY <1>3
    <3>1. jobs[i].born <= reboots
      BY <1>0 DEF JobTypes
    <3>2. jobs'[i].born = jobs[i].born
      BY <1>2, <1>3
    <3> QED BY <3>1, <3>2
  <2> QED BY <1>0, <1>3, <1>4, <2>1, <2>2, AfterStep DEF JobTypes
<1>6. \A i \in JobIds : jobs'[i].kind = jobs[i].kind /\ jobs'[i].born = jobs[i].born /\ (i # j => jobs'[i] = jobs[i])
  BY <1>2, <1>3
<1>7. Holding'
  BY ZenonT(30), <1>0, <1>3, <1>6 DEF Holding
<1>8. Agents'
  <2>1. AgentAt(job)
    BY <1>0, <1>2 DEF AgentAt, IsAgent, Agents
  <2>2. \A i \in JobIds : i # j /\ Has(registry', i) => Has(registry, i)
    BY HasIs
  <2> SUFFICES ASSUME NEW i \in JobIds
               PROVE  /\ AgentAt(jobs'[i])
                      /\ jobs'[i].pc \in {"register", "reused"} => ~Has(registry', i)
                      /\ jobs'[i].kind = "agent" /\ ~jobs'[i].trimmed => Has(store', i)
    BY <1>3, AfterStep DEF Agents, IsAgent, AgentAt
  <2>3. CASE i = j
    BY ZenonT(30), <1>0, <1>2, <1>3, <2>1, <2>3 DEF Agents, IsAgent
  <2>4. CASE i # j
    BY <1>0, <1>3, <2>2, <2>4 DEF Agents, IsAgent
  <2> QED BY <2>3, <2>4
<1>9. Processes'
  BY ZenonT(30), <1>0, <1>3, <1>6 DEF Processes, IsAgent, Loose, Running
<1>10. Outcomes'
  <2> SUFFICES ASSUME NEW e \in Range(registry'), jobs'[e.job].born = reboots', ~jobs'[e.job].trimmed
               PROVE  /\ jobs'[e.job].pc = "done" => e.status = AgentStatus(e.job)'
                      /\ ~IsAgent(e.job)' /\ Loose(e.job)' =>
                           e.status = AgentStatus(e.job)' \/ (jobs'[e.job].kind \in Stoppable /\ e.status = "stopped")
    BY DEF Outcomes
  <2>1. e.job \in JobIds
    BY <1>4, HasIs
  <2>2. CASE e.job = j
    BY <1>2, <1>3, <2>2 DEF IsAgent, AgentStatus
  <2>3. CASE e.job # j
    <3>1. e \in Range(registry) /\ jobs'[e.job] = jobs[e.job]
      BY <1>3, <2>1, <2>3
    <3> QED BY <1>0, <3>1 DEF Outcomes, IsAgent, AgentStatus, Loose
  <2> QED BY <2>2, <2>3
<1> QED BY <1>5, <1>7, <1>8, <1>9, <1>10 DEF SideIInv

LEMMA GoesIs ==
  ASSUME JobTypes, NEW j \in JobIds, NEW pc, Goes(j, pc)
  PROVE  jobs' = [jobs EXCEPT ![j] = [jobs[j] EXCEPT !.pc = pc, !.process = jobs[j].process]]
<1>1. jobs[j] \in Job
  BY JobIs DEF JobTypes
<1>2. [jobs[j] EXCEPT !.pc = pc] = [jobs[j] EXCEPT !.pc = pc, !.process = jobs[j].process]
  BY <1>1 DEF Job
<1>3. jobs' = [jobs EXCEPT ![j] = [jobs[j] EXCEPT !.pc = pc]]
  BY DEF Goes
<1> QED BY <1>2, <1>3

\* The steps of an agent's thread.
LEMMA AgentSteps ==
  ASSUME SideIInv, NEW j \in JobIds,
         \/ RegisterAgentJob(j) \/ RegisterReused(j) \/ ReportRunning(j) \/ TellRunning(j)
         \/ AgentWorks(j) \/ ReportEnd(j) \/ TellEnd(j)
  PROVE  SideIInv'
<1>1. JobTypes /\ Agents /\ Tidy(registry) /\ Tidy(store)
  BY DEF SideIInv, JobTypes
<1>2. /\ jobs[j].pc \in Steps /\ jobs[j].process \in {"running", "ok", "bad"} /\ jobs[j] \in Job
      /\ j \in Nat
  BY <1>1, JobIs DEF JobTypes
<1>3. /\ AgentAt(jobs[j]) /\ IsAgent(j) <=> jobs[j].pc # "none"
      /\ jobs[j].pc \in {"register", "reused"} => ~Has(registry, j)
      /\ IsAgent(j) /\ ~jobs[j].trimmed => Has(store, j)
  BY <1>1 DEF Agents, AgentAt, IsAgent
<1>4. AgentStatus(j) = IF jobs[j].process = "ok" THEN "succeeded" ELSE "failed"
  BY DEF AgentStatus
<1>5. AgentStatus(j) \in Status /\ {"queued", "running", "succeeded"} \subseteq Status
  BY <1>4 DEF Status, Final
<1>6. store' = store => \A i : Has(store', i) <=> Has(store, i)
  OBVIOUS
<1>7. CASE RegisterAgentJob(j)
  <2>1. Goes(j, "begin") /\ jobs[j].pc = "register" /\ registry' = Created(registry, j, "queued")
        /\ UNCHANGED <<handle, shown, store, reboots>>
    BY <1>7 DEF RegisterAgentJob
  <2>2. /\ Tidy(registry')
        /\ \A e \in Range(registry') : (e \in Range(registry) /\ e.job # j) \/ e.job = j
    BY <1>1, <1>2, <1>3, <1>5, <2>1, CreatedFacts
  <2>3. jobs' = [jobs EXCEPT ![j] = [jobs[j] EXCEPT !.pc = "begin", !.process = jobs[j].process]]
    BY <1>1, <2>1, GoesIs
  <2>4. jobs[j].process = "running" /\ IsAgent(j)
    BY <1>3, <2>1 DEF AgentAt
  <2>5. Tidy(store') /\ \A i : Has(store', i) <=> Has(store, i)
    BY <1>1, <1>6, <2>1
  <2>6. "begin" \in Steps
    BY DEF Steps
  <2>7. Advances(j, "begin", jobs[j].process)
    BY <1>2, <2>1, <2>2, <2>3, <2>4, <2>5, <2>6 DEF Advances
  <2> QED BY <2>7, <2>4, AgentStep
<1>8. CASE RegisterReused(j)
  <2>1. Goes(j, "done") /\ jobs[j].pc = "reused" /\ UNCHANGED <<handle, shown, store, reboots>>
        /\ registry' = Updated(Created(registry, j, "queued"), j, "succeeded")
    BY <1>8 DEF RegisterReused
  <2> DEFINE made == Created(registry, j, "queued")
  <2>2. /\ Tidy(made) /\ Has(made, j)
        /\ \A e \in Range(made) : (e \in Range(registry) /\ e.job # j) \/ e.job = j
    BY <1>1, <1>2, <1>3, <1>5, <2>1, CreatedFacts
  <2>3. /\ Tidy(registry')
        /\ \A e \in Range(registry') : (e \in Range(made) /\ e.job # j) \/ e = [job |-> j, status |-> "succeeded"]
    <3> HIDE DEF made
    <3> QED BY <1>2, <1>5, <2>1, <2>2, UpdatedFacts DEF made
  <2>4. jobs' = [jobs EXCEPT ![j] = [jobs[j] EXCEPT !.pc = "done", !.process = jobs[j].process]]
    BY <1>1, <2>1, GoesIs
  <2>5. jobs[j].process = "ok" /\ IsAgent(j)
    BY <1>3, <2>1 DEF AgentAt
  <2>6. \A e \in Range(registry') : \/ e \in Range(registry) /\ e.job # j
                                    \/ e.job = j /\ e.status = "succeeded"
    BY <2>2, <2>3
  <2> HIDE DEF made
  <2>7. Tidy(store') /\ \A i : Has(store', i) <=> Has(store, i)
    BY <1>1, <1>6, <2>1
  <2>8. "done" \in Steps
    BY DEF Steps
  <2>9. Advances(j, "done", jobs[j].process)
    BY <1>2, <2>1, <2>3, <2>4, <2>5, <2>6, <2>7, <2>8 DEF Advances
  <2> QED BY <2>9, <2>5, AgentStep
<1>9. CASE ReportRunning(j) \/ ReportEnd(j)
  <2>1. \E status \in {"running", AgentStatus(j)}, told, untold \in Steps :
          /\ Report(j, status, told, untold)
          /\ \/ jobs[j].pc = "begin" /\ told = "tell begin" /\ untold = "work"
             \/ jobs[j].pc = "end" /\ told = "tell end" /\ untold = "done"
    BY <1>9 DEF ReportRunning, ReportEnd, Steps
  <2>2. PICK status \in {"running", AgentStatus(j)}, told \in Steps, untold \in Steps :
          /\ Report(j, status, told, untold)
          /\ \/ jobs[j].pc = "begin" /\ told = "tell begin" /\ untold = "work"
             \/ jobs[j].pc = "end" /\ told = "tell end" /\ untold = "done"
    BY <2>1
  <2> DEFINE pc == IF Has(store, j) THEN told ELSE untold
  <2>3. store' = Updated(store, j, status) /\ Goes(j, pc) /\ UNCHANGED <<handle, shown, registry, reboots>>
    BY <2>2 DEF Report
  <2>4. Tidy(store') /\ \A i : Has(store', i) <=> Has(store, i)
    BY <1>1, <1>2, <1>5, <2>3, UpdatedFacts
  <2>5. /\ IsAgent(j) /\ pc \in Steps \ {"none", "register", "reused"}
        /\ pc \in {"begin", "tell begin", "work"} => jobs[j].process = "running"
        /\ pc \in {"end", "tell end", "done"} => jobs[j].process # "running"
        /\ pc = "done" => jobs[j].trimmed
    BY <1>3, <2>2 DEF AgentAt
  <2> HIDE DEF pc
  <2>6. jobs' = [jobs EXCEPT ![j] = [jobs[j] EXCEPT !.pc = pc, !.process = jobs[j].process]]
    BY <1>1, <2>3, GoesIs
  <2>7. Advances(j, pc, jobs[j].process)
    BY <1>1, <1>2, <2>3, <2>4, <2>5, <2>6 DEF Advances
  <2> QED BY <2>7, <2>5, AgentStep
<1>10. CASE TellRunning(j) \/ TellEnd(j)
  <2>1. \E status \in {"running", AgentStatus(j)}, after \in Steps :
          /\ Tell(j, status, after)
          /\ \/ jobs[j].pc = "tell begin" /\ after = "work"
             \/ jobs[j].pc = "tell end" /\ after = "done" /\ status = AgentStatus(j)
    BY <1>10 DEF TellRunning, TellEnd, Steps
  <2>2. PICK status \in {"running", AgentStatus(j)}, after \in Steps :
          /\ Tell(j, status, after)
          /\ \/ jobs[j].pc = "tell begin" /\ after = "work"
             \/ jobs[j].pc = "tell end" /\ after = "done" /\ status = AgentStatus(j)
    BY <2>1
  <2>3. registry' = Updated(registry, j, status) /\ Goes(j, after) /\ UNCHANGED <<handle, shown, store, reboots>>
    BY <2>2 DEF Tell
  <2>4. /\ Tidy(registry')
        /\ \A e \in Range(registry') : (e \in Range(registry) /\ e.job # j) \/ e = [job |-> j, status |-> status]
    BY <1>1, <1>2, <1>5, <2>3, UpdatedFacts
  <2>5. /\ IsAgent(j) /\ after \in Steps \ {"none", "register", "reused"}
        /\ after \in {"begin", "tell begin", "work"} => jobs[j].process = "running"
        /\ after \in {"end", "tell end", "done"} => jobs[j].process # "running"
    BY <1>3, <2>2 DEF AgentAt
  <2>6. jobs' = [jobs EXCEPT ![j] = [jobs[j] EXCEPT !.pc = after, !.process = jobs[j].process]]
    BY <1>1, <2>3, GoesIs
  <2>7. \A e \in Range(registry') : \/ e \in Range(registry) /\ e.job # j
                                    \/ e.job = j /\ (after = "done" => e.status = AgentStatus(j))
    <3>1. after = "done" => status = AgentStatus(j)
      BY <2>2
    <3> QED BY <2>4, <3>1
  <2>8. Tidy(store') /\ \A i : Has(store', i) <=> Has(store, i)
    BY <1>1, <1>6, <2>3
  <2>9. Advances(j, after, jobs[j].process)
    BY <1>2, <1>4, <2>3, <2>4, <2>5, <2>6, <2>7, <2>8 DEF Advances
  <2> QED BY <2>9, <2>5, AgentStep
<1>11. CASE AgentWorks(j)
  <2>1. PICK end \in {"ok", "bad"} : jobs' = [jobs EXCEPT ![j].process = end, ![j].pc = "end"]
    BY <1>11 DEF AgentWorks
  <2>2. jobs[j].pc = "work" /\ UNCHANGED <<handle, shown, registry, store, reboots>>
    BY <1>11 DEF AgentWorks
  <2>3. jobs' = [jobs EXCEPT ![j] = [jobs[j] EXCEPT !.pc = "end", !.process = end]]
    BY <1>1, <1>2, <2>1 DEF Job, JobTypes, JobIds
  <2>4. IsAgent(j) /\ \A e \in Range(registry') : (e \in Range(registry) /\ e.job # j) \/ e.job = j
    BY <1>3, <2>2
  <2>5. Advances(j, "end", end)
    BY <1>1, <1>6, <2>1, <2>2, <2>3, <2>4 DEF Advances, Steps
  <2> QED BY <2>4, <2>5, AgentStep
<1> QED BY <1>7, <1>8, <1>9, <1>10, <1>11

\* A job is added.
LEMMA AddedJob ==
  ASSUME jobs \in Seq(Job), NEW old \in Seq(Job), Len(old) = Len(jobs), NEW job \in Job,
         jobs' = Append(old, job)
  PROVE  /\ jobs' \in Seq(Job) /\ Len(jobs) + 1 \in Nat \ {0} /\ Len(jobs) + 1 \notin JobIds
         /\ JobIds' = JobIds \cup {Len(jobs) + 1}
         /\ \A i \in JobIds : jobs'[i] = old[i] /\ old[i] \in Job
         /\ jobs'[Len(jobs) + 1] = job
BY DEF JobIds

\* A controller's process is started.
LEMMA StartStep ==
  ASSUME SideIInv, NEW c \in Controllers, Start(c)
  PROVE  SideIInv'
<1> DEFINE j == Len(jobs) + 1
           h == handle[c]
           job == [kind |-> c, process |-> "running", pc |-> "none", born |-> reboots, trimmed |-> FALSE]
           told == Created(Seen(c), j, "queued")
<1>0. JobTypes /\ Holding /\ Agents /\ Processes /\ Outcomes
  BY DEF SideIInv
<1>1. /\ ~BusyController(c)
      /\ jobs' = Append(jobs, job)
      /\ handle' = [handle EXCEPT ![c] = j]
      /\ shown' = [shown EXCEPT ![c] = [job |-> j, status |-> "running"]]
      /\ registry' = Updated(told, j, "running")
      /\ UNCHANGED <<store, reboots>>
  BY DEF Start
<1>2. /\ jobs \in Seq(Job) /\ reboots \in Nat /\ Tidy(registry) /\ Tidy(store)
      /\ handle \in [Controllers -> Nat]
      /\ shown \in [Controllers -> [job : Nat, status : Status \cup {"idle"}]]
  BY <1>0 DEF JobTypes
<1>3. job \in Job /\ job.kind = c /\ job.pc = "none" /\ job.born = reboots /\ ~job.trimmed
  BY <1>2 DEF Job, Steps
<1> HIDE DEF job
<1>4. /\ jobs' \in Seq(Job) /\ j \in Nat \ {0} /\ j \notin JobIds
      /\ JobIds' = JobIds \cup {j} /\ (\A i \in JobIds : jobs'[i] = jobs[i]) /\ jobs'[j] = job
  BY <1>1, <1>2, <1>3, AddedJob
<1> HIDE DEF j
<1>5. ~Has(registry, j) /\ \A i : Has(registry, i) => i \in JobIds
  BY <1>0, <1>4 DEF JobTypes
<1>6. h # 0 => EndSeen(c) /\ h \in JobIds /\ jobs[h].kind = c /\ ~Running(h)
  BY <1>0, <1>1 DEF Holding, EndSeen, BusyController
<1>7. "agent" # c /\ {"queued", "running"} \subseteq Status
  BY SideJobsAssumption DEF SideJobsAssumption, Status
<1>8. EndSeen(c) => FinalStatus(c) \in Status /\ (FinalStatus(c) = AgentStatus(h) \/ (c \in Stoppable /\ FinalStatus(c) = "stopped"))
  BY <1>0 DEF FinalStatus, FinalStatusByCode, AgentStatus, Holding, EndSeen, Status, Final
<1>9. /\ Tidy(Seen(c))
      /\ \A e \in Range(Seen(c)) : \/ e \in Range(registry) /\ (h # 0 => e.job # h)
                                   \/ h # 0 /\ e = [job |-> h, status |-> FinalStatus(c)]
      /\ \A i : Has(Seen(c), i) <=> Has(registry, i)
  <2>1. CASE EndSeen(c)
    <3>1. h # 0 /\ h \in Nat /\ Seen(c) = Updated(registry, h, FinalStatus(c))
      BY <1>2, <2>1 DEF EndSeen, Seen
    <3> HIDE DEF h
    <3> QED BY <1>2, <1>8, <2>1, <3>1, UpdatedFacts
  <2>2. CASE ~EndSeen(c)
    BY <1>2, <1>6, <2>2 DEF Seen
  <2> QED BY <2>1, <2>2
<1>10. /\ Tidy(told) /\ Has(told, j)
       /\ \A e \in Range(told) : (e \in Range(Seen(c)) /\ e.job # j) \/ e = [job |-> j, status |-> "queued"]
       /\ \A i : Has(told, i) => i = j \/ Has(Seen(c), i)
  BY <1>4, <1>5, <1>7, <1>9, CreatedFacts
<1> HIDE DEF told
<1>11. /\ Tidy(registry')
       /\ \A e \in Range(registry') : (e \in Range(told) /\ e.job # j) \/ e = [job |-> j, status |-> "running"]
       /\ \A i : Has(registry', i) <=> Has(told, i)
  BY <1>1, <1>4, <1>7, <1>10, UpdatedFacts
<1>12. \A e \in Range(registry') : \/ e \in Range(registry) /\ e.job # j /\ (h # 0 => e.job # h)
                                   \/ h # 0 /\ e = [job |-> h, status |-> FinalStatus(c)]
                                   \/ e.job = j
  BY <1>9, <1>10, <1>11
<1>13. \A i : Has(registry', i) => i = j \/ Has(registry, i)
  BY <1>9, <1>10, <1>11
<1>14. handle' \in [Controllers -> Nat] /\ handle'[c] = j /\ (\A d \in Controllers : d # c => handle'[d] = handle[d])
       /\ shown' \in [Controllers -> [job : Nat, status : Status \cup {"idle"}]]
       /\ shown'[c] = [job |-> j, status |-> "running"] /\ (\A d \in Controllers : d # c => shown'[d] = shown[d])
  BY <1>1, <1>2, <1>4, <1>7
<1>15. JobTypes'
  <2>1. \A i : Has(registry', i) \/ Has(store', i) => i \in JobIds'
    BY <1>0, <1>1, <1>4, <1>13 DEF JobTypes
  <2>2. \A i \in JobIds' : jobs'[i].born <= reboots'
    <3>1. \A i \in JobIds : jobs[i].born <= reboots
      BY <1>0 DEF JobTypes
    <3>2. reboots' = reboots /\ reboots <= reboots
      BY <1>1, <1>2
    <3> QED BY <1>3, <1>4, <3>1, <3>2
  <2> QED BY <1>1, <1>2, <1>4, <1>11, <1>14, <2>1, <2>2, AfterStep DEF JobTypes
<1>16. Holding'
  <2> SUFFICES ASSUME NEW d \in Controllers, handle'[d] # 0
               PROVE  /\ handle'[d] \in JobIds' /\ jobs'[handle'[d]].kind = d
                      /\ shown'[d].job = handle'[d]
                      /\ shown'[d].status = "stopping" => d \in Stoppable
    BY DEF Holding
  <2>1. CASE d = c
    BY <1>3, <1>4, <1>14, <2>1
  <2>2. CASE d # c
    BY <1>0, <1>4, <1>14, <2>2 DEF Holding
  <2> QED BY <2>1, <2>2
<1>17. Agents'
  <2> SUFFICES ASSUME NEW i \in JobIds'
               PROVE  /\ AgentAt(jobs'[i])
                      /\ jobs'[i].pc \in {"register", "reused"} => ~Has(registry', i)
                      /\ jobs'[i].kind = "agent" /\ ~jobs'[i].trimmed => Has(store', i)
    BY AfterStep DEF Agents, IsAgent, AgentAt
  <2>1. CASE i = j
    BY <1>3, <1>4, <1>7, <2>1 DEF AgentAt
  <2>2. CASE i \in JobIds
    BY <1>0, <1>1, <1>4, <1>13, <2>2 DEF Agents, IsAgent
  <2> QED BY <1>4, <2>1, <2>2
<1>18. \A i \in JobIds : Loose(i)' => Loose(i) \/ (h # 0 /\ i = h)
  <2>1. 0 \notin JobIds
    BY <1>2, JobIs
  <2> QED BY <2>1, <1>14 DEF Loose
<1>19. Processes'
  <2> SUFFICES ASSUME NEW i \in JobIds', jobs'[i].kind # "agent", jobs'[i].born = reboots', Loose(i)'
               PROVE  jobs'[i].process # "running"
    BY DEF Processes, IsAgent, Running
  <2>1. i # j
    BY <1>14 DEF Loose
  <2>2. i \in JobIds /\ jobs'[i] = jobs[i]
    BY <1>4, <2>1
  <2> QED BY <1>0, <1>1, <1>6, <1>18, <2>2 DEF Processes, IsAgent, Running
<1>20. Outcomes'
  <2> SUFFICES ASSUME NEW e \in Range(registry'), jobs'[e.job].born = reboots', ~jobs'[e.job].trimmed
               PROVE  /\ jobs'[e.job].pc = "done" => e.status = AgentStatus(e.job)'
                      /\ ~IsAgent(e.job)' /\ Loose(e.job)' =>
                           e.status = AgentStatus(e.job)' \/ (jobs'[e.job].kind \in Stoppable /\ e.status = "stopped")
    BY DEF Outcomes
  <2>1. CASE e.job = j
    <3>1. ~Loose(e.job)'
      BY <1>14, <2>1 DEF Loose
    <3>2. jobs'[e.job].pc # "done"
      BY <1>3, <1>4, <2>1
    <3> QED BY <3>1, <3>2
  <2>2. CASE h # 0 /\ e = [job |-> h, status |-> FinalStatus(c)]
    <3>1. e.job = h /\ e.status = FinalStatus(c) /\ jobs'[h] = jobs[h] /\ jobs[h].kind = c
      BY <1>4, <1>6, <2>2
    <3>2. jobs[h].pc # "done"
      BY <1>0, <1>6, <1>7, <2>2 DEF Agents, AgentAt
    <3>3. AgentStatus(e.job)' = AgentStatus(h)
      BY <3>1 DEF AgentStatus
    <3> QED BY <1>6, <1>8, <2>2, <3>1, <3>2, <3>3
  <2>3. CASE e \in Range(registry) /\ e.job # j /\ (h # 0 => e.job # h)
    <3>1. e.job \in JobIds
      BY <1>5, <2>3, HasIs
    <3>2. jobs'[e.job] = jobs[e.job] /\ (Loose(e.job)' => Loose(e.job))
      BY <1>4, <1>18, <2>3, <3>1
    <3>3. jobs[e.job].born = reboots /\ ~jobs[e.job].trimmed
      BY <1>1, <3>2
    <3> QED BY <1>0, <2>3, <3>2, <3>3 DEF Outcomes, IsAgent, AgentStatus
  <2> QED BY <1>12, <2>1, <2>2, <2>3
<1> QED BY <1>15, <1>16, <1>17, <1>19, <1>20 DEF SideIInv

\* The steps of a controller: its process may be told to stop, may end, and is seen to have ended.
LEMMA RefreshStep ==
  ASSUME SideIInv, NEW c \in Controllers, Refresh(c)
  PROVE  SideIInv'
<1> DEFINE h == handle[c]
           status == FinalStatus(c)
<1>0. JobTypes /\ Holding /\ Agents /\ Processes /\ Outcomes
  BY DEF SideIInv
<1>1. /\ EndSeen(c)
      /\ shown' = [shown EXCEPT ![c].status = status]
      /\ registry' = Updated(registry, h, status)
      /\ handle' = [handle EXCEPT ![c] = 0]
      /\ UNCHANGED <<jobs, store, reboots>>
  BY DEF Refresh
<1>2. /\ handle \in [Controllers -> Nat] /\ Tidy(registry) /\ Tidy(store) /\ h \in Nat /\ reboots \in Nat
      /\ shown \in [Controllers -> [job : Nat, status : Status \cup {"idle"}]]
      /\ jobs \in Seq(Job)
  BY <1>0 DEF JobTypes
<1>3. h # 0 /\ h \in JobIds /\ jobs[h].kind = c /\ ~Running(h) /\ c # "agent"
  BY <1>0, <1>1, SideJobsAssumption DEF Holding, EndSeen, SideJobsAssumption
<1>4. status \in Status /\ (status = AgentStatus(h) \/ (c \in Stoppable /\ status = "stopped"))
  BY <1>0, <1>3 DEF FinalStatus, FinalStatusByCode, AgentStatus, Holding, Status, Final
<1> HIDE DEF h, status
<1>5. /\ Tidy(registry')
      /\ \A e \in Range(registry') : (e \in Range(registry) /\ e.job # h) \/ e = [job |-> h, status |-> status]
      /\ \A i : Has(registry', i) <=> Has(registry, i)
  BY <1>1, <1>2, <1>4, UpdatedFacts
<1>6. /\ handle' \in [Controllers -> Nat] /\ handle'[c] = 0
      /\ \A d \in Controllers : d # c => handle'[d] = handle[d] /\ shown'[d] = shown[d]
      /\ shown' \in [Controllers -> [job : Nat, status : Status \cup {"idle"}]]
  BY <1>1, <1>2, <1>4
<1>7. JobIds' = JobIds /\ jobs' = jobs /\ store' = store /\ reboots' = reboots
  BY <1>1 DEF JobIds
<1>8. JobTypes'
  <2>1. \A i : Has(registry', i) \/ Has(store', i) => i \in JobIds'
    BY <1>0, <1>5, <1>7 DEF JobTypes
  <2>2. \A i \in JobIds' : jobs'[i].born <= reboots'
    BY <1>0, <1>7 DEF JobTypes
  <2> QED BY <1>2, <1>5, <1>6, <1>7, <2>1, <2>2, AfterStep DEF JobTypes
<1>9. Holding'
  BY <1>0, <1>6, <1>7 DEF Holding
<1>10. Agents'
  <2>1. \A i : Has(store', i) <=> Has(store, i)
    BY <1>7
  <2> QED BY <1>0, <1>5, <1>7, <2>1, AfterStep DEF Agents, AgentAt, IsAgent
<1>11. \A i \in JobIds : Loose(i)' => Loose(i) \/ i = h
  BY <1>6 DEF Loose, h
<1>12. Processes'
  BY <1>0, <1>3, <1>7, <1>11 DEF Processes, IsAgent, Running
<1>13. Outcomes'
  <2> SUFFICES ASSUME NEW e \in Range(registry'), jobs[e.job].born = reboots, ~jobs[e.job].trimmed
               PROVE  /\ jobs[e.job].pc = "done" => e.status = AgentStatus(e.job)
                      /\ ~IsAgent(e.job) /\ Loose(e.job)' =>
                           e.status = AgentStatus(e.job) \/ (jobs[e.job].kind \in Stoppable /\ e.status = "stopped")
    BY <1>7 DEF Outcomes, IsAgent, AgentStatus
  <2>1. CASE e = [job |-> h, status |-> status]
    <3>1. e.job = h /\ e.status = status
      BY <2>1
    <3>2. jobs[h].pc # "done"
      BY <1>0, <1>3 DEF Agents, AgentAt
    <3> QED BY <1>3, <1>4, <3>1, <3>2
  <2>2. CASE e \in Range(registry) /\ e.job # h
    <3>1. e.job \in JobIds
      BY <1>0, <2>2, HasIs DEF JobTypes
    <3> QED BY <1>0, <1>11, <2>2, <3>1 DEF Outcomes
  <2> QED BY <1>5, <2>1, <2>2
<1> QED BY <1>8, <1>9, <1>10, <1>12, <1>13 DEF SideIInv

LEMMA StopStep ==
  ASSUME SideIInv, NEW c \in Controllers, Stop(c)
  PROVE  SideIInv'
<1> DEFINE h == handle[c]
<1>0. JobTypes /\ Holding /\ Agents /\ Processes /\ Outcomes
  BY DEF SideIInv
<1>1. /\ c \in Stoppable /\ h # 0 /\ Running(h)
      /\ shown' = [shown EXCEPT ![c].status = "stopping"]
      /\ registry' = Updated(registry, h, "stopping")
      /\ UNCHANGED <<handle, store, reboots>>
  BY DEF Stop
<1>2. PICK end \in {"running", "ok", "bad"} : jobs' = [jobs EXCEPT ![h].process = end]
  BY DEF Stop
<1>3. /\ handle \in [Controllers -> Nat] /\ Tidy(registry) /\ Tidy(store) /\ h \in Nat /\ reboots \in Nat
      /\ shown \in [Controllers -> [job : Nat, status : Status \cup {"idle"}]]
      /\ jobs \in Seq(Job)
  BY <1>0 DEF JobTypes
<1>4. h \in JobIds /\ jobs[h].kind = c /\ c # "agent"
  BY <1>0, <1>1, SideJobsAssumption DEF Holding, SideJobsAssumption
<1> DEFINE job == [jobs[h] EXCEPT !.process = end]
<1>5. jobs[h] \in Job
  BY <1>3, <1>4, JobIs
<1>6. /\ job \in Job /\ job.kind = c /\ job.pc = jobs[h].pc /\ job.born = jobs[h].born
      /\ job.trimmed = jobs[h].trimmed
  BY <1>4, <1>5 DEF Job
<1>7. jobs' = [jobs EXCEPT ![h] = job]
  BY <1>2
<1> HIDE DEF h, job
<1>8. /\ jobs' \in Seq(Job) /\ JobIds' = JobIds
      /\ \A i \in JobIds : jobs'[i] = IF i = h THEN job ELSE jobs[i]
  BY <1>3, <1>4, <1>6, <1>7, OneJob
<1>9. \A i \in JobIds : /\ jobs'[i].kind = jobs[i].kind /\ jobs'[i].pc = jobs[i].pc
                        /\ jobs'[i].born = jobs[i].born /\ jobs'[i].trimmed = jobs[i].trimmed
                        /\ i # h => jobs'[i] = jobs[i]
  BY <1>4, <1>6, <1>8
<1>10. jobs[h].pc = "none"
  <2>1. AgentAt(jobs[h])
    BY <1>0, <1>4 DEF Agents
  <2> QED BY <1>4, <2>1 DEF AgentAt
<1>11. /\ Tidy(registry')
       /\ \A e \in Range(registry') : (e \in Range(registry) /\ e.job # h) \/ e = [job |-> h, status |-> "stopping"]
       /\ \A i : Has(registry', i) <=> Has(registry, i)
  <2>1. "stopping" \in Status
    BY DEF Status
  <2> QED BY <1>1, <1>3, <2>1, UpdatedFacts
<1>12. /\ shown' \in [Controllers -> [job : Nat, status : Status \cup {"idle"}]]
       /\ \A d \in Controllers : shown'[d].job = shown[d].job /\ (d # c => shown'[d] = shown[d])
  BY <1>1, <1>3 DEF Status
<1>13. JobTypes'
  <2>1. \A i : Has(registry', i) \/ Has(store', i) => i \in JobIds'
    BY <1>0, <1>1, <1>8, <1>11 DEF JobTypes
  <2>2. \A i \in JobIds' : jobs'[i].born <= reboots'
    BY <1>0, <1>1, <1>8, <1>9 DEF JobTypes
  <2> QED BY <1>1, <1>3, <1>8, <1>11, <1>12, <2>1, <2>2, AfterStep DEF JobTypes
<1>14. Holding'
  BY <1>0, <1>1, <1>8, <1>9, <1>12 DEF Holding
<1>15. Agents'
  <2> SUFFICES ASSUME NEW i \in JobIds
               PROVE  /\ AgentAt(jobs'[i])
                      /\ jobs'[i].pc \in {"register", "reused"} => ~Has(registry', i)
                      /\ jobs'[i].kind = "agent" /\ ~jobs'[i].trimmed => Has(store', i)
    BY <1>8, AfterStep DEF Agents, IsAgent, AgentAt
  <2>1. CASE i = h
    BY <1>4, <1>9, <1>10, <2>1 DEF AgentAt
  <2>2. CASE i # h
    BY <1>0, <1>1, <1>9, <1>11, <2>2 DEF Agents, IsAgent
  <2> QED BY <2>1, <2>2
<1>16. ~Loose(h) /\ \A i : Loose(i)' <=> Loose(i)
  BY <1>1 DEF Loose, h
<1>17. Processes'
  <2> SUFFICES ASSUME NEW i \in JobIds, jobs'[i].kind # "agent", jobs'[i].born = reboots', Loose(i)'
               PROVE  jobs'[i].process # "running"
    BY <1>8 DEF Processes, IsAgent, Running
  <2>1. Loose(i) /\ jobs'[i] = jobs[i] /\ reboots' = reboots
    BY <1>1, <1>9, <1>16
  <2> QED BY <1>0, <2>1 DEF Processes, IsAgent, Running
<1>18. Outcomes'
  <2> SUFFICES ASSUME NEW e \in Range(registry'), jobs'[e.job].born = reboots', ~jobs'[e.job].trimmed
               PROVE  /\ jobs'[e.job].pc = "done" => e.status = AgentStatus(e.job)'
                      /\ ~IsAgent(e.job)' /\ Loose(e.job)' =>
                           e.status = AgentStatus(e.job)' \/ (jobs'[e.job].kind \in Stoppable /\ e.status = "stopped")
    BY DEF Outcomes
  <2>1. CASE e = [job |-> h, status |-> "stopping"]
    <3>1. e.job = h
      BY <2>1
    <3> QED BY <1>4, <1>9, <1>10, <1>16, <3>1
  <2>2. CASE e \in Range(registry) /\ e.job # h
    <3>1. e.job \in JobIds
      BY <1>0, <2>2, HasIs DEF JobTypes
    <3>2. jobs'[e.job] = jobs[e.job] /\ reboots' = reboots
      BY <1>1, <1>9, <2>2, <3>1
    <3> QED BY <1>0, <1>16, <2>2, <3>2 DEF Outcomes, IsAgent, AgentStatus
  <2> QED BY <1>11, <2>1, <2>2
<1> QED BY <1>13, <1>14, <1>15, <1>17, <1>18 DEF SideIInv

LEMMA ProcessStep ==
  ASSUME SideIInv, NEW j \in JobIds, ProcessEnds(j)
  PROVE  SideIInv'
<1>0. JobTypes /\ Holding /\ Agents /\ Processes /\ Outcomes
  BY DEF SideIInv
<1>1. jobs[j].kind \in Controllers /\ Running(j) /\ UNCHANGED <<handle, shown, registry, store, reboots>>
  BY DEF ProcessEnds
<1>2. PICK end \in {"ok", "bad"} : jobs' = [jobs EXCEPT ![j].process = end]
  BY DEF ProcessEnds
<1> DEFINE job == [jobs[j] EXCEPT !.process = end]
<1>3. jobs \in Seq(Job) /\ jobs[j] \in Job /\ jobs[j].kind # "agent"
  BY <1>0, <1>1, JobIs, SideJobsAssumption DEF JobTypes, SideJobsAssumption
<1>4. /\ job \in Job /\ job.kind = jobs[j].kind /\ job.pc = jobs[j].pc /\ job.born = jobs[j].born
      /\ job.trimmed = jobs[j].trimmed
  BY <1>3 DEF Job
<1>5. jobs' = [jobs EXCEPT ![j] = job]
  BY <1>2
<1> HIDE DEF job
<1>6. /\ jobs' \in Seq(Job) /\ JobIds' = JobIds
      /\ \A i \in JobIds : jobs'[i] = IF i = j THEN job ELSE jobs[i]
  BY <1>3, <1>4, <1>5, OneJob
<1>7. \A i \in JobIds : /\ jobs'[i].kind = jobs[i].kind /\ jobs'[i].pc = jobs[i].pc
                        /\ jobs'[i].born = jobs[i].born /\ jobs'[i].trimmed = jobs[i].trimmed
                        /\ i # j => jobs'[i] = jobs[i]
  BY <1>4, <1>6
<1>8. jobs[j].pc = "none"
  <2>1. AgentAt(jobs[j])
    BY <1>0 DEF Agents
  <2> QED BY <1>3, <2>1 DEF AgentAt
<1>9. ~(jobs[j].born = reboots /\ Loose(j))
  BY <1>0, <1>1, <1>3 DEF Processes, IsAgent
<1>10. JobTypes'
  <2>1. \A i \in JobIds' : jobs'[i].born <= reboots'
    BY <1>0, <1>1, <1>6, <1>7 DEF JobTypes
  <2> QED BY <1>0, <1>1, <1>6, <2>1, AfterStep DEF JobTypes
<1>11. Holding'
  BY <1>0, <1>1, <1>6, <1>7 DEF Holding
<1>12. Agents'
  <2> SUFFICES ASSUME NEW i \in JobIds
               PROVE  /\ AgentAt(jobs'[i])
                      /\ jobs'[i].pc \in {"register", "reused"} => ~Has(registry, i)
                      /\ jobs'[i].kind = "agent" /\ ~jobs'[i].trimmed => Has(store, i)
    BY <1>1, <1>6, AfterStep DEF Agents, IsAgent, AgentAt
  <2>1. CASE i = j
    BY <1>3, <1>7, <1>8, <2>1 DEF AgentAt
  <2>2. CASE i # j
    BY <1>0, <1>7, <2>2 DEF Agents, IsAgent
  <2> QED BY <2>1, <2>2
<1>13. \A i : Loose(i)' <=> Loose(i)
  BY <1>1 DEF Loose
<1>14. Processes'
  <2> SUFFICES ASSUME NEW i \in JobIds, jobs'[i].kind # "agent", jobs'[i].born = reboots', Loose(i)'
               PROVE  jobs'[i].process # "running"
    BY <1>6 DEF Processes, IsAgent, Running
  <2>1. Loose(i) /\ jobs[i].born = reboots /\ reboots' = reboots
    BY <1>1, <1>7, <1>13
  <2>2. i # j
    BY <1>9, <2>1
  <2> QED BY <1>0, <1>7, <2>1, <2>2 DEF Processes, IsAgent, Running
<1>15. Outcomes'
  <2> SUFFICES ASSUME NEW e \in Range(registry), jobs'[e.job].born = reboots, ~jobs'[e.job].trimmed
               PROVE  /\ jobs'[e.job].pc = "done" => e.status = AgentStatus(e.job)'
                      /\ ~IsAgent(e.job)' /\ Loose(e.job) =>
                           e.status = AgentStatus(e.job)' \/ (jobs'[e.job].kind \in Stoppable /\ e.status = "stopped")
    BY <1>1, <1>13 DEF Outcomes
  <2>1. e.job \in JobIds
    BY <1>0, HasIs DEF JobTypes
  <2>2. CASE e.job = j
    BY <1>7, <1>8, <1>9, <2>1, <2>2
  <2>3. CASE e.job # j
    BY <1>0, <1>7, <2>1, <2>3 DEF Outcomes, IsAgent, AgentStatus
  <2> QED BY <2>2, <2>3
<1> QED BY <1>10, <1>11, <1>12, <1>14, <1>15 DEF SideIInv

\* An agent job is created, or a result reused.
LEMMA CreateStep ==
  ASSUME SideIInv, CreateAgentJob \/ ReuseResult
  PROVE  SideIInv'
<1> DEFINE j == Len(jobs) + 1
<1>0. JobTypes /\ Holding /\ Agents /\ Processes /\ Outcomes
  BY DEF SideIInv
<1>1. \E status \in Status, job \in Job :
        /\ store' = Created(store, j, status)
        /\ jobs' = Append([i \in JobIds |-> [jobs[i] EXCEPT !.trimmed = @ \/ (IsAgent(i) /\ ~Has(store', i))]], job)
        /\ job.kind = "agent" /\ AgentAt(job) /\ job.pc \in {"register", "reused"} /\ job.born = reboots
  <2>1. reboots \in Nat /\ {"queued", "succeeded"} \subseteq Status
    BY <1>0 DEF JobTypes, Status, Final
  <2>2. CASE CreateAgentJob
    <3> DEFINE job == [kind |-> "agent", process |-> "running", pc |-> "register", born |-> reboots, trimmed |-> FALSE]
    <3>1. job \in Job /\ AgentAt(job)
      BY <2>1 DEF Job, Steps, AgentAt
    <3> QED BY <2>1, <2>2, <3>1 DEF CreateAgentJob
  <2>3. CASE ReuseResult
    <3> DEFINE job == [kind |-> "agent", process |-> "ok", pc |-> "reused", born |-> reboots, trimmed |-> FALSE]
    <3>1. job \in Job /\ AgentAt(job)
      BY <2>1 DEF Job, Steps, AgentAt
    <3> QED BY <2>1, <2>3, <3>1 DEF ReuseResult
  <2> QED BY <2>2, <2>3
<1>2. PICK status \in Status, job \in Job :
        /\ store' = Created(store, j, status)
        /\ jobs' = Append([i \in JobIds |-> [jobs[i] EXCEPT !.trimmed = @ \/ (IsAgent(i) /\ ~Has(store', i))]], job)
        /\ job.kind = "agent" /\ AgentAt(job) /\ job.pc \in {"register", "reused"} /\ job.born = reboots
  BY <1>1
<1>3. UNCHANGED <<handle, shown, registry, reboots>>
  BY DEF CreateAgentJob, ReuseResult
<1>4. jobs \in Seq(Job) /\ Tidy(store) /\ Tidy(registry) /\ reboots \in Nat
  BY <1>0 DEF JobTypes
<1> DEFINE marked(i) == jobs[i].trimmed \/ (IsAgent(i) /\ ~Has(store', i))
           old == [i \in JobIds |-> [jobs[i] EXCEPT !.trimmed = marked(i)]]
<1>5. \A i \in JobIds : marked(i) \in BOOLEAN
  BY <1>4, JobIs
<1>6. \A i \in JobIds : /\ old[i] \in Job /\ old[i].kind = jobs[i].kind /\ old[i].process = jobs[i].process
                        /\ old[i].pc = jobs[i].pc /\ old[i].born = jobs[i].born /\ old[i].trimmed = marked(i)
  <2> SUFFICES ASSUME NEW i \in JobIds
               PROVE  /\ old[i] \in Job /\ old[i].kind = jobs[i].kind /\ old[i].process = jobs[i].process
                      /\ old[i].pc = jobs[i].pc /\ old[i].born = jobs[i].born /\ old[i].trimmed = marked(i)
    OBVIOUS
  <2>1. old[i] = [jobs[i] EXCEPT !.trimmed = marked(i)] /\ jobs[i] \in Job /\ marked(i) \in BOOLEAN
    BY <1>4, <1>5, JobIs
  <2> HIDE DEF marked, old
  <2> QED BY <2>1 DEF Job
<1>7. jobs' = Append(old, job)
  BY <1>2
<1> HIDE DEF marked
<1>8. old \in Seq(Job) /\ Len(old) = Len(jobs)
  <2>1. JobIds = 1..Len(jobs) /\ Len(jobs) \in Nat
    BY <1>4 DEF JobIds
  <2>2. old \in [1..Len(jobs) -> Job]
    BY <1>6, <2>1
  <2> HIDE DEF old
  <2> QED BY <2>1, <2>2
<1> HIDE DEF old
<1>9. /\ jobs' \in Seq(Job) /\ j \in Nat \ {0} /\ j \notin JobIds
      /\ JobIds' = JobIds \cup {j} /\ (\A i \in JobIds : jobs'[i] = old[i]) /\ jobs'[j] = job
  BY <1>2, <1>4, <1>7, <1>8, AddedJob
<1> HIDE DEF j
<1>10. ~Has(store, j) /\ ~Has(registry, j)
  BY <1>0, <1>9 DEF JobTypes
<1>11. /\ Tidy(store') /\ Has(store', j) /\ \A i : Has(store', i) => i = j \/ Has(store, i)
  BY <1>2, <1>4, <1>9, <1>10, CreatedFacts
<1>12. \A i \in JobIds : /\ jobs'[i].kind = jobs[i].kind /\ jobs'[i].process = jobs[i].process
                         /\ jobs'[i].pc = jobs[i].pc /\ jobs'[i].born = jobs[i].born
                         /\ ~jobs'[i].trimmed => ~jobs[i].trimmed /\ (IsAgent(i) => Has(store', i))
  BY <1>6, <1>9 DEF marked
<1>13. JobTypes'
  <2>1. \A i : Has(registry', i) \/ Has(store', i) => i \in JobIds'
    BY <1>0, <1>3, <1>9, <1>11 DEF JobTypes
  <2>2. \A i \in JobIds' : jobs'[i].born <= reboots'
    <3>1. \A i \in JobIds : jobs[i].born <= reboots
      BY <1>0 DEF JobTypes
    <3>2. reboots' = reboots /\ reboots <= reboots
      BY <1>3, <1>4
    <3> QED BY <1>2, <1>9, <1>12, <3>1, <3>2
  <2> QED BY <1>0, <1>3, <1>9, <1>11, <2>1, <2>2, AfterStep DEF JobTypes
<1>14. Holding'
  BY <1>0, <1>3, <1>9, <1>12 DEF Holding
<1>15. Agents'
  <2> SUFFICES ASSUME NEW i \in JobIds'
               PROVE  /\ AgentAt(jobs'[i])
                      /\ jobs'[i].pc \in {"register", "reused"} => ~Has(registry, i)
                      /\ jobs'[i].kind = "agent" /\ ~jobs'[i].trimmed => Has(store', i)
    BY <1>3, AfterStep DEF Agents, IsAgent, AgentAt
  <2>1. CASE i = j
    BY <1>2, <1>9, <1>10, <1>11, <2>1
  <2>2. CASE i \in JobIds
    <3>1. AgentAt(jobs[i]) /\ (jobs[i].pc \in {"register", "reused"} => ~Has(registry, i))
      BY <1>0, <2>2 DEF Agents
    <3> QED BY <1>12, <2>2, <3>1 DEF AgentAt, IsAgent
  <2> QED BY <1>9, <2>1, <2>2
<1>16. \A i : Loose(i)' <=> Loose(i)
  BY <1>3 DEF Loose
<1>17. Processes'
  <2> SUFFICES ASSUME NEW i \in JobIds', jobs'[i].kind # "agent", jobs'[i].born = reboots', Loose(i)'
               PROVE  jobs'[i].process # "running"
    BY DEF Processes, IsAgent, Running
  <2>1. i \in JobIds
    BY <1>2, <1>9
  <2> QED BY <1>0, <1>3, <1>12, <1>16, <2>1 DEF Processes, IsAgent, Running
<1>18. Outcomes'
  <2> SUFFICES ASSUME NEW e \in Range(registry), jobs'[e.job].born = reboots, ~jobs'[e.job].trimmed
               PROVE  /\ jobs'[e.job].pc = "done" => e.status = AgentStatus(e.job)'
                      /\ ~IsAgent(e.job)' /\ Loose(e.job) =>
                           e.status = AgentStatus(e.job)' \/ (jobs'[e.job].kind \in Stoppable /\ e.status = "stopped")
    BY <1>3, <1>16 DEF Outcomes
  <2>1. e.job \in JobIds
    BY <1>0, HasIs DEF JobTypes
  <2> QED BY <1>0, <1>12, <2>1 DEF Outcomes, IsAgent, AgentStatus
<1> QED BY <1>13, <1>14, <1>15, <1>17, <1>18 DEF SideIInv

\* A restart.
LEMMA RebootStep ==
  ASSUME SideIInv, Reboot
  PROVE  SideIInv'
<1>0. JobTypes /\ Holding /\ Agents /\ Processes /\ Outcomes
  BY DEF SideIInv
<1>1. /\ reboots' = reboots + 1
      /\ registry' = Interrupted(registry) /\ store' = Interrupted(store)
      /\ handle' = [c \in Controllers |-> 0]
      /\ shown' = [c \in Controllers |-> [job |-> 0, status |-> "idle"]]
  BY DEF Reboot
<1> DEFINE left(i) == IF IsAgent(i) THEN [jobs[i] EXCEPT !.pc = "done", !.process =
                                            IF @ = "running" THEN "bad" ELSE @]
                      ELSE jobs[i]
<1>2. jobs' = [i \in JobIds |-> left(i)]
  BY DEF Reboot
<1>3. jobs \in Seq(Job) /\ Tidy(store) /\ Tidy(registry) /\ reboots \in Nat
  BY <1>0 DEF JobTypes
<1>4. \A i \in JobIds : /\ left(i) \in Job /\ left(i).kind = jobs[i].kind /\ left(i).born = jobs[i].born
                        /\ left(i).trimmed = jobs[i].trimmed
                        /\ IsAgent(i) => left(i).pc = "done" /\ left(i).process # "running"
                        /\ ~IsAgent(i) => left(i) = jobs[i]
  <2> TAKE i \in JobIds
  <2>1. jobs[i] \in Job
    BY <1>3, JobIs
  <2> QED BY <2>1 DEF Job, Steps
<1> HIDE DEF left
<1>5. jobs' \in Seq(Job) /\ JobIds' = JobIds /\ \A i \in JobIds : jobs'[i] = left(i)
  <2>1. JobIds = 1..Len(jobs) /\ Len(jobs) \in Nat
    BY <1>3 DEF JobIds
  <2>2. jobs' \in [1..Len(jobs) -> Job]
    BY <1>2, <1>4, <2>1
  <2>3. DOMAIN jobs' = JobIds
    BY <1>2
  <2> QED BY <1>2, <2>1, <2>2, <2>3 DEF JobIds
<1>6. /\ Tidy(registry') /\ \A i : Has(registry', i) <=> Has(registry, i)
      /\ Tidy(store') /\ \A i : Has(store', i) <=> Has(store, i)
  BY <1>1, <1>3, InterruptedFacts
<1>7. \A i \in JobIds : jobs'[i].born \in Nat /\ jobs'[i].born < reboots'
  <2>1. \A i \in JobIds : jobs[i].born \in Nat /\ jobs[i].born <= reboots
    BY <1>0, <1>3, JobIs DEF JobTypes
  <2> QED BY <1>1, <1>3, <1>4, <1>5, <2>1
<1>8. JobTypes'
  <2>1. \A i : Has(registry', i) \/ Has(store', i) => i \in JobIds'
    BY <1>0, <1>5, <1>6 DEF JobTypes
  <2>2. /\ handle' \in [Controllers -> Nat] /\ reboots' \in Nat
        /\ shown' \in [Controllers -> [job : Nat, status : Status \cup {"idle"}]]
    BY <1>1, <1>3
  <2>3. \A i \in JobIds' : jobs'[i].born <= reboots'
    BY <1>5, <1>7, <2>2
  <2> QED BY <1>5, <1>6, <2>1, <2>2, <2>3, AfterStep DEF JobTypes
<1>9. Holding'
  BY <1>1 DEF Holding
<1>10. Agents'
  <2> SUFFICES ASSUME NEW i \in JobIds
               PROVE  /\ AgentAt(jobs'[i])
                      /\ jobs'[i].pc \in {"register", "reused"} => ~Has(registry', i)
                      /\ jobs'[i].kind = "agent" /\ ~jobs'[i].trimmed => Has(store', i)
    BY <1>5, AfterStep DEF Agents, IsAgent, AgentAt
  <2>1. CASE IsAgent(i)
    BY <1>0, <1>4, <1>5, <1>6, <2>1 DEF Agents, AgentAt, IsAgent
  <2>2. CASE ~IsAgent(i)
    BY <1>0, <1>4, <1>5, <1>6, <2>2 DEF Agents, IsAgent
  <2> QED BY <2>1, <2>2
<1>11. Processes'
  BY <1>3, <1>1, <1>5, <1>7 DEF Processes
<1>12. Outcomes'
  <2> SUFFICES ASSUME NEW e \in Range(registry') PROVE jobs'[e.job].born # reboots'
    BY DEF Outcomes
  <2>1. e.job \in JobIds
    BY <1>0, <1>6, HasIs DEF JobTypes
  <2> QED BY <1>1, <1>3, <1>7, <2>1
<1> QED BY <1>8, <1>9, <1>10, <1>11, <1>12 DEF SideIInv

LEMMA SideStart == SideJobsInit => SideIInv
<1> SUFFICES ASSUME SideJobsInit PROVE SideIInv
  OBVIOUS
<1>1. /\ jobs = <<>> /\ registry = <<>> /\ store = <<>> /\ reboots = 0
      /\ handle = [c \in Controllers |-> 0]
      /\ shown = [c \in Controllers |-> [job |-> 0, status |-> "idle"]]
  BY DEF SideJobsInit
<1>2. DOMAIN jobs = {} /\ DOMAIN registry = {} /\ DOMAIN store = {}
  BY <1>1
<1>3. Tidy(registry) /\ Tidy(store)
  <2>1. Retained \in Nat
    BY SideJobsAssumption DEF SideJobsAssumption
  <2> QED BY <1>1, <1>2, <2>1 DEF Tidy, Once
<1>4. JobTypes
  BY <1>1, <1>2, <1>3 DEF JobTypes, Has, JobIds
<1> QED BY <1>1, <1>2, <1>4 DEF SideIInv, Holding, Agents, Processes, Outcomes, JobIds, Range

LEMMA SideStep == SideIInv /\ [SideJobsNext]_sideVars => SideIInv'
<1> SUFFICES ASSUME SideIInv, [SideJobsNext]_sideVars PROVE SideIInv'
  OBVIOUS
<1>1. ASSUME NEW c \in Controllers, Start(c) \/ Stop(c) \/ Refresh(c) PROVE SideIInv'
  BY <1>1, StartStep, StopStep, RefreshStep
<1>2. ASSUME NEW j \in JobIds,
             \/ ProcessEnds(j) \/ RegisterAgentJob(j) \/ RegisterReused(j)
             \/ ReportRunning(j) \/ TellRunning(j) \/ AgentWorks(j) \/ ReportEnd(j) \/ TellEnd(j)
      PROVE  SideIInv'
  BY <1>2, ProcessStep, AgentSteps
<1>3. CASE CreateAgentJob \/ ReuseResult \/ Reboot
  BY <1>3, CreateStep, RebootStep
<1>4. CASE UNCHANGED sideVars
  <2>1. jobs' = jobs /\ handle' = handle /\ shown' = shown /\ registry' = registry /\ store' = store /\ reboots' = reboots
    BY <1>4 DEF sideVars
  <2>2. JobTypes' <=> JobTypes
    BY <2>1 DEF JobTypes, JobIds, Tidy, Once, Has
  <2>3. (Holding' <=> Holding) /\ (Processes' <=> Processes)
    BY <2>1 DEF Holding, Processes, IsAgent, Loose, Running, JobIds
  <2>4. Agents' <=> Agents
    BY <2>1 DEF Agents, AgentAt, IsAgent, JobIds, Has
  <2>5. Outcomes' <=> Outcomes
    BY <2>1 DEF Outcomes, IsAgent, AgentStatus, Loose
  <2> QED BY <2>2, <2>3, <2>4, <2>5 DEF SideIInv
<1> QED BY <1>1, <1>2, <1>3, <1>4 DEF SideJobsNext

\* SideIInv is an invariant of the controllers and the agent jobs.
THEOREM SideInvCorrect == SideJobsSpec => []SideIInv
BY SideStart, SideStep, PTL DEF SideJobsSpec

\* The registry and the store keep no more entries than they should and none twice, and a
\* controller holds only a process of its own.
THEOREM SideTypeCorrect == SideJobsSpec => []SideJobsTypeOK
<1>1. SideIInv => SideJobsTypeOK
  <2> SUFFICES ASSUME SideIInv PROVE SideJobsTypeOK
    OBVIOUS
  <2>1. JobTypes /\ Holding
    BY DEF SideIInv
  <2>2. ASSUME NEW c \in Controllers
        PROVE  /\ handle[c] \in {0} \cup JobIds
               /\ handle[c] # 0 => shown[c].job = handle[c] /\ jobs[handle[c]].kind = c
    BY <2>1 DEF Holding
  <2>3. ASSUME NEW entries \in {registry, store}
        PROVE  /\ Len(entries) <= Retained
               /\ \A i, k \in DOMAIN entries : entries[i].job = entries[k].job => i = k
               /\ \A e \in Range(entries) : e.job \in JobIds /\ e.status \in Final \cup {"queued", "running", "stopping"}
    <3>1. Tidy(entries) /\ \A j : Has(entries, j) => j \in JobIds
      BY <2>1 DEF JobTypes
    <3>2. \A e \in Range(entries) : e.job \in JobIds
      BY <3>1, HasIs
    <3>3. \A e \in Range(entries) : e \in Entry
      BY <3>1 DEF Tidy, Range
    <3> QED BY <3>1, <3>2, <3>3 DEF Tidy, Once, Entry, Status
  <2> QED BY <2>2, <2>3 DEF SideJobsTypeOK
<1> QED BY <1>1, SideInvCorrect, PTL

\* The registry tells the outcome of every process that was seen to end and of every agent job
\* that is done, for any number of entries kept: what the controllers and _update_multi_agent_job
\* write last is the outcome, and only a job that the store dropped is cut off before.
THEOREM OutcomeCorrect == SideJobsSpec => []RegistryTellsOutcome
<1>1. SideIInv => RegistryTellsOutcome
  <2> SUFFICES ASSUME SideIInv, NEW j \in JobIds, jobs[j].born = reboots, ~jobs[j].trimmed, Has(registry, j),
                      IF IsAgent(j) THEN jobs[j].pc = "done" ELSE Loose(j)
               PROVE  \/ EntryOf(registry, j).status = AgentStatus(j)
                      \/ ~IsAgent(j) /\ jobs[j].kind \in Stoppable /\ EntryOf(registry, j).status = "stopped"
    BY DEF RegistryTellsOutcome, Loose
  <2>1. EntryOf(registry, j) \in Range(registry) /\ EntryOf(registry, j).job = j
    BY EntryHas
  <2>2. Outcomes
    BY DEF SideIInv
  <2> QED BY <2>1, <2>2 DEF Outcomes
<1> QED BY <1>1, SideInvCorrect, PTL

-----------------------------------------------------------------------------
(* The three parts together *)

\* A behaviour of the composition is one of each part, which stands still while another is followed.
LEMMA EachPart == ServicesSpec => NewsSpec /\ AccountsSpec /\ SideJobsSpec
<1>1. ServicesInit => NewsInit /\ AccountsInit /\ SideJobsInit
  BY DEF ServicesInit
<1>2. [ServicesNext]_<<part, newsVars, accountVars, sideVars>> => [NewsNext]_newsVars
  BY DEF ServicesNext
<1>3. [ServicesNext]_<<part, newsVars, accountVars, sideVars>> => [AccountsNext]_accountVars
  BY DEF ServicesNext
<1>4. [ServicesNext]_<<part, newsVars, accountVars, sideVars>> => [SideJobsNext]_sideVars
  BY DEF ServicesNext
<1> QED BY <1>1, <1>2, <1>3, <1>4, PTL DEF ServicesSpec, NewsSpec, AccountsSpec, SideJobsSpec

\* The types of the three parts hold in the composition.
THEOREM ServicesTypesCorrect == ServicesSpec => []ServicesTypeOK
<1>1. NewsTypeOK /\ AccountsTypeOK /\ SideJobsTypeOK => ServicesTypeOK
  BY DEF ServicesTypeOK
<1> QED BY <1>1, EachPart, NewsTypeCorrect, AccountsTypeCorrect, SideTypeCorrect, PTL

\* So does what else is checked of them together.
THEOREM ServicesCorrect ==
  ServicesSpec => [](/\ TwinsNeedOverlap /\ BoundaryMissesNothing /\ PendingKeepsUnfetched
                     /\ HealthFollowsRuns /\ OutMeansOut /\ RegistryTellsOutcome)
BY EachPart, TwinsCorrect, BoundaryCorrect, PendingCorrect, HealthCorrect, OutCorrect, OutcomeCorrect, PTL

=============================================================================
