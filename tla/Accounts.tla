------------------------------- MODULE Accounts -------------------------------
(* The accounts of the web application: the user file (accounts, invitation  *)
(* and VIP codes, demo budgets, archive), the sessions in memory and in their *)
(* file, and the request handlers that use both.  Every operation on the user *)
(* file, and every one on the sessions, is a critical section that writes its *)
(* whole file before it lets go; a handler runs several of them one after the *)
(* other.  Passwords are right, tokens are fresh, API keys are left out.      *)
EXTENDS FiniteSets, FiniteSetsExt, Integers

CONSTANTS
  Names,       \* the names users register under
  Demos,       \* the names demo accounts are given
  Codes,       \* the codes that can be made
  Tokens,      \* the session tokens that can be made, in their order
  Workers,     \* the threads that serve requests
  MaxNow,      \* bound: the clock, in units of a code's or a ban's length
  SessionTtl,  \* how long a session lives without a request
  DemoLimit,   \* requests a demo account has in a window of one unit
  MaxRestarts  \* bound: restarts of the server

ASSUME AccountsAssumption ==
  /\ Names \cap Demos = {}
  /\ Tokens \subseteq Nat \ {0} /\ IsFiniteSet(Tokens)
  /\ MaxNow \in Nat /\ SessionTtl \in Nat /\ DemoLimit \in Nat /\ MaxRestarts \in Nat

VARIABLES
  now,         \* the clock
  users,       \* the registered users: VIP until, banned, banned until
  demos,       \* the demo accounts: when the window began, requests in it
  archived,    \* the names in the archive
  codes,       \* the codes made: what for, until when, used or not
  sessions,    \* the sessions in memory, by token
  current,     \* the token that counts for an account
  savedSessions, \* the session file
  worker,      \* what each thread is doing
  memory       \* history: [ended, crossed, restarts]

accountVars == <<now, users, demos, archived, codes, sessions, current, savedSessions, worker, memory>>

None == [none |-> TRUE]
Account == Names \cup Demos
Free == [pc |-> "idle"]
Idle(w) == worker[w].pc = "idle"
Becomes(w, state) == worker' = [worker EXCEPT ![w] = state]

Later(a, b) == IF a > b THEN a ELSE b

(***************************************************************************)
(* The user file.                                                          *)
(***************************************************************************)
\* A ban that has run out is lifted by whoever looks at the account next.
Refreshed(user) == IF user.banned /\ user.until <= now
                   THEN [user EXCEPT !.banned = FALSE, !.until = 0] ELSE user

Registered(u) == u \in Names /\ users[u] # None
Banned(u) == Registered(u) /\ Refreshed(users[u]).banned

\* A code is good when it was made for this, has not run out and was not used.
Made(c, for) == codes[c] # None /\ codes[c].for = for /\ codes[c].until >= now
Unused(c, for) == Made(c, for) /\ ~codes[c].used
Use(c) == codes' = [codes EXCEPT ![c].used = TRUE]

MakeCode(c, for) ==
  /\ codes[c] = None
  /\ codes' = [codes EXCEPT ![c] = [for |-> for, until |-> now + 1, used |-> FALSE]]
  /\ UNCHANGED <<now, users, demos, archived, sessions, current, savedSessions, worker, memory>>

\* A demo account is given a name no user and no demo account has.
CreateDemo(d) ==
  /\ demos[d] = None
  /\ demos' = [demos EXCEPT ![d] = [began |-> now, count |-> 0]]
  /\ UNCHANGED <<now, users, archived, codes, sessions, current, savedSessions, worker, memory>>

ResetDemo(d) ==
  /\ demos[d] # None
  /\ demos' = [demos EXCEPT ![d] = [began |-> now, count |-> 0]]
  /\ UNCHANGED <<now, users, archived, codes, sessions, current, savedSessions, worker, memory>>

GrantVip(u) ==
  /\ Registered(u)
  /\ users' = [users EXCEPT ![u].vip = Later(now, @) + 1]
  /\ users'[u].vip <= MaxNow + 1
  /\ UNCHANGED <<now, demos, archived, codes, sessions, current, savedSessions, worker, memory>>

RevokeVip(u) ==
  /\ Registered(u)
  /\ users' = [users EXCEPT ![u].vip = 0]
  /\ UNCHANGED <<now, demos, archived, codes, sessions, current, savedSessions, worker, memory>>

Enable(u) ==
  /\ Registered(u)
  /\ users' = [users EXCEPT ![u].banned = FALSE, ![u].until = 0]
  /\ UNCHANGED <<now, demos, archived, codes, sessions, current, savedSessions, worker, memory>>

\* The overview of the administrator lifts every ban that has run out.
Overview ==
  /\ users' = [u \in Names |-> IF users[u] = None THEN None ELSE Refreshed(users[u])]
  /\ UNCHANGED <<now, demos, archived, codes, sessions, current, savedSessions, worker, memory>>

(***************************************************************************)
(* The sessions.                                                           *)
(***************************************************************************)
NoSessions == [t \in Tokens |-> None]
SessionOf(u) == {t \in Tokens : sessions[t] # None /\ sessions[t].user = u}

\* Sessions are taken out of memory, and the file follows.
Without(gone) ==
  /\ sessions' = [t \in Tokens |-> IF t \in gone THEN None ELSE sessions[t]]
  /\ current' = [u \in Account |-> IF current[u] \in gone THEN 0 ELSE current[u]]
  /\ savedSessions' = sessions'

Alive(t) ==
  /\ sessions[t] # None
  /\ current[sessions[t].user] = t
  /\ sessions[t].until >= now

\* A request with a session makes it last longer, in memory only.
Request(t) ==
  /\ Alive(t)
  /\ sessions' = [sessions EXCEPT ![t].until = now + SessionTtl]
  /\ UNCHANGED <<now, users, demos, archived, codes, current, savedSessions, worker, memory>>

\* A request with a session that has run out removes it.
RequestLate(t) ==
  /\ sessions[t] # None
  /\ sessions[t].until < now
  /\ Without({t})
  /\ memory' = [memory EXCEPT !.ended = @ \cup {t}]
  /\ UNCHANGED <<now, users, demos, archived, codes, worker>>

Logout(t) ==
  /\ sessions[t] # None
  /\ Without({t})
  /\ memory' = [memory EXCEPT !.ended = @ \cup {t}]
  /\ UNCHANGED <<now, users, demos, archived, codes, worker>>

WithinBudget(window) == window.count < DemoLimit

\* A demo account's request is counted before it is served.
SpendDemo(t) ==
  LET d == sessions[t].user
      window == IF now > demos[d].began THEN [began |-> now, count |-> 0] ELSE demos[d]
  IN /\ Alive(t)
     /\ d \in Demos
     /\ demos[d] # None
     /\ WithinBudget(window)
     /\ demos' = [demos EXCEPT ![d] = [window EXCEPT !.count = @ + 1]]
     /\ sessions' = [sessions EXCEPT ![t].until = now + SessionTtl]
     /\ UNCHANGED <<now, users, archived, codes, current, savedSessions, worker, memory>>

\* A user redeems a VIP code; the days are added to those that are left.
Redeem(t, c) ==
  LET u == sessions[t].user
  IN /\ Alive(t)
     /\ Registered(u)
     /\ Unused(c, "vip")
     /\ users' = [users EXCEPT ![u].vip = Later(now, @) + 1]
     /\ users'[u].vip <= MaxNow + 1
     /\ Use(c)
     /\ sessions' = [sessions EXCEPT ![t].until = now + SessionTtl]
     /\ UNCHANGED <<now, demos, archived, current, savedSessions, worker, memory>>

(***************************************************************************)
(* Handlers of more than one step.                                         *)
(***************************************************************************)
\* Registering looks at the code first, on its own.
Register(w, u, c) ==
  /\ Idle(w)
  /\ Unused(c, "invite")
  /\ Becomes(w, [pc |-> "create", who |-> u, code |-> c])
  /\ UNCHANGED <<now, users, demos, archived, codes, sessions, current, savedSessions, memory>>

\* create_user() looks at it again, and at the name.
Acceptable(c) == Unused(c, "invite")

CreateUser(w) ==
  LET u == worker[w].who
      c == worker[w].code
      fits == Acceptable(c) /\ ~Registered(u)
  IN /\ worker[w].pc = "create"
     /\ UNCHANGED <<now, demos, archived, sessions, current, savedSessions, memory>>
     /\ \/ /\ fits
           /\ users' = [users EXCEPT ![u] = [vip |-> 0, banned |-> FALSE, until |-> 0]]
           /\ Use(c)
           /\ Becomes(w, [pc |-> "login", who |-> u])
        \/ /\ ~fits
           /\ Becomes(w, Free)
           /\ UNCHANGED <<users, codes>>

\* Logging in checks the account, lifting a ban that has run out.
Authenticate(w, u) ==
  /\ Idle(w)
  /\ \/ /\ Registered(u) /\ ~Banned(u)
        /\ users' = [users EXCEPT ![u] = Refreshed(@)]
     \/ /\ u \in Demos /\ demos[u] # None
        /\ UNCHANGED users
  /\ Becomes(w, [pc |-> "login", who |-> u])
  /\ UNCHANGED <<now, demos, archived, codes, sessions, current, savedSessions, memory>>

\* The new session replaces the one the account had.
StoreSession(w) ==
  LET u == worker[w].who
      old == current[u]
      used == {t \in Tokens : sessions[t] # None \/ t \in memory.ended}
      t == Max(used \cup {0}) + 1
  IN /\ worker[w].pc = "login"
     /\ t \in Tokens
     /\ sessions' = [s \in Tokens |-> IF s = t THEN [user |-> u, until |-> now + SessionTtl]
                                      ELSE IF s = old THEN None ELSE sessions[s]]
     /\ current' = [current EXCEPT ![u] = t]
     /\ savedSessions' = sessions'
     /\ memory' = [memory EXCEPT !.ended = IF old = 0 THEN @ ELSE @ \cup {old}]
     /\ Becomes(w, Free)
     /\ UNCHANGED <<now, users, demos, archived, codes>>

\* Logins of the account that are past their check.
LoggingIn(u) == {w \in Workers : worker[w].pc = "login" /\ worker[w].who = u}
Crossing(u) == [memory EXCEPT !.crossed = IF LoggingIn(u) = {} THEN @ ELSE @ \cup {u}]

\* Disabling bans the user, then drops the sessions.
Disable(w, u) ==
  /\ Idle(w)
  /\ Registered(u)
  /\ users' = [users EXCEPT ![u].banned = TRUE, ![u].until = now + 1]
  /\ Becomes(w, [pc |-> "drop", who |-> u])
  /\ memory' = Crossing(u)
  /\ UNCHANGED <<now, demos, archived, codes, sessions, current, savedSessions>>

\* Archiving takes the account out of the file; the name is free again.
Archive(w, u) ==
  /\ Idle(w)
  /\ \/ /\ Registered(u)
        /\ users' = [users EXCEPT ![u] = None]
        /\ UNCHANGED demos
     \/ /\ u \in Demos /\ demos[u] # None
        /\ demos' = [demos EXCEPT ![u] = None]
        /\ UNCHANGED users
  /\ archived' = archived \cup {u}
  /\ Becomes(w, [pc |-> "drop", who |-> u])
  /\ memory' = Crossing(u)
  /\ UNCHANGED <<now, codes, sessions, current, savedSessions>>

DroppedIdle(u) == {t \in SessionOf(u) : sessions[t].until < now}
Dropped(u) == SessionOf(u)

DropSessions(w) ==
  LET u == worker[w].who
  IN /\ worker[w].pc = "drop"
     /\ Without(Dropped(u))
     /\ memory' = [memory EXCEPT !.ended = @ \cup Dropped(u)]
     /\ Becomes(w, Free)
     /\ UNCHANGED <<now, users, demos, archived, codes>>

(***************************************************************************)
(* Time, restarts.                                                         *)
(***************************************************************************)
Tick ==
  /\ now < MaxNow
  /\ now' = now + 1
  /\ UNCHANGED <<users, demos, archived, codes, sessions, current, savedSessions, worker, memory>>

\* After a restart an account has the session of its that lasts longest.
Loaded ==
  LET good == {t \in Tokens : savedSessions[t] # None /\ savedSessions[t].until > now}
  IN {t \in good : \A s \in good : savedSessions[s].user = savedSessions[t].user =>
                     savedSessions[s].until <= savedSessions[t].until}

Restart ==
  /\ memory.restarts < MaxRestarts
  /\ sessions' = [t \in Tokens |-> IF t \in Loaded THEN savedSessions[t] ELSE None]
  /\ current' = [u \in Account |-> Max({0} \cup {t \in Loaded : savedSessions[t].user = u})]
  /\ memory' = [memory EXCEPT !.restarts = @ + 1, !.crossed = @ \cup
                  {worker[w].who : w \in {v \in Workers : worker[v].pc = "drop"}}]
  /\ worker' = [w \in Workers |-> Free]
  /\ UNCHANGED <<now, users, demos, archived, codes, savedSessions>>

AccountsInit ==
  /\ now = 0
  /\ users = [u \in Names |-> None]
  /\ demos = [d \in Demos |-> None]
  /\ archived = {}
  /\ codes = [c \in Codes |-> None]
  /\ sessions = NoSessions /\ savedSessions = NoSessions
  /\ current = [u \in Account |-> 0]
  /\ worker = [w \in Workers |-> Free]
  /\ memory = [ended |-> {}, crossed |-> {}, restarts |-> 0]

AccountsNext ==
  \/ \E c \in Codes, for \in {"invite", "vip"} : MakeCode(c, for)
  \/ \E d \in Demos : CreateDemo(d) \/ ResetDemo(d)
  \/ \E u \in Names : GrantVip(u) \/ RevokeVip(u) \/ Enable(u)
  \/ \E t \in Tokens : Request(t) \/ RequestLate(t) \/ Logout(t) \/ SpendDemo(t)
  \/ \E t \in Tokens, c \in Codes : Redeem(t, c)
  \/ \E w \in Workers :
       \/ \E u \in Names, c \in Codes : Register(w, u, c)
       \/ \E u \in Account : Authenticate(w, u) \/ Disable(w, u) \/ Archive(w, u)
       \/ CreateUser(w) \/ StoreSession(w) \/ DropSessions(w)
  \/ Overview \/ Tick \/ Restart

AccountsSpec == AccountsInit /\ [][AccountsNext]_accountVars

(***************************************************************************)
(* Correctness.                                                            *)
(***************************************************************************)
\* The times up to n units after the last one.
Times(n) == 0..(MaxNow + n)
User == [vip : Times(1), banned : BOOLEAN, until : Times(1)]
Demo == [began : Times(0), count : 0..DemoLimit]
Code == [for : {"invite", "vip"}, until : Times(1), used : BOOLEAN]
Session == [user : Account, until : Times(SessionTtl)]
Work == [pc : {"idle"}] \cup [pc : {"create"}, who : Names, code : Codes]
        \cup [pc : {"login", "drop"}, who : Account]

\* Types, and at most one session of an account, known by its token.
AccountsTypeOK ==
  /\ now \in Times(0)
  /\ users \in [Names -> User \cup {None}] /\ demos \in [Demos -> Demo \cup {None}]
  /\ archived \subseteq Account
  /\ codes \in [Codes -> Code \cup {None}]
  /\ sessions \in [Tokens -> Session \cup {None}] /\ savedSessions \in [Tokens -> Session \cup {None}]
  /\ current \in [Account -> Tokens \cup {0}]
  /\ worker \in [Workers -> Work]
  /\ memory \in [ended : SUBSET Tokens, crossed : SUBSET Account, restarts : 0..MaxRestarts]
  /\ \A t \in Tokens : sessions[t] # None => current[sessions[t].user] = t

\* Banned, or in the archive and not registered anew.
Out(u) == Banned(u) \/ (u \in archived /\ ~Registered(u) /\ (u \in Demos => demos[u] = None))
UnderWay(u) == \E w \in Workers : worker[w].pc \in {"drop", "login"} /\ worker[w].who = u

\* A session that was ended (by a logout, a newer login, its age, the administrator) is not
\* answered again, and a restart does not bring it back.  An account that is disabled or in
\* the archive has no session once the administrator's request is done, unless a login was
\* past its check at the time or the server was restarted in the middle of the request.
OutMeansOut ==
  /\ \A t \in memory.ended : sessions[t] = None
  /\ \A u \in Account :
       Out(u) /\ ~UnderWay(u) /\ u \notin memory.crossed => SessionOf(u) = {}
=============================================================================
