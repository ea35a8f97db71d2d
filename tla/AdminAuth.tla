----------------------------- MODULE AdminAuth -----------------------------
(***************************************************************************)
(* The administrator's account (admin.go, type AdminAuth): one JSON file,  *)
(* which every handler reads and writes back whole, each time under mu but *)
(* with mu released in between.                                            *)
(*                                                                         *)
(* Requests are numbered.  A password and a session token are named by the *)
(* request that brought them: 0 is a password of fewer than 3 characters,  *)
(* or the empty token.  Of a login only matters whether it is empty.       *)
(***************************************************************************)
EXTENDS Naturals

CONSTANTS Handlers,      \* goroutines of the HTTP server
          Nobody,        \* no handler
          MaxRequests,   \* bound: requests
          MaxStops       \* bound: times the process is stopped

ASSUME AdminAssumption ==
  MaxRequests \in Nat \ {0} /\ MaxStops \in Nat /\ Nobody \notin Handlers

Ids == 1..MaxRequests
Ops == {"look", "setup", "login", "logout", "password"}

Accounts == [named : BOOLEAN, pw : Ids, token : {0} \cup Ids]
NoFile   == [named |-> FALSE, pw |-> 0, token |-> 0]
Torn     == [named |-> TRUE, pw |-> 0, token |-> 0]    \* does not parse

\* A request, with two things remembered for the properties: whether a setup
\* was answered with a token before it, and which requests were answered.
Requests == [op : Ops, named : BOOLEAN, pw : {0} \cup Ids, token : {0} \cup Ids, id : Ids,
             late : BOOLEAN, before : SUBSET Ids]

VARIABLES
  file,      \* adminConfigFile
  readers,   \* the handlers that hold mu for reading
  pending,   \* the handler that holds mu, or waits for the readers to leave
  pc, req,   \* where handler h is, and in which request
  loaded,    \* loaded[h]: the account as h read it, then as h will save it
  n, stops,  \* requests made, stops suffered
  stale,     \* history: stale[h]: the file was saved since h read it
  raced,     \* history: some handler saved an account read before another save
  damaged,   \* history: a save was cut between truncating and writing
  unnamed,   \* history: some setup had an empty login
  settled,   \* history: a setup was answered with a token
  again,     \* history: so was one requested later
  answered,  \* history: requests answered without an error
  oldPasswords, oldTokens   \* history: those answered before the request for
             \* another one, or for a logout, that is answered as well

locks   == <<readers, pending>>
history == <<stale, raced, damaged, unnamed, settled, again, answered, oldPasswords, oldTokens>>
vars == <<file, locks, pc, req, loaded, n, stops, history>>

NoRequest == [op |-> "look", named |-> FALSE, pw |-> 0, token |-> 0, id |-> 1,
              late |-> FALSE, before |-> {}]

\* The type invariant: no file is ever saved with a password that is too short
\* (admin.go:91, 167), however requests overlap.
TypeOK ==
  /\ file \in Accounts \cup {NoFile, Torn}
  /\ readers \subseteq Handlers /\ pending \in Handlers \cup {Nobody}
  /\ pc \in [Handlers -> {"idle", "rlock", "read", "lock", "enter", "truncate", "write"}]
  /\ req \in [Handlers -> Requests]
  /\ loaded \in [Handlers -> Accounts \cup {NoFile}]
  /\ \A h \in Handlers : pc[h] \in {"lock", "enter", "truncate", "write"} => loaded[h] \in Accounts
  /\ n \in 0..MaxRequests /\ stops \in 0..MaxStops
  /\ stale \in [Handlers -> BOOLEAN]
  /\ raced \in BOOLEAN /\ damaged \in BOOLEAN /\ unnamed \in BOOLEAN
  /\ settled \in BOOLEAN /\ again \in BOOLEAN
  /\ answered \subseteq Ids /\ oldPasswords \subseteq Ids /\ oldTokens \subseteq Ids

Init ==
  /\ file = NoFile
  /\ readers = {} /\ pending = Nobody
  /\ pc = [h \in Handlers |-> "idle"]
  /\ req = [h \in Handlers |-> NoRequest]
  /\ loaded = [h \in Handlers |-> NoFile]
  /\ n = 0 /\ stops = 0
  /\ stale = [h \in Handlers |-> FALSE]
  /\ raced = FALSE /\ damaged = FALSE /\ unnamed = FALSE
  /\ settled = FALSE /\ again = FALSE
  /\ answered = {} /\ oldPasswords = {} /\ oldTokens = {}

-----------------------------------------------------------------------------
(* A request, and the lock.                                                *)

Request(h) ==
  /\ pc[h] = "idle" /\ n < MaxRequests
  /\ n' = n + 1
  /\ \E r \in [op : Ops, named : BOOLEAN, pw : 0..n+1, token : 0..n, id : {n + 1},
              late : {settled}, before : {answered}] :
       /\ r.op \in {"look", "logout", "password"} => ~r.named
       /\ r.op \in {"look", "logout"} => r.pw = 0
       /\ r.op \in {"setup", "password"} => r.pw \in {0, n + 1}
       /\ r.op = "login" => r.pw <= n
       /\ r.op \in {"look", "setup", "login"} => r.token = 0
       /\ req' = [req EXCEPT ![h] = r]
       /\ unnamed' = (unnamed \/ (r.op = "setup" /\ ~r.named))
  /\ pc' = [pc EXCEPT ![h] = "rlock"]
  /\ UNCHANGED <<file, locks, loaded, stops, stale, raced, damaged, settled, again, answered,
                 oldPasswords, oldTokens>>

\* Variant: the file is read without the lock.
RLockNot(h) ==
  /\ pc[h] = "rlock"
  /\ pc' = [pc EXCEPT ![h] = "read"]
  /\ UNCHANGED <<file, locks, req, loaded, n, stops, history>>

\* A reader waits for a writer, and for one that waits itself.
RLock(h) ==
  /\ pc[h] = "rlock" /\ pending = Nobody
  /\ readers' = readers \cup {h}
  /\ pc' = [pc EXCEPT ![h] = "read"]
  /\ UNCHANGED <<file, pending, req, loaded, n, stops, history>>

\* A writer keeps others out and waits for the readers.
Lock(h) ==
  /\ pc[h] = "lock" /\ pending = Nobody
  /\ pending' = h
  /\ pc' = [pc EXCEPT ![h] = "enter"]
  /\ UNCHANGED <<file, readers, req, loaded, n, stops, history>>

Enter(h) ==
  /\ pc[h] = "enter" /\ readers = {}
  /\ pc' = [pc EXCEPT ![h] = "truncate"]
  /\ UNCHANGED <<file, locks, req, loaded, n, stops, history>>

-----------------------------------------------------------------------------
(* The operations.                                                         *)

Parses     == file \notin {NoFile, Torn}
Configured == Parses /\ file.named        \* its PasswordHash is never empty

\* Whether a request is granted once the file was read,
Granted(r) ==
  \/ r.op = "setup" /\ ~Configured /\ r.pw # 0
  \/ r.op = "login" /\ Parses /\ r.named = file.named /\ r.pw = file.pw
  \/ r.op = "logout" /\ Parses /\ r.token = file.token
  \/ r.op = "password" /\ Parses /\ r.token = file.token /\ r.pw # 0

\* and the account that it then saves.
Result(r) ==
  IF r.op = "setup"    THEN [named |-> r.named, pw |-> r.pw, token |-> r.id] ELSE
  IF r.op = "login"    THEN [file EXCEPT !.token = r.id] ELSE
  IF r.op = "logout"   THEN [file EXCEPT !.token = 0]
                       ELSE [file EXCEPT !.pw = r.pw]

Reading(h, granted) ==
  /\ pc[h] = "read"
  /\ readers' = readers \ {h}
  /\ pc' = [pc EXCEPT ![h] = IF granted THEN "lock" ELSE "idle"]
  /\ loaded' = IF granted THEN [loaded EXCEPT ![h] = Result(req[h])] ELSE loaded
  /\ req' = IF granted THEN req ELSE [req EXCEPT ![h] = NoRequest]
  /\ stale' = [stale EXCEPT ![h] = FALSE]
  /\ UNCHANGED <<file, pending, n, stops, raced, damaged, unnamed, settled, again,
                 answered, oldPasswords, oldTokens>>

\* Variant: isConfigured takes the lock that it holds once more.
ReadRelocks(h) ==
  /\ req[h].op \in {"look", "setup"} => pending = Nobody
  /\ Reading(h, Granted(req[h]))

\* Setup reads the file in isConfigured, the others in loadConfig.  A request
\* that is refused is answered here, and so is one that only looks.
Read(h) == Reading(h, Granted(req[h]))

\* saveConfig: os.WriteFile empties the file,
Truncate(h) ==
  /\ pc[h] = "truncate"
  /\ file' = Torn
  /\ pc' = [pc EXCEPT ![h] = "write"]
  /\ UNCHANGED <<locks, req, loaded, n, stops, history>>

Unlock == pending' = Nobody /\ UNCHANGED readers
Leave(h) == /\ pc' = [pc EXCEPT ![h] = "idle"]
            /\ req' = [req EXCEPT ![h] = NoRequest]
            /\ loaded' = [loaded EXCEPT ![h] = NoFile]

\* writes the account, and the handler answers without an error.
Saved(h, account) ==
  LET op == req[h].op IN
  /\ pc[h] = "write"
  /\ file' = account
  /\ Leave(h) /\ Unlock
  /\ stale' = [g \in Handlers |-> g # h /\ pc[g] # "idle"]
  /\ raced' = (raced \/ stale[h])
  /\ settled' = (settled \/ op = "setup")
  /\ again' = (again \/ (op = "setup" /\ req[h].late))
  /\ answered' = answered \cup {req[h].id}
  /\ oldPasswords' = oldPasswords \cup (IF op \in {"setup", "password"} THEN req[h].before ELSE {})
  /\ oldTokens' = oldTokens \cup (IF op = "password" THEN {} ELSE req[h].before)
  /\ UNCHANGED <<n, stops, damaged, unnamed>>

\* Variant: Logout leaves the token in the file.
WriteKeepsToken(h) ==
  Saved(h, IF req[h].op = "logout" THEN [loaded[h] EXCEPT !.token = req[h].token] ELSE loaded[h])

Write(h) == Saved(h, loaded[h])

\* The file cannot be opened, or not be written once it is empty.
WriteFail(h) ==
  /\ pc[h] \in {"truncate", "write"}
  /\ damaged' = (damaged \/ pc[h] = "write")
  /\ Leave(h) /\ Unlock
  /\ UNCHANGED <<file, n, stops, stale, raced, unnamed, settled, again, answered,
                 oldPasswords, oldTokens>>

\* The process is killed, and started again.
Kill ==
  /\ stops < MaxStops
  /\ stops' = stops + 1
  /\ damaged' = (damaged \/ \E h \in Handlers : pc[h] = "write")
  /\ readers' = {} /\ pending' = Nobody
  /\ pc' = [h \in Handlers |-> "idle"]
  /\ req' = [h \in Handlers |-> NoRequest]
  /\ loaded' = [h \in Handlers |-> NoFile]
  /\ stale' = [h \in Handlers |-> FALSE]
  /\ UNCHANGED <<file, n, raced, unnamed, settled, again, answered,
                 oldPasswords, oldTokens>>

-----------------------------------------------------------------------------
\* No request is left within the bounds.
Ended == n = MaxRequests /\ (\A h \in Handlers : pc[h] = "idle") /\ UNCHANGED vars

Step(h) == RLock(h) \/ Read(h) \/ Lock(h) \/ Enter(h) \/ Truncate(h) \/ Write(h)

Next == \/ \E h \in Handlers : Request(h) \/ Step(h) \/ WriteFail(h)
        \/ Kill \/ Ended

Spec == Init /\ [][Next]_vars

\* A sync.RWMutex lets nobody wait for ever.
LockFairness ==
  \A h \in Handlers :
    WF_vars(Step(h)) /\ SF_vars(RLock(h)) /\ SF_vars(Lock(h))

-----------------------------------------------------------------------------
\* Setup answers "admin already configured" (admin.go:88-90) once a setup was
\* answered with a token: a request made later never sets the account up again,
\* not even while the file is empty under a save and whatever else overlaps.
\* Excepted are a save cut in the middle, which leaves no account (os.WriteFile,
\* admin.go:73), and a setup without a login, which isConfigured takes for none.
SetupOnlyFirst == damaged \/ unnamed \/ ~again

\* An answered password change, login or logout is not undone by what was
\* answered before the request: only a handler that saves an account which it
\* read before another save can bring back a password or a token.
OnlyRacesUndo ==
  raced \/ (file.pw \notin oldPasswords /\ file.token \notin oldTokens)

\* No request is left unanswered: the reading and the writing side of mu are
\* never taken within each other (loadConfigUnlocked, admin.go:47).
RequestsAnswered == \A h \in Handlers : pc[h] # "idle" ~> pc[h] = "idle"

\* main.go:251, a password change is answered "ok": from then on it holds, until
\* another one, or a setup that takes its place (see SetupOnlyFirst).
PasswordChangeHolds == unnamed \/ file.pw \notin oldPasswords
=============================================================================
