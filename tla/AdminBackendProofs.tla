-------------------------- MODULE AdminBackendProofs --------------------------
(***************************************************************************)
(* Proofs about modules AdminAuth and FeeEstimate: for any number of       *)
(* handlers, requests and stops of the process, and for any wallet, amount *)
(* and rates.                                                              *)
(*                                                                         *)
(* That no later setup succeeds rests on the lock (nobody reads while a    *)
(* save has the file empty) and on every account on its way to the file    *)
(* having a login.  What an answered request may be undone by rests on the *)
(* numbers of the requests: what a save brings is its own, or not old.     *)
(*                                                                         *)
(* The bytes a set of coins takes are counted, so that the size is a       *)
(* number and the fee for it is one that is not 0.  That more coins take   *)
(* more bytes, and more bytes more fee, keeps the fee of every round below *)
(* what some number of coins could pay: a balance is refused only if it is *)
(* short.                                                                  *)
(***************************************************************************)
EXTENDS AdminBackend, FiniteSetTheorems, NaturalsInduction, TLAPS

Saving == {"lock", "enter", "truncate", "write"}

\* mu is held by those who think they hold it, and never on both sides.
LockInv ==
  /\ \A h \in Handlers : pc[h] = "read" <=> h \in readers
  /\ \A h \in Handlers : pc[h] \in {"enter", "truncate", "write"} <=> pending = h
  /\ \A h \in Handlers : pc[h] \in {"truncate", "write"} => readers = {}

\* As long as no setup comes without a login, what is or will be saved has one.
NamedInv ==
  ~unnamed => /\ file \in Accounts => file.named
              /\ \A h \in Handlers : /\ pc[h] \in Saving => loaded[h].named
                                     /\ pc[h] # "idle" /\ req[h].op = "setup" => req[h].named

\* After the first setup there is an account, except in the middle of a save,
\* and a setup requested later goes no further than to read it.
SetupInv ==
  ~damaged => /\ file = Torn => \E h \in Handlers : pc[h] = "write"
              /\ settled => file # NoFile
              /\ \A h \in Handlers : req[h].late => settled
              /\ ~unnamed => \A h \in Handlers :
                   pc[h] \in Saving /\ req[h].op = "setup" => ~req[h].late

IInv == TypeOK /\ LockInv /\ NamedInv /\ SetupInv /\ SetupOnlyFirst

-----------------------------------------------------------------------------
\* A file that is neither missing nor cut holds an account.
LEMMA FileType ==
  ASSUME TypeOK, Parses
  PROVE  file \in Accounts
  BY DEF TypeOK, Parses

\* A request that is granted saves an account.
LEMMA ResultType ==
  ASSUME TypeOK, NEW r \in Requests, Granted(r)
  PROVE  Result(r) \in Accounts
<1>1. CASE r.op = "setup"
  BY <1>1 DEF Requests, Granted, Result, Accounts
<1>2. CASE r.op # "setup"
  <2>1. file \in Accounts
    BY <1>2, FileType DEF Granted
  <2>2. /\ [file EXCEPT !.token = r.id] \in Accounts
        /\ [file EXCEPT !.token = 0] \in Accounts
    BY <2>1 DEF Accounts, Requests
  <2>3. r.op = "password" => [file EXCEPT !.pw = r.pw] \in Accounts
    BY <2>1 DEF Accounts, Requests, Granted
  <2> QED
    BY <1>2, <2>2, <2>3 DEF Granted, Result
<1> QED
  BY <1>1, <1>2

\* It has a login if the request, or the account it was read from, has one.
LEMMA ResultNamed ==
  ASSUME TypeOK, NEW r \in Requests, Granted(r),
         r.op = "setup" => r.named,
         file \in Accounts => file.named
  PROVE  Result(r).named
<1>1. CASE r.op = "setup"
  BY <1>1 DEF Result
<1>2. CASE r.op # "setup"
  <2>1. file \in Accounts
    BY <1>2, FileType DEF Granted
  <2> QED
    BY <1>2, <2>1 DEF Result, Accounts
<1> QED
  BY <1>1, <1>2

\* What a handler asks for is a request.
LEMMA RequestType ==
  ASSUME TypeOK, NEW h \in Handlers, Request(h)
  PROVE  /\ req' \in [Handlers -> Requests]
         /\ req'[h].late = settled
         /\ ~unnamed' => ~unnamed /\ (req'[h].op = "setup" => req'[h].named)
         /\ unnamed' \in BOOLEAN
         /\ \A g \in Handlers : g # h => req'[g] = req[g]
<1>1. PICK r \in [op : Ops, named : BOOLEAN, pw : 0..n+1, token : 0..n, id : {n + 1},
                  late : {settled}, before : {answered}] :
        /\ req' = [req EXCEPT ![h] = r]
        /\ unnamed' = (unnamed \/ (r.op = "setup" /\ ~r.named))
  BY Zenon DEF Request
<1>2. n \in Nat /\ n + 1 \in Ids /\ 0..n \subseteq {0} \cup Ids /\ 0..n+1 \subseteq {0} \cup Ids
  BY AdminAssumption DEF TypeOK, Request, Ids
<1>3. r \in Requests
  BY <1>2 DEF Requests, TypeOK
<1>4. req'[h] = r /\ r.late = settled
  BY <1>1 DEF TypeOK
<1> QED
  BY <1>1, <1>3, <1>4 DEF TypeOK

-----------------------------------------------------------------------------
LEMMA InitIInv == Init => IInv
<1> SUFFICES ASSUME Init
             PROVE  IInv
  OBVIOUS
<1> USE AdminAssumption DEF Init
<1>1. TypeOK
  <2>1. NoRequest \in Requests
    BY DEF NoRequest, Requests, Ops, Ids
  <2>2. n \in 0..MaxRequests /\ stops \in 0..MaxStops
    OBVIOUS
  <2> QED
    BY <2>1, <2>2 DEF TypeOK
<1>2. LockInv /\ SetupInv /\ SetupOnlyFirst
  BY DEF LockInv, SetupInv, SetupOnlyFirst, Saving, NoRequest, NoFile, Torn
<1>3. NamedInv
  BY DEF NamedInv, Saving, NoFile, Accounts, Ids
<1> QED
  BY <1>1, <1>2, <1>3 DEF IInv

\* A step of a handler that only takes the lock, or the file in hand, keeps
\* everything but the lock's invariant.
LEMMA LockFrame ==
  ASSUME IInv, NEW h \in Handlers,
         RLock(h) \/ Lock(h) \/ Enter(h)
  PROVE  TypeOK' /\ NamedInv' /\ SetupInv' /\ SetupOnlyFirst'
<1> USE DEF IInv, RLock, Lock, Enter, history, locks
<1>1. TypeOK'
  BY DEF TypeOK
<1>2. NamedInv'
  BY DEF NamedInv, Saving, TypeOK
<1>3. SetupInv' /\ SetupOnlyFirst'
  BY DEF SetupInv, SetupOnlyFirst, Saving, TypeOK
<1> QED
  BY <1>1, <1>2, <1>3

\* The inductive step, one action at a time.
LEMMA StepIInv == IInv /\ [Next]_vars => IInv'
<1> SUFFICES ASSUME IInv, [Next]_vars
             PROVE  IInv'
  OBVIOUS
<1> USE AdminAssumption DEF IInv
<1>1. ASSUME NEW h \in Handlers, Request(h)
      PROVE  IInv'
  <2>1. /\ pc[h] = "idle" /\ pc' = [pc EXCEPT ![h] = "rlock"]
        /\ n < MaxRequests /\ n' = n + 1
        /\ UNCHANGED <<file, locks, loaded, stops, stale, raced, damaged, settled, again,
                       answered, oldPasswords, oldTokens>>
    BY <1>1, Zenon DEF Request
  <2>2. TypeOK'
    BY <1>1, <2>1, RequestType DEF TypeOK, locks
  <2>3. LockInv'
    BY <2>1 DEF LockInv, TypeOK, locks
  <2>4. NamedInv'
    BY <1>1, <2>1, RequestType DEF NamedInv, Saving, TypeOK
  <2>5. SetupInv' /\ SetupOnlyFirst'
    BY <1>1, <2>1, RequestType DEF SetupInv, SetupOnlyFirst, Saving, TypeOK
  <2> QED
    BY <2>2, <2>3, <2>4, <2>5
<1>2. ASSUME NEW h \in Handlers, RLock(h) \/ Lock(h) \/ Enter(h)
      PROVE  IInv'
  <2>1. LockInv'
    BY <1>2 DEF LockInv, RLock, Lock, Enter, TypeOK, locks
  <2> QED
    BY <1>2, <2>1, LockFrame
<1>3. ASSUME NEW h \in Handlers, Read(h)
      PROVE  IInv'
  <2> DEFINE r == req[h]
  <2>1. CASE ~Granted(r)
    <3>1. NoRequest \in Requests
      BY DEF NoRequest, Requests, Ops, Ids
    <3> USE <1>3, <2>1 DEF Read, Reading
    <3>2. TypeOK'
      BY <3>1 DEF TypeOK
    <3>3. LockInv'
      BY DEF LockInv, TypeOK
    <3>4. NamedInv'
      BY DEF NamedInv, Saving, TypeOK
    <3>5. SetupInv' /\ SetupOnlyFirst'
      BY DEF SetupInv, SetupOnlyFirst, Saving, TypeOK, NoRequest
    <3> QED
      BY <3>2, <3>3, <3>4, <3>5
  <2>2. CASE Granted(r)
    <3>1. /\ pc[h] = "read" /\ readers' = readers \ {h}
          /\ pc' = [pc EXCEPT ![h] = "lock"]
          /\ loaded' = [loaded EXCEPT ![h] = Result(r)]
          /\ stale' = [stale EXCEPT ![h] = FALSE]
          /\ UNCHANGED <<file, req, pending, n, stops, raced, damaged, unnamed, settled, again,
                         answered, oldPasswords, oldTokens>>
      BY <1>3, <2>2 DEF Read, Reading
    <3>2. r \in Requests /\ Result(r) \in Accounts
      BY <2>2, ResultType DEF TypeOK
    <3>3. TypeOK'
      BY <3>1, <3>2 DEF TypeOK
    <3>4. LockInv'
      BY <3>1 DEF LockInv, TypeOK
    <3>5. ~unnamed => Result(r).named
      BY <2>2, <3>1, <3>2, ResultNamed DEF NamedInv
    <3>6. NamedInv'
      BY <3>1, <3>5 DEF NamedInv, Saving, TypeOK
    <3>7. ~damaged /\ ~unnamed /\ r.op = "setup" => ~r.late
      <4>1. SUFFICES ASSUME ~damaged, ~unnamed, r.op = "setup", r.late
                     PROVE  FALSE
        OBVIOUS
      <4>2. file # NoFile
        BY <4>1 DEF SetupInv
      <4>3. file # Torn
        BY <4>1, <3>1 DEF SetupInv, LockInv
      <4>4. Parses /\ file.named
        BY <4>1, <4>2, <4>3, FileType DEF Parses, NamedInv
      <4> QED
        BY <4>1, <4>4, <2>2 DEF Granted, Configured
    <3>8. SetupInv' /\ SetupOnlyFirst'
      BY <3>1, <3>7 DEF SetupInv, SetupOnlyFirst, Saving, TypeOK
    <3> QED
      BY <3>3, <3>4, <3>6, <3>8
  <2> QED
    BY <2>1, <2>2
<1>4. ASSUME NEW h \in Handlers, Truncate(h)
      PROVE  IInv'
  <2> USE <1>4 DEF Truncate, locks, history
  <2>1. TypeOK'
    BY DEF TypeOK
  <2>2. LockInv'
    BY DEF LockInv, TypeOK
  <2>3. NamedInv'
    BY DEF NamedInv, Saving, TypeOK, Torn
  <2>4. Torn # NoFile
    BY DEF Torn, NoFile
  <2>5. SetupInv' /\ SetupOnlyFirst'
    BY <2>4 DEF SetupInv, SetupOnlyFirst, Saving, TypeOK
  <2> QED
    BY <2>1, <2>2, <2>3, <2>5
<1>5. ASSUME NEW h \in Handlers, Write(h)
      PROVE  IInv'
  <2>1. /\ NoRequest \in Requests /\ ~NoRequest.late
        /\ NoFile \notin Accounts /\ Torn \notin Accounts
    BY DEF NoRequest, Requests, Ops, Ids, NoFile, Torn, Accounts
  <2>2. loaded[h] \in Accounts /\ req[h] \in Requests
    BY <1>5 DEF TypeOK, Write, Saved
  <2> USE <1>5 DEF Write, Saved, Leave, Unlock
  <2>3. TypeOK'
    <3>1. /\ answered' \subseteq Ids /\ oldPasswords' \subseteq Ids /\ oldTokens' \subseteq Ids
      BY <2>2 DEF TypeOK, Requests
    <3>2. again' \in BOOLEAN /\ settled' \in BOOLEAN /\ raced' \in BOOLEAN
      BY <2>2 DEF TypeOK, Requests
    <3> QED
      BY <2>1, <2>2, <3>1, <3>2 DEF TypeOK
  <2>4. LockInv'
    BY DEF LockInv, TypeOK
  <2>5. NamedInv'
    BY <2>2 DEF NamedInv, Saving, TypeOK
  <2>6. SetupInv'
    BY <2>1, <2>2 DEF SetupInv, Saving, TypeOK
  <2>7. SetupOnlyFirst'
    BY DEF SetupInv, SetupOnlyFirst, Saving
  <2> QED
    BY <2>3, <2>4, <2>5, <2>6, <2>7
<1>6. ASSUME NEW h \in Handlers, WriteFail(h)
      PROVE  IInv'
  <2>1. NoRequest \in Requests /\ ~NoRequest.late
    BY DEF NoRequest, Requests, Ops, Ids
  <2> USE <1>6 DEF WriteFail, Leave, Unlock
  <2>2. TypeOK'
    BY <2>1 DEF TypeOK
  <2>3. LockInv'
    BY DEF LockInv, TypeOK
  <2>4. NamedInv'
    BY DEF NamedInv, Saving, TypeOK
  <2>5. SetupInv' /\ SetupOnlyFirst'
    BY <2>1 DEF SetupInv, SetupOnlyFirst, Saving, TypeOK
  <2> QED
    BY <2>2, <2>3, <2>4, <2>5
<1>7. ASSUME Kill
      PROVE  IInv'
  <2>1. NoRequest \in Requests /\ ~NoRequest.late
    BY DEF NoRequest, Requests, Ops, Ids
  <2> USE <1>7 DEF Kill
  <2>2. TypeOK'
    BY <2>1 DEF TypeOK
  <2>3. LockInv' /\ NamedInv'
    BY DEF LockInv, NamedInv, Saving, TypeOK
  <2>4. SetupInv' /\ SetupOnlyFirst'
    BY <2>1 DEF SetupInv, SetupOnlyFirst, Saving, TypeOK
  <2> QED
    BY <2>2, <2>3, <2>4
<1>8. CASE UNCHANGED vars
  BY <1>8 DEF vars, locks, history, TypeOK, LockInv, NamedInv, SetupInv, SetupOnlyFirst, Saving
<1> QED
  BY <1>1, <1>2, <1>3, <1>4, <1>5, <1>6, <1>7, <1>8 DEF Next, Step, Ended

-----------------------------------------------------------------------------
\* The invariant holds throughout.
THEOREM Invariant == Spec => []IInv
  BY InitIInv, StepIInv, PTL DEF Spec

\* The file and the handlers' copies of it are within their types: no password
\* that is too short is ever saved (admin.go:91, 167).
THEOREM AdminTypeCorrect == Spec => []TypeOK
  BY Invariant, PTL DEF IInv

\* Once a setup was answered, none requested later succeeds, whatever overlaps
\* with it (admin.go:87-108).
THEOREM SetupCorrect == Spec => []SetupOnlyFirst
  BY Invariant, PTL DEF IInv

-----------------------------------------------------------------------------
(***************************************************************************)
(* What may undo an answered request.  A handler in the middle of a save   *)
(* brings its own password or token, or one that was in the file when it   *)
(* read it; and if the file was not saved since, that one is not old.      *)
(***************************************************************************)
Busy == {"rlock", "read"} \cup Saving

\* Requests under way have numbers of their own, which nobody has answered;
\* and only answered ones make a password or a token old.
NumberInv ==
  /\ \A h \in Handlers :
       /\ req[h].before \subseteq answered
       /\ pc[h] \in Busy => /\ req[h].id \in 1 .. n /\ req[h].id \notin answered
                            /\ req[h].op \in {"setup", "password"} => req[h].pw \in {0, req[h].id}
                            /\ req[h].before \subseteq 1 .. n
  /\ \A g, h \in Handlers :
       pc[g] \in Busy /\ pc[h] \in Busy /\ g # h => req[g].id # req[h].id
  /\ answered \subseteq 1 .. n
  /\ oldPasswords \subseteq answered /\ oldTokens \subseteq answered

FreshInv ==
  ~raced => \A h \in Handlers : pc[h] \in Saving /\ ~stale[h] =>
    /\ req[h].op # "look"
    /\ IF req[h].op \in {"setup", "password"} THEN loaded[h].pw = req[h].id
       ELSE loaded[h].pw \notin oldPasswords
    /\ CASE req[h].op = "password" -> loaded[h].token \notin oldTokens
         [] req[h].op = "logout" -> loaded[h].token = 0
         [] OTHER -> loaded[h].token = req[h].id

UndoInv == NumberInv /\ FreshInv /\ OnlyRacesUndo

LEMMA InitUndo == Init => UndoInv
<1> SUFFICES ASSUME Init
             PROVE  UndoInv
  OBVIOUS
<1> USE DEF Init
<1>1. NumberInv
  BY DEF NumberInv, Busy, Saving, NoRequest
<1>2. FreshInv /\ OnlyRacesUndo
  BY DEF FreshInv, OnlyRacesUndo, Saving, NoFile
<1> QED
  BY <1>1, <1>2 DEF UndoInv

\* A new request has the next number, and knows the answered ones.
LEMMA RequestNumber ==
  ASSUME TypeOK, NEW h \in Handlers, Request(h)
  PROVE  /\ req'[h].id = n + 1 /\ req'[h].before = answered
         /\ req'[h].op \in {"setup", "password"} => req'[h].pw \in {0, n + 1}
         /\ \A g \in Handlers : g # h => req'[g] = req[g]
<1>1. PICK r \in [op : Ops, named : BOOLEAN, pw : 0..n+1, token : 0..n, id : {n + 1},
                  late : {settled}, before : {answered}] :
        /\ r.op \in {"setup", "password"} => r.pw \in {0, n + 1}
        /\ req' = [req EXCEPT ![h] = r]
  BY Zenon DEF Request
<1>2. req'[h] = r /\ r.id = n + 1 /\ r.before = answered
  BY <1>1 DEF TypeOK
<1> QED
  BY <1>1, <1>2 DEF TypeOK

\* What a granted request brings to the file that it has just read.
LEMMA ResultFresh ==
  ASSUME TypeOK, NEW r \in Requests, Granted(r),
         r.op \in {"setup", "password"} => r.pw \in {0, r.id},
         file.pw \notin oldPasswords, file.token \notin oldTokens
  PROVE  /\ r.op # "look"
         /\ IF r.op \in {"setup", "password"} THEN Result(r).pw = r.id
            ELSE Result(r).pw \notin oldPasswords
         /\ CASE r.op = "password" -> Result(r).token \notin oldTokens
              [] r.op = "logout" -> Result(r).token = 0
              [] OTHER -> Result(r).token = r.id
<1>1. r.op \in {"setup", "login", "logout", "password"}
  BY DEF Granted
<1>2. CASE r.op = "setup"
  BY <1>2 DEF Granted, Result
<1>3. CASE r.op # "setup"
  <2>1. file \in Accounts
    BY <1>3, FileType DEF Granted
  <2>2. CASE r.op = "login"
    BY <2>1, <2>2 DEF Result, Accounts
  <2>3. CASE r.op = "logout"
    BY <2>1, <2>3 DEF Result, Accounts
  <2>4. CASE r.op = "password"
    BY <2>1, <2>4 DEF Granted, Result, Accounts
  <2> QED
    BY <1>1, <1>3, <2>2, <2>3, <2>4
<1> QED
  BY <1>2, <1>3

LEMMA UndoStep == IInv /\ UndoInv /\ [Next]_vars => UndoInv'
<1> SUFFICES ASSUME IInv, UndoInv, [Next]_vars
             PROVE  UndoInv'
  OBVIOUS
<1>0. TypeOK /\ n \in Nat
  BY AdminAssumption DEF IInv, TypeOK
<1> USE DEF UndoInv
<1>1. ASSUME NEW h \in Handlers, Request(h)
      PROVE  UndoInv'
  <2>1. /\ pc[h] = "idle" /\ pc' = [pc EXCEPT ![h] = "rlock"] /\ n' = n + 1
        /\ UNCHANGED <<file, loaded, stale, raced, answered, oldPasswords, oldTokens>>
    BY <1>1, Zenon DEF Request
  <2>2. NumberInv'
    <3>1. ASSUME NEW g \in Handlers
          PROVE  /\ req'[g].before \subseteq answered'
                 /\ pc'[g] \in Busy =>
                      /\ req'[g].id \in 1 .. n' /\ req'[g].id \notin answered'
                      /\ req'[g].op \in {"setup", "password"} => req'[g].pw \in {0, req'[g].id}
                      /\ req'[g].before \subseteq 1 .. n'
      <4>1. CASE g = h
        <5>1. answered' = answered /\ answered \subseteq 1 .. n /\ n' = n + 1
          BY <2>1 DEF NumberInv
        <5>2. n + 1 \notin answered /\ answered \subseteq 1 .. n' /\ n + 1 \in 1 .. n'
          BY <1>0, <5>1
        <5>3. /\ req'[h].id = n + 1 /\ req'[h].before = answered
              /\ req'[h].op \in {"setup", "password"} => req'[h].pw \in {0, n + 1}
          BY <1>0, <1>1, RequestNumber
        <5> QED
          BY <4>1, <5>1, <5>2, <5>3
      <4>2. CASE g # h
        BY <1>0, <1>1, <2>1, <4>2, RequestNumber DEF NumberInv, TypeOK
      <4> QED
        BY <4>1, <4>2
    <3>2. ASSUME NEW f \in Handlers, NEW g \in Handlers, f # g,
                 pc'[f] \in Busy, pc'[g] \in Busy
          PROVE  req'[f].id # req'[g].id
      <4>1. ASSUME NEW e \in Handlers, e # h, pc'[e] \in Busy
            PROVE  req'[e].id = req[e].id /\ req[e].id \in 1 .. n /\ pc[e] \in Busy
        BY <1>0, <1>1, <2>1, <4>1, RequestNumber DEF NumberInv, TypeOK
      <4>2. req'[h].id = n + 1
        BY <1>0, <1>1, RequestNumber
      <4> QED
        BY <1>0, <3>2, <4>1, <4>2 DEF NumberInv
    <3>3. answered' \subseteq 1 .. n' /\ oldPasswords' \subseteq answered'
          /\ oldTokens' \subseteq answered'
      BY <1>0, <2>1 DEF NumberInv
    <3> QED
      BY <3>1, <3>2, <3>3 DEF NumberInv
  <2>3. FreshInv' /\ OnlyRacesUndo'
    BY <1>0, <1>1, <2>1, RequestNumber DEF FreshInv, OnlyRacesUndo, Saving, TypeOK
  <2> QED
    BY <2>2, <2>3
<1>2. ASSUME NEW h \in Handlers, RLock(h) \/ Lock(h) \/ Enter(h)
      PROVE  UndoInv'
  <2>1. /\ UNCHANGED <<file, req, loaded, n, stops, history>>
        /\ pc[h] \in Busy /\ pc' = [pc EXCEPT ![h] = pc'[h]] /\ pc'[h] \in Busy
        /\ pc'[h] \in Saving => pc[h] \in Saving
    BY <1>0, <1>2 DEF RLock, Lock, Enter, TypeOK, Busy, Saving
  <2>2. \A g \in Handlers : /\ pc'[g] \in Busy => pc[g] \in Busy
                            /\ pc'[g] \in Saving => pc[g] \in Saving
    BY <1>0, <2>1 DEF TypeOK
  <2>3. NumberInv' /\ FreshInv' /\ OnlyRacesUndo'
    BY <2>1, <2>2 DEF NumberInv, FreshInv, OnlyRacesUndo, history
  <2> QED
    BY <2>3
<1>3. ASSUME NEW h \in Handlers, Read(h)
      PROVE  UndoInv'
  <2>1. /\ pc[h] = "read"
        /\ pc' = [pc EXCEPT ![h] = IF Granted(req[h]) THEN "lock" ELSE "idle"]
        /\ loaded' = IF Granted(req[h]) THEN [loaded EXCEPT ![h] = Result(req[h])] ELSE loaded
        /\ req' = IF Granted(req[h]) THEN req ELSE [req EXCEPT ![h] = NoRequest]
        /\ stale' = [stale EXCEPT ![h] = FALSE]
        /\ UNCHANGED <<file, n, raced, answered, oldPasswords, oldTokens>>
    BY <1>3 DEF Read, Reading
  <2>2. CASE ~ Granted(req[h])
    <3>1. NoRequest.before = {}
      BY DEF NoRequest
    <3>2. NumberInv'
      BY <1>0, <2>1, <2>2, <3>1 DEF NumberInv, TypeOK, Busy, Saving
    <3>3. FreshInv' /\ OnlyRacesUndo'
      BY <1>0, <2>1, <2>2 DEF FreshInv, OnlyRacesUndo, TypeOK, Saving
    <3> QED
      BY <3>2, <3>3
  <2>3. CASE Granted(req[h])
    <3>1. NumberInv'
      BY <1>0, <2>1, <2>3 DEF NumberInv, TypeOK, Busy, Saving
    <3>2. OnlyRacesUndo'
      BY <2>1 DEF OnlyRacesUndo
    <3>3. req[h] \in Requests /\ (req[h].op \in {"setup", "password"} =>
                                     req[h].pw \in {0, req[h].id})
      BY <1>0, <2>1 DEF TypeOK, NumberInv, Busy
    <3>4. FreshInv'
      <4>1. SUFFICES ASSUME ~ raced', NEW g \in Handlers, pc'[g] \in Saving, ~ stale'[g]
            PROVE  /\ req'[g].op # "look"
                   /\ IF req'[g].op \in {"setup", "password"} THEN loaded'[g].pw = req'[g].id
                      ELSE loaded'[g].pw \notin oldPasswords'
                   /\ CASE req'[g].op = "password" -> loaded'[g].token \notin oldTokens'
                        [] req'[g].op = "logout" -> loaded'[g].token = 0
                        [] OTHER -> loaded'[g].token = req'[g].id
        BY DEF FreshInv
      <4>2. CASE g = h
        <5>1. loaded'[g] = Result(req[h]) /\ req'[g] = req[h]
          BY <1>0, <2>1, <2>3, <4>2 DEF TypeOK
        <5>2. file.pw \notin oldPasswords /\ file.token \notin oldTokens
          BY <2>1, <4>1 DEF OnlyRacesUndo
        <5> QED
          BY <1>0, <2>1, <2>3, <3>3, <5>1, <5>2, ResultFresh
      <4>3. CASE g # h
        <5>1. /\ loaded'[g] = loaded[g] /\ req'[g] = req[g] /\ pc[g] \in Saving /\ ~ stale[g]
          BY <1>0, <2>1, <2>3, <4>1, <4>3 DEF TypeOK
        <5> QED
          BY <2>1, <4>1, <5>1 DEF FreshInv
      <4> QED
        BY <4>2, <4>3
    <3> QED
      BY <3>1, <3>2, <3>4
  <2> QED
    BY <2>2, <2>3
<1>4. ASSUME NEW h \in Handlers, Truncate(h)
      PROVE  UndoInv'
  <2>1. /\ pc[h] = "truncate" /\ file' = Torn /\ pc' = [pc EXCEPT ![h] = "write"]
        /\ UNCHANGED <<req, loaded, n, stale, raced, answered, oldPasswords, oldTokens>>
    BY <1>4 DEF Truncate, history
  <2>2. \A g \in Handlers : /\ pc'[g] \in Busy => pc[g] \in Busy
                            /\ pc'[g] \in Saving => pc[g] \in Saving
    BY <1>0, <2>1 DEF TypeOK, Busy, Saving
  <2>3. NumberInv' /\ FreshInv'
    BY <2>1, <2>2 DEF NumberInv, FreshInv
  <2>4. 0 \notin oldPasswords /\ 0 \notin oldTokens
    BY <1>0 DEF TypeOK, Ids
  <2>5. OnlyRacesUndo'
    BY <2>1, <2>4 DEF OnlyRacesUndo, Torn
  <2> QED
    BY <2>3, <2>5
<1>5. ASSUME NEW h \in Handlers, Write(h)
      PROVE  UndoInv'
  <2> DEFINE q == req[h]
             op == req[h].op
  <2>1. /\ pc[h] = "write" /\ file' = loaded[h]
        /\ pc' = [pc EXCEPT ![h] = "idle"]
        /\ req' = [req EXCEPT ![h] = NoRequest]
        /\ stale' = [g \in Handlers |-> g # h /\ pc[g] # "idle"]
        /\ raced' = (raced \/ stale[h])
        /\ answered' = answered \cup {q.id}
        /\ oldPasswords' = oldPasswords \cup (IF op \in {"setup", "password"} THEN q.before ELSE {})
        /\ oldTokens' = oldTokens \cup (IF op = "password" THEN {} ELSE q.before)
        /\ UNCHANGED n
    BY <1>5 DEF Write, Saved, Leave
  <2>2. /\ q.id \in 1 .. n /\ q.id \notin answered /\ q.before \subseteq answered
        /\ pc[h] \in Busy
    BY <2>1 DEF NumberInv, Busy, Saving
  <2>3. \A g \in Handlers : pc'[g] \in Busy => g # h /\ pc[g] \in Busy /\ req'[g] = req[g]
    BY <1>0, <2>1 DEF TypeOK, Busy, Saving
  <2>4. NumberInv'
    <3>1. NoRequest.before = {}
      BY DEF NoRequest
    <3>2. \A g \in Handlers : req'[g].before \subseteq answered'
      BY <1>0, <2>1, <3>1 DEF NumberInv, TypeOK
    <3>3. \A g \in Handlers : pc'[g] \in Busy => req[g].id # q.id
      BY <2>2, <2>3 DEF NumberInv
    <3>4. /\ answered' \subseteq 1 .. n' /\ oldPasswords' \subseteq answered'
          /\ oldTokens' \subseteq answered'
      BY <2>1, <2>2 DEF NumberInv
    <3> QED
      BY <2>1, <2>3, <3>2, <3>3, <3>4 DEF NumberInv
  <2>5. FreshInv'
    <3>1. ASSUME NEW g \in Handlers, pc'[g] \in Saving PROVE stale'[g]
      <4>1. g # h /\ pc[g] # "idle"
        BY <1>0, <2>1, <3>1 DEF TypeOK, Saving
      <4> QED
        BY <2>1, <4>1
    <3> QED
      BY <3>1 DEF FreshInv
  <2>6. OnlyRacesUndo'
    <3>1. SUFFICES ASSUME ~ raced'
                   PROVE  file'.pw \notin oldPasswords' /\ file'.token \notin oldTokens'
      BY DEF OnlyRacesUndo
    <3>2. ~ raced /\ ~ stale[h] /\ pc[h] \in Saving
      BY <1>0, <2>1, <3>1 DEF TypeOK, Saving
    <3>3. /\ op # "look"
          /\ IF op \in {"setup", "password"} THEN loaded[h].pw = q.id
             ELSE loaded[h].pw \notin oldPasswords
          /\ CASE op = "password" -> loaded[h].token \notin oldTokens
               [] op = "logout" -> loaded[h].token = 0
               [] OTHER -> loaded[h].token = q.id
      BY <3>2 DEF FreshInv
    <3>4. /\ q.id \notin oldPasswords \cup q.before /\ q.id \notin oldTokens \cup q.before
      BY <2>2 DEF NumberInv
    <3>5. 0 \notin oldTokens \cup q.before
      <4>1. answered \subseteq Ids /\ oldTokens \subseteq Ids /\ 0 \notin Ids
        BY <1>0 DEF TypeOK, Ids
      <4> QED
        BY <2>2, <4>1
    <3>6. file'.pw \notin oldPasswords'
      BY <2>1, <3>3, <3>4
    <3>7. file'.token \notin oldTokens'
      BY <2>1, <3>3, <3>4, <3>5
    <3> QED
      BY <3>6, <3>7
  <2> QED
    BY <2>4, <2>5, <2>6
<1>6. ASSUME NEW h \in Handlers, WriteFail(h)
      PROVE  UndoInv'
  <2>1. /\ pc' = [pc EXCEPT ![h] = "idle"] /\ req' = [req EXCEPT ![h] = NoRequest]
        /\ loaded' = [loaded EXCEPT ![h] = NoFile]
        /\ UNCHANGED <<file, n, stale, raced, answered, oldPasswords, oldTokens>>
    BY <1>6 DEF WriteFail, Leave
  <2>2. NoRequest.before = {}
    BY DEF NoRequest
  <2>3. NumberInv'
    BY <1>0, <2>1, <2>2 DEF NumberInv, TypeOK, Busy, Saving
  <2>4. FreshInv' /\ OnlyRacesUndo'
    BY <1>0, <2>1 DEF FreshInv, OnlyRacesUndo, TypeOK, Saving
  <2> QED
    BY <2>3, <2>4
<1>7. ASSUME Kill
      PROVE  UndoInv'
  <2>1. /\ pc' = [h \in Handlers |-> "idle"] /\ req' = [h \in Handlers |-> NoRequest]
        /\ UNCHANGED <<file, n, raced, answered, oldPasswords, oldTokens>>
    BY <1>7 DEF Kill
  <2>2. NoRequest.before = {}
    BY DEF NoRequest
  <2>3. NumberInv'
    BY <2>1, <2>2 DEF NumberInv, Busy, Saving
  <2>4. FreshInv' /\ OnlyRacesUndo'
    BY <2>1 DEF FreshInv, OnlyRacesUndo, Saving
  <2> QED
    BY <2>3, <2>4
<1>8. CASE UNCHANGED vars
  BY <1>8 DEF vars, history, NumberInv, FreshInv, OnlyRacesUndo
<1> QED
  BY <1>1, <1>2, <1>3, <1>4, <1>5, <1>6, <1>7, <1>8 DEF Next, Step, Ended

\* Whatever requests overlap, and wherever the process is killed: an answered
\* password change, login or logout is undone by nothing but a save of an
\* account that was read before another save (admin.go: Setup, Login, Logout
\* and UpdatePassword, which read and write under mu but not in one hold).
THEOREM UndoCorrect == Spec => []OnlyRacesUndo
<1>1. UndoInv => OnlyRacesUndo
  BY DEF UndoInv
<1> QED
  BY <1>1, InitIInv, StepIInv, InitUndo, UndoStep, PTL DEF Spec

(***************************************************************************)
(* A send from the wallet.                                                 *)
(***************************************************************************)

\* The fee a round has found is never 0, and pays for the size it found.
FoundInv ==
  state \in {"estimated", "sent"} => fee > 0 /\ fee >= MinFee(size)

\* There is a round left when one may begin.
RoundInv == state \in {"begin", "round"} => round < MaxRounds

FeeIInv == FeeTypeOK /\ RoundInv /\ FoundInv /\ EstimateSound /\ FeePaysRelay

-----------------------------------------------------------------------------
\* As long as the request stays, so does all that is computed from it.
LEMMA SameCoins ==
  ASSUME UNCHANGED request, UNCHANGED fee
  PROVE  /\ Taken(fee)' = Taken(fee)
         /\ SizePaying(fee)' = SizePaying(fee)
         /\ Pays(Taken(fee), fee)' <=> Pays(Taken(fee), fee)
  BY DEF request, Taken, UpTo, Coins, Value, Pays, SizePaying, SizeWith, InputSize

\* A transaction takes at least 76 bytes.
LEMMA SizeType ==
  ASSUME FeeTypeOK, NEW C, C \subseteq DOMAIN utxos, NEW outputs \in {1, 2}
  PROVE  /\ Cardinality(C) \in Nat
         /\ SizeWith(C, outputs) \in Nat /\ SizeWith(C, outputs) >= 76
<1> DEFINE hybrid == {i \in C : utxos[i].hybrid}
<1>1. IsFiniteSet(C)
  <2>1. utxos \in Seq(UTXO)
    BY FeeAssumption DEF FeeTypeOK
  <2>2. DOMAIN utxos = 1..Len(utxos) /\ Len(utxos) \in Nat
    BY <2>1
  <2>3. IsFiniteSet(1..Len(utxos)) /\ C \in SUBSET (1..Len(utxos))
    BY <2>2, FS_Interval
  <2> QED
    BY <2>3, FS_Subset
<1>2. IsFiniteSet(hybrid) /\ IsFiniteSet(C \ hybrid)
  <2>1. hybrid \in SUBSET C /\ C \ hybrid \in SUBSET C
    OBVIOUS
  <2> QED
    BY <1>1, <2>1, FS_Subset
<1>3. /\ Cardinality(C) \in Nat
      /\ Cardinality(hybrid) \in Nat /\ Cardinality(C \ hybrid) \in Nat
  BY <1>1, <1>2, FS_CardinalityType
<1>4. InputSize(C) \in Nat
  BY <1>3 DEF InputSize
<1> QED
  BY <1>3, <1>4 DEF SizeWith

\* The next fee is a number, not 0, and at least the minimum.
LEMMA NextFeeType ==
  ASSUME FeeTypeOK, NEW s \in Nat, s >= 76
  PROVE  /\ MinFee(s) \in Nat /\ MinFee(s) > 0
         /\ NextFee(s) \in Nat /\ NextFee(s) >= MinFee(s)
<1>1. ASSUME NEW r \in Nat
      PROVE  ForSize(r, s) \in Nat
  <2>1. s * r \in Nat
    OBVIOUS
  <2> QED
    BY <2>1 DEF ForSize
<1>2. ASSUME NEW r \in Nat \ {0}
      PROVE  ForSize(r, s) > 0
  <2>1. s * r \in Nat /\ s * r >= 1
    OBVIOUS
  <2> QED
    BY <2>1 DEF ForSize
<1> QED
  BY <1>1, <1>2 DEF FeeTypeOK, MinFee, NextFee, Max2

\* A round finds a fee that pays for its size.
LEMMA RoundFinds ==
  ASSUME FeeTypeOK, Round
  PROVE  /\ size' \in Nat /\ inputs' \in Nat /\ fee' \in Nat
         /\ fee' > 0 /\ fee' >= MinFee(size)'
<1>1. Taken(fee) \subseteq DOMAIN utxos
  BY DEF Taken, Coins
<1>2. size' = SizePaying(fee) /\ inputs' = Cardinality(Taken(fee))
  BY DEF Round, Rounding
<1>3. size' \in Nat /\ size' >= 76 /\ inputs' \in Nat
  BY <1>1, <1>2, SizeType DEF SizePaying
<1>4. fee' = NextFee(size') /\ MinFee(size)' = MinFee(size')
  BY DEF Round, Rounding, request, MinFee, NextFee
<1> QED
  BY <1>3, <1>4, NextFeeType

-----------------------------------------------------------------------------
LEMMA InitFee == FeeInit => FeeIInv
<1> SUFFICES ASSUME FeeInit
             PROVE  FeeIInv
  OBVIOUS
<1>1. minRelay \in Nat \ {0} /\ feerate \in Nat
  BY FeeAssumption DEF FeeInit, Max2
<1> QED
  BY <1>1 DEF FeeIInv, FeeInit, FeeTypeOK, RoundInv, FoundInv, EstimateSound, FeePaysRelay, MaxRounds

\* The inductive step, one action at a time.
LEMMA StepFee == FeeIInv /\ [FeeNext]_feeVars => FeeIInv'
<1> SUFFICES ASSUME FeeIInv, [FeeNext]_feeVars
             PROVE  FeeIInv'
  OBVIOUS
<1> USE FeeAssumption DEF FeeIInv, request
<1>1. CASE Refuse \/ Begin \/ RunOut \/ Reject
  BY <1>1 DEF Refuse, Begin, RunOut, Reject, FeeTypeOK, RoundInv, FoundInv, EstimateSound, FeePaysRelay
<1>2. CASE Round
  <2>1. state' \in {"estimated", "round"} /\ round' = round + 1 /\ UNCHANGED <<request, sent>>
    BY <1>2 DEF Round, Rounding
  <2>2. state = "round" /\ (state' = "round" => round' # MaxRounds)
    BY <1>2 DEF Round, Rounding
  <2>3. FeeTypeOK'
    <3>1. round' \in 0..MaxRounds
      BY <2>1, <2>2 DEF FeeTypeOK, RoundInv, MaxRounds
    <3> QED
      BY <1>2, <2>1, <3>1, RoundFinds DEF FeeTypeOK
  <2>4. FoundInv' /\ FeePaysRelay' /\ RoundInv'
    <3>1. RoundInv'
      BY <2>1, <2>2 DEF FeeTypeOK, RoundInv, MaxRounds
    <3> QED
      BY <1>2, <2>1, <3>1, RoundFinds DEF FoundInv, FeePaysRelay
  <2>5. EstimateSound'
    <3>1. SUFFICES ASSUME state' = "estimated", round' < MaxRounds
                   PROVE  /\ inputs' = Cardinality(Taken(fee))'
                          /\ size' = SizePaying(fee)'
                          /\ Pays(Taken(fee), fee)'
      BY <1>2, <2>1, RoundFinds DEF EstimateSound
    <3>2. fee' = fee
      BY <1>2, <3>1, <2>1 DEF Round, Rounding, FeeTypeOK, MaxRounds
    <3>3. inputs' = Cardinality(Taken(fee)) /\ size' = SizePaying(fee) /\ Pays(Taken(fee), fee)
      BY <1>2 DEF Round, Rounding
    <3> QED
      BY <2>1, <3>2, <3>3, SameCoins
  <2> QED
    BY <2>3, <2>4, <2>5
<1>3. CASE Send
  <2>1. FeeTypeOK'
    BY <1>3 DEF Send, Sending, FeeTypeOK, Estimated
  <2>2. RoundInv' /\ FoundInv' /\ FeePaysRelay' /\ EstimateSound'
    BY <1>3 DEF Send, Sending, FeeTypeOK, Estimated, RoundInv, FoundInv, FeePaysRelay, EstimateSound, MinFee
  <2> QED
    BY <2>1, <2>2
<1>4. CASE UNCHANGED feeVars
  <2>1. UNCHANGED <<request, fee, size, inputs, state, round, sent>>
    BY <1>4 DEF feeVars
  <2>2. FeeTypeOK' /\ RoundInv' /\ FoundInv' /\ FeePaysRelay'
    BY <2>1 DEF FeeTypeOK, RoundInv, FoundInv, FeePaysRelay, MinFee
  <2>3. EstimateSound'
    BY <2>1, SameCoins DEF EstimateSound, MinFee
  <2> QED
    BY <2>2, <2>3
<1> QED
  BY <1>1, <1>2, <1>3, <1>4 DEF FeeNext, FeeEnded

-----------------------------------------------------------------------------
\* The invariant holds throughout.
THEOREM FeeInvariant == FeeSpec => []FeeIInv
  BY InitFee, StepFee, PTL DEF FeeSpec

\* Fees, sizes and counts stay natural numbers, and the loop of estimateSendFee
\* ends within its twelve rounds (admin.go:463).
THEOREM FeeTypeCorrect == FeeSpec => []FeeTypeOK
  BY FeeInvariant, PTL DEF FeeIInv

\* The estimate pays for the size returned with it, and is exact if the rounds
\* did not run out (admin.go:460-503).
THEOREM EstimateCorrect == FeeSpec => []EstimateSound
  BY FeeInvariant, PTL DEF FeeIInv

\* No send goes to the node without a fee, or with less than the minimum of the
\* transaction estimated for it (main.go:332-350).
THEOREM FeeCorrect == FeeSpec => []FeePaysRelay
  BY FeeInvariant, PTL DEF FeeIInv

-----------------------------------------------------------------------------
(***************************************************************************)
(* Totals.  They are sums over the coins in their order, so that what is   *)
(* true of all of them is proved by induction on the coins: a set of       *)
(* numbers that contains 0 and each successor contains them all.           *)
(***************************************************************************)
LEMMA Least ==
  ASSUME NEW T \in SUBSET Nat, T # {}
  PROVE  \E m \in T : \A k \in T : m <= k
<1> DEFINE LT == OpToRel(<, Nat)
<1>1. IsWellFoundedOn(LT, Nat)
  BY NatLessThanWellFounded
<1>2. \A a, b \in Nat : a < b => <<a, b>> \in LT
  BY DEF OpToRel
<1> HIDE DEF LT
<1>3. \E m \in T : \A k \in T : ~ (<<k, m>> \in LT)
  BY <1>1, WFMin
<1>4. PICK m \in T : \A k \in T : ~ (<<k, m>> \in LT)
  BY <1>3
<1>5. ASSUME NEW k \in T PROVE m <= k
  <2>1. k \in Nat /\ m \in Nat
    OBVIOUS
  <2>2. ~ (k < m)
    BY <1>2, <1>4, <2>1, Zenon
  <2> QED
    BY <2>1, <2>2
<1> QED
  BY <1>4, <1>5

LEMMA Induction ==
  ASSUME NEW S, 0 \in S, \A k \in Nat : k \in S => k + 1 \in S
  PROVE  \A e \in Nat : e \in S
<1> SUFFICES ASSUME NEW e \in Nat, e \notin S PROVE FALSE
  OBVIOUS
<1> DEFINE T == {k \in Nat : k \notin S}
<1>1. PICK m \in T : \A k \in T : m <= k
  <2>1. T \in SUBSET Nat /\ T # {}
    OBVIOUS
  <2> HIDE DEF T
  <2> QED
    BY <2>1, Least
<1>2. m # 0 /\ m - 1 \in Nat /\ m - 1 \in S
  <2>1. m # 0 /\ m - 1 \in Nat
    OBVIOUS
  <2>2. m - 1 \notin T
    BY <1>1, <2>1
  <2> QED
    BY <2>1, <2>2
<1> QED
  BY <1>2

\* AddCoin k of a total of the coins in C.
AddCoin(C, f, k) == IF k = 0 THEN 0 ELSE f[k - 1] + (IF k \in C THEN utxos[k].value ELSE 0)

LEMMA TotalExists ==
  ASSUME NEW C
  PROVE  \A e \in Nat : \E f : f = [k \in 0..e |-> AddCoin(C, f, k)]
<1> DEFINE S == {e \in Nat : \E f : f = [k \in 0..e |-> AddCoin(C, f, k)]}
<1>1. 0 \in S
  <2> DEFINE f == [k \in 0..0 |-> 0]
  <2>1. f = [k \in 0..0 |-> AddCoin(C, f, k)]
    BY DEF AddCoin
  <2> QED
    BY <2>1
<1>2. ASSUME NEW e \in Nat, e \in S PROVE e + 1 \in S
  <2>1. PICK f : f = [k \in 0..e |-> AddCoin(C, f, k)]
    BY <1>2
  <2> DEFINE g == [k \in 0..e + 1 |-> IF k = e + 1 THEN AddCoin(C, f, k) ELSE f[k]]
  <2>2. \A k \in 0..e + 1 : AddCoin(C, g, k) = AddCoin(C, f, k)
    <3>1. \A k \in 1..e + 1 : k - 1 \in 0..e + 1 /\ k - 1 # e + 1
      OBVIOUS
    <3>2. \A k \in 1..e + 1 : g[k - 1] = f[k - 1]
      BY <3>1
    <3> HIDE DEF g
    <3> QED
      BY <3>2 DEF AddCoin
  <2>3. \A k \in 0..e : f[k] = AddCoin(C, f, k)
    BY <2>1
  <2>4. \A k \in 0..e + 1 : k = e + 1 \/ k \in 0..e
    OBVIOUS
  <2>5. \A k \in 0..e + 1 : g[k] = AddCoin(C, f, k)
    <3>1. \A k \in 0..e + 1 : g[k] = IF k = e + 1 THEN AddCoin(C, f, k) ELSE f[k]
      OBVIOUS
    <3> HIDE DEF g
    <3> QED
      BY <2>3, <2>4, <3>1
  <2>6. g = [k \in 0..e + 1 |-> AddCoin(C, g, k)]
    <3>1. g = [k \in 0..e + 1 |-> g[k]]
      OBVIOUS
    <3> HIDE DEF g
    <3> QED
      BY <2>2, <2>5, <3>1
  <2> HIDE DEF g
  <2> QED
    BY <2>6
<1>3. \A e \in Nat : e \in S
  <2> HIDE DEF S
  <2> QED
    BY <1>1, <1>2, Induction
<1> QED
  BY <1>3

\* The total a value is.
LEMMA Totals ==
  ASSUME FeeTypeOK, NEW C
  PROVE  /\ Len(utxos) \in Nat /\ DOMAIN utxos = 1..Len(utxos)
         /\ \E t \in [0..Len(utxos) -> Nat] :
              /\ Value(C) = t[Len(utxos)] /\ t[0] = 0
              /\ \A k \in 1..Len(utxos) :
                   /\ utxos[k].value \in Nat
                   /\ t[k] = t[k - 1] + (IF k \in C THEN utxos[k].value ELSE 0)
<1> DEFINE e == Len(utxos)
<1>1. utxos \in Seq(UTXO) /\ e \in Nat /\ DOMAIN utxos = 1..e
  <2>1. utxos \in Seq(UTXO)
    BY FeeAssumption DEF FeeTypeOK
  <2> QED
    BY <2>1
<1>2. \A k \in 1..e : utxos[k].value \in Nat
  <2>1. \A k \in 1..e : utxos[k] \in UTXO
    BY <1>1
  <2> QED
    BY <2>1 DEF UTXO
<1> DEFINE total[i \in 0 .. Len(utxos)] ==
             IF i = 0 THEN 0 ELSE total[i - 1] + (IF i \in C THEN utxos[i].value ELSE 0)
<1>3. Value(C) = total[e]
  BY DEF Value
<1>4. total = CHOOSE f : f = [i \in 0..e |->
                 IF i = 0 THEN 0 ELSE f[i - 1] + (IF i \in C THEN utxos[i].value ELSE 0)]
  OBVIOUS
<1>5. \E f : f = [i \in 0..e |->
                 IF i = 0 THEN 0 ELSE f[i - 1] + (IF i \in C THEN utxos[i].value ELSE 0)]
  <2> HIDE DEF e
  <2>1. \E f : f = [i \in 0..e |-> AddCoin(C, f, i)]
    BY <1>1, TotalExists
  <2> QED
    BY <2>1 DEF AddCoin
<1> HIDE DEF total, e
<1>6. total = [i \in 0..e |->
                 IF i = 0 THEN 0 ELSE total[i - 1] + (IF i \in C THEN utxos[i].value ELSE 0)]
  BY <1>4, <1>5, Zenon
<1>7. /\ total[0] = 0
      /\ \A k \in 1..e : total[k] = total[k - 1] + (IF k \in C THEN utxos[k].value ELSE 0)
  <2>1. \A k \in 0..e : total[k] =
          IF k = 0 THEN 0 ELSE total[k - 1] + (IF k \in C THEN utxos[k].value ELSE 0)
    BY <1>6
  <2>2. 0 \in 0..e /\ \A k \in 1..e : k \in 0..e /\ k # 0
    BY <1>1 DEF e
  <2> QED
    BY <2>1, <2>2
<1>8. \A k \in Nat : k \in 0..e => total[k] \in Nat
  <2> DEFINE S == {k \in Nat : k \in 0..e => total[k] \in Nat}
  <2>1. 0 \in S
    BY <1>7
  <2>2. ASSUME NEW k \in Nat, k \in S PROVE k + 1 \in S
    <3>1. k + 1 \in 0..e => k \in 0..e /\ k + 1 \in 1..e
      BY <1>1 DEF e
    <3>2. k + 1 \in 1..e => total[k + 1] = total[k] + (IF k + 1 \in C THEN utxos[k + 1].value ELSE 0)
      BY <1>7
    <3> QED
      BY <1>2, <2>2, <3>1, <3>2
  <2> HIDE DEF S
  <2>3. \A k \in Nat : k \in S
    BY <2>1, <2>2, Induction
  <2> QED
    BY <2>3 DEF S
<1>9. total \in [0..e -> Nat]
  <2>1. \A k \in 0..e : k \in Nat
    OBVIOUS
  <2>2. \A k \in 0..e : total[k] \in Nat
    BY <1>8, <2>1
  <2>3. total = [k \in 0..e |-> total[k]]
    BY <1>6
  <2> QED
    BY <2>2, <2>3
<1> QED
  BY <1>1, <1>2, <1>3, <1>7, <1>9 DEF e

\* More coins are worth no less, and none are worth nothing.
LEMMA MoreCoins ==
  ASSUME FeeTypeOK, NEW C, NEW D, C \subseteq D
  PROVE  Value(C) \in Nat /\ Value(D) \in Nat /\ Value(C) <= Value(D)
<1>1. PICK c \in [0..Len(utxos) -> Nat] :
              /\ Value(C) = c[Len(utxos)] /\ c[0] = 0
              /\ \A k \in 1..Len(utxos) :
                   /\ utxos[k].value \in Nat
                   /\ c[k] = c[k - 1] + (IF k \in C THEN utxos[k].value ELSE 0)
  BY Totals
<1>2. PICK d \in [0..Len(utxos) -> Nat] :
              /\ Value(D) = d[Len(utxos)] /\ d[0] = 0
              /\ \A k \in 1..Len(utxos) :
                   d[k] = d[k - 1] + (IF k \in D THEN utxos[k].value ELSE 0)
  BY Totals
<1> DEFINE e == Len(utxos)
           S == {k \in Nat : k \in 0..e => c[k] <= d[k]}
<1>3. e \in Nat
  BY Totals
<1>4. 0 \in S
  BY <1>1, <1>2
<1>5. ASSUME NEW k \in Nat, k \in S PROVE k + 1 \in S
  <2> SUFFICES ASSUME k + 1 \in 0..e PROVE c[k + 1] <= d[k + 1]
    OBVIOUS
  <2>1. k \in 0..e /\ k + 1 \in 1..e /\ (k + 1) - 1 = k
    BY <1>3
  <2>2. c[k] <= d[k] /\ c[k] \in Nat /\ d[k] \in Nat
    BY <1>5, <2>1
  <2>3. /\ c[k + 1] = c[k] + (IF k + 1 \in C THEN utxos[k + 1].value ELSE 0)
        /\ d[k + 1] = d[k] + (IF k + 1 \in D THEN utxos[k + 1].value ELSE 0)
        /\ utxos[k + 1].value \in Nat
    BY <1>1, <1>2, <2>1
  <2> QED
    BY <2>2, <2>3
<1>6. \A k \in Nat : k \in S
  <2> HIDE DEF S
  <2> QED
    BY <1>4, <1>5, Induction
<1>7. e \in 0..e
  BY <1>3
<1> QED
  BY <1>1, <1>2, <1>3, <1>6, <1>7

LEMMA NoCoins ==
  ASSUME FeeTypeOK, NEW C, \A k : k \notin C
  PROVE  Value(C) = 0
<1>1. PICK c \in [0..Len(utxos) -> Nat] :
              /\ Value(C) = c[Len(utxos)] /\ c[0] = 0
              /\ \A k \in 1..Len(utxos) :
                   c[k] = c[k - 1] + (IF k \in C THEN utxos[k].value ELSE 0)
  BY Totals
<1> DEFINE e == Len(utxos)
           S == {k \in Nat : k \in 0..e => c[k] = 0}
<1>2. e \in Nat
  BY Totals
<1>3. 0 \in S
  BY <1>1
<1>4. ASSUME NEW k \in Nat, k \in S PROVE k + 1 \in S
  <2> SUFFICES ASSUME k + 1 \in 0..e PROVE c[k + 1] = 0
    OBVIOUS
  <2>1. k \in 0..e /\ k + 1 \in 1..e /\ (k + 1) - 1 = k
    BY <1>2
  <2>2. c[k + 1] = c[k] + 0
    BY <1>1, <2>1
  <2> QED
    BY <1>4, <2>1, <2>2
<1>5. \A k \in Nat : k \in S
  <2> HIDE DEF S
  <2> QED
    BY <1>3, <1>4, Induction
<1> QED
  BY <1>1, <1>2, <1>5

-----------------------------------------------------------------------------
(***************************************************************************)
(* Short balances.                                                         *)
(***************************************************************************)
\* The fee of a transaction of the coins up to i, with change.
FeeOf(i) == NextFee(SizeWith(UpTo(i), 2))

\* They would pay it, and more.
CouldPay(i) == FeeOf(i) >= minRelay /\ Value(UpTo(i)) > amountSat + FeeOf(i)

\* The fee never grows beyond what some number of coins could pay.
BelowInv == state = "round" => fee > 0 /\ \A i \in Coins : CouldPay(i) => fee <= FeeOf(i)

\* The coins are indices.
LEMMA CoinTypes ==
  ASSUME FeeTypeOK
  PROVE  /\ Coins \subseteq Nat \ {0} /\ Coins \subseteq DOMAIN utxos
         /\ amountSat \in Nat /\ minRelay \in Nat \ {0} /\ feerate \in Nat /\ fee \in Nat
<1>1. DOMAIN utxos = 1..Len(utxos) /\ Len(utxos) \in Nat
  BY Totals
<1> QED
  BY <1>1, FeeAssumption DEF FeeTypeOK, Coins

\* If the coins taken do not pay, all were taken.
LEMMA AllTaken ==
  ASSUME FeeTypeOK, ~ Pays(Taken(fee), fee)
  PROVE  Taken(fee) = Coins
<1> SUFFICES ASSUME Coins \ Taken(fee) # {} PROVE FALSE
  BY DEF Taken
<1> DEFINE K == Coins \ Taken(fee)
<1>1. PICK m \in K : \A k \in K : m <= k
  <2>1. K \in SUBSET Nat
    BY CoinTypes
  <2> HIDE DEF K
  <2> QED
    BY <2>1, Least DEF K
<1>2. m \in Nat \ {0}
  BY CoinTypes
<1>3. UpTo(m - 1) \subseteq Taken(fee)
  <2> SUFFICES ASSUME NEW j \in Coins, j <= m - 1 PROVE j \in Taken(fee)
    BY DEF UpTo
  <2>1. j \in Nat /\ ~ (m <= j)
    BY <1>2, CoinTypes
  <2> QED
    BY <1>1, <2>1
<1>4. ~ (Value(UpTo(m - 1)) < amountSat + fee)
  BY <1>1 DEF Taken
<1>5. Value(UpTo(m - 1)) \in Nat /\ Value(Taken(fee)) \in Nat
      /\ Value(UpTo(m - 1)) <= Value(Taken(fee))
  BY <1>3, MoreCoins
<1>6. Value(Taken(fee)) >= amountSat + fee
  <2>1. amountSat \in Nat /\ fee \in Nat
    BY CoinTypes
  <2> QED
    BY <1>4, <1>5, <2>1
<1> QED
  BY <1>6 DEF Pays

\* Where a first coin exists, it is taken.
LEMMA SomeTaken ==
  ASSUME FeeTypeOK, fee > 0, NEW i \in Coins
  PROVE  Taken(fee) # {}
<1>1. PICK m \in Coins : \A k \in Coins : m <= k
  BY CoinTypes, Least
<1>2. m \in Nat \ {0} /\ amountSat \in Nat /\ fee \in Nat
  BY CoinTypes
<1>3. \A j : j \notin UpTo(m - 1)
  <2>1. \A j \in Coins : j \in Nat /\ m <= j
    BY <1>1, CoinTypes
  <2>2. \A j \in Coins : ~ (j <= m - 1)
    BY <1>2, <2>1
  <2> QED
    BY <2>2 DEF UpTo
<1>4. Value(UpTo(m - 1)) < amountSat + fee
  <2>1. Value(UpTo(m - 1)) = 0
    BY <1>3, NoCoins
  <2> QED
    BY <1>2, <2>1
<1> QED
  BY <1>1, <1>4 DEF Taken

\* A fee that the coins up to i could pay takes no other coins.
LEMMA TakenBelow ==
  ASSUME FeeTypeOK, NEW i \in Coins, CouldPay(i), FeeOf(i) \in Nat, fee <= FeeOf(i)
  PROVE  Taken(fee) \subseteq UpTo(i)
<1> SUFFICES ASSUME NEW j \in Taken(fee), ~ (j <= i) PROVE FALSE
  BY DEF Taken, UpTo
<1>1. /\ i \in Nat /\ j \in Nat /\ amountSat \in Nat /\ fee \in Nat
      /\ Value(UpTo(j - 1)) < amountSat + fee
  BY CoinTypes DEF Taken
<1>2. UpTo(i) \subseteq UpTo(j - 1)
  <2>1. \A k \in Coins : k \in Nat
    BY CoinTypes
  <2>2. \A k \in Coins : k <= i => k <= j - 1
    BY <1>1, <2>1
  <2> QED
    BY <2>2 DEF UpTo
<1>3. /\ Value(UpTo(i)) \in Nat /\ Value(UpTo(j - 1)) \in Nat
      /\ Value(UpTo(i)) <= Value(UpTo(j - 1))
  BY <1>2, MoreCoins
<1> QED
  BY <1>1, <1>3 DEF CouldPay

\* Fewer coins take no more bytes, and fewer bytes no more fee.
LEMMA FewerBytes ==
  ASSUME FeeTypeOK, NEW C, NEW D, C \subseteq D, D \subseteq DOMAIN utxos, NEW o \in {1, 2}
  PROVE  /\ SizeWith(C, o) \in Nat /\ SizeWith(D, 2) \in Nat
         /\ SizeWith(C, o) >= 76 /\ SizeWith(D, 2) >= 76
         /\ SizeWith(C, o) <= SizeWith(D, 2)
<1> DEFINE hc == {k \in C : utxos[k].hybrid}
           hd == {k \in D : utxos[k].hybrid}
<1>1. IsFiniteSet(D)
  <2>1. DOMAIN utxos = 1..Len(utxos) /\ Len(utxos) \in Nat
    BY Totals
  <2>2. IsFiniteSet(1..Len(utxos)) /\ D \in SUBSET (1..Len(utxos))
    BY <2>1, FS_Interval
  <2> QED
    BY <2>2, FS_Subset
<1>2. IsFiniteSet(hd) /\ IsFiniteSet(D \ hd)
  <2>1. hd \in SUBSET D /\ D \ hd \in SUBSET D
    OBVIOUS
  <2> QED
    BY <1>1, <2>1, FS_Subset
<1>3. /\ IsFiniteSet(hc) /\ Cardinality(hc) <= Cardinality(hd)
      /\ IsFiniteSet(C \ hc) /\ Cardinality(C \ hc) <= Cardinality(D \ hd)
  <2>1. hc \in SUBSET hd /\ C \ hc \in SUBSET (D \ hd)
    OBVIOUS
  <2> QED
    BY <1>2, <2>1, FS_Subset
<1>4. /\ Cardinality(hc) \in Nat /\ Cardinality(hd) \in Nat
      /\ Cardinality(C \ hc) \in Nat /\ Cardinality(D \ hd) \in Nat
  BY <1>2, <1>3, FS_CardinalityType
<1>5. /\ InputSize(C) = 5418 * Cardinality(hc) + 149 * Cardinality(C \ hc)
      /\ InputSize(D) = 5418 * Cardinality(hd) + 149 * Cardinality(D \ hd)
  BY DEF InputSize
<1> HIDE DEF hc, hd
<1>6. InputSize(C) \in Nat /\ InputSize(D) \in Nat /\ InputSize(C) <= InputSize(D)
  BY <1>3, <1>4, <1>5
<1> QED
  BY <1>6 DEF SizeWith

LEMMA SmallerFee ==
  ASSUME FeeTypeOK, NEW s \in Nat, NEW t \in Nat, s <= t
  PROVE  NextFee(s) \in Nat /\ NextFee(t) \in Nat /\ NextFee(s) <= NextFee(t)
<1>1. ASSUME NEW r \in Nat
      PROVE  /\ ForSize(r, s) \in Nat /\ ForSize(r, t) \in Nat
             /\ ForSize(r, s) <= ForSize(r, t)
  <2>1. s * r \in Nat /\ t * r \in Nat /\ s * r <= t * r
    OBVIOUS
  <2>2. \A a \in Nat, b \in Nat : a <= b =>
          /\ (a + 999) \div 1000 \in Nat /\ (b + 999) \div 1000 \in Nat
          /\ (a + 999) \div 1000 <= (b + 999) \div 1000
    OBVIOUS
  <2> QED
    BY <2>1, <2>2 DEF ForSize
<1> QED
  BY <1>1, CoinTypes DEF NextFee, MinFee, Max2

\* What is computed from the request alone stays.
LEMMA SameFees ==
  ASSUME UNCHANGED request
  PROVE  /\ Coins' = Coins
         /\ \A i : FeeOf(i)' = FeeOf(i) /\ (CouldPay(i)' <=> CouldPay(i))
                 /\ Value(UpTo(i))' = Value(UpTo(i))
  BY DEF request, Coins, UpTo, Value, FeeOf, CouldPay, NextFee, MinFee, ForSize, Max2,
         SizeWith, InputSize

ShortInv == BelowInv /\ RefusedIfShort

LEMMA InitShort == FeeInit => ShortInv
  BY DEF FeeInit, ShortInv, BelowInv, RefusedIfShort

LEMMA ShortNext == FeeTypeOK /\ ShortInv /\ [FeeNext]_feeVars => ShortInv'
<1> SUFFICES ASSUME FeeTypeOK, ShortInv, [FeeNext]_feeVars PROVE ShortInv'
  OBVIOUS
<1>0. \A i \in Coins : FeeOf(i) \in Nat /\ UpTo(i) \subseteq DOMAIN utxos
  <2> TAKE i \in Coins
  <2>1. UpTo(i) \subseteq DOMAIN utxos
    BY CoinTypes DEF UpTo
  <2>2. SizeWith(UpTo(i), 2) \in Nat
    BY <2>1, FewerBytes
  <2> QED
    BY <2>1, <2>2, SmallerFee DEF FeeOf
<1>1. RefusedIfShort <=> (state = "insufficient" => \A i \in Coins : ~ CouldPay(i))
  <2>1. \A i \in Coins : Value(UpTo(i)) \in Nat
    BY MoreCoins
  <2>2. \A i \in Coins : ~ CouldPay(i) <=>
          (FeeOf(i) >= minRelay => Value(UpTo(i)) <= amountSat + FeeOf(i))
    BY <1>0, <2>1, CoinTypes DEF CouldPay
  <2> QED
    BY <2>2 DEF RefusedIfShort, FeeOf
<1>2. ASSUME UNCHANGED request,
             state' = "insufficient" => \A i \in Coins : ~ CouldPay(i)
      PROVE  RefusedIfShort'
  <2>1. \A i \in Coins : /\ FeeOf(i) \in Nat /\ Value(UpTo(i)) \in Nat
                          /\ amountSat \in Nat
    BY <1>0, MoreCoins, CoinTypes
  <2>2. state' = "insufficient" => \A i \in Coins :
          FeeOf(i) >= minRelay => Value(UpTo(i)) <= amountSat + FeeOf(i)
    BY <1>2, <2>1 DEF CouldPay
  <2>3. /\ Coins' = Coins /\ amountSat' = amountSat /\ minRelay' = minRelay
        /\ \A i : FeeOf(i)' = FeeOf(i) /\ Value(UpTo(i))' = Value(UpTo(i))
    BY <1>2, SameFees DEF request
  <2> QED
    BY <2>2, <2>3 DEF RefusedIfShort, FeeOf
<1>3. CASE Begin
  <2>1. state' = "round" /\ fee' = minRelay /\ UNCHANGED request
    BY <1>3 DEF Begin
  <2>2. \A i \in Coins : CouldPay(i) => minRelay <= FeeOf(i)
    BY <1>0, CoinTypes DEF CouldPay
  <2>3. minRelay > 0
    BY CoinTypes
  <2> QED
    BY <1>2, <2>1, <2>2, <2>3, SameFees DEF ShortInv, BelowInv
<1>4. CASE RunOut
  <2>1. state = "round" /\ state' = "insufficient" /\ UNCHANGED request
    BY <1>4 DEF RunOut
  <2>2. ASSUME NEW i \in Coins, CouldPay(i) PROVE FALSE
    <3>1. /\ fee > 0 /\ fee <= FeeOf(i) /\ FeeOf(i) \in Nat
          /\ fee \in Nat /\ amountSat \in Nat
      BY <1>0, <2>1, <2>2, CoinTypes DEF ShortInv, BelowInv
    <3>2. ~ Pays(Taken(fee), fee)
      BY <1>4, <3>1, SomeTaken DEF RunOut
    <3>3. /\ Value(UpTo(i)) \in Nat /\ Value(Coins) \in Nat
          /\ Value(UpTo(i)) <= Value(Coins)
      BY MoreCoins DEF UpTo
    <3>4. ~ (Value(Coins) >= amountSat + fee)
      BY <3>2, AllTaken DEF Pays
    <3> QED
      BY <2>2, <3>1, <3>3, <3>4 DEF CouldPay
  <2> QED
    BY <1>2, <2>1, <2>2 DEF ShortInv, BelowInv
<1>5. CASE Round
  <2>1. /\ state = "round" /\ state' # "insufficient" /\ UNCHANGED request
        /\ fee' = NextFee(size') /\ size' = SizePaying(fee)
    BY <1>5 DEF Round, Rounding
  <2>2. fee' > 0
    BY <1>5, RoundFinds
  <2>3. NextFee(size') = NextFee(SizePaying(fee))
    BY <2>1
  <2>4. ASSUME NEW i \in Coins, CouldPay(i) PROVE fee' <= FeeOf(i)
    <3>1. Taken(fee) \subseteq UpTo(i)
      BY <1>0, <2>1, <2>4, TakenBelow DEF ShortInv, BelowInv
    <3> DEFINE o == IF Value(Taken(fee)) = amountSat + fee THEN 1 ELSE 2
    <3>2. o \in {1, 2} /\ SizePaying(fee) = SizeWith(Taken(fee), o)
      BY DEF SizePaying
    <3> HIDE DEF o
    <3>3. /\ SizeWith(Taken(fee), o) \in Nat /\ SizeWith(UpTo(i), 2) \in Nat
          /\ SizeWith(Taken(fee), o) <= SizeWith(UpTo(i), 2)
      BY <1>0, <3>1, <3>2, FewerBytes
    <3>4. NextFee(SizeWith(Taken(fee), o)) <= NextFee(SizeWith(UpTo(i), 2))
      BY <3>3, SmallerFee
    <3> QED
      BY <2>1, <3>2, <3>4 DEF FeeOf
  <2> QED
    BY <1>2, <2>1, <2>2, <2>4, SameFees DEF ShortInv, BelowInv
<1>6. CASE Refuse \/ Reject \/ Send \/ FeeEnded \/ UNCHANGED feeVars
  <2>1. UNCHANGED request
    BY <1>6 DEF Refuse, Reject, Send, Sending, FeeEnded, feeVars
  <2>2. (state' # "insufficient" /\ state' # "round") \/ UNCHANGED <<state, fee>>
    BY <1>6 DEF Refuse, Reject, Send, Sending, FeeEnded, feeVars, Estimated
  <2> QED
    BY <1>1, <1>2, <2>1, <2>2, SameFees DEF ShortInv, BelowInv
<1> QED
  BY <1>3, <1>4, <1>5, <1>6 DEF FeeNext

\* The estimate says that the balance is insufficient only if no number of the
\* coins, in their order, could pay the amount and the fee of spending them with
\* change, for any wallet, amount and rates (estimateSendFee in admin.go).
THEOREM RefusalCorrect == FeeSpec => []RefusedIfShort
<1>1. ShortInv => RefusedIfShort
  BY DEF ShortInv
<1> QED
  BY <1>1, InitShort, ShortNext, FeeTypeCorrect, PTL DEF FeeSpec

(***************************************************************************)
(* The two together.                                                       *)
(***************************************************************************)

\* What is proved of each part holds of the administrator's side as a whole:
\* a send from the wallet leaves the account alone, and the other way round.
THEOREM BackendCorrect ==
  BackendSpec => [](/\ TypeOK /\ SetupOnlyFirst /\ OnlyRacesUndo
                    /\ FeeTypeOK /\ EstimateSound /\ FeePaysRelay /\ RefusedIfShort)
<1>1. BackendInit => Init /\ FeeInit
  BY DEF BackendInit
<1>2. [BackendNext]_<<turn, vars, feeVars>> => [Next]_vars /\ [FeeNext]_feeVars
  BY DEF BackendNext, AccountTurn, SendTurn
<1>3. BackendSpec => Spec /\ FeeSpec
  BY <1>1, <1>2, PTL DEF BackendSpec, Spec, FeeSpec
<1> QED
  BY <1>3, AdminTypeCorrect, SetupCorrect, UndoCorrect, FeeTypeCorrect, EstimateCorrect,
     FeeCorrect, RefusalCorrect, PTL
=============================================================================
