---------------------------- MODULE StratumProofs ----------------------------
(***************************************************************************)
(* Workers and sessions, for any number of both, of jobs and of shares.    *)
(* What a worker read without a lock is good for as long as its job is the *)
(* current one: the fields then belong to the job's session, because a     *)
(* job is decoded after them and forgotten before the next session.        *)
(* The counters are backed because each share sent in the session of its   *)
(* job is either waiting for an answer, answered, counted or lost.         *)
(***************************************************************************)
EXTENDS Stratum, FiniteSetTheorems, TLAPS

Requests == [kind : {"subscribe", "authorize", "share"}, val : Nat]
Answers  == [kind : {"extranonce", "difficulty", "job", "result"}, val : Nat]

\* Messages, and the jobs that shares in transit belong to.
MessageInv ==
  /\ alive => session # 0
  /\ sent \in Seq(Requests) /\ inbox \in Seq(Answers)
  /\ \A k \in 1..Len(sent) : sent[k].kind = "share" => sent[k].val \in 1..Len(jobs)
  /\ \A k \in 1..Len(inbox) :
       inbox[k].kind \in {"extranonce", "difficulty"} => inbox[k].val = session

\* A job on its way is one of this session, and newer than the current one,
\* than those of the workers and than those before it.
JobInv ==
  /\ \A k \in 1..Len(inbox) : inbox[k].kind = "job" =>
       /\ inbox[k].val \in 1..Len(jobs) /\ jobs[inbox[k].val] = session
       /\ currentJob < inbox[k].val
       /\ \A w \in Workers : wjob[w] < inbox[k].val
       /\ \A l \in 1..k - 1 : inbox[l].kind = "job" => inbox[l].val < inbox[k].val

\* Once the pool has answered to subscribe, extranonce and difficulty are those
\* of the session or still to be decoded, before any job.
FieldInv ==
  /\ (\E k \in 1..answered : sent[k].kind = "subscribe") =>
       /\ extranonce1 = session \/ \E k \in 1..Len(inbox) : inbox[k].kind = "extranonce"
       /\ shareDifficulty = session \/ \E k \in 1..Len(inbox) : inbox[k].kind = "difficulty"
  /\ \A k \in 1..Len(inbox) : inbox[k].kind = "job" =>
       /\ extranonce1 = session \/ \E l \in 1..k - 1 : inbox[l].kind = "extranonce"
       /\ shareDifficulty = session \/ \E l \in 1..k - 1 : inbox[l].kind = "difficulty"
  /\ currentJob # 0 =>
       /\ run \in {"handle", "cleanup"}
       /\ jobs[currentJob] = session
       /\ extranonce1 = session /\ shareDifficulty = session

\* What a worker has read belongs to its job, as long as that is current, and
\* whenever it has hashed.
WorkInv ==
  \A w \in Workers :
    /\ wpc[w] \in {"read", "reading", "mine", "hashed"} => wjob[w] # 0
    /\ wpc[w] = "reading" /\ currentJob = wjob[w] => wen1[w] = jobs[wjob[w]]
    /\ wpc[w] = "mine" /\ currentJob = wjob[w] =>
         wen1[w] = jobs[wjob[w]] /\ wdiff[w] = jobs[wjob[w]]
    /\ wpc[w] = "hashed" => wen1[w] = jobs[wjob[w]] /\ wdiff[w] = jobs[wjob[w]]

\* A worker that was late once is not given the chance again.
LateInv ==
  \A w \in Workers :
    /\ late[w] <= 1
    /\ late[w] > 0 => wjob[w] # 0 /\ wpc[w] # "hashed" /\ (quit \/ currentJob # wjob[w])

IInv == TypeOK /\ MessageInv /\ JobInv /\ FieldInv /\ WorkInv /\ LateInv

-----------------------------------------------------------------------------
(***************************************************************************)
(* Sequences.                                                              *)
(***************************************************************************)
LEMMA Appended ==
  ASSUME NEW T, NEW q \in Seq(T), NEW e \in T
  PROVE  /\ Append(q, e) \in Seq(T) /\ Len(q) \in Nat /\ Len(Append(q, e)) = Len(q) + 1
         /\ Append(q, e)[Len(q) + 1] = e
         /\ \A k \in 1..Len(q) : Append(q, e)[k] = q[k]
  OBVIOUS

LEMMA Shortened ==
  ASSUME NEW T, NEW q \in Seq(T), q # <<>>
  PROVE  /\ Tail(q) \in Seq(T) /\ Len(q) \in Nat \ {0} /\ Len(Tail(q)) = Len(q) - 1
         /\ Head(q) = q[1] /\ q[1] \in T
         /\ \A k \in 1..Len(Tail(q)) : Tail(q)[k] = q[k + 1]
  OBVIOUS

LEMMA TwoMore ==
  ASSUME NEW T, NEW q \in Seq(T), NEW d \in T, NEW e \in T
  PROVE  /\ q \o <<d, e>> \in Seq(T) /\ Len(q) \in Nat
         /\ Len(q \o <<d, e>>) = Len(q) + 2
         /\ (q \o <<d, e>>)[Len(q) + 1] = d /\ (q \o <<d, e>>)[Len(q) + 2] = e
         /\ \A k \in 1..Len(q) : (q \o <<d, e>>)[k] = q[k]
  OBVIOUS

LEMMA Elements ==
  ASSUME NEW T, NEW q \in Seq(T)
  PROVE  DOMAIN q = 1..Len(q) /\ \A k \in DOMAIN q : q[k] \in T
  OBVIOUS

-----------------------------------------------------------------------------
LEMMA InitIInv == Init => IInv
<1> SUFFICES ASSUME Init PROVE IInv
  OBVIOUS
<1> USE StratumAssumption DEF Init
<1>1. TypeOK
  <2>1. /\ wjob \in [Workers -> 0..Len(jobs)] /\ late \in [Workers -> Nat]
        /\ wen1 \in [Workers -> 0..Garbage] /\ wdiff \in [Workers -> 0..MaxSessions]
        /\ wpc \in [Workers -> {"poll", "read", "reading", "mine", "hashed", "exited"}]
    BY DEF Garbage
  <2>2. jobs \in Seq(1..MaxSessions) /\ DOMAIN sent = {} /\ DOMAIN inbox = {}
    OBVIOUS
  <2>3. /\ answered \in 0..Len(sent) /\ currentJob \in 0..Len(jobs)
        /\ accepted \in Nat /\ blocks \in Nat /\ genuine \in Nat
        /\ extranonce1 \in 0..MaxSessions /\ shareDifficulty \in 0..MaxSessions
        /\ shares \in 0..MaxShares /\ session \in 0..MaxSessions
    OBVIOUS
  <2>4. quit \in BOOLEAN /\ alive \in BOOLEAN
        /\ run \in {"connect", "dialing", "subscribe", "authorize", "handle",
                   "cleanup", "check", "wait", "done"}
    OBVIOUS
  <2> HIDE DEF Init
  <2> QED
    BY <2>1, <2>2, <2>3, <2>4 DEF TypeOK
<1>2. MessageInv /\ JobInv /\ FieldInv
  BY DEF MessageInv, JobInv, FieldInv
<1>3. WorkInv /\ LateInv
  BY DEF WorkInv, LateInv
<1> QED
  BY <1>1, <1>2, <1>3 DEF IInv

-----------------------------------------------------------------------------
(***************************************************************************)
(* Run.                                                                    *)
(***************************************************************************)
\* Steps that only move Run on, or end a connection, or close quit.
LEMMA QuietStep ==
  ASSUME IInv, Connect \/ DialFail \/ DecodeErr \/ CheckQuit \/ Wait \/ Drop \/ Stop
  PROVE  IInv'
<1>0. TypeOK /\ MessageInv /\ JobInv /\ FieldInv /\ WorkInv /\ LateInv
  BY DEF IInv
<1> USE DEF Connect, DialFail, DecodeErr, CheckQuit, Wait, Drop, Stop,
            fieldVars, workerVars, poolVars
<1>1. TypeOK'
  <2>1. /\ run' \in {"connect", "dialing", "subscribe", "authorize", "handle",
                   "cleanup", "check", "wait", "done"}
        /\ quit' \in BOOLEAN /\ alive' \in BOOLEAN
    BY <1>0 DEF TypeOK
  <2> QED
    BY <1>0, <2>1 DEF TypeOK
<1>2. MessageInv'
  BY <1>0 DEF MessageInv
<1>3. JobInv'
  BY <1>0 DEF JobInv
<1>4. FieldInv'
  BY <1>0 DEF FieldInv
<1>5. WorkInv'
  BY <1>0 DEF WorkInv
<1>6. LateInv'
  BY <1>0 DEF LateInv
<1> QED
  BY <1>1, <1>2, <1>3, <1>4, <1>5, <1>6 DEF IInv

LEMMA SendStep ==
  ASSUME IInv, Subscribe \/ Authorize
  PROVE  IInv'
<1>0. TypeOK /\ MessageInv /\ JobInv /\ FieldInv /\ WorkInv /\ LateInv
  BY DEF IInv
<1> USE DEF Subscribe, Authorize, fieldVars, workerVars, poolVars
<1>1. PICK m \in Requests : m.kind # "share" /\ (sent' = Append(sent, m) \/ sent' = sent)
  <2>1. Msg("subscribe", 0) \in Requests /\ Msg("authorize", 0) \in Requests
    BY DEF Msg, Requests
  <2> QED
    BY <2>1 DEF Send, Msg
<1>2. /\ sent' \in Seq(Requests) /\ Len(sent) \in Nat /\ Len(sent') \in Nat
      /\ Len(sent) <= Len(sent')
      /\ \A k \in 1..Len(sent) : sent'[k] = sent[k]
      /\ \A k \in 1..Len(sent') : k \in 1..Len(sent) \/ sent'[k].kind # "share"
  <2>1. CASE sent' = sent
    BY <1>0, <2>1 DEF MessageInv
  <2>2. CASE sent' = Append(sent, m)
    BY <1>0, <1>1, <2>2, Appended DEF MessageInv
  <2> QED
    BY <1>1, <2>1, <2>2
<1>3. MessageInv'
  BY <1>0, <1>2 DEF MessageInv
<1>4. TypeOK'
  <2>1. \A k \in DOMAIN sent' : sent'[k].kind \in {"subscribe", "authorize", "share"}
    <3>1. \A k \in DOMAIN sent' : sent'[k] \in Requests
      BY <1>2, Elements
    <3> QED
      BY <3>1 DEF Requests
  <2>2. answered' \in 0..Len(sent')
    BY <1>0, <1>2 DEF TypeOK
  <2> QED
    BY <1>0, <2>1, <2>2 DEF TypeOK
<1>5. JobInv'
  BY <1>0 DEF JobInv
<1>6. FieldInv'
  <2>1. \A k \in 1..answered : sent'[k] = sent[k]
    BY <1>0, <1>2 DEF TypeOK
  <2> QED
    BY <1>0, <2>1 DEF FieldInv
<1>7. WorkInv' /\ LateInv'
  BY <1>0 DEF WorkInv, LateInv
<1> QED
  BY <1>3, <1>4, <1>5, <1>6, <1>7 DEF IInv

\* A new session begins with nothing sent and nothing to decode.
LEMMA DialStep ==
  ASSUME IInv, DialOk
  PROVE  IInv'
<1>0. TypeOK /\ MessageInv /\ JobInv /\ FieldInv /\ WorkInv /\ LateInv
  BY DEF IInv
<1> USE StratumAssumption DEF DialOk, fieldVars, workerVars
<1>1. TypeOK'
  BY <1>0 DEF TypeOK
<1>2. MessageInv' /\ JobInv'
  BY <1>0 DEF TypeOK, MessageInv, JobInv
<1>3. FieldInv'
  <2>1. currentJob = 0
    BY <1>0 DEF FieldInv
  <2> QED
    BY <2>1 DEF FieldInv
<1>4. WorkInv' /\ LateInv'
  BY <1>0 DEF WorkInv, LateInv
<1> QED
  BY <1>1, <1>2, <1>3, <1>4 DEF IInv

\* A job that is decoded is newer than all a worker has seen.
LEMMA HandleStep ==
  ASSUME IInv, HandleMessage
  PROVE  IInv'
<1>0. TypeOK /\ MessageInv /\ JobInv /\ FieldInv /\ WorkInv /\ LateInv
  BY DEF IInv
<1> USE StratumAssumption DEF HandleMessage, Decode, workerVars, poolVars
<1>1. /\ inbox' \in Seq(Answers) /\ Len(inbox) \in Nat \ {0} /\ Len(inbox') = Len(inbox) - 1
      /\ Head(inbox) = inbox[1] /\ inbox[1] \in Answers
      /\ \A k \in 1..Len(inbox') : k + 1 \in 2..Len(inbox) /\ inbox'[k] = inbox[k + 1]
  BY <1>0, Shortened DEF MessageInv
<1> DEFINE m == inbox[1]
<1>2. /\ m.kind \in {"extranonce", "difficulty", "job", "result"} /\ m.val \in Nat
      /\ m.kind \in {"extranonce", "difficulty"} => m.val = session
      /\ extranonce1' = IF m.kind = "extranonce" THEN session ELSE extranonce1
      /\ shareDifficulty' = IF m.kind = "difficulty" THEN session ELSE shareDifficulty
      /\ currentJob' = IF m.kind = "job" THEN m.val ELSE currentJob
      /\ UNCHANGED <<quit, run, session, alive, sent, jobs, answered>>
      /\ accepted' \in Nat
  BY <1>0, <1>1 DEF TypeOK, MessageInv, Answers
<1>3. m.kind = "job" =>
        /\ m.val \in 1..Len(jobs) /\ jobs[m.val] = session
        /\ \A w \in Workers : wjob[w] < m.val
        /\ \A k \in 2..Len(inbox) : inbox[k].kind = "job" => m.val < inbox[k].val
        /\ extranonce1 = session /\ shareDifficulty = session
  <2>1. 1 \in 1..Len(inbox) /\ 1..1 - 1 = {} /\ \A k \in 2..Len(inbox) : 1 \in 1..k - 1
    BY <1>1
  <2> QED
    BY <1>0, <1>1, <2>1 DEF JobInv, FieldInv
<1> HIDE DEF m
<1>4. TypeOK'
  <2>1. \A k \in DOMAIN inbox' : inbox'[k].kind \in {"extranonce", "difficulty", "job", "result"}
    <3>1. \A k \in DOMAIN inbox' : inbox'[k] \in Answers
      BY <1>1, Elements
    <3> QED
      BY <3>1 DEF Answers
  <2>2. /\ extranonce1' \in 0..MaxSessions /\ shareDifficulty' \in 0..MaxSessions
        /\ currentJob' \in 0..Len(jobs)
    BY SMTT(20), <1>0, <1>2, <1>3 DEF TypeOK
  <2> QED
    BY <1>0, <1>2, <2>1, <2>2 DEF TypeOK
<1>5. MessageInv'
  BY <1>0, <1>1, <1>2 DEF MessageInv
<1>6. JobInv'
  <2> SUFFICES ASSUME NEW k \in 1..Len(inbox'), inbox'[k].kind = "job"
               PROVE  /\ inbox'[k].val \in 1..Len(jobs) /\ jobs[inbox'[k].val] = session
                      /\ currentJob' < inbox'[k].val
                      /\ \A w \in Workers : wjob[w] < inbox'[k].val
                      /\ \A l \in 1..k - 1 : inbox'[l].kind = "job" => inbox'[l].val < inbox'[k].val
    BY <1>2 DEF JobInv
  <2>1. /\ k + 1 \in 1..Len(inbox) /\ k + 1 \in 2..Len(inbox) /\ inbox'[k] = inbox[k + 1]
    BY <1>1
  <2>2. \A l \in 1..k - 1 : l + 1 \in 1..(k + 1) - 1 /\ inbox'[l] = inbox[l + 1]
    BY <1>1
  <2> QED
    BY <1>0, <1>2, <1>3, <2>1, <2>2 DEF JobInv
<1>7. FieldInv'
  <2>1. \A l \in 1..Len(inbox) : l = 1 \/ (l - 1 \in 1..Len(inbox') /\ inbox'[l - 1] = inbox[l])
    BY <1>1
  <2>2. (\E k \in 1..answered : sent[k].kind = "subscribe") =>
          /\ extranonce1' = session \/ \E k \in 1..Len(inbox') : inbox'[k].kind = "extranonce"
          /\ shareDifficulty' = session \/ \E k \in 1..Len(inbox') : inbox'[k].kind = "difficulty"
    <3>1. \A kind \in {"extranonce", "difficulty"} :
            (\E k \in 1..Len(inbox) : inbox[k].kind = kind)
              => m.kind = kind \/ \E k \in 1..Len(inbox') : inbox'[k].kind = kind
      BY <2>1 DEF m
    <3> QED
      BY <1>0, <1>2, <3>1 DEF FieldInv
  <2>3. ASSUME NEW k \in 1..Len(inbox'), inbox'[k].kind = "job"
        PROVE  /\ extranonce1' = session \/ \E l \in 1..k - 1 : inbox'[l].kind = "extranonce"
               /\ shareDifficulty' = session \/ \E l \in 1..k - 1 : inbox'[l].kind = "difficulty"
    <3>1. k + 1 \in 1..Len(inbox) /\ inbox'[k] = inbox[k + 1]
      BY <1>1
    <3>2. \A l \in 1..(k + 1) - 1 : l = 1 \/ (l - 1 \in 1..k - 1 /\ inbox'[l - 1] = inbox[l])
      BY <1>1, <3>1
    <3>3. /\ extranonce1 = session \/ \E l \in 1..(k + 1) - 1 : inbox[l].kind = "extranonce"
          /\ shareDifficulty = session \/ \E l \in 1..(k + 1) - 1 : inbox[l].kind = "difficulty"
      BY <1>0, <2>3, <3>1 DEF FieldInv
    <3> QED
      BY <1>2, <3>2, <3>3 DEF m
  <2>4. currentJob' # 0 => /\ run = "handle" /\ jobs[currentJob'] = session
                           /\ extranonce1' = session /\ shareDifficulty' = session
    BY <1>0, <1>2, <1>3 DEF FieldInv
  <2> QED
    BY <1>2, <2>2, <2>3, <2>4 DEF FieldInv
<1>8. \A w \in Workers : currentJob' = wjob[w] => currentJob = wjob[w]
  BY SMTT(20), <1>0, <1>2, <1>3 DEF TypeOK
<1>9. WorkInv' /\ LateInv'
  BY <1>0, <1>2, <1>8 DEF WorkInv, LateInv
<1> QED
  BY <1>4, <1>5, <1>6, <1>7, <1>9 DEF IInv

LEMMA CleanupStep ==
  ASSUME IInv, Cleanup
  PROVE  IInv'
<1>0. TypeOK /\ MessageInv /\ JobInv /\ FieldInv /\ WorkInv /\ LateInv
  BY DEF IInv
<1> USE DEF Cleanup, workerVars, poolVars
<1>1. TypeOK'
  BY <1>0 DEF TypeOK
<1>2. MessageInv' /\ FieldInv'
  BY <1>0 DEF MessageInv, FieldInv
<1>3. JobInv'
  BY SMTT(20), <1>0 DEF JobInv, MessageInv, TypeOK
<1>4. WorkInv' /\ LateInv'
  BY <1>0 DEF WorkInv, LateInv
<1> QED
  BY <1>1, <1>2, <1>3, <1>4 DEF IInv

-----------------------------------------------------------------------------
(***************************************************************************)
(* The workers.                                                            *)
(***************************************************************************)
LEMMA TakeStep ==
  ASSUME IInv, NEW w \in Workers, TakeJob(w)
  PROVE  IInv'
<1>0. TypeOK /\ MessageInv /\ JobInv /\ FieldInv /\ WorkInv /\ LateInv
  BY DEF IInv
<1> USE DEF TakeJob, fieldVars, poolVars
<1>1. TypeOK'
  BY <1>0 DEF TypeOK
<1>2. MessageInv' /\ FieldInv'
  BY <1>0 DEF MessageInv, FieldInv
<1>3. JobInv'
  BY <1>0 DEF JobInv, TypeOK
<1>4. WorkInv'
  BY <1>0 DEF WorkInv, TypeOK
<1>5. LateInv'
  BY <1>0 DEF LateInv, TypeOK
<1> QED
  BY <1>1, <1>2, <1>3, <1>4, <1>5 DEF IInv

\* Steps of one worker that touch nothing but its place, what it read and the
\* number of shares found.
LEMMA WorkerFrame ==
  ASSUME IInv, NEW w \in Workers,
         UNCHANGED <<quit, run, session, alive, sent, inbox, fieldVars, wjob, blocks, late,
                     genuine, poolVars>>
  PROVE  MessageInv' /\ JobInv' /\ FieldInv'
<1>0. MessageInv /\ JobInv /\ FieldInv
  BY DEF IInv
<1> USE DEF fieldVars, poolVars
<1>1. MessageInv'
  BY <1>0 DEF MessageInv
<1>2. JobInv'
  BY <1>0 DEF JobInv
<1>3. FieldInv'
  BY <1>0 DEF FieldInv
<1> QED
  BY <1>1, <1>2, <1>3

LEMMA WorkerTypes ==
  ASSUME TypeOK, NEW w \in Workers,
         UNCHANGED <<quit, run, session, alive, sent, inbox, fieldVars, wjob, blocks, late,
                     genuine, poolVars>>,
         wpc' \in [Workers -> {"poll", "read", "reading", "mine", "hashed", "exited"}],
         wen1' \in [Workers -> 0..Garbage], wdiff' \in [Workers -> 0..MaxSessions],
         shares' \in 0..MaxShares
  PROVE  TypeOK'
  BY DEF TypeOK, fieldVars, poolVars

\* The fields a worker reads are those of its job, if that is current.
LEMMA ReadStep ==
  ASSUME IInv, NEW w \in Workers, ReadExtranonce(w)
  PROVE  IInv'
<1>0. TypeOK /\ MessageInv /\ JobInv /\ FieldInv /\ WorkInv /\ LateInv
  BY DEF IInv
<1>1. UNCHANGED <<quit, run, session, alive, sent, inbox, fieldVars, wjob, blocks, late,
                  genuine, poolVars>>
  BY DEF ReadExtranonce
<1>2. MessageInv' /\ JobInv' /\ FieldInv'
  BY <1>1, WorkerFrame
<1> USE DEF ReadExtranonce, fieldVars, poolVars
<1>3. TypeOK'
  <2>1. wpc' \in [Workers -> {"poll", "read", "reading", "mine", "hashed", "exited"}]
    BY <1>0 DEF TypeOK
  <2>2. wen1' \in [Workers -> 0..Garbage]
    <3>1. extranonce1 \in 0..Garbage
      BY <1>0, StratumAssumption DEF TypeOK, Garbage
    <3> QED
      BY <1>0, <3>1 DEF TypeOK
  <2>3. wdiff' \in [Workers -> 0..MaxSessions] /\ shares' \in 0..MaxShares
    BY <1>0 DEF TypeOK
  <2> QED
    BY <1>0, <1>1, <2>1, <2>2, <2>3, WorkerTypes
<1>4. currentJob = wjob[w] => extranonce1 = jobs[wjob[w]]
  BY <1>0 DEF WorkInv, FieldInv
<1>5. WorkInv'
  BY <1>0, <1>4 DEF WorkInv, TypeOK
<1>6. LateInv'
  BY <1>0 DEF LateInv, TypeOK
<1> QED
  BY <1>2, <1>3, <1>5, <1>6 DEF IInv

LEMMA BuildStep ==
  ASSUME IInv, NEW w \in Workers, BuildWork(w)
  PROVE  IInv'
<1>0. TypeOK /\ MessageInv /\ JobInv /\ FieldInv /\ WorkInv /\ LateInv
  BY DEF IInv
<1>1. UNCHANGED <<quit, run, session, alive, sent, inbox, fieldVars, wjob, blocks, late,
                  genuine, poolVars>>
  BY DEF BuildWork
<1>2. MessageInv' /\ JobInv' /\ FieldInv'
  BY <1>1, WorkerFrame
<1>3. PICK e \in {wen1[w], extranonce1} \cup (IF wen1[w] = extranonce1 THEN {} ELSE {Garbage}) :
         wen1' = [wen1 EXCEPT ![w] = e]
  BY DEF BuildWork
<1>4. /\ wpc[w] = "reading" /\ wpc' = [wpc EXCEPT ![w] = "mine"]
      /\ wdiff' = [wdiff EXCEPT ![w] = shareDifficulty]
      /\ UNCHANGED <<shares, late, quit, currentJob, wjob, jobs>>
  BY DEF BuildWork, fieldVars, poolVars
<1>5. TypeOK'
  <2>1. wpc' \in [Workers -> {"poll", "read", "reading", "mine", "hashed", "exited"}]
    BY <1>0, <1>4 DEF TypeOK
  <2>2. wen1' \in [Workers -> 0..Garbage]
    <3>1. e \in 0..Garbage
      BY <1>0, <1>3, StratumAssumption DEF TypeOK, Garbage
    <3> QED
      BY <1>0, <1>3, <3>1 DEF TypeOK
  <2>3. wdiff' \in [Workers -> 0..MaxSessions] /\ shares' \in 0..MaxShares
    BY <1>0, <1>4 DEF TypeOK
  <2> QED
    BY <1>0, <1>1, <2>1, <2>2, <2>3, WorkerTypes
<1>6. currentJob = wjob[w] => e = jobs[wjob[w]] /\ shareDifficulty = jobs[wjob[w]]
  <2>1. currentJob = wjob[w] =>
          /\ wjob[w] # 0 /\ wen1[w] = jobs[wjob[w]]
          /\ extranonce1 = jobs[wjob[w]] /\ shareDifficulty = jobs[wjob[w]]
    BY <1>0, <1>4 DEF WorkInv, FieldInv
  <2> QED
    BY <1>3, <2>1
<1>7. WorkInv'
  BY <1>0, <1>3, <1>4, <1>6 DEF WorkInv, TypeOK
<1>8. LateInv'
  BY <1>0, <1>4 DEF LateInv, TypeOK
<1> QED
  BY <1>2, <1>5, <1>7, <1>8 DEF IInv

LEMMA LeaveStep ==
  ASSUME IInv, NEW w \in Workers, Exit(w) \/ LeaveJob(w) \/ FindShare(w)
  PROVE  IInv'
<1>0. TypeOK /\ MessageInv /\ JobInv /\ FieldInv /\ WorkInv /\ LateInv
  BY DEF IInv
<1>1. /\ UNCHANGED <<quit, run, session, alive, sent, inbox, fieldVars, wjob, blocks, late,
                     genuine, poolVars>>
      /\ UNCHANGED <<wen1, wdiff>>
  BY DEF Exit, LeaveJob, FindShare, Hash
<1>2. MessageInv' /\ JobInv' /\ FieldInv'
  BY <1>1, WorkerFrame
<1>3. /\ wpc' = [wpc EXCEPT ![w] = "exited"] \/ wpc' = [wpc EXCEPT ![w] = "poll"]
           \/ /\ wpc' = [wpc EXCEPT ![w] = "hashed"]
              /\ wpc[w] = "mine" /\ ~quit /\ currentJob = wjob[w]
      /\ shares' = shares \/ (shares < MaxShares /\ shares' = shares + 1)
  BY DEF Exit, LeaveJob, FindShare, Hash
<1>4. UNCHANGED <<quit, currentJob, wjob, jobs, late, wen1, wdiff>>
  BY <1>1 DEF fieldVars, poolVars
<1>5. TypeOK'
  <2>1. wpc' \in [Workers -> {"poll", "read", "reading", "mine", "hashed", "exited"}]
    BY <1>0, <1>3 DEF TypeOK
  <2>2. shares' \in 0..MaxShares
    BY <1>0, <1>3, StratumAssumption DEF TypeOK
  <2>3. wen1' \in [Workers -> 0..Garbage] /\ wdiff' \in [Workers -> 0..MaxSessions]
    BY <1>0, <1>4 DEF TypeOK
  <2> QED
    BY <1>0, <1>1, <2>1, <2>2, <2>3, WorkerTypes
<1>6. WorkInv'
  <2>1. \A v \in Workers : \/ wpc'[v] = wpc[v]
                           \/ wpc'[v] \in {"exited", "poll"}
                           \/ /\ wpc'[v] = "hashed"
                              /\ wpc[v] = "mine" /\ currentJob = wjob[v]
    <3>1. wpc \in [Workers -> {"poll", "read", "reading", "mine", "hashed", "exited"}]
      BY <1>0 DEF TypeOK
    <3> QED
      BY <1>3, <3>1
  <2> QED
    BY <1>0, <1>4, <2>1 DEF WorkInv
<1>7. LateInv'
  <2>1. \A v \in Workers :
          wpc'[v] = "hashed" => wpc[v] = "hashed" \/ (~quit /\ currentJob = wjob[v])
    <3>1. wpc \in [Workers -> {"poll", "read", "reading", "mine", "hashed", "exited"}]
      BY <1>0 DEF TypeOK
    <3> QED
      BY <1>3, <3>1
  <2> QED
    BY <1>0, <1>4, <2>1 DEF LateInv
<1> QED
  BY <1>2, <1>5, <1>6, <1>7 DEF IInv

LEMMA SubmitStep ==
  ASSUME IInv, NEW w \in Workers, SubmitShare(w)
  PROVE  IInv'
<1>0. TypeOK /\ MessageInv /\ JobInv /\ FieldInv /\ WorkInv /\ LateInv
  BY DEF IInv
<1> USE DEF SubmitShare, fieldVars, poolVars
<1> DEFINE m == Msg("share", wjob[w])
<1>1. wjob[w] \in 1..Len(jobs) /\ m \in Requests /\ m.val = wjob[w]
  BY <1>0 DEF TypeOK, WorkInv, Msg, Requests
<1>2. /\ sent' \in Seq(Requests) /\ Len(sent) \in Nat /\ Len(sent') \in Nat
      /\ Len(sent) <= Len(sent')
      /\ \A k \in 1..Len(sent) : sent'[k] = sent[k]
      /\ \A k \in 1..Len(sent') : k \in 1..Len(sent) \/ sent'[k].val = wjob[w]
  <2>1. CASE sent' = sent
    BY <1>0, <2>1 DEF MessageInv
  <2>2. CASE sent' = Append(sent, m)
    BY <1>0, <1>1, <2>2, Appended DEF MessageInv
  <2> QED
    BY <2>1, <2>2 DEF Send
<1>3. MessageInv'
  BY <1>0, <1>1, <1>2 DEF MessageInv
<1>4. TypeOK'
  <2>1. \A k \in DOMAIN sent' : sent'[k].kind \in {"subscribe", "authorize", "share"}
    <3>1. \A k \in DOMAIN sent' : sent'[k] \in Requests
      BY <1>2, Elements
    <3> QED
      BY <3>1 DEF Requests
  <2>2. answered' \in 0..Len(sent')
    BY <1>0, <1>2 DEF TypeOK
  <2>3. blocks' \in Nat /\ genuine' \in Nat
    <3>1. /\ blocks' = blocks \/ blocks' = blocks + 1
          /\ genuine' = genuine \/ genuine' = genuine + 1
      OBVIOUS
    <3>2. blocks \in Nat /\ genuine \in Nat
      BY <1>0 DEF TypeOK
    <3> HIDE DEF SubmitShare, fieldVars, poolVars
    <3> QED
      BY <3>1, <3>2
  <2>4. late' \in [Workers -> Nat]
    <3>1. late' = late \/ late' = [late EXCEPT ![w] = @ + 1]
      OBVIOUS
    <3>2. late \in [Workers -> Nat]
      BY <1>0 DEF TypeOK
    <3> HIDE DEF SubmitShare, fieldVars, poolVars
    <3> QED
      BY <3>1, <3>2
  <2>5. wpc' \in [Workers -> {"poll", "read", "reading", "mine", "hashed", "exited"}]
    <3>1. wpc' = [wpc EXCEPT ![w] = "mine"]
      OBVIOUS
    <3>2. wpc \in [Workers -> {"poll", "read", "reading", "mine", "hashed", "exited"}]
      BY <1>0 DEF TypeOK
    <3> HIDE DEF SubmitShare, fieldVars, poolVars
    <3> QED
      BY <3>1, <3>2
  <2>6. UNCHANGED <<quit, run, session, alive, inbox, extranonce1, shareDifficulty, currentJob,
                    accepted, jobs, answered, wjob, wen1, wdiff, shares>>
    OBVIOUS
  <2> HIDE DEF SubmitShare, fieldVars, poolVars
  <2> QED
    BY <1>0, <2>1, <2>2, <2>3, <2>4, <2>5, <2>6 DEF TypeOK
<1>5. JobInv'
  BY <1>0 DEF JobInv
<1>6. FieldInv'
  <2>1. \A k \in 1..answered : sent'[k] = sent[k]
    BY <1>0, <1>2 DEF TypeOK
  <2> QED
    BY <1>0, <2>1 DEF FieldInv
<1>7. WorkInv'
  BY <1>0 DEF WorkInv, TypeOK
<1>8. LateInv'
  <2>1. /\ wpc[w] = "hashed" /\ wpc' = [wpc EXCEPT ![w] = "mine"]
        /\ late' = IF quit \/ currentJob # wjob[w] THEN [late EXCEPT ![w] = @ + 1] ELSE late
        /\ UNCHANGED <<quit, currentJob, wjob>>
    OBVIOUS
  <2> HIDE DEF SubmitShare, fieldVars, poolVars
  <2>2. late[w] = 0
    BY <1>0, <2>1 DEF LateInv, TypeOK
  <2>3. wjob[w] # 0
    BY <1>0, <2>1 DEF WorkInv
  <2>4. ASSUME NEW v \in Workers
        PROVE  /\ late'[v] <= 1
               /\ late'[v] > 0 => wjob[v] # 0 /\ wpc'[v] # "hashed" /\ (quit \/ currentJob # wjob[v])
    <3>1. CASE v = w
      BY <1>0, <2>1, <2>2, <2>3, <3>1 DEF TypeOK
    <3>2. CASE v # w
      <4>1. late'[v] = late[v] /\ wpc'[v] = wpc[v]
        BY <1>0, <2>1, <3>2 DEF TypeOK
      <4> QED
        BY <1>0, <4>1 DEF LateInv
    <3> QED
      BY <3>1, <3>2
  <2> QED
    BY <2>1, <2>4 DEF LateInv
<1> QED
  BY <1>3, <1>4, <1>5, <1>6, <1>7, <1>8 DEF IInv

-----------------------------------------------------------------------------
(***************************************************************************)
(* The pool.                                                               *)
(***************************************************************************)
LEMMA JobStep ==
  ASSUME IInv, PoolJob
  PROVE  IInv'
<1>0. TypeOK /\ MessageInv /\ JobInv /\ FieldInv /\ WorkInv /\ LateInv
  BY DEF IInv
<1> USE DEF PoolJob, fieldVars, workerVars
<1> DEFINE new == Len(jobs) + 1
           m == Msg("job", new)
<1>1. /\ session \in 1..MaxSessions
      /\ jobs' \in Seq(1..MaxSessions) /\ Len(jobs) \in Nat /\ Len(jobs') = new
      /\ jobs'[new] = session /\ \A k \in 1..Len(jobs) : jobs'[k] = jobs[k]
  BY <1>0, StratumAssumption, Appended DEF TypeOK, MessageInv
<1>2. m \in Answers /\ m.kind = "job" /\ m.val = new
  BY <1>1 DEF Msg, Answers
<1>3. /\ inbox' \in Seq(Answers) /\ Len(inbox) \in Nat /\ Len(inbox') = Len(inbox) + 1
      /\ inbox'[Len(inbox) + 1] = m
      /\ \A k \in 1..Len(inbox) : inbox'[k] = inbox[k]
  BY <1>0, <1>2, Appended DEF MessageInv
<1> HIDE DEF m
<1>4. TypeOK'
  <2>1. \A k \in DOMAIN inbox' : inbox'[k].kind \in {"extranonce", "difficulty", "job", "result"}
    <3>1. \A k \in DOMAIN inbox' : inbox'[k] \in Answers
      BY <1>3, Elements
    <3> QED
      BY <3>1 DEF Answers
  <2>2. currentJob' \in 0..Len(jobs') /\ wjob' \in [Workers -> 0..Len(jobs')]
    BY <1>0, <1>1 DEF TypeOK
  <2> QED
    BY <1>0, <1>1, <2>1, <2>2 DEF TypeOK
<1>5. MessageInv'
  <2>1. \A k \in 1..Len(sent) : sent[k].kind = "share" => sent[k].val \in 1..Len(jobs')
    BY <1>0, <1>1 DEF MessageInv
  <2>2. \A k \in 1..Len(inbox') :
          inbox'[k].kind \in {"extranonce", "difficulty"} => inbox'[k].val = session
    BY <1>0, <1>2, <1>3 DEF MessageInv
  <2> QED
    BY <1>0, <1>3, <2>1, <2>2 DEF MessageInv
<1>6. JobInv'
  <2> SUFFICES ASSUME NEW k \in 1..Len(inbox'), inbox'[k].kind = "job"
               PROVE  /\ inbox'[k].val \in 1..Len(jobs') /\ jobs'[inbox'[k].val] = session
                      /\ currentJob < inbox'[k].val
                      /\ \A w \in Workers : wjob[w] < inbox'[k].val
                      /\ \A l \in 1..k - 1 : inbox'[l].kind = "job" => inbox'[l].val < inbox'[k].val
    BY DEF JobInv
  <2>1. CASE k \in 1..Len(inbox)
    <3>1. inbox'[k] = inbox[k] /\ \A l \in 1..k - 1 : inbox'[l] = inbox[l]
      BY <1>3, <2>1
    <3> QED
      BY <1>0, <1>1, <2>1, <3>1 DEF JobInv
  <2>2. CASE k = Len(inbox) + 1
    <3>1. /\ inbox'[k].val = new
          /\ \A l \in 1..k - 1 : l \in 1..Len(inbox) /\ inbox'[l] = inbox[l]
      BY <1>2, <1>3, <2>2
    <3>2. \A l \in 1..k - 1 : inbox'[l].kind = "job" => inbox'[l].val < new
      BY <1>0, <1>1, <3>1 DEF JobInv
    <3>3. currentJob < new /\ \A w \in Workers : wjob[w] < new
      <4>1. currentJob \in 0..Len(jobs) /\ wjob \in [Workers -> 0..Len(jobs)]
        BY <1>0 DEF TypeOK
      <4> HIDE DEF PoolJob, fieldVars, workerVars
      <4> QED
        BY <1>1, <4>1
    <3>4. new \in 1..Len(jobs') /\ jobs'[new] = session
      BY <1>1
    <3> QED
      BY <3>1, <3>2, <3>3, <3>4
  <2> QED
    BY <1>3, <2>1, <2>2
<1>7. FieldInv'
  <2>1. /\ extranonce1 = session \/ \E k \in 1..Len(inbox) : inbox[k].kind = "extranonce"
        /\ shareDifficulty = session \/ \E k \in 1..Len(inbox) : inbox[k].kind = "difficulty"
    BY <1>0 DEF FieldInv
  <2>2. \A k \in 1..Len(inbox) : k \in 1..Len(inbox') /\ inbox'[k] = inbox[k]
    BY <1>3
  <2>3. ASSUME NEW k \in 1..Len(inbox'), inbox'[k].kind = "job"
        PROVE  /\ extranonce1 = session \/ \E l \in 1..k - 1 : inbox'[l].kind = "extranonce"
               /\ shareDifficulty = session \/ \E l \in 1..k - 1 : inbox'[l].kind = "difficulty"
    <3>1. CASE k \in 1..Len(inbox)
      <4>1. inbox'[k] = inbox[k] /\ \A l \in 1..k - 1 : inbox'[l] = inbox[l]
        BY <1>3, <3>1
      <4> QED
        BY <1>0, <2>3, <3>1, <4>1 DEF FieldInv
    <3>2. CASE k = Len(inbox) + 1
      <4>1. \A l \in 1..Len(inbox) : l \in 1..k - 1 /\ inbox'[l] = inbox[l]
        BY <1>3, <3>2
      <4> QED
        BY <2>1, <4>1
    <3> QED
      BY <1>3, <3>1, <3>2
  <2>4. currentJob # 0 =>
          /\ run \in {"handle", "cleanup"} /\ jobs'[currentJob] = session
          /\ extranonce1 = session /\ shareDifficulty = session
    <3>1. currentJob # 0 => jobs'[currentJob] = jobs[currentJob]
      BY <1>0, <1>1 DEF TypeOK
    <3> QED
      BY <1>0, <3>1 DEF FieldInv
  <2>5. /\ extranonce1 = session \/ \E k \in 1..Len(inbox') : inbox'[k].kind = "extranonce"
        /\ shareDifficulty = session \/ \E k \in 1..Len(inbox') : inbox'[k].kind = "difficulty"
    BY <2>1, <2>2
  <2>6. UNCHANGED <<run, session, extranonce1, shareDifficulty, currentJob>>
    OBVIOUS
  <2> HIDE DEF PoolJob, fieldVars, workerVars
  <2> QED
    BY <2>3, <2>4, <2>5, <2>6 DEF FieldInv
<1>8. WorkInv'
  <2>1. \A w \in Workers : wjob[w] # 0 => jobs'[wjob[w]] = jobs[wjob[w]]
    BY <1>0, <1>1 DEF TypeOK
  <2> QED
    BY <1>0, <2>1 DEF WorkInv
<1>9. LateInv'
  BY <1>0 DEF LateInv
<1> QED
  BY <1>4, <1>5, <1>6, <1>7, <1>8, <1>9 DEF IInv

\* The pool's answers bring no job; the first one brings the session's fields.
LEMMA AnswerStep ==
  ASSUME IInv, PoolAnswer
  PROVE  IInv'
<1>0. TypeOK /\ MessageInv /\ JobInv /\ FieldInv /\ WorkInv /\ LateInv
  BY DEF IInv
<1> USE DEF PoolAnswer, fieldVars, workerVars
<1> DEFINE m == sent[answered + 1]
<1>1. /\ answered' = answered + 1 /\ answered' \in 1..Len(sent)
      /\ session \in Nat /\ Len(sent) \in Nat /\ answered \in Nat
  BY <1>0 DEF TypeOK, MessageInv
<1>2. /\ inbox' \in Seq(Answers) /\ Len(inbox) \in Nat /\ Len(inbox') \in Nat
      /\ Len(inbox) <= Len(inbox')
      /\ \A k \in 1..Len(inbox) : inbox'[k] = inbox[k]
      /\ \A k \in 1..Len(inbox') : k \in 1..Len(inbox) \/
            /\ inbox'[k].kind # "job"
            /\ inbox'[k].kind \in {"extranonce", "difficulty"} => inbox'[k].val = session
      /\ m.kind = "subscribe" =>
            /\ \E k \in 1..Len(inbox') : inbox'[k].kind = "extranonce"
            /\ \E k \in 1..Len(inbox') : inbox'[k].kind = "difficulty"
  <2>1. CASE m.kind = "authorize" /\ UNCHANGED inbox
    BY <1>0, <2>1 DEF MessageInv
  <2>2. CASE m.kind = "subscribe"
             /\ inbox' = inbox \o <<Msg("extranonce", session), Msg("difficulty", session)>>
    <3> DEFINE d == Msg("extranonce", session)
               e == Msg("difficulty", session)
    <3>1. /\ d \in Answers /\ d.kind = "extranonce" /\ d.val = session
          /\ e \in Answers /\ e.kind = "difficulty" /\ e.val = session
      BY <1>1 DEF Msg, Answers
    <3>2. inbox' = inbox \o <<d, e>>
      BY <2>2
    <3> HIDE DEF d, e
    <3>3. /\ inbox' \in Seq(Answers) /\ Len(inbox) \in Nat /\ Len(inbox') = Len(inbox) + 2
          /\ inbox'[Len(inbox) + 1] = d /\ inbox'[Len(inbox) + 2] = e
          /\ \A k \in 1..Len(inbox) : inbox'[k] = inbox[k]
      BY <1>0, <3>1, <3>2, TwoMore DEF MessageInv
    <3> QED
      BY SMTT(20), <3>1, <3>3
  <2>3. CASE m.kind = "share" /\ \E r \in {0, 1} : inbox' = Append(inbox, Msg("result", r))
    <3>1. PICK r \in {0, 1} : inbox' = Append(inbox, Msg("result", r))
      BY <2>3
    <3>2. Msg("result", r) \in Answers /\ Msg("result", r).kind = "result"
      BY DEF Msg, Answers
    <3> QED
      BY <1>0, <2>3, <3>1, <3>2, Appended DEF MessageInv
  <2>4. \/ m.kind = "authorize" /\ UNCHANGED inbox
        \/ m.kind = "subscribe"
             /\ inbox' = inbox \o <<Msg("extranonce", session), Msg("difficulty", session)>>
        \/ m.kind = "share" /\ \E r \in {0, 1} : inbox' = Append(inbox, Msg("result", r))
    OBVIOUS
  <2> QED
    BY <2>1, <2>2, <2>3, <2>4
<1>3. TypeOK'
  <2>1. \A k \in DOMAIN inbox' : inbox'[k].kind \in {"extranonce", "difficulty", "job", "result"}
    <3>1. \A k \in DOMAIN inbox' : inbox'[k] \in Answers
      BY <1>2, Elements
    <3> QED
      BY <3>1 DEF Answers
  <2>2. UNCHANGED <<quit, run, session, alive, sent, fieldVars, workerVars, jobs>>
    OBVIOUS
  <2> HIDE DEF PoolAnswer
  <2> QED
    BY <1>0, <1>1, <2>1, <2>2 DEF TypeOK
<1>4. MessageInv'
  BY <1>0, <1>2 DEF MessageInv
<1> HIDE DEF m
<1>5. ASSUME NEW k \in 1..Len(inbox'), inbox'[k].kind = "job"
      PROVE  /\ k \in 1..Len(inbox) /\ inbox'[k] = inbox[k] /\ inbox[k].kind = "job"
             /\ \A l \in 1..k - 1 : inbox'[l] = inbox[l]
  <2>1. k \in 1..Len(inbox)
    BY <1>2, <1>5
  <2>2. inbox'[k] = inbox[k]
    BY <1>2, <2>1
  <2>3. \A l \in 1..k - 1 : l \in 1..Len(inbox)
    BY <1>2, <2>1
  <2> QED
    BY <1>2, <1>5, <2>1, <2>2, <2>3
<1>6. UNCHANGED <<run, session, jobs, wjob, sent, extranonce1, shareDifficulty, currentJob>>
  OBVIOUS
<1>8. JobInv'
  <2> HIDE DEF PoolAnswer, fieldVars, workerVars
  <2> SUFFICES ASSUME NEW k \in 1..Len(inbox'), inbox'[k].kind = "job"
               PROVE  /\ inbox'[k].val \in 1..Len(jobs) /\ jobs[inbox'[k].val] = session
                      /\ currentJob < inbox'[k].val
                      /\ \A w \in Workers : wjob[w] < inbox'[k].val
                      /\ \A l \in 1..k - 1 : inbox'[l].kind = "job" => inbox'[l].val < inbox'[k].val
    BY <1>6 DEF JobInv
  <2>1. /\ k \in 1..Len(inbox) /\ inbox'[k] = inbox[k] /\ inbox[k].kind = "job"
        /\ \A l \in 1..k - 1 : inbox'[l] = inbox[l]
    BY <1>5
  <2> QED
    BY <1>0, <2>1 DEF JobInv
<1>9. FieldInv'
  <2> HIDE DEF PoolAnswer, fieldVars, workerVars
  <2>1. \A k \in 1..answered' : k \in 1..answered \/ k = answered + 1
    BY <1>1
  <2>2. (\E k \in 1..answered' : sent[k].kind = "subscribe") =>
          /\ extranonce1 = session \/ \E k \in 1..Len(inbox') : inbox'[k].kind = "extranonce"
          /\ shareDifficulty = session \/ \E k \in 1..Len(inbox') : inbox'[k].kind = "difficulty"
    <3>1. CASE m.kind = "subscribe"
      BY <1>2, <3>1
    <3>2. CASE \E k \in 1..answered : sent[k].kind = "subscribe"
      <4>1. \A k \in 1..Len(inbox) : k \in 1..Len(inbox') /\ inbox'[k] = inbox[k]
        BY <1>2
      <4>2. /\ extranonce1 = session \/ \E k \in 1..Len(inbox) : inbox[k].kind = "extranonce"
            /\ shareDifficulty = session \/ \E k \in 1..Len(inbox) : inbox[k].kind = "difficulty"
        BY <1>0, <3>2 DEF FieldInv
      <4> QED
        BY <4>1, <4>2
    <3> QED
      BY <2>1, <3>1, <3>2 DEF m
  <2>3. ASSUME NEW k \in 1..Len(inbox'), inbox'[k].kind = "job"
        PROVE  /\ extranonce1 = session \/ \E l \in 1..k - 1 : inbox'[l].kind = "extranonce"
               /\ shareDifficulty = session \/ \E l \in 1..k - 1 : inbox'[l].kind = "difficulty"
    <3>1. /\ k \in 1..Len(inbox) /\ inbox[k].kind = "job"
          /\ \A l \in 1..k - 1 : inbox'[l] = inbox[l]
      BY <1>5, <2>3
    <3>2. /\ extranonce1 = session \/ \E l \in 1..k - 1 : inbox[l].kind = "extranonce"
          /\ shareDifficulty = session \/ \E l \in 1..k - 1 : inbox[l].kind = "difficulty"
      BY <1>0, <3>1 DEF FieldInv
    <3> QED
      BY <3>1, <3>2
  <2>4. currentJob # 0 => /\ run \in {"handle", "cleanup"} /\ jobs[currentJob] = session
                          /\ extranonce1 = session /\ shareDifficulty = session
    BY <1>0 DEF FieldInv
  <2> QED
    BY <1>6, <2>2, <2>3, <2>4 DEF FieldInv
<1>10. WorkInv' /\ LateInv'
  BY <1>0 DEF WorkInv, LateInv
<1> QED
  BY <1>3, <1>4, <1>8, <1>9, <1>10 DEF IInv

-----------------------------------------------------------------------------
LEMMA NextIInv == IInv /\ [Next]_vars => IInv'
<1> SUFFICES ASSUME IInv, [Next]_vars PROVE IInv'
  OBVIOUS
<1>1. CASE RunStep
  BY <1>1, QuietStep, SendStep, DialStep, HandleStep, CleanupStep DEF RunStep
<1>2. CASE \E w \in Workers : WorkerStep(w) \/ FindShare(w)
  BY <1>2, TakeStep, ReadStep, BuildStep, LeaveStep, SubmitStep DEF WorkerStep
<1>3. CASE PoolAnswer \/ PoolJob \/ Drop \/ Stop
  BY <1>3, AnswerStep, JobStep, QuietStep
<1>4. CASE Ended \/ UNCHANGED vars
  <2>1. UNCHANGED vars
    BY <1>4 DEF Ended
  <2> USE DEF vars, fieldVars, workerVars, poolVars
  <2>2. TypeOK'
    BY <2>1 DEF IInv, TypeOK
  <2>3. MessageInv' /\ JobInv' /\ FieldInv'
    BY <2>1 DEF IInv, MessageInv, JobInv, FieldInv
  <2>4. WorkInv' /\ LateInv'
    BY <2>1 DEF IInv, WorkInv, LateInv
  <2> QED
    BY <2>2, <2>3, <2>4 DEF IInv
<1> QED
  BY <1>1, <1>2, <1>3, <1>4 DEF Next

LEMMA Inductive == Spec => []IInv
  BY InitIInv, NextIInv, PTL DEF Spec

\* Session, jobs, messages and counters stay within their types.
THEOREM StratumTypeCorrect == Spec => []TypeOK
  BY Inductive, PTL DEF IInv

\* Whatever workers, sessions and jobs: what is hashed was built from the
\* extranonce1 and the difficulty of the session its job belongs to, although
\* mineJob reads them without a lock.
THEOREM WorkCorrect == Spec => []HashesOwnWork
<1>1. IInv => HashesOwnWork
  BY DEF IInv, WorkInv, HashesOwnWork
<1> QED
  BY <1>1, Inductive, PTL

\* No worker submits more than one share of a job that is not current any more.
THEOREM LateCorrect == Spec => []AtMostOneLateShare
<1>1. IInv => AtMostOneLateShare
  BY DEF IInv, LateInv, AtMostOneLateShare
<1> QED
  BY <1>1, Inductive, PTL
-----------------------------------------------------------------------------
(***************************************************************************)
(* The counters.  Only shares of this session's jobs can still count, and  *)
(* each at most once: while it waits for the pool's answer, or while the   *)
(* answer waits to be decoded.                                             *)
(***************************************************************************)
Positive(q) == {k \in 1..Len(q) : q[k].kind = "result" /\ q[k].val = 1}
Open(q, n)  == {k \in n + 1..Len(q) : q[k].kind = "share" /\ jobs[q[k].val] = session}
Hashed      == {w \in Workers : wpc[w] = "hashed"}

\* Every share accepted or still to be accepted was sent in its job's session.
ShareInv == accepted + Cardinality(Positive(inbox)) + Cardinality(Open(sent, answered)) <= genuine

\* A block is counted for a share found, and not before it is submitted.
BlockInv == IsFiniteSet(Hashed) /\ blocks + Cardinality(Hashed) <= shares

CountInv == ShareInv /\ BlockInv

LEMMA PositiveFinite ==
  ASSUME NEW q \in Seq(Answers)
  PROVE  IsFiniteSet(Positive(q)) /\ Cardinality(Positive(q)) \in Nat
<1>1. IsFiniteSet(1..Len(q)) /\ Positive(q) \in SUBSET (1..Len(q))
  BY FS_Interval DEF Positive
<1> QED
  BY <1>1, FS_Subset, FS_CardinalityType

LEMMA OpenFinite ==
  ASSUME NEW q \in Seq(Requests), NEW n \in Nat
  PROVE  IsFiniteSet(Open(q, n)) /\ Cardinality(Open(q, n)) \in Nat
<1>1. IsFiniteSet(n + 1..Len(q)) /\ Open(q, n) \in SUBSET (n + 1..Len(q))
  BY FS_Interval DEF Open
<1> QED
  BY <1>1, FS_Subset, FS_CardinalityType

\* A message that is decoded leaves one positive answer less, if it was one.
LEMMA PositiveTail ==
  ASSUME NEW q \in Seq(Answers), q # <<>>
  PROVE  Cardinality(Positive(Tail(q)))
           <= Cardinality(Positive(q))
              - (IF Head(q).kind = "result" /\ Head(q).val = 1 THEN 1 ELSE 0)
<1>1. /\ Tail(q) \in Seq(Answers) /\ Len(q) \in Nat \ {0} /\ Len(Tail(q)) = Len(q) - 1
      /\ Head(q) = q[1]
      /\ \A k \in 1..Len(Tail(q)) : Tail(q)[k] = q[k + 1]
  BY Shortened
<1>2. IsFiniteSet(Positive(q)) /\ Cardinality(Positive(q)) \in Nat
      /\ Cardinality(Positive(Tail(q))) \in Nat
  BY <1>1, PositiveFinite
<1> DEFINE S == Positive(Tail(q))
           T == Positive(q) \ {1}
           f == [k \in S |-> k + 1]
<1>3. f \in Injection(S, T)
  <2>1. \A k \in S : k \in Nat /\ k + 1 \in T
    BY <1>1 DEF Positive
  <2> HIDE DEF S, T
  <2> QED
    BY <2>1 DEF Injection, IsInjective
<1>4. IsFiniteSet(T) /\ Cardinality(T)
        = IF 1 \in Positive(q) THEN Cardinality(Positive(q)) - 1 ELSE Cardinality(Positive(q))
  BY <1>2, FS_RemoveElement
<1>5. 1 \in Positive(q) <=> Head(q).kind = "result" /\ Head(q).val = 1
  BY <1>1 DEF Positive
<1>6. Cardinality(S) <= Cardinality(T)
  <2> HIDE DEF S, T, f
  <2> QED
    BY <1>3, <1>4, FS_Injection
<1> QED
  BY <1>2, <1>4, <1>5, <1>6

\* One more message of the pool is one more positive answer, if it is one.
LEMMA PositiveAppend ==
  ASSUME NEW q \in Seq(Answers), NEW e \in Answers
  PROVE  Cardinality(Positive(Append(q, e)))
           = Cardinality(Positive(q)) + (IF e.kind = "result" /\ e.val = 1 THEN 1 ELSE 0)
<1>1. /\ Len(q) \in Nat /\ Len(Append(q, e)) = Len(q) + 1 /\ Append(q, e)[Len(q) + 1] = e
      /\ \A k \in 1..Len(q) : Append(q, e)[k] = q[k]
  BY Appended
<1>2. Positive(Append(q, e)) = IF e.kind = "result" /\ e.val = 1
                               THEN Positive(q) \cup {Len(q) + 1} ELSE Positive(q)
  BY <1>1 DEF Positive
<1>3. Len(q) + 1 \notin Positive(q)
  BY <1>1 DEF Positive
<1>4. Cardinality(Positive(q) \cup {Len(q) + 1}) = Cardinality(Positive(q)) + 1
  BY <1>3, PositiveFinite, FS_AddElement
<1> QED
  BY <1>2, <1>4, PositiveFinite

\* One more message of the miner is one more open share, if it is one.
LEMMA OpenAppend ==
  ASSUME NEW q \in Seq(Requests), NEW e \in Requests, NEW n \in 0..Len(q)
  PROVE  Cardinality(Open(Append(q, e), n))
           = Cardinality(Open(q, n))
             + (IF e.kind = "share" /\ jobs[e.val] = session THEN 1 ELSE 0)
<1>1. /\ Len(q) \in Nat /\ Len(Append(q, e)) = Len(q) + 1 /\ Append(q, e)[Len(q) + 1] = e
      /\ \A k \in 1..Len(q) : Append(q, e)[k] = q[k]
  BY Appended
<1>2. Open(Append(q, e), n) = IF e.kind = "share" /\ jobs[e.val] = session
                              THEN Open(q, n) \cup {Len(q) + 1} ELSE Open(q, n)
  BY <1>1 DEF Open
<1>3. Len(q) + 1 \notin Open(q, n)
  BY <1>1 DEF Open
<1>4. n \in Nat
  BY <1>1
<1>5. Cardinality(Open(q, n) \cup {Len(q) + 1}) = Cardinality(Open(q, n)) + 1
  BY <1>3, <1>4, OpenFinite, FS_AddElement
<1> QED
  BY <1>2, <1>4, <1>5, OpenFinite

\* An answer closes the share it answers.
LEMMA OpenAnswered ==
  ASSUME NEW q \in Seq(Requests), NEW n \in Nat, n < Len(q)
  PROVE  Cardinality(Open(q, n + 1))
           = Cardinality(Open(q, n))
             - (IF q[n + 1].kind = "share" /\ jobs[q[n + 1].val] = session THEN 1 ELSE 0)
<1>1. Len(q) \in Nat
  OBVIOUS
<1>2. Open(q, n + 1) = Open(q, n) \ {n + 1}
  BY <1>1 DEF Open
<1>3. n + 1 \in Open(q, n) <=> q[n + 1].kind = "share" /\ jobs[q[n + 1].val] = session
  BY <1>1 DEF Open
<1> QED
  BY <1>2, <1>3, OpenFinite, FS_RemoveElement

LEMMA InitCount == Init => CountInv
<1> SUFFICES ASSUME Init PROVE CountInv
  OBVIOUS
<1>1. Positive(inbox) = {} /\ Open(sent, answered) = {} /\ Hashed = {}
  BY DEF Init, Positive, Open, Hashed
<1>2. accepted = 0 /\ genuine = 0 /\ blocks = 0 /\ shares = 0
  BY DEF Init
<1> QED
  BY <1>1, <1>2, FS_EmptySet DEF CountInv, ShareInv, BlockInv

\* The counts as numbers.
LEMMA Numbers ==
  ASSUME IInv, CountInv
  PROVE  /\ accepted \in Nat /\ genuine \in Nat /\ blocks \in Nat /\ shares \in Nat
         /\ Cardinality(Positive(inbox)) \in Nat /\ Cardinality(Open(sent, answered)) \in Nat
         /\ IsFiniteSet(Hashed) /\ Cardinality(Hashed) \in Nat
<1>1. /\ accepted \in Nat /\ genuine \in Nat /\ blocks \in Nat /\ shares \in 0..MaxShares
      /\ answered \in 0..Len(sent) /\ sent \in Seq(Requests) /\ inbox \in Seq(Answers)
  BY DEF IInv, TypeOK, MessageInv
<1>2. shares \in Nat /\ answered \in Nat
  BY <1>1, StratumAssumption
<1> QED
  BY <1>1, <1>2, PositiveFinite, OpenFinite, FS_CardinalityType DEF CountInv, BlockInv

-----------------------------------------------------------------------------
LEMMA ShareNext == IInv /\ CountInv /\ [Next]_vars => ShareInv'
<1> SUFFICES ASSUME IInv, CountInv, [Next]_vars PROVE ShareInv'
  OBVIOUS
<1> DEFINE P == Cardinality(Positive(inbox))
           O == Cardinality(Open(sent, answered))
<1>0. /\ accepted \in Nat /\ genuine \in Nat /\ P \in Nat /\ O \in Nat
      /\ accepted + P + O <= genuine
      /\ sent \in Seq(Requests) /\ inbox \in Seq(Answers) /\ Len(sent) \in Nat
      /\ answered \in 0..Len(sent) /\ answered \in Nat
      /\ session \in Nat /\ jobs \in Seq(1..MaxSessions)
      /\ \A k \in 1..Len(sent) : sent[k].kind = "share" => sent[k].val \in 1..Len(jobs)
  BY Numbers, StratumAssumption DEF CountInv, ShareInv, IInv, TypeOK, MessageInv
\* Steps that neither send, nor answer, nor decode.
<1>1. ASSUME UNCHANGED <<session, sent, inbox, accepted, genuine, jobs, answered>>
      PROVE  ShareInv'
  BY <1>0, <1>1 DEF ShareInv, Positive, Open
<1>2. CASE DialOk
  <2>1. /\ sent' = <<>> /\ inbox' = <<>> /\ answered' = 0
        /\ UNCHANGED <<accepted, genuine>>
    BY <1>2 DEF DialOk, fieldVars, workerVars
  <2>2. Positive(inbox)' = {} /\ Open(sent, answered)' = {}
    BY <2>1 DEF Positive, Open
  <2>3. Cardinality(Positive(inbox)') = 0 /\ Cardinality(Open(sent, answered)') = 0
    BY <2>2, FS_EmptySet
  <2>4. accepted <= genuine
    BY <1>0
  <2> QED
    BY <1>0, <2>1, <2>3, <2>4 DEF ShareInv
<1>3. CASE Subscribe \/ Authorize
  <2>1. PICK m \in Requests : m.kind # "share" /\ (sent' = Append(sent, m) \/ sent' = sent)
    <3>1. Msg("subscribe", 0) \in Requests /\ Msg("authorize", 0) \in Requests
      BY DEF Msg, Requests
    <3> QED
      BY <1>3, <3>1 DEF Subscribe, Authorize, Send, Msg
  <2>2. UNCHANGED <<session, inbox, accepted, genuine, jobs, answered>>
    BY <1>3 DEF Subscribe, Authorize, fieldVars, workerVars, poolVars
  <2>3. CASE sent' = sent
    BY <1>1, <2>2, <2>3
  <2>4. CASE sent' = Append(sent, m)
    <3>1. Open(sent, answered)' = Open(Append(sent, m), answered)
      BY <2>2, <2>4 DEF Open
    <3>2. Cardinality(Open(Append(sent, m), answered)) = O
      <4>1. Cardinality(Open(Append(sent, m), answered))
              = O + (IF m.kind = "share" /\ jobs[m.val] = session THEN 1 ELSE 0)
        BY <1>0, OpenAppend
      <4> QED
        BY <1>0, <2>1, <4>1
    <3> QED
      BY <1>0, <2>2, <3>1, <3>2 DEF ShareInv, Positive
  <2> QED
    BY <2>1, <2>3, <2>4
<1>4. CASE HandleMessage
  <2> DEFINE one == IF Head(inbox).kind = "result" /\ Head(inbox).val = 1 THEN 1 ELSE 0
  <2>1. /\ inbox # <<>> /\ inbox' = Tail(inbox) /\ accepted' = accepted + one
        /\ UNCHANGED <<session, sent, genuine, jobs, answered>>
    BY <1>0, <1>4 DEF HandleMessage, Decode, workerVars, poolVars
  <2>2. Tail(inbox) \in Seq(Answers) /\ Cardinality(Positive(Tail(inbox))) \in Nat
        /\ Cardinality(Positive(Tail(inbox))) <= P - one
    BY <1>0, <2>1, Shortened, PositiveFinite, PositiveTail
  <2>3. Positive(inbox)' = Positive(Tail(inbox)) /\ Open(sent, answered)' = Open(sent, answered)
    BY <2>1 DEF Positive, Open
  <2> QED
    BY <1>0, <2>1, <2>2, <2>3 DEF ShareInv
<1>5. ASSUME NEW w \in Workers, SubmitShare(w)
      PROVE  ShareInv'
  <2> DEFINE m == Msg("share", wjob[w])
             one == IF jobs[m.val] = session THEN 1 ELSE 0
  <2>1. m \in Requests /\ m.kind = "share" /\ m.val = wjob[w]
    BY StratumAssumption DEF IInv, TypeOK, Msg, Requests
  <2>2. /\ sent' = IF alive THEN Append(sent, m) ELSE sent
        /\ genuine' = IF alive /\ jobs[m.val] = session THEN genuine + 1 ELSE genuine
        /\ UNCHANGED <<session, inbox, accepted, jobs, answered>>
    BY <1>5, <2>1 DEF SubmitShare, Send, fieldVars, poolVars
  <2> HIDE DEF m
  <2>3. CASE ~ alive
    BY <1>1, <2>2, <2>3
  <2>4. CASE alive
    <3>1. Open(sent, answered)' = Open(Append(sent, m), answered)
      BY <2>2, <2>4 DEF Open
    <3>2. Cardinality(Open(Append(sent, m), answered)) = O + one
      BY <1>0, <2>1, OpenAppend
    <3>3. genuine' = genuine + one
      BY <1>0, <2>2, <2>4
    <3> QED
      BY <1>0, <2>2, <3>1, <3>2, <3>3 DEF ShareInv, Positive
  <2> QED
    BY <2>3, <2>4
<1>6. CASE PoolAnswer
  <2> DEFINE m == sent[answered + 1]
             one == IF m.kind = "share" /\ jobs[m.val] = session THEN 1 ELSE 0
  <2>1. /\ answered < Len(sent) /\ answered' = answered + 1
        /\ UNCHANGED <<session, sent, accepted, genuine, jobs>>
    BY <1>6 DEF PoolAnswer, fieldVars, workerVars
  <2>2. Cardinality(Open(sent, answered)') = O - one
    <3>1. Open(sent, answered)' = Open(sent, answered + 1)
      BY <2>1 DEF Open
    <3> QED
      BY <1>0, <2>1, <3>1, OpenAnswered
  <2>3. /\ Cardinality(Positive(inbox)') \in Nat
        /\ Cardinality(Positive(inbox)') <= P + one
    <3>1. \/ m.kind = "authorize" /\ UNCHANGED inbox
          \/ m.kind = "subscribe"
               /\ inbox' = inbox \o <<Msg("extranonce", session), Msg("difficulty", session)>>
          \/ m.kind = "share"
               /\ \E r \in IF jobs[m.val] = session THEN {0, 1} ELSE {0} :
                    inbox' = Append(inbox, Msg("result", r))
      BY <1>6 DEF PoolAnswer
    <3> HIDE DEF m
    <3>2. CASE UNCHANGED inbox
      <4>1. Positive(inbox)' = Positive(inbox)
        BY <3>2 DEF Positive
      <4> QED
        BY <1>0, <4>1
    <3>3. CASE inbox' = inbox \o <<Msg("extranonce", session), Msg("difficulty", session)>>
      <4> DEFINE d == Msg("extranonce", session)
                 e == Msg("difficulty", session)
      <4>1. /\ d \in Answers /\ d.kind = "extranonce" /\ e \in Answers /\ e.kind = "difficulty"
            /\ inbox' = inbox \o <<d, e>>
        BY <1>0, <3>3 DEF Msg, Answers
      <4> HIDE DEF d, e
      <4>2. /\ Len(inbox) \in Nat /\ Len(inbox') = Len(inbox) + 2
            /\ inbox'[Len(inbox) + 1] = d /\ inbox'[Len(inbox) + 2] = e
            /\ \A k \in 1..Len(inbox) : inbox'[k] = inbox[k]
        BY <1>0, <4>1, TwoMore
      <4>3. Positive(inbox)' = Positive(inbox)
        <5>1. Positive(inbox)' = {k \in 1..Len(inbox') : inbox'[k].kind = "result" /\ inbox'[k].val = 1}
          BY DEF Positive
        <5>2. \A k \in 1..Len(inbox') : k \in 1..Len(inbox) \/ inbox'[k].kind # "result"
          BY <4>1, <4>2
        <5>3. \A k \in 1..Len(inbox) : k \in 1..Len(inbox')
          BY <4>2
        <5> QED
          BY <4>2, <5>1, <5>2, <5>3 DEF Positive
      <4> QED
        BY <1>0, <4>3
    <3>4. CASE m.kind = "share" /\ \E r \in IF jobs[m.val] = session THEN {0, 1} ELSE {0} :
                                     inbox' = Append(inbox, Msg("result", r))
      <4>1. PICK r \in IF jobs[m.val] = session THEN {0, 1} ELSE {0} :
              inbox' = Append(inbox, Msg("result", r))
        BY <3>4
      <4>2. Msg("result", r) \in Answers /\ Msg("result", r).val = r
        BY DEF Msg, Answers
      <4>3. Positive(inbox)' = Positive(Append(inbox, Msg("result", r)))
        BY <4>1 DEF Positive
      <4>4. Cardinality(Positive(inbox)') = P + (IF r = 1 THEN 1 ELSE 0)
        BY <1>0, <4>2, <4>3, PositiveAppend DEF Msg
      <4> QED
        BY <1>0, <3>4, <4>4
    <3> QED
      BY <3>1, <3>2, <3>3, <3>4
  <2> HIDE DEF one
  <2>4. one \in {0, 1}
    BY DEF one
  <2> QED
    BY <1>0, <2>1, <2>2, <2>3, <2>4 DEF ShareInv
<1>7. CASE PoolJob
  <2> DEFINE m == Msg("job", Len(jobs) + 1)
  <2>1. /\ inbox' = Append(inbox, m) /\ jobs' = Append(jobs, session)
        /\ UNCHANGED <<session, sent, accepted, genuine, answered>>
    BY <1>7 DEF PoolJob, fieldVars, workerVars
  <2>2. Len(jobs) \in Nat /\ \A k \in 1..Len(jobs) : jobs'[k] = jobs[k]
    BY <1>0, <2>1, Appended, StratumAssumption DEF IInv, TypeOK
  <2>3. m \in Answers /\ m.kind = "job"
    BY <2>2 DEF Msg, Answers
  <2> HIDE DEF m
  <2>4. Open(sent, answered)' = Open(sent, answered)
    BY <1>0, <2>1, <2>2 DEF Open
  <2>5. Cardinality(Positive(inbox)') = P
    <3>1. Positive(inbox)' = Positive(Append(inbox, m))
      BY <2>1 DEF Positive
    <3> QED
      BY <1>0, <2>3, <3>1, PositiveAppend
  <2> QED
    BY <1>0, <2>1, <2>4, <2>5 DEF ShareInv
<1>8. CASE Connect \/ DialFail \/ DecodeErr \/ Cleanup \/ CheckQuit \/ Wait \/ Drop \/ Stop
  BY <1>1, <1>8 DEF Connect, DialFail, DecodeErr, Cleanup, CheckQuit, Wait, Drop, Stop,
                    fieldVars, workerVars, poolVars
<1>9. ASSUME NEW w \in Workers,
             \/ Exit(w) \/ TakeJob(w) \/ ReadExtranonce(w) \/ BuildWork(w) \/ LeaveJob(w)
             \/ FindShare(w)
      PROVE  ShareInv'
  BY <1>1, <1>9 DEF Exit, TakeJob, ReadExtranonce, BuildWork, LeaveJob, FindShare, Hash,
                    fieldVars, poolVars
<1>10. CASE Ended \/ UNCHANGED vars
  BY <1>1, <1>10 DEF Ended, vars, fieldVars, workerVars, poolVars
<1> QED
  BY <1>2, <1>3, <1>4, <1>5, <1>6, <1>7, <1>8, <1>9, <1>10 DEF Next, RunStep, WorkerStep

LEMMA BlockNext == IInv /\ CountInv /\ [Next]_vars => BlockInv'
<1> SUFFICES ASSUME IInv, CountInv, [Next]_vars PROVE BlockInv'
  OBVIOUS
<1>0. /\ blocks \in Nat /\ shares \in Nat /\ IsFiniteSet(Hashed) /\ Cardinality(Hashed) \in Nat
      /\ blocks + Cardinality(Hashed) <= shares
      /\ wpc \in [Workers -> {"poll", "read", "reading", "mine", "hashed", "exited"}]
  BY Numbers DEF CountInv, BlockInv, IInv, TypeOK
<1>1. ASSUME UNCHANGED <<blocks, shares>>, Hashed' = Hashed
      PROVE  BlockInv'
  BY <1>0, <1>1 DEF BlockInv
<1>2. ASSUME NEW w \in Workers, FindShare(w)
      PROVE  BlockInv'
  <2>1. /\ wpc[w] = "mine" /\ wpc' = [wpc EXCEPT ![w] = "hashed"]
        /\ shares' = shares + 1 /\ blocks' = blocks
    BY <1>2 DEF FindShare, Hash
  <2>2. Hashed' = Hashed \cup {w} /\ w \notin Hashed
    BY <1>0, <2>1 DEF Hashed
  <2>3. IsFiniteSet(Hashed') /\ Cardinality(Hashed') = Cardinality(Hashed) + 1
    BY <1>0, <2>2, FS_AddElement
  <2> QED
    BY <1>0, <2>1, <2>3 DEF BlockInv
<1>3. ASSUME NEW w \in Workers, SubmitShare(w)
      PROVE  BlockInv'
  <2>1. /\ wpc[w] = "hashed" /\ wpc' = [wpc EXCEPT ![w] = "mine"]
        /\ blocks' \in {blocks, blocks + 1} /\ shares' = shares
    BY <1>3 DEF SubmitShare
  <2>2. Hashed' = Hashed \ {w} /\ w \in Hashed
    BY <1>0, <2>1 DEF Hashed
  <2>3. IsFiniteSet(Hashed') /\ Cardinality(Hashed') = Cardinality(Hashed) - 1
    BY <1>0, <2>2, FS_RemoveElement
  <2> QED
    BY <1>0, <2>1, <2>3 DEF BlockInv
\* The other steps of a worker lead neither to nor from "hashed".
<1>4. ASSUME NEW w \in Workers, NEW to \in {"poll", "read", "reading", "mine", "exited"},
             wpc[w] # "hashed", wpc' = [wpc EXCEPT ![w] = to], UNCHANGED <<blocks, shares>>
      PROVE  BlockInv'
  <2>1. Hashed' = Hashed
    BY <1>0, <1>4 DEF Hashed
  <2> QED
    BY <1>1, <1>4, <2>1
<1>5. ASSUME NEW w \in Workers,
             Exit(w) \/ TakeJob(w) \/ ReadExtranonce(w) \/ BuildWork(w) \/ LeaveJob(w)
      PROVE  BlockInv'
  <2>1. UNCHANGED <<blocks, shares>> /\ wpc[w] # "hashed"
    BY <1>5 DEF Exit, TakeJob, ReadExtranonce, BuildWork, LeaveJob
  <2>2. \E to \in {"poll", "read", "reading", "mine", "exited"} : wpc' = [wpc EXCEPT ![w] = to]
    BY <1>5 DEF Exit, TakeJob, ReadExtranonce, BuildWork, LeaveJob
  <2> QED
    BY <1>4, <2>1, <2>2
<1>6. CASE RunStep \/ PoolAnswer \/ PoolJob \/ Drop \/ Stop \/ Ended \/ UNCHANGED vars
  <2>1. UNCHANGED <<blocks, shares, wpc>>
    <3>1. CASE RunStep
      BY <3>1 DEF RunStep, Connect, DialOk, DialFail, Subscribe, Authorize, HandleMessage, Decode,
                  DecodeErr, Cleanup, CheckQuit, Wait, workerVars
    <3>2. CASE PoolAnswer \/ PoolJob \/ Drop \/ Stop
      BY <3>2 DEF PoolAnswer, PoolJob, Drop, Stop, workerVars
    <3>3. CASE Ended \/ UNCHANGED vars
      BY <3>3 DEF Ended, vars, workerVars
    <3> QED
      BY <1>6, <3>1, <3>2, <3>3
  <2> QED
    BY <1>1, <2>1 DEF Hashed
<1> QED
  BY <1>2, <1>3, <1>5, <1>6 DEF Next, WorkerStep

\* No share counts as accepted that was not sent in the session of its job, and
\* no more blocks are counted than shares were found, whatever is lost, refused
\* or answered late (submitShare and handleMessages in main.go).
THEOREM CountersCorrect == Spec => []CountersBacked
<1>1. Init => CountInv
  BY InitCount
<1>2. IInv /\ CountInv /\ [Next]_vars => CountInv'
  BY ShareNext, BlockNext DEF CountInv
<1>3. IInv /\ CountInv => CountersBacked
  <2> SUFFICES ASSUME IInv, CountInv PROVE CountersBacked
    OBVIOUS
  <2> QED
    BY Numbers DEF CountInv, ShareInv, BlockInv, CountersBacked
<1> QED
  BY <1>1, <1>2, <1>3, Inductive, PTL DEF Spec
=============================================================================
