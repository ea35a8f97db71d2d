------------------------------ MODULE Stratum ------------------------------
(***************************************************************************)
(* One miner's dialogue with its pool (main.go): Run and handleMessages on *)
(* one side of the Miner's fields, the workers on the other.  When quit is *)
(* closed, and by whom, is the business of module Manager.                 *)
(*                                                                         *)
(* A connection is a session, numbered from 1.  The pool (external) gives  *)
(* each session an extranonce1 and a share difficulty, named here by the   *)
(* session's number, before its first job.  Jobs are numbered as the pool  *)
(* creates them; the code compares pointers, so no two jobs are equal.     *)
(*                                                                         *)
(* extranonce1 is a string which handleMessages may assign while a worker  *)
(* reads it: the reader then gets a mixture of the two (Garbage).          *)
(***************************************************************************)
EXTENDS Naturals, Sequences

CONSTANTS Workers,      \* the worker goroutines
          MaxSessions,  \* bound: connections
          MaxJobs,      \* bound: jobs
          MaxShares     \* bound: shares found

ASSUME StratumAssumption ==
  MaxSessions \in Nat /\ MaxJobs \in Nat /\ MaxShares \in Nat

Garbage == MaxSessions + 1

VARIABLES
  quit,       \* Miner.quit is closed
  run,        \* where Run is; it holds sendMu while "dialing"
  session,    \* number of the latest connection, 0 before the first
  alive,      \* it has not ended
  sent,       \* what the miner sent on it
  inbox,      \* what the pool sent on it and the miner has not decoded
  extranonce1, shareDifficulty, currentJob,   \* the Miner's fields, 0 when unset
  wpc,        \* wpc[w]: where worker w is
  wjob,       \* wjob[w]: its localJob
  wen1, wdiff,       \* the extranonce1 and the difficulty it mines with
  accepted, blocks,  \* stats.AcceptedShares, stats.BlocksFound
  jobs,       \* pool: jobs[j] is the session job j was made for
  answered,   \* pool: number of messages in sent it has answered
  shares,     \* number of shares found
  late,       \* history: shares w sent for wjob[w] when it was not current any
              \* more, or after quit
  genuine     \* history: shares sent in the session of their job

poolVars   == <<jobs, answered>>
fieldVars  == <<extranonce1, shareDifficulty, currentJob, accepted>>
workerVars == <<wpc, wjob, wen1, wdiff, blocks, shares, late, genuine>>
vars == <<quit, run, session, alive, sent, inbox, fieldVars, workerVars, poolVars>>

Msg(kind, val) == [kind |-> kind, val |-> val]

\* The type invariant.
TypeOK ==
  /\ quit \in BOOLEAN /\ alive \in BOOLEAN
  /\ run \in {"connect", "dialing", "subscribe", "authorize", "handle",
              "cleanup", "check", "wait", "done"}
  /\ session \in 0..MaxSessions
  /\ \A i \in DOMAIN sent : sent[i].kind \in {"subscribe", "authorize", "share"}
  /\ \A i \in DOMAIN inbox : inbox[i].kind \in {"extranonce", "difficulty", "job", "result"}
  /\ extranonce1 \in 0..MaxSessions /\ shareDifficulty \in 0..MaxSessions
  /\ jobs \in Seq(1..MaxSessions)
  /\ currentJob \in 0..Len(jobs)
  /\ wpc \in [Workers -> {"poll", "read", "reading", "mine", "hashed", "exited"}]
  /\ wjob \in [Workers -> 0..Len(jobs)]
  /\ wen1 \in [Workers -> 0..Garbage] /\ wdiff \in [Workers -> 0..MaxSessions]
  /\ answered \in 0..Len(sent)
  /\ accepted \in Nat /\ blocks \in Nat /\ genuine \in Nat
  /\ shares \in 0..MaxShares
  /\ late \in [Workers -> Nat]

Init ==
  /\ quit = FALSE /\ run = "connect"
  /\ session = 0 /\ alive = FALSE /\ sent = <<>> /\ inbox = <<>>
  /\ extranonce1 = 0 /\ shareDifficulty = 0 /\ currentJob = 0
  /\ wpc = [w \in Workers |-> "poll"] /\ wjob = [w \in Workers |-> 0]
  /\ wen1 = [w \in Workers |-> 0] /\ wdiff = [w \in Workers |-> 0]
  /\ accepted = 0 /\ blocks = 0
  /\ jobs = <<>> /\ answered = 0
  /\ shares = 0 /\ late = [w \in Workers |-> 0] /\ genuine = 0

\* send: what is written to a dead connection is lost.
Send(m) == sent' = IF alive THEN Append(sent, m) ELSE sent

-----------------------------------------------------------------------------
(* Run.                                                                    *)

Connect ==
  /\ run = "connect"
  /\ run' = "dialing"
  /\ UNCHANGED <<quit, session, alive, sent, inbox, fieldVars, workerVars, poolVars>>

DialOk ==
  /\ run = "dialing"
  /\ session < MaxSessions
  /\ session' = session + 1
  /\ alive' = TRUE
  /\ sent' = <<>> /\ inbox' = <<>> /\ answered' = 0
  /\ run' = "subscribe"
  /\ UNCHANGED <<quit, fieldVars, workerVars, jobs>>

DialFail ==
  /\ run = "dialing"
  /\ run' = "wait"
  /\ UNCHANGED <<quit, session, alive, sent, inbox, fieldVars, workerVars, poolVars>>

Subscribe ==
  /\ run = "subscribe"
  /\ Send(Msg("subscribe", 0))
  /\ run' = "authorize"
  /\ UNCHANGED <<quit, session, alive, inbox, fieldVars, workerVars, poolVars>>

Authorize ==
  /\ run = "authorize"
  /\ Send(Msg("authorize", 0))
  /\ run' = "handle"
  /\ UNCHANGED <<quit, session, alive, inbox, fieldVars, workerVars, poolVars>>

\* handleMessages decodes one message: the answer to subscribe (id 1), the
\* result of a submission (id 3), mining.set_difficulty or mining.notify.
\* Whether a refused share counts is a parameter.
Decode(countRefused) ==
  /\ run = "handle" /\ inbox # <<>>
  /\ inbox' = Tail(inbox)
  /\ LET m == Head(inbox) IN
       /\ extranonce1' = IF m.kind = "extranonce" THEN m.val ELSE extranonce1
       /\ shareDifficulty' = IF m.kind = "difficulty" THEN m.val ELSE shareDifficulty
       /\ currentJob' = IF m.kind = "job" THEN m.val ELSE currentJob
       /\ accepted' = IF m.kind = "result" /\ (countRefused \/ m.val = 1) THEN accepted + 1
                                                                       ELSE accepted
  /\ UNCHANGED <<quit, run, session, alive, sent, workerVars, poolVars>>

\* Variant: a submission counts whatever its result.
HandleMessageCountsAll == Decode(TRUE)

HandleMessage == Decode(FALSE)

\* Decode fails once the connection ended; what was not decoded is lost.
DecodeErr ==
  /\ run = "handle" /\ ~alive
  /\ run' = "cleanup"
  /\ UNCHANGED <<quit, session, alive, sent, inbox, fieldVars, workerVars, poolVars>>

\* Variant: the job survives its connection.
CleanupKeepsJob ==
  /\ run = "cleanup"
  /\ run' = "check"
  /\ UNCHANGED <<quit, session, alive, sent, inbox, fieldVars, workerVars, poolVars>>

\* Run closes the connection and forgets the job.
Cleanup ==
  /\ run = "cleanup"
  /\ currentJob' = 0
  /\ run' = "check"
  /\ UNCHANGED <<quit, session, alive, sent, inbox, extranonce1, shareDifficulty, accepted,
                 workerVars, poolVars>>

CheckQuit ==
  /\ run = "check"
  /\ run' = IF quit THEN "done" ELSE "wait"
  /\ UNCHANGED <<quit, session, alive, sent, inbox, fieldVars, workerVars, poolVars>>

Wait ==
  /\ run = "wait"
  /\ run' \in {"connect"} \cup (IF quit THEN {"done"} ELSE {})
  /\ UNCHANGED <<quit, session, alive, sent, inbox, fieldVars, workerVars, poolVars>>

-----------------------------------------------------------------------------
(* A worker.                                                               *)

Exit(w) ==
  /\ wpc[w] \in {"poll", "mine"} /\ quit
  /\ wpc' = [wpc EXCEPT ![w] = "exited"]
  /\ UNCHANGED <<quit, run, session, alive, sent, inbox, fieldVars, wjob, wen1, wdiff, blocks,
                 shares, late, genuine, poolVars>>

\* worker finds a job it has not mined yet,
TakeJob(w) ==
  /\ wpc[w] = "poll" /\ ~quit
  /\ currentJob \notin {0, wjob[w]}
  /\ wjob' = [wjob EXCEPT ![w] = currentJob]
  /\ wpc' = [wpc EXCEPT ![w] = "read"]
  /\ late' = [late EXCEPT ![w] = 0]
  /\ UNCHANGED <<quit, run, session, alive, sent, inbox, fieldVars, wen1, wdiff, blocks,
                 shares, genuine, poolVars>>

\* mineJob starts to read extranonce1 for the coinbase,
ReadExtranonce(w) ==
  /\ wpc[w] = "read"
  /\ wen1' = [wen1 EXCEPT ![w] = extranonce1]
  /\ wpc' = [wpc EXCEPT ![w] = "reading"]
  /\ UNCHANGED <<quit, run, session, alive, sent, inbox, fieldVars, wjob, wdiff, blocks,
                 shares, late, genuine, poolVars>>

\* gets a mixture if it changed meanwhile, and reads the difficulty.
BuildWork(w) ==
  /\ wpc[w] = "reading"
  /\ \E e \in {wen1[w], extranonce1} \cup (IF wen1[w] = extranonce1 THEN {} ELSE {Garbage}) :
       wen1' = [wen1 EXCEPT ![w] = e]
  /\ wdiff' = [wdiff EXCEPT ![w] = shareDifficulty]
  /\ wpc' = [wpc EXCEPT ![w] = "mine"]
  /\ UNCHANGED <<quit, run, session, alive, sent, inbox, fieldVars, wjob, blocks,
                 shares, late, genuine, poolVars>>

\* Variant: mineJob returns only when there is no job.
LeaveNoJob(w) ==
  /\ wpc[w] = "mine" /\ ~quit
  /\ currentJob = 0
  /\ wpc' = [wpc EXCEPT ![w] = "poll"]
  /\ UNCHANGED <<quit, run, session, alive, sent, inbox, fieldVars, wjob, wen1, wdiff, blocks,
                 shares, late, genuine, poolVars>>

\* It returns when its job is not the current one any more.
LeaveJob(w) ==
  /\ wpc[w] = "mine" /\ ~quit
  /\ currentJob # wjob[w]
  /\ wpc' = [wpc EXCEPT ![w] = "poll"]
  /\ UNCHANGED <<quit, run, session, alive, sent, inbox, fieldVars, wjob, wen1, wdiff, blocks,
                 shares, late, genuine, poolVars>>

\* A hash that meets the share target.
Hash(w) ==
  /\ wpc[w] = "mine"
  /\ shares < MaxShares
  /\ shares' = shares + 1
  /\ wpc' = [wpc EXCEPT ![w] = "hashed"]
  /\ UNCHANGED <<quit, run, session, alive, sent, inbox, fieldVars, wjob, wen1, wdiff, blocks,
                 late, genuine, poolVars>>

\* The polls of quit and of the job come before the hash.
FindShare(w) == ~quit /\ currentJob = wjob[w] /\ Hash(w)

\* submitShare, on whatever connection there is by then, after a dial under way;
\* if the hash meets the network target too, a block is counted.
SubmitShare(w) ==
  /\ wpc[w] = "hashed"
  /\ run # "dialing"
  /\ Send(Msg("share", wjob[w]))
  /\ wpc' = [wpc EXCEPT ![w] = "mine"]
  /\ blocks' \in {blocks, blocks + 1}
  /\ late' = IF quit \/ currentJob # wjob[w] THEN [late EXCEPT ![w] = @ + 1] ELSE late
  /\ genuine' = IF alive /\ jobs[wjob[w]] = session THEN genuine + 1 ELSE genuine
  /\ UNCHANGED <<quit, run, session, alive, inbox, fieldVars, wjob, wen1, wdiff, shares, poolVars>>

-----------------------------------------------------------------------------
(* The pool, which answers in order, and the Manager.                      *)

\* Only a share of a job made for this session can be accepted.
PoolAnswer ==
  /\ alive
  /\ answered < Len(sent)
  /\ answered' = answered + 1
  /\ LET m == sent[answered + 1] IN
       \/ m.kind = "authorize" /\ UNCHANGED inbox
       \/ /\ m.kind = "subscribe"
          /\ inbox' = inbox \o <<Msg("extranonce", session), Msg("difficulty", session)>>
       \/ /\ m.kind = "share"
          /\ \E r \in IF jobs[m.val] = session THEN {0, 1} ELSE {0} :
               inbox' = Append(inbox, Msg("result", r))
  /\ UNCHANGED <<quit, run, session, alive, sent, fieldVars, workerVars, jobs>>

PoolJob ==
  /\ alive
  /\ \E i \in 1..answered : sent[i].kind = "subscribe"
  /\ Len(jobs) < MaxJobs
  /\ jobs' = Append(jobs, session)
  /\ inbox' = Append(inbox, Msg("job", Len(jobs) + 1))
  /\ UNCHANGED <<quit, run, session, alive, sent, fieldVars, workerVars, answered>>

\* The pool, the network or Manager.Stop ends the connection.
Drop ==
  /\ alive
  /\ alive' = FALSE
  /\ UNCHANGED <<quit, run, session, sent, inbox, fieldVars, workerVars, poolVars>>

Stop ==
  /\ ~quit
  /\ quit' = TRUE
  /\ UNCHANGED <<run, session, alive, sent, inbox, fieldVars, workerVars, poolVars>>

-----------------------------------------------------------------------------
RunStep == \/ Connect \/ DialOk \/ DialFail \/ Subscribe \/ Authorize
           \/ HandleMessage \/ DecodeErr \/ Cleanup \/ CheckQuit \/ Wait

WorkerStep(w) == \/ Exit(w) \/ TakeJob(w) \/ ReadExtranonce(w) \/ BuildWork(w)
                 \/ LeaveJob(w) \/ SubmitShare(w)

\* The miner has stopped, all of it.
Ended == run = "done" /\ (\A w \in Workers : wpc[w] = "exited") /\ UNCHANGED vars

Next == \/ RunStep
        \/ \E w \in Workers : WorkerStep(w) \/ FindShare(w)
        \/ PoolAnswer \/ PoolJob \/ Drop \/ Stop \/ Ended

Spec == Init /\ [][Next]_vars

\* A worker that wants sendMu gets it in the end, for a dial lasts 10 s at
\* most; nothing forces a share to be found, the pool to send a job or Stop.
FairSpec == /\ Spec
            /\ WF_vars(RunStep)
            /\ \A w \in Workers : /\ WF_vars(WorkerStep(w))
                                  /\ SF_vars(SubmitShare(w))

-----------------------------------------------------------------------------
\* A worker only ever hashes a job with the extranonce1 and the difficulty of
\* the session the job belongs to, although it reads all three without a lock
\* while another session may begin (main.go:693-695): a mixture is built but
\* the poll of the job (main.go:708) discards it.
HashesOwnWork ==
  \A w \in Workers :
    wpc[w] = "hashed" => wen1[w] = jobs[wjob[w]] /\ wdiff[w] = jobs[wjob[w]]

\* A worker submits at most one share of a job that was replaced, or whose
\* connection ended, or after quit: the one it was hashing (main.go:702-722).
AtMostOneLateShare == \A w \in Workers : late[w] <= 1

\* The dashboard's counters are backed by what was sent: no share counts as
\* accepted that was not sent in its job's session, and no more blocks are
\* counted than shares found (main.go:721-726, 899-906).
CountersBacked == accepted <= genuine /\ blocks <= shares

\* A new job is taken up by every worker, or replaced, or the miner stops.
WorkersFollow ==
  \A w \in Workers : \A j \in 1..MaxJobs :
    currentJob = j ~> wjob[w] = j \/ currentJob # j \/ quit
=============================================================================
