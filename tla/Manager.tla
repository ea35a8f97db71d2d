------------------------------ MODULE Manager ------------------------------
(***************************************************************************)
(* The Manager of manager.go and the miners it creates (Miner.Run of       *)
(* main.go), as far as their life cycle goes.                              *)
(*                                                                         *)
(* Goroutines: Main, which starts the first miner, then one per HTTP       *)
(* request in flight (Handlers), and for every miner g ever created its    *)
(* Run loop and its workers (one stands for all of them).  They share      *)
(*   Manager.mu      held by Stop while it waits for the miner's sendMu;   *)
(*                   every other critical section of mu is one step here;  *)
(*   Miner.sendMu    held by connect for the whole dial, and by send for   *)
(*                   the whole write, which the pool may make wait;        *)
(*   Miner.quit      a channel that Stop closes and all loops poll;        *)
(*   Miner.conn      set by connect, closed by Stop and by Run.            *)
(* The pool may drop a connection at any time.                             *)
(***************************************************************************)
EXTENDS Naturals

CONSTANTS Handlers,   \* goroutines of the HTTP server
          Main,       \* the goroutine of main()
          Nobody,     \* the holder of a mutex that is free
          Configs,    \* configurations that Validate() accepts
          Off,        \* stands for no configuration
          Requests,   \* the kinds of requests that are made
          MaxMiners,  \* bound: miners created
          MaxCalls    \* bound: requests made

Procs == Handlers \cup {Main}
Miners == 1..MaxMiners

Ops == {"start", "stop", "restart", "update", "status"}

ASSUME ManagerAssumption == /\ MaxMiners \in Nat
                            /\ MaxCalls \in Nat
                            /\ Nobody \notin Procs
                            /\ Main \notin Handlers
                            /\ Configs # {}
                            /\ Off \notin Configs
                            /\ Requests \subseteq Ops

VARIABLES
  mu,        \* holder of Manager.mu between two steps
  cfg,       \* Manager.cfg
  running,   \* Manager.running
  miner,     \* Manager.miner: the latest one created, 0 when nil
  op,        \* op[p]: the request goroutine p serves
  pc,        \* pc[p]: where it is in it
  calls,     \* requests made so far
  stale,     \* history: the last saveConfig failed, and no miner was started since
  quit,      \* quit[g]: how often Miner.quit has been closed
  conf,      \* conf[g]: the configuration given to NewMiner
  sendMu,    \* sendMu[g]: "free", or held by "run" or by a "worker"
  conn,      \* conn[g]: "nil", "open", "closed" here, or "reset" by the pool
  run,       \* run[g]: where Run is
  job,       \* job[g]: currentJob is not nil
  worker     \* worker[g]: "idle", "hashed" (has a share to submit), "exited"

managerVars == <<mu, cfg, running, miner, op, pc, calls, stale>>
minerVars   == <<quit, conf, sendMu, conn, run, job, worker>>
vars        == <<managerVars, minerVars>>

PCs       == {"idle", "set", "save", "stop", "close", "start", "read"}
RunStates == {"none", "connect", "subscribe", "authorize", "handle",
              "cleanup", "check", "wait", "done"}

\* The type invariant.  quit[g] = 2 would be the panic of closing a closed channel.
TypeOK ==
  /\ mu \in Procs \cup {Nobody}
  /\ cfg \in Configs
  /\ running \in BOOLEAN
  /\ miner \in 0..MaxMiners
  /\ op \in [Procs -> Ops \cup {"none"}]
  /\ pc \in [Procs -> PCs]
  /\ calls \in 0..MaxCalls
  /\ stale \in BOOLEAN
  /\ quit \in [Miners -> 0..1]
  /\ conf \in [Miners -> Configs]
  /\ sendMu \in [Miners -> {"free", "run", "worker"}]
  /\ conn \in [Miners -> {"nil", "open", "closed", "reset"}]
  /\ run \in [Miners -> RunStates]
  /\ job \in [Miners -> BOOLEAN]
  /\ worker \in [Miners -> {"none", "idle", "hashed", "exited"}]

-----------------------------------------------------------------------------
(* main() has loaded a configuration and is about to call mgr.Start().     *)

Init ==
  /\ mu = Nobody
  /\ cfg \in Configs
  /\ running = FALSE
  /\ miner = 0
  /\ op = [p \in Procs |-> IF p = Main THEN "start" ELSE "none"]
  /\ pc = [p \in Procs |-> IF p = Main THEN "start" ELSE "idle"]
  /\ calls = 0
  /\ stale = FALSE
  /\ quit = [g \in Miners |-> 0]
  /\ conf = [g \in Miners |-> cfg]
  /\ sendMu = [g \in Miners |-> "free"]
  /\ conn = [g \in Miners |-> "nil"]
  /\ run = [g \in Miners |-> "none"]
  /\ job = [g \in Miners |-> FALSE]
  /\ worker = [g \in Miners |-> "none"]

-----------------------------------------------------------------------------
(* The HTTP handlers.                                                      *)

FirstStep(o) == CASE o = "start"               -> "start"
                  [] o \in {"stop", "restart"} -> "stop"
                  [] o = "update"              -> "set"
                  [] o = "status"              -> "read"

Goto(p, l) == /\ pc' = [pc EXCEPT ![p] = l]
              /\ op' = IF l = "idle" THEN [op EXCEPT ![p] = "none"] ELSE op

\* A request reaches a handler; the server listens once main() called Start.
Call(p) ==
  /\ p \in Handlers
  /\ pc[Main] = "idle"
  /\ pc[p] = "idle"
  /\ calls < MaxCalls
  /\ calls' = calls + 1
  /\ \E o \in Requests :
       /\ op' = [op EXCEPT ![p] = o]
       /\ pc' = [pc EXCEPT ![p] = FirstStep(o)]
  /\ UNCHANGED <<mu, cfg, running, miner, stale, minerVars>>

\* NewMiner with the current configuration, and its goroutines.
LaunchMiner(p) ==
  /\ pc[p] = "start"
  /\ mu = Nobody
  /\ miner < MaxMiners
  /\ miner' = miner + 1
  /\ running' = TRUE
  /\ conf' = [conf EXCEPT ![miner + 1] = cfg]
  /\ run' = [run EXCEPT ![miner + 1] = "connect"]
  /\ worker' = [worker EXCEPT ![miner + 1] = "idle"]
  /\ stale' = FALSE
  /\ Goto(p, "idle")
  /\ UNCHANGED <<mu, cfg, calls, quit, sendMu, conn, job>>

\* Start, when no miner is running.
StartMiner(p) == ~running /\ LaunchMiner(p)

\* Start finds a miner running.
StartIgnored(p) ==
  /\ pc[p] = "start"
  /\ mu = Nobody
  /\ running
  /\ Goto(p, "idle")
  /\ UNCHANGED <<mu, cfg, running, miner, calls, stale, minerVars>>

\* Where Stop returns to: Restart, which UpdateConfig calls too, starts again.
AfterStop(p) == IF op[p] = "stop" THEN "idle" ELSE "start"

\* Stop closes quit, and goes on holding mu until it has the miner's sendMu.
CloseQuit(p) ==
  /\ pc[p] = "stop"
  /\ mu = Nobody
  /\ miner # 0
  /\ mu' = p
  /\ quit' = [quit EXCEPT ![miner] = @ + 1]
  /\ Goto(p, "close")
  /\ UNCHANGED <<cfg, running, miner, calls, stale,
                 conf, sendMu, conn, run, job, worker>>

StopQuit(p) == running /\ CloseQuit(p)

\* Variant: m.running stays true.
StopCloseKeepsRunning(p) ==
  /\ pc[p] = "close"
  /\ sendMu[miner] = "free"
  /\ conn' = [conn EXCEPT ![miner] = IF @ = "nil" THEN @ ELSE "closed"]
  /\ mu' = Nobody
  /\ Goto(p, AfterStop(p))
  /\ UNCHANGED <<cfg, running, miner, calls, stale,
                 quit, conf, sendMu, run, job, worker>>

\* The rest of Stop, once sendMu is free: a connection, if any, is closed.
StopClose(p) ==
  /\ pc[p] = "close"
  /\ sendMu[miner] = "free"
  /\ conn' = [conn EXCEPT ![miner] = IF @ = "nil" THEN @ ELSE "closed"]
  /\ running' = FALSE
  /\ mu' = Nobody
  /\ Goto(p, AfterStop(p))
  /\ UNCHANGED <<cfg, miner, calls, stale,
                 quit, conf, sendMu, run, job, worker>>

\* Stop finds nothing running.
StopIgnored(p) ==
  /\ pc[p] = "stop"
  /\ mu = Nobody
  /\ ~running
  /\ Goto(p, AfterStop(p))
  /\ UNCHANGED <<mu, cfg, running, miner, calls, stale, minerVars>>

\* UpdateConfig makes the new configuration the current one ...
SetCfg(p) ==
  /\ pc[p] = "set"
  /\ mu = Nobody
  /\ cfg' \in Configs
  /\ Goto(p, "save")
  /\ UNCHANGED <<mu, running, miner, calls, stale, minerVars>>

\* Variant: the update starts the miner without stopping it first.
SaveOkNoStop(p) ==
  /\ pc[p] = "save"
  /\ Goto(p, "start")
  /\ UNCHANGED <<mu, cfg, running, miner, calls, stale, minerVars>>

\* ... saves it (ConfigStore says how) and restarts the miner,
SaveOk(p) ==
  /\ pc[p] = "save"
  /\ Goto(p, "stop")
  /\ UNCHANGED <<mu, cfg, running, miner, calls, stale, minerVars>>

\* or returns the error of saveConfig, without a restart.
SaveFail(p) ==
  /\ pc[p] = "save"
  /\ stale' = TRUE
  /\ Goto(p, "idle")
  /\ UNCHANGED <<mu, cfg, running, miner, calls, minerVars>>

\* Config and Status take their snapshot under mu.
Read(p) ==
  /\ pc[p] = "read"
  /\ mu = Nobody
  /\ Goto(p, "idle")
  /\ UNCHANGED <<mu, cfg, running, miner, calls, stale, minerVars>>

-----------------------------------------------------------------------------
(* Run of miner g.                                                         *)

\* connect takes sendMu before it dials.
ConnectLock(g) ==
  /\ run[g] = "connect"
  /\ sendMu[g] = "free"
  /\ sendMu' = [sendMu EXCEPT ![g] = "run"]
  /\ UNCHANGED <<managerVars, quit, conf, conn, run, job, worker>>

\* The dial succeeds.  connect does not look at quit.
DialOk(g) ==
  /\ run[g] = "connect"
  /\ sendMu[g] = "run"
  /\ conn' = [conn EXCEPT ![g] = "open"]
  /\ sendMu' = [sendMu EXCEPT ![g] = "free"]
  /\ run' = [run EXCEPT ![g] = "subscribe"]
  /\ UNCHANGED <<managerVars, quit, conf, job, worker>>

\* Variant: an early return that keeps sendMu.
DialFailKeepsLock(g) ==
  /\ run[g] = "connect"
  /\ sendMu[g] = "run"
  /\ run' = [run EXCEPT ![g] = "wait"]
  /\ UNCHANGED <<managerVars, quit, conf, sendMu, conn, job, worker>>

\* The dial fails or times out (10 s).
DialFail(g) ==
  /\ run[g] = "connect"
  /\ sendMu[g] = "run"
  /\ sendMu' = [sendMu EXCEPT ![g] = "free"]
  /\ run' = [run EXCEPT ![g] = "wait"]
  /\ UNCHANGED <<managerVars, quit, conf, conn, job, worker>>

\* subscribe and authorize send under sendMu ...
SendLock(g) ==
  /\ run[g] \in {"subscribe", "authorize"}
  /\ sendMu[g] = "free"
  /\ sendMu' = [sendMu EXCEPT ![g] = "run"]
  /\ UNCHANGED <<managerVars, quit, conf, conn, run, job, worker>>

\* ... and Run ignores what they return.
SendDone(g) ==
  /\ run[g] \in {"subscribe", "authorize"}
  /\ sendMu[g] = "run"
  /\ sendMu' = [sendMu EXCEPT ![g] = "free"]
  /\ run' = [run EXCEPT ![g] = IF @ = "subscribe" THEN "authorize" ELSE "handle"]
  /\ UNCHANGED <<managerVars, quit, conf, conn, job, worker>>

\* handleMessages stores a job, even one that the decoder had buffered when
\* the connection ended.
Notify(g) ==
  /\ run[g] = "handle"
  /\ ~job[g]
  /\ job' = [job EXCEPT ![g] = TRUE]
  /\ UNCHANGED <<managerVars, quit, conf, sendMu, conn, run, worker>>

\* Variant: after a stop Run returns at once.
DecodeErrReturns(g) ==
  /\ run[g] = "handle"
  /\ conn[g] \in {"closed", "reset"}
  /\ run' = [run EXCEPT ![g] = IF quit[g] > 0 THEN "done" ELSE "cleanup"]
  /\ UNCHANGED <<managerVars, quit, conf, sendMu, conn, job, worker>>

\* Decode fails, and only then, when the connection was closed or reset.
DecodeErr(g) ==
  /\ run[g] = "handle"
  /\ conn[g] \in {"closed", "reset"}
  /\ run' = [run EXCEPT ![g] = "cleanup"]
  /\ UNCHANGED <<managerVars, quit, conf, sendMu, conn, job, worker>>

\* Run closes the connection, forgets it and the job.
Cleanup(g) ==
  /\ run[g] = "cleanup"
  /\ sendMu[g] = "free"
  /\ conn' = [conn EXCEPT ![g] = "nil"]
  /\ job' = [job EXCEPT ![g] = FALSE]
  /\ run' = [run EXCEPT ![g] = "check"]
  /\ UNCHANGED <<managerVars, quit, conf, sendMu, worker>>

\* Variant: Run returns whenever its connection ends.
CheckQuitReturns(g) ==
  /\ run[g] = "check"
  /\ run' = [run EXCEPT ![g] = "done"]
  /\ UNCHANGED <<managerVars, quit, conf, sendMu, conn, job, worker>>

\* Variant: no poll of quit before the pause.
CheckQuitSkipped(g) ==
  /\ run[g] = "check"
  /\ run' = [run EXCEPT ![g] = "wait"]
  /\ UNCHANGED <<managerVars, quit, conf, sendMu, conn, job, worker>>

\* The poll of quit before the pause.
CheckQuit(g) ==
  /\ run[g] = "check"
  /\ run' = [run EXCEPT ![g] = IF quit[g] > 0 THEN "done" ELSE "wait"]
  /\ UNCHANGED <<managerVars, quit, conf, sendMu, conn, job, worker>>

\* The pause of 5 s, after a failed dial or a lost connection: the timer wins,
Retry(g) ==
  /\ run[g] = "wait"
  /\ run' = [run EXCEPT ![g] = "connect"]
  /\ UNCHANGED <<managerVars, quit, conf, sendMu, conn, job, worker>>

\* or quit does; when both are ready, select chooses either.
WaitQuit(g) ==
  /\ run[g] = "wait"
  /\ quit[g] > 0
  /\ run' = [run EXCEPT ![g] = "done"]
  /\ UNCHANGED <<managerVars, quit, conf, sendMu, conn, job, worker>>

-----------------------------------------------------------------------------
(* A worker of miner g, and its pool.                                      *)

\* worker and mineJob poll quit and the job, then hash; this hash is a share.
Hash(g) ==
  /\ worker[g] = "idle"
  /\ quit[g] = 0
  /\ job[g]
  /\ worker' = [worker EXCEPT ![g] = "hashed"]
  /\ UNCHANGED <<managerVars, quit, conf, sendMu, conn, run, job>>

\* submitShare sends under sendMu, without another look at quit or at the job.
SubmitLock(g) ==
  /\ worker[g] = "hashed"
  /\ sendMu[g] = "free"
  /\ sendMu' = [sendMu EXCEPT ![g] = "worker"]
  /\ UNCHANGED <<managerVars, quit, conf, conn, run, job, worker>>

SubmitDone(g) ==
  /\ sendMu[g] = "worker"
  /\ sendMu' = [sendMu EXCEPT ![g] = "free"]
  /\ worker' = [worker EXCEPT ![g] = "idle"]
  /\ UNCHANGED <<managerVars, quit, conf, conn, run, job>>

\* Variant: quit is polled only while there is a job.
WorkerExitWithJob(g) ==
  /\ worker[g] = "idle"
  /\ quit[g] > 0
  /\ job[g]
  /\ worker' = [worker EXCEPT ![g] = "exited"]
  /\ UNCHANGED <<managerVars, quit, conf, sendMu, conn, run, job>>

WorkerExit(g) ==
  /\ worker[g] = "idle"
  /\ quit[g] > 0
  /\ worker' = [worker EXCEPT ![g] = "exited"]
  /\ UNCHANGED <<managerVars, quit, conf, sendMu, conn, run, job>>

\* The pool, or the network, ends the connection.
PoolReset(g) ==
  /\ conn[g] = "open"
  /\ conn' = [conn EXCEPT ![g] = "reset"]
  /\ UNCHANGED <<managerVars, quit, conf, sendMu, run, job, worker>>

-----------------------------------------------------------------------------
\* Only the bound on the requests ends the system: nobody waits for anything.
Ended ==
  /\ calls = MaxCalls
  /\ \A p \in Procs : pc[p] = "idle"
  /\ \A g \in Miners : run[g] \in {"none", "done"} /\ worker[g] \in {"none", "exited"}
  /\ UNCHANGED vars

HandlerStep(p) == \/ Call(p)
                  \/ StartMiner(p) \/ StartIgnored(p)
                  \/ StopQuit(p) \/ StopClose(p) \/ StopIgnored(p)
                  \/ SetCfg(p) \/ SaveOk(p) \/ SaveFail(p)
                  \/ Read(p)

RunStep(g) == \/ ConnectLock(g) \/ DialOk(g) \/ DialFail(g)
              \/ SendLock(g) \/ SendDone(g)
              \/ Notify(g) \/ DecodeErr(g) \/ Cleanup(g)
              \/ CheckQuit(g) \/ Retry(g) \/ WaitQuit(g)

WorkerStep(g) == Hash(g) \/ SubmitLock(g) \/ SubmitDone(g) \/ WorkerExit(g)

Next == \/ \E p \in Procs : HandlerStep(p)
        \/ \E g \in Miners : RunStep(g) \/ WorkerStep(g) \/ PoolReset(g)
        \/ Ended

Spec == Init /\ [][Next]_vars

-----------------------------------------------------------------------------
(* Safety.                                                                 *)

\* The quit channel of every miner but the running one was closed, exactly
\* once, and m.running tells, whenever mu is free, whether that one exists
\* (manager.go:183-190, 198-208): at most one miner is active, Stop always
\* reaches it, and no channel is closed a second time, which would panic.
QuitMatchesRunning ==
  \A g \in Miners :
    quit[g] = IF g > miner \/ (g = miner /\ running /\ mu = Nobody) THEN 0 ELSE 1

\* Goroutine p is in UpdateConfig, past the assignment of m.cfg and not yet
\* through the Stop of its Restart.
Updating(p) == \/ pc[p] = "save"
               \/ pc[p] \in {"stop", "close"} /\ op[p] = "update"

\* The running miner works with the current configuration, unless an update
\* is still on its way to restarting it or failed to save (manager.go:218-233):
\* concurrent updates, starts and stops never leave an old miner behind.
RunningConfigCurrent ==
  running /\ conf[miner] # cfg => stale \/ \E p \in Procs : Updating(p)

\* Run never pauses, dials or returns with a connection left in m.conn
\* (main.go:600-605), so the close in connect (main.go:642) finds nothing,
\* and whoever holds sendMu is inside a dial or a write.
NoConnLeak ==
  \A g \in Miners :
    /\ run[g] \in {"none", "connect", "check", "wait", "done"} => conn[g] = "nil"
    /\ sendMu[g] = "run" => run[g] \in {"connect", "subscribe", "authorize"}
    /\ sendMu[g] = "worker" => worker[g] = "hashed"

\* The Manager is the switch of module MinerSwitch: closing quit is what
\* switches off, and between two active miners it is always off.
Switch == INSTANCE MinerSwitch
            WITH active <- IF miner # 0 /\ quit[miner] = 0 THEN conf[miner] ELSE Off,
                 config <- cfg
SwitchSpec == Switch!Spec

-----------------------------------------------------------------------------
(* Liveness.                                                               *)

\* A Go mutex goes to a waiter that has starved for 1 ms, so waiting for one
\* is strongly fair (weakly is enough where the others cannot take it for ever,
\* as for mu, MaxCalls being finite).  Dials end within 10 s.  That a write to the pool ends is an assumption on
\* the pool: the code sets no deadline.
AcquireMu(p) == StartMiner(p) \/ StartIgnored(p) \/ StopQuit(p) \/ StopIgnored(p)
                  \/ SetCfg(p) \/ Read(p)

Fairness ==
  /\ \A p \in Procs : WF_vars(AcquireMu(p) \/ SaveOk(p) \/ SaveFail(p))
  /\ SF_vars(\E p \in Procs : StopClose(p))
  /\ \A g \in Miners :
       /\ WF_vars(ConnectLock(g) \/ SendLock(g) \/ DialOk(g) \/ DialFail(g)
                    \/ SendDone(g) \/ DecodeErr(g) \/ CheckQuit(g) \/ Retry(g))
       /\ SF_vars(Cleanup(g))
       /\ SF_vars(SubmitLock(g))
       /\ WF_vars(SubmitDone(g) \/ WorkerExit(g))

\* The code's own fairness, and a pool that is not down for ever.
FairSpec == Spec /\ Fairness /\ \A g \in Miners : SF_vars(DialOk(g))

\* Moreover, a select that finds quit closed again and again takes it once.
FairSelectSpec == FairSpec /\ \A g \in Miners : SF_vars(WaitQuit(g))

\* Every request ends, although Stop holds mu across a wait for sendMu, which
\* a dial or a write may hold (manager.go:202-208): no circular wait.
RequestsReturn == \A p \in Procs : pc[p] # "idle" ~> pc[p] = "idle"

\* A stop that finds a connection ends Run, whatever Run was doing with it.
StopEndsSession ==
  \A g \in Miners : conn[g] = "closed" ~> run[g] = "done"

\* Every stop ends the workers, even those waiting for sendMu to submit.
StopEndsWorkers ==
  \A g \in Miners : quit[g] > 0 ~> worker[g] = "exited"

\* Until it is told to quit, a miner gets its connection (back).
Reconnects ==
  \A g \in Miners :
    run[g] \notin {"none", "done"} ~> conn[g] = "open" \/ quit[g] > 0

\* What "Manager: miner stopped" (manager.go:209) and {"status": "stopped"}
\* (main.go:449) say: after a stop, Run ends.  A dial under way or a timer
\* that wins over quit defeats it: the new connection stays.
StopEndsRun == \A g \in Miners : quit[g] > 0 ~> run[g] = "done"
=============================================================================
