--------------------------- MODULE ManagerProofs ---------------------------
(***************************************************************************)
(* Proofs about module Manager, for any number of handlers, configurations,*)
(* miners and requests.                                                    *)
(*                                                                         *)
(* The inductive invariant ties the three ways the code says that a miner  *)
(* is running: m.running, the quit channel, and who holds m.mu.            *)
(***************************************************************************)
EXTENDS Manager, TLAPS

\* Only the middle of Stop keeps mu from one step to the next, and there is
\* then a running miner to stop.
LockInv ==
  /\ \A p \in Procs : pc[p] = "close" <=> mu = p
  /\ mu # Nobody => running
  /\ running => miner # 0

\* UpdateConfig is the only way to its first two steps.
OpInv == \A p \in Procs : pc[p] \in {"set", "save"} => op[p] = "update"

\* Nothing runs for a miner that was not created yet.
FreshInv == \A g \in Miners :
              g > miner => run[g] = "none" /\ worker[g] = "none" /\ sendMu[g] = "free"

IInv == TypeOK /\ LockInv /\ OpInv /\ FreshInv /\ QuitMatchesRunning

-----------------------------------------------------------------------------
\* Goto keeps pc and op within their types.
LEMMA GotoType ==
  ASSUME NEW p \in Procs, NEW l \in PCs, Goto(p, l),
         op \in [Procs -> Ops \cup {"none"}], pc \in [Procs -> PCs]
  PROVE  /\ op' \in [Procs -> Ops \cup {"none"}]
         /\ pc' \in [Procs -> PCs]
  BY DEF Goto

\* A step of Run, of a worker or of the pool leaves the Manager alone, and quit.
LEMMA MinerSideFrame ==
  ASSUME NEW g \in Miners, RunStep(g) \/ WorkerStep(g) \/ PoolReset(g)
  PROVE  UNCHANGED <<managerVars, quit, conf>>
  BY DEF RunStep, WorkerStep, PoolReset, ConnectLock, DialOk, DialFail, SendLock,
         SendDone, Notify, DecodeErr, Cleanup, CheckQuit, Retry, WaitQuit,
         Hash, SubmitLock, SubmitDone, WorkerExit, managerVars

\* ... and keeps the miners' variables within their types.
LEMMA MinerSideType ==
  ASSUME TypeOK, NEW g \in Miners, RunStep(g) \/ WorkerStep(g) \/ PoolReset(g)
  PROVE  TypeOK'
<1>1. UNCHANGED <<managerVars, quit, conf>>
  BY MinerSideFrame
<1>2. CASE RunStep(g)
  BY <1>1, <1>2 DEF TypeOK, RunStates, managerVars, RunStep, ConnectLock, DialOk,
     DialFail, SendLock, SendDone, Notify, DecodeErr, Cleanup, CheckQuit, Retry, WaitQuit
<1>3. CASE WorkerStep(g)
  BY <1>1, <1>3 DEF TypeOK, managerVars, WorkerStep, Hash, SubmitLock, SubmitDone, WorkerExit
<1>4. CASE PoolReset(g)
  BY <1>1, <1>4 DEF TypeOK, managerVars, PoolReset
<1> QED
  BY <1>2, <1>3, <1>4

\* ... and starts nothing for a miner that was not created.
LEMMA MinerSideFresh ==
  ASSUME TypeOK, FreshInv, QuitMatchesRunning,
         NEW g \in Miners, RunStep(g) \/ WorkerStep(g) \/ PoolReset(g)
  PROVE  FreshInv'
<1>1. miner' = miner
  BY MinerSideFrame DEF managerVars
<1>2. CASE RunStep(g)
  BY <1>1, <1>2 DEF FreshInv, TypeOK, RunStep, ConnectLock, DialOk, DialFail, SendLock,
     SendDone, Notify, DecodeErr, Cleanup, CheckQuit, Retry, WaitQuit
<1>3. CASE WorkerStep(g)
  BY <1>1, <1>3 DEF FreshInv, TypeOK, WorkerStep, Hash, SubmitLock, SubmitDone, WorkerExit
<1>4. CASE PoolReset(g)
  BY <1>1, <1>4 DEF FreshInv, PoolReset
<1> QED
  BY <1>2, <1>3, <1>4

\* NewMiner's number is the next one.
LEMMA LaunchNumber ==
  ASSUME TypeOK, NEW p \in Procs, StartMiner(p)
  PROVE  miner + 1 \in Miners /\ miner + 1 > miner /\ miner' = miner + 1
  BY ManagerAssumption DEF StartMiner, LaunchMiner, TypeOK, Miners

\* The handlers' steps that touch neither the lock nor a miner.
LEMMA HandlerFrame ==
  ASSUME IInv,
         NEW p \in Procs, pc[p] # "close",
         NEW l \in PCs \ {"close"}, l \in {"set", "save"} => op[p] = "update",
         Goto(p, l),
         UNCHANGED <<mu, running, miner, calls, minerVars>>,
         cfg' \in Configs, stale' \in BOOLEAN
  PROVE  IInv'
<1> USE DEF IInv, minerVars
<1>1. TypeOK'
  BY GotoType DEF TypeOK
<1>2. LockInv'
  BY DEF LockInv, Goto, TypeOK
<1>3. OpInv'
  BY DEF OpInv, Goto, TypeOK
<1>4. FreshInv' /\ QuitMatchesRunning'
  BY DEF FreshInv, QuitMatchesRunning
<1> QED
  BY <1>1, <1>2, <1>3, <1>4

LEMMA InitIInv == Init => IInv
<1> SUFFICES ASSUME Init
             PROVE  IInv
  OBVIOUS
<1>1. TypeOK
  <2>1. op \in [Procs -> Ops \cup {"none"}] /\ pc \in [Procs -> PCs]
    BY DEF Init, Ops, PCs
  <2>2. miner \in 0..MaxMiners /\ calls \in 0..MaxCalls
    BY ManagerAssumption DEF Init
  <2>3. run \in [Miners -> RunStates]
    BY DEF Init, RunStates
  <2>4. job \in [Miners -> BOOLEAN] /\ running \in BOOLEAN /\ stale \in BOOLEAN
    BY Zenon DEF Init
  <2>5. /\ quit \in [Miners -> 0..1]
        /\ conf \in [Miners -> Configs]
        /\ sendMu \in [Miners -> {"free", "run", "worker"}]
        /\ conn \in [Miners -> {"nil", "open", "closed", "reset"}]
        /\ worker \in [Miners -> {"none", "idle", "hashed", "exited"}]
    BY DEF Init
  <2> QED
    BY <2>1, <2>2, <2>3, <2>4, <2>5 DEF Init, TypeOK
<1>2. LockInv
  BY ManagerAssumption DEF Init, LockInv
<1>3. OpInv /\ FreshInv
  BY DEF Init, OpInv, FreshInv
<1>4. QuitMatchesRunning
  BY DEF Init, QuitMatchesRunning, Miners
<1> QED
  BY <1>1, <1>2, <1>3, <1>4 DEF IInv

-----------------------------------------------------------------------------
\* The inductive step, one action at a time.
LEMMA StepIInv == IInv /\ [Next]_vars => IInv'
<1> SUFFICES ASSUME IInv, [Next]_vars
             PROVE  IInv'
  OBVIOUS
<1> USE ManagerAssumption DEF IInv, LockInv, OpInv, FreshInv, QuitMatchesRunning
<1>1. ASSUME NEW p \in Procs, Call(p)
      PROVE  IInv'
  <2>1. PICK o \in Requests : /\ op' = [op EXCEPT ![p] = o]
                              /\ pc' = [pc EXCEPT ![p] = FirstStep(o)]
    BY <1>1 DEF Call
  <2>2. /\ o \in Ops
        /\ FirstStep(o) \in PCs \ {"close", "save"}
        /\ FirstStep(o) = "set" => o = "update"
    BY DEF FirstStep, Ops, PCs
  <2> QED
    BY <1>1, <2>1, <2>2 DEF Call, TypeOK, minerVars
<1>2. ASSUME NEW p \in Procs, StartMiner(p)
      PROVE  IInv'
  <2>1. miner + 1 \in Miners /\ miner' = miner + 1
    BY <1>2, LaunchNumber
  <2>2. TypeOK'
    <3>1. op' \in [Procs -> Ops \cup {"none"}] /\ pc' \in [Procs -> PCs]
      BY <1>2, GotoType DEF StartMiner, LaunchMiner, TypeOK, PCs
    <3>2. miner' \in 0..MaxMiners /\ run' \in [Miners -> RunStates]
      BY <1>2, <2>1 DEF StartMiner, LaunchMiner, TypeOK, Miners, RunStates
    <3> QED
      BY <1>2, <3>1, <3>2 DEF StartMiner, LaunchMiner, TypeOK
  <2>3. LockInv' /\ OpInv'
    BY <1>2 DEF StartMiner, LaunchMiner, TypeOK, Goto
  <2>4. FreshInv'
    BY <1>2, <2>1 DEF StartMiner, LaunchMiner, TypeOK, Miners
  <2>5. QuitMatchesRunning'
    BY <1>2 DEF StartMiner, LaunchMiner, TypeOK, Miners
  <2> QED
    BY <2>2, <2>3, <2>4, <2>5
<1>3. ASSUME NEW p \in Procs, StartIgnored(p)
      PROVE  IInv'
  BY <1>3, HandlerFrame DEF StartIgnored, TypeOK, PCs
<1>4. ASSUME NEW p \in Procs, StopQuit(p)
      PROVE  IInv'
  <2>1. miner \in Miners /\ quit[miner] = 0
    BY <1>4 DEF StopQuit, CloseQuit, TypeOK, Miners
  <2>2. TypeOK'
    <3>1. op' \in [Procs -> Ops \cup {"none"}] /\ pc' \in [Procs -> PCs]
      BY <1>4, GotoType DEF StopQuit, CloseQuit, TypeOK, PCs
    <3>2. quit' \in [Miners -> 0..1]
      BY <1>4, <2>1 DEF StopQuit, CloseQuit, TypeOK
    <3> QED
      BY <1>4, <3>1, <3>2 DEF StopQuit, CloseQuit, TypeOK
  <2>3. LockInv' /\ OpInv'
    BY <1>4 DEF StopQuit, CloseQuit, TypeOK, Goto
  <2>4. FreshInv'
    BY <1>4 DEF StopQuit, CloseQuit
  <2>5. QuitMatchesRunning'
    BY <1>4, <2>1 DEF StopQuit, CloseQuit, TypeOK, Miners, Procs
  <2> QED
    BY <2>2, <2>3, <2>4, <2>5
<1>5. ASSUME NEW p \in Procs, StopClose(p)
      PROVE  IInv'
  <2>1. AfterStop(p) \in {"idle", "start"}
    BY DEF AfterStop
  <2>2. mu = p /\ miner \in Miners
    BY <1>5 DEF StopClose, TypeOK, Miners, Procs
  <2>3. TypeOK'
    BY <1>5, <2>1, <2>2, GotoType DEF StopClose, TypeOK, PCs
  <2>4. LockInv' /\ OpInv'
    BY <1>5, <2>1, <2>2 DEF StopClose, TypeOK, Goto
  <2>5. FreshInv'
    BY <1>5 DEF StopClose
  <2>6. QuitMatchesRunning'
    BY <1>5, <2>2 DEF StopClose, TypeOK, Procs
  <2> QED
    BY <2>3, <2>4, <2>5, <2>6
<1>6. ASSUME NEW p \in Procs, StopIgnored(p)
      PROVE  IInv'
  <2>1. AfterStop(p) \in {"idle", "start"}
    BY DEF AfterStop
  <2> QED
    BY <1>6, <2>1, HandlerFrame DEF StopIgnored, TypeOK, PCs
<1>7. ASSUME NEW p \in Procs, SetCfg(p)
      PROVE  IInv'
  BY <1>7, HandlerFrame DEF SetCfg, TypeOK, PCs
<1>8. ASSUME NEW p \in Procs, SaveOk(p)
      PROVE  IInv'
  BY <1>8, HandlerFrame DEF SaveOk, TypeOK, PCs
<1>9. ASSUME NEW p \in Procs, SaveFail(p)
      PROVE  IInv'
  BY <1>9, HandlerFrame DEF SaveFail, TypeOK, PCs
<1>10. ASSUME NEW p \in Procs, Read(p)
       PROVE  IInv'
  BY <1>10, HandlerFrame DEF Read, TypeOK, PCs
<1>11. ASSUME NEW g \in Miners, RunStep(g) \/ WorkerStep(g) \/ PoolReset(g)
       PROVE  IInv'
  <2>1. TypeOK'
    BY <1>11, MinerSideType
  <2>2. UNCHANGED <<managerVars, quit, conf>>
    BY <1>11, MinerSideFrame
  <2>3. FreshInv'
    BY <1>11, <2>2, MinerSideFresh
  <2> QED
    BY <2>1, <2>2, <2>3 DEF managerVars
<1>12. CASE UNCHANGED vars
  BY <1>12 DEF vars, managerVars, minerVars, TypeOK
<1>13. CASE Ended
  BY <1>12, <1>13 DEF Ended
<1> QED
  BY <1>1, <1>2, <1>3, <1>4, <1>5, <1>6, <1>7, <1>8, <1>9, <1>10, <1>11, <1>12, <1>13
     DEF Next, HandlerStep

\* The invariant the other proofs use.
THEOREM Invariant == Spec => []IInv
  BY InitIInv, StepIInv, PTL DEF Spec

\* The type invariant, for every value of the constants.
THEOREM TypeCorrect == Spec => []TypeOK
  BY Invariant, PTL DEF IInv

\* The Manager never closes a quit channel twice, never loses sight of a miner
\* it has not stopped, and never has two.
THEOREM QuitCorrect == Spec => []QuitMatchesRunning
  BY Invariant, PTL DEF IInv

-----------------------------------------------------------------------------
\* Where an update stands decides whether a running miner may work with
\* another configuration than m.cfg.  Only an update changes m.cfg, and it
\* is Updating until it has stopped the miner.
THEOREM ConfigCorrect == Spec => []RunningConfigCurrent
<1>1. Init => RunningConfigCurrent
  BY DEF Init, RunningConfigCurrent
<1>2. IInv /\ RunningConfigCurrent /\ [Next]_vars => RunningConfigCurrent'
  <2> SUFFICES ASSUME IInv, RunningConfigCurrent, [Next]_vars
               PROVE  RunningConfigCurrent'
    OBVIOUS
  <2>1. ASSUME NEW p \in Procs, Call(p)
        PROVE  RunningConfigCurrent'
    BY <2>1 DEF Call, IInv, TypeOK, RunningConfigCurrent, Updating, minerVars
  <2>2. ASSUME NEW p \in Procs, StartMiner(p)
        PROVE  RunningConfigCurrent'
    <3>1. miner + 1 \in Miners
      BY <2>2, LaunchNumber DEF IInv
    <3>2. miner' = miner + 1 /\ conf'[miner + 1] = cfg /\ cfg' = cfg
      BY <2>2, <3>1 DEF StartMiner, LaunchMiner, IInv, TypeOK
    <3> QED
      BY <3>2 DEF RunningConfigCurrent
  <2>3. ASSUME NEW p \in Procs, \/ StartIgnored(p) \/ StopIgnored(p) \/ Read(p)
        PROVE  RunningConfigCurrent'
    BY <2>3 DEF StartIgnored, StopIgnored, Read, Goto, IInv, TypeOK,
                RunningConfigCurrent, Updating, minerVars
  <2>4. ASSUME NEW p \in Procs, StopQuit(p)
        PROVE  RunningConfigCurrent'
    BY <2>4 DEF StopQuit, CloseQuit, Goto, IInv, TypeOK, RunningConfigCurrent, Updating
  <2>5. ASSUME NEW p \in Procs, StopClose(p) \/ SaveFail(p)
        PROVE  RunningConfigCurrent'
    BY <2>5 DEF StopClose, SaveFail, RunningConfigCurrent
  <2>6. ASSUME NEW p \in Procs, SetCfg(p)
        PROVE  RunningConfigCurrent'
    <3>1. Updating(p)'
      BY <2>6 DEF SetCfg, Goto, IInv, TypeOK, Updating
    <3> QED
      BY <3>1 DEF RunningConfigCurrent
  <2>7. ASSUME NEW p \in Procs, SaveOk(p)
        PROVE  RunningConfigCurrent'
    BY <2>7 DEF SaveOk, Goto, IInv, OpInv, TypeOK, RunningConfigCurrent, Updating, minerVars
  <2>8. ASSUME NEW g \in Miners, RunStep(g) \/ WorkerStep(g) \/ PoolReset(g)
        PROVE  RunningConfigCurrent'
    BY <2>8, MinerSideFrame DEF managerVars, RunningConfigCurrent, Updating
  <2>9. CASE UNCHANGED vars \/ Ended
    BY <2>9 DEF Ended, vars, managerVars, minerVars, RunningConfigCurrent, Updating
  <2> QED
    BY <2>1, <2>2, <2>3, <2>4, <2>5, <2>6, <2>7, <2>8, <2>9 DEF Next, HandlerStep
<1> QED
  BY <1>1, <1>2, Invariant, PTL DEF Spec

-----------------------------------------------------------------------------
\* Run owns its connection, whatever Stop and the pool do to it.
THEOREM ConnCorrect == Spec => []NoConnLeak
<1>1. Init => NoConnLeak
  BY DEF Init, NoConnLeak
<1>2. IInv /\ NoConnLeak /\ [Next]_vars => NoConnLeak'
  <2> SUFFICES ASSUME IInv, NoConnLeak, [Next]_vars
               PROVE  NoConnLeak'
    OBVIOUS
  <2> USE DEF IInv, NoConnLeak
  <2>1. ASSUME NEW p \in Procs, StartMiner(p)
        PROVE  NoConnLeak'
    <3>1. /\ miner + 1 \in Miners
          /\ run[miner + 1] = "none"
          /\ worker[miner + 1] = "none"
      BY <2>1, LaunchNumber DEF FreshInv
    <3> QED
      BY <2>1, <3>1 DEF StartMiner, LaunchMiner, TypeOK
  <2>2. ASSUME NEW p \in Procs, StopClose(p)
        PROVE  NoConnLeak'
    BY <2>2 DEF StopClose, TypeOK
  <2>3. ASSUME NEW p \in Procs, \/ Call(p) \/ StartIgnored(p) \/ StopQuit(p)
                                \/ StopIgnored(p) \/ SetCfg(p) \/ SaveOk(p)
                                \/ SaveFail(p) \/ Read(p)
        PROVE  NoConnLeak'
    <3>1. UNCHANGED <<sendMu, conn, run, worker>>
      BY <2>3 DEF Call, StartIgnored, StopQuit, CloseQuit, StopIgnored, SetCfg, SaveOk,
                  SaveFail, Read, minerVars
    <3> QED
      BY <3>1
  <2>4. ASSUME NEW g \in Miners, RunStep(g)
        PROVE  NoConnLeak'
    BY <2>4 DEF TypeOK, RunStep, ConnectLock, DialOk, DialFail, SendLock, SendDone,
                Notify, DecodeErr, Cleanup, CheckQuit, Retry, WaitQuit
  <2>5. ASSUME NEW g \in Miners, WorkerStep(g)
        PROVE  NoConnLeak'
    BY <2>5 DEF TypeOK, WorkerStep, Hash, SubmitLock, SubmitDone, WorkerExit
  <2>6. ASSUME NEW g \in Miners, PoolReset(g)
        PROVE  NoConnLeak'
    BY <2>6 DEF TypeOK, PoolReset
  <2>7. CASE UNCHANGED vars \/ Ended
    BY <2>7 DEF Ended, vars, minerVars
  <2> QED
    BY <2>1, <2>2, <2>3, <2>4, <2>5, <2>6, <2>7 DEF Next, HandlerStep, WorkerStep
<1> QED
  BY <1>1, <1>2, Invariant, PTL DEF Spec

-----------------------------------------------------------------------------
\* The Manager implements the switch: the miner whose quit channel is open is
\* the active one.
THEOREM SwitchRefined == Spec => SwitchSpec
<1> DEFINE act == IF miner # 0 /\ quit[miner] = 0 THEN conf[miner] ELSE Off
<1>1. Init => Switch!Init
  BY DEF Init, Switch!Init
<1>2. IInv /\ [Next]_vars => [Switch!Next]_<<act, cfg>>
  <2> SUFFICES ASSUME IInv, [Next]_vars
               PROVE  [Switch!Next]_<<act, cfg>>
    OBVIOUS
  <2> USE ManagerAssumption DEF IInv, LockInv, QuitMatchesRunning
  <2>1. ASSUME NEW p \in Procs, StartMiner(p)
        PROVE  Switch!SwitchOn
    <3>1. miner + 1 \in Miners /\ miner' = miner + 1 /\ miner' # 0
      BY <2>1, LaunchNumber DEF TypeOK
    <3>2. act = Off
      BY <2>1 DEF StartMiner, LaunchMiner, TypeOK, Miners
    <3>3. quit'[miner + 1] = 0 /\ conf'[miner + 1] = cfg /\ cfg' = cfg
      BY <2>1, <3>1 DEF StartMiner, LaunchMiner, TypeOK, Miners
    <3> QED
      BY <3>1, <3>2, <3>3 DEF Switch!SwitchOn
  <2>2. ASSUME NEW p \in Procs, StopQuit(p)
        PROVE  Switch!SwitchOff
    <3>1. miner \in Miners /\ quit[miner] = 0 /\ conf[miner] \in Configs
      BY <2>2 DEF StopQuit, CloseQuit, TypeOK, Miners
    <3>2. quit'[miner] = 1 /\ UNCHANGED <<miner, cfg>>
      BY <2>2, <3>1 DEF StopQuit, CloseQuit, TypeOK
    <3> QED
      BY <3>1, <3>2 DEF Switch!SwitchOff, Miners
  <2>3. ASSUME NEW p \in Procs, SetCfg(p)
        PROVE  Switch!SetConfig
    BY <2>3 DEF SetCfg, Switch!SetConfig, minerVars
  <2>4. ASSUME NEW p \in Procs, \/ Call(p) \/ StartIgnored(p) \/ StopClose(p)
                                \/ StopIgnored(p) \/ SaveOk(p) \/ SaveFail(p) \/ Read(p)
        PROVE  UNCHANGED <<act, cfg>>
    <3>1. UNCHANGED <<miner, quit, conf, cfg>>
      BY <2>4 DEF Call, StartIgnored, StopClose, StopIgnored, SaveOk, SaveFail, Read, minerVars
    <3> QED
      BY <3>1
  <2>5. ASSUME NEW g \in Miners, RunStep(g) \/ WorkerStep(g) \/ PoolReset(g)
        PROVE  UNCHANGED <<act, cfg>>
    BY <2>5, MinerSideFrame DEF managerVars
  <2>6. CASE UNCHANGED vars \/ Ended
    BY <2>6 DEF Ended, vars, managerVars, minerVars
  <2> QED
    BY <2>1, <2>2, <2>3, <2>4, <2>5, <2>6 DEF Next, HandlerStep, Switch!Next
<1> QED
  BY <1>1, <1>2, Invariant, PTL DEF Spec, SwitchSpec, Switch!Spec
=============================================================================
