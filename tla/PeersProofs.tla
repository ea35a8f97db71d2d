----------------------------- MODULE PeersProofs -----------------------------
(***************************************************************************)
(* What the map of peers holds, for any number of connections that share   *)
(* addresses in any way.  It rests on the order of things: a peer is       *)
(* registered before its loops run, and only its loops stop it.            *)
(***************************************************************************)
EXTENDS Peers, TLAPS

\* A message that is being handled has an answer left.
Answering ==
  \A p \in Peer :
    receiving[p] \in {"replies", "getaddr", "block", "relays"} => replies[p] # 0

\* A call that has the lock is where it asked for it.
LockInv ==
  \A p \in Peer : /\ pending = <<"register", p>> => starter[p] = 1
                  /\ pending = <<"remove", p>> => once[p] = "shut"

\* Whatever a peer does, it has been started; Stop cuts it off first.
StartInv ==
  \A p \in Peer :
    /\ sending[p] # "none" => starter[p] >= 3
    /\ receiving[p] # "none" => starter[p] >= 3
    /\ once[p] # "free" => starter[p] >= 3
    /\ connected[p] = TRUE => starter[p] >= 3
    /\ once[p] \in {"shut", "done"} => connected[p] = FALSE

Alone(p) == \A q \in Peer \ {p} : Addr[q] = Addr[p] => starter[q] = 0

\* From registerPeer to the end of Stop a peer is in the map, if nobody else
\* uses its address, and after that never.
MapInv ==
  \A p \in Peer :
    /\ once[p] = "done" => peers[Addr[p]] # p
    /\ starter[p] >= 2 /\ once[p] # "done" /\ Alone(p) => peers[Addr[p]] = p

IInv == TypeOK /\ Answering /\ LockInv /\ StartInv /\ MapInv

-----------------------------------------------------------------------------
LEMMA StepNumbers ==
  ASSUME TypeOK, NEW p \in Peer
  PROVE  /\ AtStep(p, "register") <=> starter[p] = 1
         /\ AtStep(p, "start") <=> starter[p] = 2
         /\ AtStep(p, "version") <=> starter[p] = 3
<1>1. starter[p] \in {0, 1, 2, 3, 4}
  BY DEF TypeOK
<1> QED
  BY <1>1 DEF AtStep, Steps

LEMMA InitIInv == Init => IInv
<1> SUFFICES ASSUME Init PROVE IInv
  OBVIOUS
<1>1. TypeOK
  BY PeersAssumption DEF Init, TypeOK
<1>2. Answering /\ LockInv /\ StartInv /\ MapInv
  BY DEF Init, Answering, LockInv, StartInv, MapInv, Idle
<1> QED
  BY <1>1, <1>2 DEF IInv

-----------------------------------------------------------------------------
(***************************************************************************)
(* The steps of recvLoop and sendLoop, and pingLoop: they leave the map,   *)
(* the lock and the starting goroutine alone.                              *)
(***************************************************************************)
Aside == UNCHANGED <<srv, peers, pending, starter, connected, quit, open>>

LEMMA LoopTypes ==
  ASSUME IInv, NEW p \in Peer,
         Handles(p) \/ ReadMessage(p) \/ ReadError(p) \/ sendLoop(p) \/ pingLoop(p)
  PROVE  TypeOK' /\ Answering' /\ Aside
<1> USE PeersAssumption DEF IInv, TypeOK, Answering, Aside, Receives, CallStop, Send, Sends
<1>1. CASE ReadMessage(p)
  BY <1>1 DEF ReadMessage
<1>2. CASE ReadError(p)
  BY <1>2 DEF ReadError
<1>3. CASE Reply(p)
  BY <1>3 DEF Reply
<1>4. CASE KnownAddresses(p)
  BY <1>4 DEF KnownAddresses
<1>5. CASE RelayLock(p)
  BY <1>5 DEF RelayLock
<1>6. CASE RelayNext(p)
  BY <1>6 DEF RelayNext
<1>7. CASE RelaySend(p)
  BY <1>7 DEF RelaySend
<1>8. CASE RelayDone(p)
  BY <1>8 DEF RelayDone
<1>9. CASE sendLoop(p)
  BY <1>9 DEF sendLoop, Written, WriteFails, SendEnds
<1>10. CASE pingLoop(p)
  BY <1>10 DEF pingLoop
<1> QED
  BY <1>1, <1>2, <1>3, <1>4, <1>5, <1>6, <1>7, <1>8, <1>9, <1>10 DEF Handles

\* Stop is called by a loop that ran until then.
LEMMA LoopCalls ==
  ASSUME IInv, NEW p \in Peer,
         Handles(p) \/ ReadMessage(p) \/ ReadError(p) \/ sendLoop(p) \/ pingLoop(p)
  PROVE  /\ once' = once \/ CallStop(p)
         /\ \A q \in Peer : sending'[q] # "none" \/ receiving'[q] # "none" =>
                              sending[q] # "none" \/ receiving[q] # "none"
         /\ CallStop(p) /\ once' # once => sending[p] # "none" \/ receiving[p] # "none"
<1> USE DEF IInv, TypeOK, Receives, CallStop, Sends
<1>1. CASE Handles(p)
  BY <1>1 DEF Handles, Reply, KnownAddresses, RelayLock, RelayNext, RelaySend, RelayDone
<1>2. CASE ReadMessage(p) \/ ReadError(p)
  BY <1>2 DEF ReadMessage, ReadError
<1>3. CASE sendLoop(p)
  BY <1>3 DEF sendLoop, Written, WriteFails, SendEnds
<1>4. CASE pingLoop(p)
  BY <1>4 DEF pingLoop
<1> QED
  BY <1>1, <1>2, <1>3, <1>4

LEMMA LoopSteps ==
  ASSUME IInv, NEW p \in Peer,
         Handles(p) \/ ReadMessage(p) \/ ReadError(p) \/ sendLoop(p) \/ pingLoop(p)
  PROVE  IInv'
<1>1. TypeOK' /\ Answering' /\ Aside
  BY LoopTypes
<1>a. /\ once' = once \/ CallStop(p)
      /\ \A q \in Peer : sending'[q] # "none" \/ receiving'[q] # "none" =>
                           sending[q] # "none" \/ receiving[q] # "none"
      /\ CallStop(p) /\ once' # once => sending[p] # "none" \/ receiving[p] # "none"
  BY LoopCalls
<1>2. \A q \in Peer : once'[q] = once[q] \/ (once[q] = "free" /\ once'[q] = "called"
                                              /\ starter[q] >= 3)
  <2>1. CASE once' = once
    BY <2>1
  <2>2. CASE CallStop(p) /\ once' # once
    <3>1. starter[p] >= 3
      BY <2>2, <1>a DEF IInv, StartInv
    <3>2. once[p] = "free" /\ once' = [once EXCEPT ![p] = "called"]
      BY <2>2 DEF IInv, TypeOK, CallStop
    <3> QED
      BY <3>1, <3>2 DEF IInv, TypeOK
  <2> QED
    BY <1>a, <2>1, <2>2
<1>3. LockInv'
  BY <1>1, <1>2 DEF IInv, LockInv, Aside
<1>4. StartInv'
  <2> SUFFICES ASSUME NEW q \in Peer
               PROVE  /\ sending'[q] # "none" => starter'[q] >= 3
                      /\ receiving'[q] # "none" => starter'[q] >= 3
                      /\ once'[q] # "free" => starter'[q] >= 3
                      /\ connected'[q] = TRUE => starter'[q] >= 3
                      /\ once'[q] \in {"shut", "done"} => connected'[q] = FALSE
    BY DEF StartInv
  <2>1. starter'[q] = starter[q] /\ connected'[q] = connected[q]
    BY <1>1 DEF Aside
  <2> QED
    BY <2>1, <1>2, <1>a DEF IInv, StartInv
<1>5. MapInv'
  BY <1>1, <1>2 DEF IInv, MapInv, Alone, Aside
<1> QED
  BY <1>1, <1>3, <1>4, <1>5 DEF IInv

-----------------------------------------------------------------------------
LEMMA StartSteps ==
  ASSUME IInv, NEW p \in Peer, Arrive(p) \/ Starts(p) \/ sendVersion(p)
  PROVE  IInv'
<1> USE PeersAssumption, StepNumbers
        DEF IInv, TypeOK, Answering, LockInv, StartInv, MapInv, Alone, Idle, GoOn
<1>1. CASE Arrive(p)
  BY <1>1 DEF Arrive
<1>2. CASE registerLock(p)
  BY <1>2 DEF registerLock, Lock
<1>3. CASE registerPeer(p)
  <2> USE <1>3 DEF registerPeer, Locked
  <2>1. starter[p] = 1
    OBVIOUS
  <2>2. TypeOK'
    BY <2>1
  <2>3. Answering' /\ LockInv' /\ StartInv'
    BY <2>1
  <2>4. MapInv'
    BY <2>1
  <2> QED
    BY <2>2, <2>3, <2>4
<1>4. CASE Start(p)
  <2> USE <1>4 DEF Start
  <2>1. starter[p] = 2
    OBVIOUS
  <2>2. TypeOK'
    BY <2>1
  <2>3. Answering' /\ LockInv'
    BY <2>1
  <2>4. once[p] = "free"
    BY <2>1
  <2>5. StartInv'
    BY <2>1, <2>4
  <2>6. MapInv'
    BY <2>1, <2>4
  <2> QED
    BY <2>2, <2>3, <2>5, <2>6
<1>5. CASE sendVersion(p)
  BY <1>5 DEF sendVersion, Send
<1> QED
  BY <1>1, <1>2, <1>3, <1>4, <1>5 DEF Starts

LEMMA StopSteps ==
  ASSUME IInv, NEW p \in Peer, Stops(p)
  PROVE  IInv'
<1> USE PeersAssumption
        DEF IInv, TypeOK, Answering, LockInv, StartInv, MapInv, Alone, Idle
<1>1. CASE Shut(p)
  BY <1>1 DEF Shut
<1>2. CASE removeLock(p)
  BY <1>2 DEF removeLock, Lock
<1>3. CASE removePeer(p)
  <2> USE <1>3 DEF removePeer, Locked
  <2>1. once[p] = "shut" /\ starter[p] >= 3
    OBVIOUS
  <2>2. TypeOK'
    OBVIOUS
  <2>3. Answering' /\ LockInv'
    BY <2>1
  <2>4. StartInv'
    BY <2>1
  <2>5. MapInv'
    BY <2>1
  <2> QED
    BY <2>2, <2>3, <2>4, <2>5
<1> QED
  BY <1>1, <1>2, <1>3 DEF Stops

LEMMA ServerSteps ==
  ASSUME IInv, Stop \/ StopLock \/ StopConns
  PROVE  IInv'
<1> USE PeersAssumption
        DEF IInv, TypeOK, Answering, LockInv, StartInv, MapInv, Alone, Idle
<1>1. CASE Stop
  BY <1>1 DEF Stop
<1>2. CASE StopLock
  BY <1>2 DEF StopLock, Lock
<1>3. CASE StopConns
  BY <1>3 DEF StopConns, Locked
<1> QED
  BY <1>1, <1>2, <1>3

LEMMA NextIInv == IInv /\ [Next]_vars => IInv'
<1> SUFFICES ASSUME IInv, [Next]_vars PROVE IInv'
  OBVIOUS
<1>1. CASE Next
  BY <1>1, ServerSteps, StartSteps, StopSteps, LoopSteps DEF Next
<1>2. CASE UNCHANGED vars
  BY <1>2 DEF vars, IInv, TypeOK, Answering, LockInv, StartInv, MapInv, Alone
<1> QED
  BY <1>1, <1>2

-----------------------------------------------------------------------------
\* Variables and bounds stay within their types; no message is answered more
\* often than it has answers, and no channel holds more than its capacity.
THEOREM PeersTypeCorrect == Spec => []TypeOK
<1>1. IInv => TypeOK
  BY DEF IInv
<1> QED
  BY InitIInv, NextIInv, <1>1, PTL DEF Spec

\* A peer that has ended is not in the map, and one that runs is, unless
\* another connection used its address: for any number of peers, however
\* registrations, failures, relays and the server's stop interleave.
THEOREM MapCorrect == Spec => []MapMatches
<1>1. IInv => MapMatches
  <2> SUFFICES ASSUME IInv, NEW p \in Peer
               PROVE  /\ once[p] = "done" => peers[Addr[p]] # p
                      /\ connected[p] /\ Alone(p) => peers[Addr[p]] = p
    BY DEF MapMatches, Alone
  <2>0. connected[p] => connected[p] = TRUE
    BY DEF IInv, TypeOK
  <2>1. connected[p] = TRUE => starter[p] >= 3 /\ once[p] # "done"
    BY DEF IInv, StartInv
  <2>2. starter[p] >= 3 => starter[p] >= 2
    BY DEF IInv, TypeOK
  <2> QED
    BY <2>0, <2>1, <2>2 DEF IInv, MapInv
<1> QED
  BY InitIInv, NextIInv, <1>1, PTL DEF Spec
=============================================================================
