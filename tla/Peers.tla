------------------------------- MODULE Peers -------------------------------
(***************************************************************************)
(* The peer-to-peer server and its peers (net/server.go, net/peer.go):     *)
(* connections that come and go, the loops of each peer, the bounded       *)
(* channel its messages wait in, and the map of peers under a lock that    *)
(* RelayBlock holds while it sends.  What a message says is abstracted to  *)
(* what handling it does to the channels, the lock and the map.            *)
(***************************************************************************)
EXTENDS Naturals, FiniteSets

CONSTANTS
  Peer,             \* connections, each used once
  NoPeer,
  Addrs, Addr,      \* remote addresses; two connections may share one
  Inbound,          \* the connections that come in
  Capacity,         \* of sendCh, and the message being written (65)
  MaxInboundPeers,  \* 125
  MaxReplies        \* bound on the answers to one message

ASSUME PeersAssumption ==
  /\ NoPeer \notin Peer
  /\ Addr \in [Peer -> Addrs] /\ Inbound \subseteq Peer
  /\ Capacity \in Nat \ {0} /\ MaxInboundPeers \in Nat /\ MaxReplies \in Nat

VARIABLES
  srv,              \* the server: "up", "closing" (Stop waits) or "down"
  peers,            \* s.peers
  pending,          \* the call that holds or waits for s.mu.Lock
  starter,          \* how far the goroutine that starts the peer is
  connected, quit,  \* p.connected; quitCh is closed
  open,             \* the connection has not been closed here
  queue,            \* messages in sendCh and in WriteMessage
  once,             \* Stop: "free", "called", "shut" or "done"
  sending,          \* sendLoop: "none", "runs", or "over": in Stop or ended
  receiving,        \* recvLoop: the same, with the steps of handleMessage
  replies,          \* answers the current message still gets
  todo, target      \* RelayBlock: the peers left, and whose Send it is in

vars == <<srv, peers, pending, starter, connected, quit, open, queue, once, sending,
          receiving, replies, todo, target>>

Idle == <<"nobody">>

TypeOK ==
  /\ srv \in {"up", "closing", "down"}
  /\ peers \in [Addrs -> Peer \cup {NoPeer}]
  /\ pending \in {Idle, <<"stop">>} \cup ({"register", "remove"} \X Peer)
  /\ starter \in [Peer -> 0 .. 4]
  /\ connected \in [Peer -> BOOLEAN] /\ quit \in [Peer -> BOOLEAN]
  /\ open \in [Peer -> BOOLEAN] /\ queue \in [Peer -> 0 .. Capacity]
  /\ once \in [Peer -> {"free", "called", "shut", "done"}]
  /\ sending \in [Peer -> {"none", "runs", "over"}]
  /\ receiving \in [Peer -> {"none", "reads", "replies", "getaddr", "block", "relays", "over"}]
  /\ replies \in [Peer -> 0 .. MaxReplies]
  /\ todo \in [Peer -> SUBSET Peer] /\ target \in [Peer -> Peer \cup {NoPeer}]

Init ==
  /\ srv = "up" /\ peers = [a \in Addrs |-> NoPeer] /\ pending = Idle
  /\ starter = [p \in Peer |-> 0]
  /\ connected = [p \in Peer |-> FALSE] /\ quit = [p \in Peer |-> FALSE]
  /\ open = [p \in Peer |-> TRUE] /\ queue = [p \in Peer |-> 0]
  /\ once = [p \in Peer |-> "free"]
  /\ sending = [p \in Peer |-> "none"] /\ receiving = [p \in Peer |-> "none"]
  /\ replies = [p \in Peer |-> 0]
  /\ todo = [p \in Peer |-> {}] /\ target = [p \in Peer |-> NoPeer]

(***************************************************************************)
(* s.mu, Go's RWMutex: one Lock at a time announces itself and keeps new   *)
(* readers out until it has been through.                                  *)
(***************************************************************************)
Lock(call) ==
  /\ pending = Idle /\ pending' = call
  /\ UNCHANGED <<srv, peers, starter, connected, quit, open, queue, once, sending,
                 receiving, replies, todo, target>>

Readers == {p \in Peer : receiving[p] = "relays"}
Locked(call) == pending = call /\ Readers = {} /\ pending' = Idle
RLockFree == pending = Idle

(***************************************************************************)
(* Send blocks while the channel is full, until the peer is stopped.  What *)
(* a stopped peer's channel holds is lost.                                 *)
(***************************************************************************)
Send(p) ==
  \/ ~ quit[p] /\ queue[p] < Capacity /\ queue' = [queue EXCEPT ![p] = @ + 1]
  \/ quit[p] /\ UNCHANGED queue

(***************************************************************************)
(* A connection comes in, or AddPeer and connectManager dial one; then     *)
(* handleInbound and connectToPeer register the peer and start it.         *)
(***************************************************************************)
\* Variant: the peer is started before it is registered.
Steps_eager == <<"start", "version", "register", "over">>

Steps == <<"register", "start", "version", "over">>
AtStep(p, step) == starter[p] > 0 /\ Steps[starter[p]] = step
GoOn(p) == starter' = [starter EXCEPT ![p] = @ + 1]

countInbound == Cardinality({p \in Inbound : peers[Addr[p]] = p})

acceptLoop(p) ==
  /\ p \in Inbound /\ RLockFree /\ countInbound < MaxInboundPeers

Arrive(p) ==
  /\ srv = "up" /\ starter[p] = 0
  /\ p \in Inbound => acceptLoop(p)
  /\ GoOn(p)
  /\ UNCHANGED <<srv, peers, pending, connected, quit, open, queue, once, sending,
                 receiving, replies, todo, target>>

registerLock(p) == AtStep(p, "register") /\ Lock(<<"register", p>>)

registerPeer(p) ==
  /\ Locked(<<"register", p>>)
  /\ peers' = [peers EXCEPT ![Addr[p]] = p]
  /\ GoOn(p)
  /\ UNCHANGED <<srv, connected, quit, open, queue, once, sending, receiving, replies,
                 todo, target>>

Start(p) ==
  /\ AtStep(p, "start") /\ GoOn(p)
  /\ connected' = [connected EXCEPT ![p] = TRUE]
  /\ sending' = [sending EXCEPT ![p] = "runs"]
  /\ receiving' = [receiving EXCEPT ![p] = "reads"]
  /\ UNCHANGED <<srv, peers, pending, quit, open, queue, once, replies, todo, target>>

sendVersion(p) ==
  /\ AtStep(p, "version") /\ GoOn(p)
  /\ IF p \in Inbound THEN UNCHANGED queue ELSE Send(p)
  /\ UNCHANGED <<srv, peers, pending, connected, quit, open, once, sending, receiving,
                 replies, todo, target>>

(***************************************************************************)
(* Peer.Stop, by the loop that calls it first; the other one, and later    *)
(* calls, wait for its end.                                                *)
(***************************************************************************)
CallStop(p) == once' = [once EXCEPT ![p] = IF @ = "free" THEN "called" ELSE @]

\* Variant: quitCh is closed after removePeer, not before.
Shut_late(p) ==
  /\ once[p] = "called" /\ once' = [once EXCEPT ![p] = "shut"]
  /\ connected' = [connected EXCEPT ![p] = FALSE]
  /\ open' = [open EXCEPT ![p] = FALSE]
  /\ UNCHANGED <<srv, peers, pending, starter, quit, queue, sending, receiving, replies,
                 todo, target>>

Shut(p) ==
  /\ once[p] = "called" /\ once' = [once EXCEPT ![p] = "shut"]
  /\ connected' = [connected EXCEPT ![p] = FALSE]
  /\ quit' = [quit EXCEPT ![p] = TRUE]
  /\ open' = [open EXCEPT ![p] = FALSE]
  /\ queue' = [queue EXCEPT ![p] = 0]
  /\ UNCHANGED <<srv, peers, pending, starter, sending, receiving, replies, todo, target>>

removeLock(p) == once[p] = "shut" /\ Lock(<<"remove", p>>)

\* The entry is found by its address, whichever peer it holds.
removePeer(p) ==
  /\ Locked(<<"remove", p>>)
  /\ peers' = [peers EXCEPT ![Addr[p]] = NoPeer]
  /\ once' = [once EXCEPT ![p] = "done"]
  /\ UNCHANGED <<srv, starter, connected, quit, open, queue, sending, receiving, replies,
                 todo, target>>

(***************************************************************************)
(* sendLoop.  A write fails when the connection does, and after 30 seconds *)
(* when the other side does not read.                                      *)
(***************************************************************************)
Sends(p) ==
  /\ sending[p] = "runs"
  /\ UNCHANGED <<srv, peers, pending, starter, connected, quit, open, receiving, replies,
                 todo, target>>

Written(p) ==
  /\ Sends(p) /\ queue[p] > 0 /\ open[p]
  /\ queue' = [queue EXCEPT ![p] = @ - 1]
  /\ UNCHANGED <<once, sending>>

WriteFails(p) ==
  /\ Sends(p) /\ queue[p] > 0
  /\ queue' = [queue EXCEPT ![p] = @ - 1]
  /\ CallStop(p) /\ sending' = [sending EXCEPT ![p] = "over"]

SendEnds(p) ==
  /\ Sends(p) /\ quit[p]
  /\ sending' = [sending EXCEPT ![p] = "over"]
  /\ UNCHANGED <<queue, once>>

sendLoop(p) == Written(p) \/ WriteFails(p) \/ SendEnds(p)

(***************************************************************************)
(* recvLoop and handleMessage.  A message is answered on the channel of    *)
(* the peer it came from, any number of times; a new block is announced to *)
(* the other peers first; getaddr reads the map before it is answered; an  *)
(* unreadable version stops the peer.  A read fails when the connection    *)
(* does, and after ReadTimeout.                                            *)
(***************************************************************************)
Receives(p, from, to) ==
  /\ receiving[p] = from /\ receiving' = [receiving EXCEPT ![p] = to]
  /\ UNCHANGED <<srv, peers, pending, starter, connected, quit, open, sending>>

ReadMessage(p) ==
  /\ open[p]
  /\ \E k \in 1 .. MaxReplies : replies' = [replies EXCEPT ![p] = k]
  /\ \E step \in {"replies", "block", "getaddr"} : Receives(p, "reads", step)
  /\ UNCHANGED <<queue, once, todo, target>>

\* Variant: recvLoop returns without Stop.
ReadError_quiet(p) ==
  /\ Receives(p, "reads", "over")
  /\ UNCHANGED <<queue, once, replies, todo, target>>

\* Also the end of handleVersion when the payload is bad.
ReadError(p) ==
  /\ Receives(p, "reads", "over") /\ CallStop(p)
  /\ UNCHANGED <<queue, replies, todo, target>>

\* The answers: none, or as many as there are.
Reply(p) ==
  \/ /\ Send(p)
     /\ replies' = [replies EXCEPT ![p] = @ - 1]
     /\ Receives(p, "replies", IF replies'[p] = 0 THEN "reads" ELSE "replies")
     /\ UNCHANGED <<once, todo, target>>
  \/ /\ replies' = [replies EXCEPT ![p] = 0] /\ Receives(p, "replies", "reads")
     /\ UNCHANGED <<queue, once, todo, target>>

KnownAddresses(p) ==
  /\ RLockFree /\ Receives(p, "getaddr", "replies")
  /\ UNCHANGED <<queue, once, replies, todo, target>>

\* RelayBlock: the map cannot change while it is read, so that the peers to
\* go through are those of the beginning.
RelayLock(p) ==
  /\ RLockFree /\ Receives(p, "block", "relays")
  /\ todo' = [todo EXCEPT ![p] = {q \in Peer \ {p} : peers[Addr[q]] = q}]
  /\ UNCHANGED <<queue, once, replies, target>>

RelayNext(p) ==
  \E q \in todo[p] :
    /\ target[p] = NoPeer
    /\ todo' = [todo EXCEPT ![p] = @ \ {q}]
    /\ target' = IF connected[q] THEN [target EXCEPT ![p] = q] ELSE target
    /\ Receives(p, "relays", "relays")
    /\ UNCHANGED <<queue, once, replies>>

RelaySend(p) ==
  /\ target[p] # NoPeer /\ Send(target[p])
  /\ target' = [target EXCEPT ![p] = NoPeer]
  /\ Receives(p, "relays", "relays")
  /\ UNCHANGED <<once, replies, todo>>

RelayDone(p) ==
  /\ target[p] = NoPeer /\ todo[p] = {} /\ Receives(p, "relays", "replies")
  /\ UNCHANGED <<queue, once, replies, todo, target>>

(***************************************************************************)
(* pingLoop, which ends with quitCh; and Server.Stop, which closes the     *)
(* connections of the peers it finds in the map.                           *)
(***************************************************************************)
pingLoop(p) ==
  /\ connected[p] /\ ~ quit[p] /\ Send(p)
  /\ UNCHANGED <<srv, peers, pending, starter, connected, quit, open, once, sending,
                 receiving, replies, todo, target>>

Stop ==
  /\ srv = "up" /\ srv' = "closing"
  /\ UNCHANGED <<peers, pending, starter, connected, quit, open, queue, once, sending,
                 receiving, replies, todo, target>>

StopLock == srv = "closing" /\ Lock(<<"stop">>)

StopConns ==
  /\ Locked(<<"stop">>) /\ srv' = "down"
  /\ open' = [p \in Peer |-> open[p] /\ peers[Addr[p]] # p]
  /\ UNCHANGED <<peers, starter, connected, quit, queue, once, sending, receiving,
                 replies, todo, target>>

Starts(p) == registerLock(p) \/ registerPeer(p) \/ Start(p)
Stops(p) == Shut(p) \/ removeLock(p) \/ removePeer(p)
Handles(p) ==
  \/ Reply(p) \/ KnownAddresses(p)
  \/ RelayLock(p) \/ RelayNext(p) \/ RelaySend(p) \/ RelayDone(p)

Next ==
  \/ Stop \/ StopLock \/ StopConns
  \/ \E p \in Peer :
       \/ Arrive(p) \/ Starts(p) \/ sendVersion(p) \/ Stops(p)
       \/ sendLoop(p) \/ pingLoop(p)
       \/ ReadMessage(p) \/ ReadError(p) \/ Handles(p)

Spec == Init /\ [][Next]_vars

\* Goroutines run, and a read of a closed connection fails.  Of the calls
\* that wait for room in a channel Go serves the one that has waited
\* longest, so that each gets its turn (SF).
StartsAndStops ==
  \/ StopLock \/ StopConns
  \/ \E p \in Peer : Starts(p) \/ Stops(p) \/ (ReadError(p) /\ ~ open[p])

Fairness ==
  /\ WF_vars(StartsAndStops)
  /\ \A p \in Peer : WF_vars(sendLoop(p)) /\ SF_vars(Handles(p)) /\ SF_vars(sendVersion(p))

FairSpec == Spec /\ Fairness

(***************************************************************************)
(* What the module promises.                                               *)
(***************************************************************************)

\* A peer whose Stop has returned is not in the map: no block is announced
\* to it and it does not count against the limit.  And a peer that runs is
\* there, unless another connection used its address: the other one's entry
\* replaces its own, and the other one's end removes it.
MapMatches ==
  \A p \in Peer :
    /\ once[p] = "done" => peers[Addr[p]] # p
    /\ connected[p] /\ (\A q \in Peer \ {p} : Addr[q] = Addr[p] => starter[q] = 0)
         => peers[Addr[p]] = p

\* Nobody keeps the lock of the map: a relay that sends to a peer with a full
\* channel comes to its end, although it holds the lock that the peer's own
\* Stop needs, and so does every Lock that has announced itself.
LockFreed ==
  /\ \A p \in Peer : receiving[p] = "relays" ~> receiving[p] # "relays"
  /\ pending # Idle ~> pending = Idle

\* A peer that was started and whose connection was closed comes to its end:
\* its loops return, whatever they were doing, and it leaves the map.
Gone(p) ==
  /\ sending[p] = "over" /\ receiving[p] = "over" /\ once[p] = "done"
  /\ peers[Addr[p]] # p

PeersEnd == \A p \in Peer : connected[p] /\ ~ open[p] ~> Gone(p)
=============================================================================
