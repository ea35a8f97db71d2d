----------------------------- MODULE BlockSync -----------------------------
(***************************************************************************)
(* How two nodes bring their chains together (net/peer.go, handleVersion   *)
(* to handleBlock and the sync ticker; mining/miner.go, mineWorker): what  *)
(* the messages between them say, over a connection that keeps their order *)
(* and may be lost.  A block is the sequence of the miners of its chain:   *)
(* its parent is its Front, its height its length, genesis is empty.  The  *)
(* chain itself is not in the repository; it is taken to keep what links   *)
(* to what it has and to prefer what is longer.                            *)
(***************************************************************************)
EXTENDS Naturals, Sequences, FiniteSets, SequencesExt

CONSTANTS
  Node, dialler,    \* two nodes, and the one that connects
  Limit,            \* blocks announced at a time, but for one (500)
  MaxBlocks,        \* bound on mining, by both together
  MaxConnects       \* bound on connections

ASSUME SyncAssumption ==
  /\ dialler \in Node /\ \E n \in Node : Node = {dialler, n} /\ n # dialler
  /\ Limit \in Nat /\ MaxBlocks \in Nat /\ MaxConnects \in Nat

VARIABLES
  up, connects,     \* the connection, and how many there were
  wire,             \* the messages on their way to each node
  height,           \* p.height: the height its peer has, as a node sees it
  has, best,        \* the blocks of each node, and the tip of its chain
  found             \* the block mineWorker announced and did not submit yet

syncVars == <<up, connects, wire, height, has, best, found>>

Genesis == <<>>
Other(n) == CHOOSE m \in Node : m # n
BestHeight(n) == Len(best[n])

SyncInit ==
  /\ up = FALSE /\ connects = 0
  /\ wire = [n \in Node |-> <<>>] /\ height = [n \in Node |-> 0]
  /\ has = [n \in Node |-> {Genesis}] /\ best = [n \in Node |-> Genesis]
  /\ found = [n \in Node |-> Genesis]

(***************************************************************************)
(* Messages.  Send goes to the peer of n; an answer also takes the message *)
(* that is handled off the wire.                                           *)
(***************************************************************************)
Message(cmd, content) == [cmd |-> cmd, content |-> content]
version(n) == Message("version", BestHeight(n))
verack == Message("verack", "nothing")
getblocks(n) == Message("getblocks", best[n])
inv(blocks) == Message("inv", blocks)
getdata(blocks) == Message("getdata", blocks)
block(b) == Message("block", b)

When(condition, messages) == IF condition THEN messages ELSE <<>>

Posts(n, messages) == wire' = [wire EXCEPT ![Other(n)] = @ \o messages]
Answers(n, messages) ==
  wire' = [wire EXCEPT ![n] = Tail(@), ![Other(n)] = @ \o messages]

(***************************************************************************)
(* The connection: the one who dials sends its version (Peer.Start).       *)
(***************************************************************************)
Connect ==
  /\ ~ up /\ up' = TRUE
  /\ connects < MaxConnects /\ connects' = connects + 1
  /\ height' = [n \in Node |-> 0]
  /\ Posts(dialler, <<version(dialler)>>)
  /\ UNCHANGED <<has, best, found>>

Drop ==
  /\ up /\ up' = FALSE /\ wire' = [n \in Node |-> <<>>]
  /\ UNCHANGED <<connects, height, has, best, found>>

(***************************************************************************)
(* The handlers of recvLoop.                                               *)
(***************************************************************************)
handleVersion(n, h) ==
  /\ height' = [height EXCEPT ![n] = h]
  /\ Answers(n, <<verack>> \o When(n # dialler, <<version(n)>>)
                           \o When(h > BestHeight(n), <<getblocks(n)>>))
  /\ UNCHANGED <<has, best>>

handleVerack(n) ==
  /\ Answers(n, When(height[n] > BestHeight(n), <<getblocks(n)>>))
  /\ UNCHANGED <<height, has, best>>

\* Where the answer to a locator starts.  Whether the chain tells the height
\* of a block that is not on its best branch is left open.
StartHeights(n, locator) ==
  {k \in {1, Len(locator) + 1} :
     /\ IsPrefix(locator, best[n]) => k = Len(locator) + 1
     /\ locator \notin has[n] => k = 1}

Ancestors(b, from, to) == [k \in 1 .. to + 1 - from |-> SubSeq(b, 1, from + k - 1)]

handleGetBlocks(n, locator) ==
  /\ \E start \in StartHeights(n, locator) :
       LET end == IF start + Limit > BestHeight(n) THEN BestHeight(n) ELSE start + Limit
       IN Answers(n, When(start <= BestHeight(n), <<inv(Ancestors(best[n], start, end))>>))
  /\ UNCHANGED <<height, has, best>>

handleInv(n, blocks) ==
  LET want == SelectSeq(blocks, LAMBDA b : b \notin has[n])
  IN /\ Answers(n, When(want # <<>>, <<getdata(want)>>))
     /\ UNCHANGED <<height, has, best>>

handleGetData(n, blocks) ==
  LET held == SelectSeq(blocks, LAMBDA b : b \in has[n])
  IN /\ Answers(n, [k \in DOMAIN held |-> block(held[k])])
     /\ UNCHANGED <<height, has, best>>

ProcessBlock(n, b) ==
  /\ b # Genesis /\ Front(b) \in has[n]
  /\ has' = [has EXCEPT ![n] = @ \cup {b}]
  /\ best' = [best EXCEPT ![n] = IF Len(b) > Len(@) THEN b ELSE @]

RejectBlock(n, b) ==
  /\ b \in has[n] \/ Front(b) \notin has[n]
  /\ UNCHANGED <<has, best>>

\* A block that is known may be refused or, with no effect, accepted.  The
\* height kept for the peer becomes our own, so that the next chunk is not
\* asked for here: BestHeight never falls.
handleBlock(n, b) ==
  /\ Answers(n, <<>>)
  /\ \/ ProcessBlock(n, b) /\ height' = [height EXCEPT ![n] = Len(best'[n])]
     \/ RejectBlock(n, b) /\ UNCHANGED height

handleMessage(n) ==
  /\ wire[n] # <<>>
  /\ LET cmd == Head(wire[n]).cmd
         content == Head(wire[n]).content
     IN \/ cmd = "version" /\ handleVersion(n, content)
        \/ cmd = "verack" /\ handleVerack(n)
        \/ cmd = "getblocks" /\ handleGetBlocks(n, content)
        \/ cmd = "inv" /\ handleInv(n, content)
        \/ cmd = "getdata" /\ handleGetData(n, content)
        \/ cmd = "block" /\ handleBlock(n, content)
  /\ UNCHANGED <<up, connects, found>>

(***************************************************************************)
(* The sync ticker asks whatever the heights are.  Bound: it ticks, once   *)
(* in 30 seconds, when what was sent before has been handled.              *)
(***************************************************************************)
Quiet == \A n \in Node : wire[n] = <<>>

\* Variant: nothing is asked of a peer that is not known to be ahead.
syncTicker_ahead(n) ==
  /\ up /\ Quiet /\ height[n] > BestHeight(n)
  /\ Posts(n, <<getblocks(n)>>)
  /\ UNCHANGED <<up, connects, height, has, best, found>>

syncTicker(n) ==
  /\ up /\ Quiet
  /\ Posts(n, <<getblocks(n)>>)
  /\ UNCHANGED <<up, connects, height, has, best, found>>

(***************************************************************************)
(* mineWorker: a block is announced before it is in the own chain.         *)
(***************************************************************************)
OnBlockFound(n) ==
  LET b == Append(best[n], n)
  IN /\ found[n] = Genesis /\ b \notin has[n]
     /\ Cardinality(UNION {has[m] : m \in Node}) <= MaxBlocks
     /\ found' = [found EXCEPT ![n] = b]
     /\ Posts(n, When(up, <<inv(<<b>>)>>))
     /\ UNCHANGED <<up, connects, height, has, best>>

Submit(n) ==
  /\ found[n] # Genesis /\ found' = [found EXCEPT ![n] = Genesis]
  /\ ProcessBlock(n, found[n])
  /\ UNCHANGED <<up, connects, wire, height>>

SyncNext ==
  \/ Connect \/ Drop
  \/ \E n \in Node : handleMessage(n) \/ syncTicker(n) \/ OnBlockFound(n) \/ Submit(n)

\* Goroutines run, and each node's own ticker ticks (SF, for the bound makes
\* one wait for the other); nobody need mine, nor connect again.
SyncFairness ==
  /\ WF_syncVars(\E n \in Node : handleMessage(n) \/ Submit(n))
  /\ \A n \in Node : SF_syncVars(syncTicker(n))

SyncSpec == SyncInit /\ [][SyncNext]_syncVars /\ SyncFairness

(***************************************************************************)
(* What it promises.                                                       *)
(***************************************************************************)

\* The other chain is longer, and one locator is enough to get it: it goes on
\* from ours, or ours is a branch that the other side does not know and that
\* is no longer than what is sent at a time.
Behind(n) ==
  LET mine == best[n]  theirs == best[Other(n)]
  IN /\ Len(theirs) > Len(mine)
     /\ IsPrefix(mine, theirs) \/ (mine \notin has[Other(n)] /\ Len(mine) <= Limit)

\* A node that is behind its peer catches up while the connection lasts,
\* although announcements come before the block can be had, the height kept
\* for the peer is wrong after the first block, and only a chunk is sent at a
\* time (handleGetBlocks, handleBlock, the sync ticker, mineWorker).  One of
\* the two at most is behind, and tips grow by one block at a time, so that
\* the other is not behind before this one has caught up.
CatchesUp ==
  up /\ (\E n \in Node : Behind(n)) ~> ~ up \/ ~ \E n \in Node : Behind(n)
=============================================================================
