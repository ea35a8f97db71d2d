------------------------------- MODULE Hasher -------------------------------
(***************************************************************************)
(* What a worker computes, as a whole: the targets and the Merkle root of  *)
(* its job (Work), yespower() with its memory and its loops, and what that *)
(* is computed from: SHA256 over streams, HMAC and PBKDF2; the rounds of   *)
(* SHA256; the Salsa20 core; PWXFORM; the blockmix functions.  What is     *)
(* computed and where it is read and written are looked at apart, so turn  *)
(* picks the one part that is at work.                                     *)
(***************************************************************************)
EXTENDS Yespower, Work

CONSTANTS
  CountLimit, Chunks, MaxMessage, Keys, Salts, Rounds, Outputs,  \* HashStream
  Messages, MaxBlocks,                                           \* Sha256Rounds
  Inputs,                                                        \* Salsa20
  Bits, Swidth, Seeds, MaxCalls,                                 \* Pwxform
  Widths                                                         \* BlockMix

ASSUME HasherAssumption ==
  /\ CountLimit \in Nat \ {0} /\ CountLimit % 512 = 0
  /\ 8 * MaxMessage < CountLimit /\ 2048 < CountLimit
  /\ \A l \in Keys \cup Salts : 8 * (l + 192) < CountLimit
  /\ Chunks \subseteq Nat /\ MaxMessage \in Nat /\ Keys \subseteq Nat
  /\ Salts \subseteq Nat /\ Rounds \subseteq Nat \ {0} /\ Outputs \subseteq Nat
  /\ \A b \in Messages \cup Inputs :
       b \in Seq(Nat) /\ Len(b) = 64 /\ \A k \in 1 .. 64 : b[k] < 256
  /\ MaxBlocks \in Nat /\ MaxCalls \in Nat /\ Seeds \subseteq Nat
  /\ Bits \in 8 .. 12 /\ Swidth \in 2 .. Bits - 5
  /\ Widths \subseteq Nat \ {0}

VARIABLES
  turn,
  job, stream, out,
  state, S, y_xor_z, W, rnd, blocks, fips,
  block, X, words, half, left,
  version, built, plain, round, calls,
  call, stage, idx, reg, mem, result

Digests == INSTANCE HashStream WITH ctx <- stream
Sha256 == INSTANCE Sha256Rounds WITH i <- rnd
Salsa == INSTANCE Salsa20 WITH x <- words
Pwx256 == INSTANCE Pwxform
Mixes == INSTANCE BlockMix

streamVars == <<job, stream, out>>
shaVars == <<state, S, y_xor_z, W, rnd, blocks, fips>>
coreVars == <<block, X, words, half, left>>
pwxVars == <<version, built, plain, round, calls>>
blockVars == <<call, stage, idx, reg, mem, result>>
hasherVars == <<turn, vars, targetVars, streamVars, shaVars, coreVars, pwxVars, blockVars>>

HasherInit ==
  /\ turn \in {"work", "yespower", "stream", "rounds", "salsa", "pwxform", "blockmix"}
  /\ Init
  /\ turn # "yespower" => prm = CHOOSE p \in Params : TRUE
  /\ TargetInit
  /\ turn # "work" => /\ difficulty = CHOOSE d \in Difficulties : TRUE
                      /\ netTarget = CHOOSE t \in NetTargets : TRUE
                      /\ txs = 1
  /\ Digests!Init /\ Sha256!RoundsInit /\ Salsa!SalsaInit
  /\ Pwx256!PwxInit /\ Mixes!MixInit

WorkTurn ==
  /\ turn = "work" /\ TargetNext
  /\ UNCHANGED <<turn, vars, streamVars, shaVars, coreVars, pwxVars, blockVars>>

YespowerTurn ==
  /\ turn = "yespower" /\ Next
  /\ UNCHANGED <<turn, targetVars, streamVars, shaVars, coreVars, pwxVars, blockVars>>

StreamTurn ==
  /\ turn = "stream" /\ Digests!Next
  /\ UNCHANGED <<turn, vars, targetVars, shaVars, coreVars, pwxVars, blockVars>>

RoundsTurn ==
  /\ turn = "rounds" /\ Sha256!RoundsNext
  /\ UNCHANGED <<turn, vars, targetVars, streamVars, coreVars, pwxVars, blockVars>>

SalsaTurn ==
  /\ turn = "salsa" /\ Salsa!SalsaNext
  /\ UNCHANGED <<turn, vars, targetVars, streamVars, shaVars, pwxVars, blockVars>>

PwxformTurn ==
  /\ turn = "pwxform" /\ Pwx256!PwxformNext
  /\ UNCHANGED <<turn, vars, targetVars, streamVars, shaVars, coreVars, blockVars>>

BlockMixTurn ==
  /\ turn = "blockmix" /\ Mixes!MixNext
  /\ UNCHANGED <<turn, vars, targetVars, streamVars, shaVars, coreVars, pwxVars>>

HasherNext ==
  \/ WorkTurn \/ YespowerTurn \/ StreamTurn \/ RoundsTurn
  \/ SalsaTurn \/ PwxformTurn \/ BlockMixTurn

HasherSpec ==
  HasherInit /\ [][HasherNext]_hasherVars /\ WF_vars(Compute)

(***************************************************************************)
(* The properties of the parts, under their own names.                     *)
(***************************************************************************)

\* HashStream: digests, MACs and derived keys are those of the standards.
DigestsMatch == turn = "stream" => Digests!DigestsMatch
\* Sha256Rounds: the compression function is that of FIPS 180-4.
RoundsMatch == turn = "rounds" => Sha256!RoundsMatch
\* Salsa20: the build with vectors and the one without agree.
SalsaMatches == turn = "salsa" => Salsa!SalsaMatches
\* Pwxform: all builds compute pwxform and write the S-boxes alike.
BuildsAgree == turn = "pwxform" => Pwx256!BuildsAgree
\* BlockMix: the unrolled functions compute BlockMix of the row they read.
MixMatches == turn = "blockmix" => Mixes!MixMatches
=============================================================================
