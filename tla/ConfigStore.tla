---------------------------- MODULE ConfigStore ----------------------------
(***************************************************************************)
(* The miner's settings: the copy the Manager works with (m.cfg), the file *)
(* config/miner.json, and how saveConfig and loadConfig of manager.go move *)
(* them, with stops of the process and of the machine in between.          *)
(*                                                                         *)
(* Settings are named by the update that brought them: 0 stands for those  *)
(* the instance was installed with (or their absence), so that two updates *)
(* never look alike.                                                       *)
(* Module Manager models what UpdateConfig does to the miner afterwards.   *)
(***************************************************************************)
EXTENDS Naturals

CONSTANTS Handlers,    \* goroutines of the HTTP server
          MaxUpdates,  \* bound: updates requested
          MaxStops     \* bound: stops of the process or of the machine

ASSUME StoreAssumption == MaxUpdates \in Nat /\ MaxStops \in Nat

Updates  == 1..MaxUpdates
Settings == 0..MaxUpdates
Invalid  == MaxUpdates + 1          \* the number of no settings

\* A file: whose settings it has, and whether Sync was called on it.
Files == [id : Settings, synced : BOOLEAN]
Torn  == [id |-> Invalid, synced |-> TRUE]   \* a file that does not parse

VARIABLES
  wallet,    \* the installed file, or the environment, names a wallet
  up,        \* the process serves requests
  mem,       \* m.cfg
  file,      \* configFile, as the process sees it
  onDisk,    \* configFile, as it would be found after a power failure
  pc, arg,   \* pc[h], arg[h]: an update in progress, and its settings
  synced,    \* synced[h]: its temporary file was synced
  n, stops,  \* updates requested, stops suffered
  acked,     \* history: updates that were answered with "ok"
  before,    \* history: before[h] is acked as it was when the update began
  obsolete,  \* history: updates answered before another one that is answered
  failed,    \* history: some update was answered with an error of saveConfig
  powerCut   \* history: a power failure has happened

vars == <<wallet, up, mem, file, onDisk, pc, arg, synced, n, stops,
          acked, before, obsolete, failed, powerCut>>

disk    == <<file, onDisk>>
history == <<acked, before, obsolete, failed, powerCut>>

\* The type invariant: only settings that passed Validate() are in use or on
\* their way to the file (manager.go:219, 132).
TypeOK ==
  /\ wallet \in BOOLEAN /\ up \in BOOLEAN
  /\ mem \in Settings
  /\ file \in Files \cup {Torn} /\ onDisk \in Files
  /\ pc \in [Handlers -> {"idle", "write", "sync", "rename", "ack"}]
  /\ arg \in [Handlers -> Settings]
  /\ synced \in [Handlers -> BOOLEAN]
  /\ n \in Settings /\ stops \in 0..MaxStops
  /\ acked \subseteq Updates /\ obsolete \subseteq acked
  /\ before \in [Handlers -> SUBSET Updates]
  /\ failed \in BOOLEAN /\ powerCut \in BOOLEAN

-----------------------------------------------------------------------------
Init ==
  /\ wallet \in BOOLEAN
  /\ up = FALSE
  /\ mem = 0
  /\ file = [id |-> 0, synced |-> TRUE]
  /\ onDisk = file
  /\ pc = [h \in Handlers |-> "idle"]
  /\ arg = [h \in Handlers |-> 0]
  /\ synced = [h \in Handlers |-> FALSE]
  /\ n = 0 /\ stops = 0
  /\ acked = {} /\ obsolete = {}
  /\ before = [h \in Handlers |-> {}]
  /\ failed = FALSE /\ powerCut = FALSE

\* loadConfig: the file, or the defaults if it is missing or does not parse.
\* (The environment overrides single fields; only the wallet matters here.)
Load == IF file = Torn THEN 0 ELSE file.id

\* main() refuses to serve without a wallet; the container starts it again.
Boot ==
  /\ ~up
  /\ Load # 0 \/ wallet
  /\ up' = TRUE
  /\ mem' = Load
  /\ UNCHANGED <<wallet, disk, pc, arg, synced, n, stops, history>>

\* UpdateConfig with settings that pass Validate(): they are current at once.
Begin(h) ==
  /\ up /\ pc[h] = "idle" /\ n < MaxUpdates
  /\ n' = n + 1
  /\ arg' = [arg EXCEPT ![h] = n + 1]
  /\ mem' = n + 1
  /\ pc' = [pc EXCEPT ![h] = "write"]
  /\ synced' = [synced EXCEPT ![h] = FALSE]
  /\ before' = [before EXCEPT ![h] = acked]
  /\ UNCHANGED <<wallet, up, disk, stops, acked, obsolete, failed, powerCut>>

\* saveConfig creates a temporary file of its own and writes it,
Write(h) ==
  /\ pc[h] = "write"
  /\ pc' = [pc EXCEPT ![h] = "sync"]
  /\ UNCHANGED <<wallet, up, mem, disk, arg, synced, n, stops, history>>

\* Variant: no Sync.
SyncSkipped(h) ==
  /\ pc[h] = "sync"
  /\ pc' = [pc EXCEPT ![h] = "rename"]
  /\ UNCHANGED <<wallet, up, mem, disk, arg, synced, n, stops, history>>

\* has it written to the disk,
Sync(h) ==
  /\ pc[h] = "sync"
  /\ pc' = [pc EXCEPT ![h] = "rename"]
  /\ synced' = [synced EXCEPT ![h] = TRUE]
  /\ UNCHANGED <<wallet, up, mem, disk, arg, n, stops, history>>

\* Variant: the error of os.Rename is dropped.
RenameUnchecked(h) ==
  /\ pc[h] = "rename"
  /\ pc' = [pc EXCEPT ![h] = "ack"]
  /\ \/ file' = [id |-> arg[h], synced |-> synced[h]]
     \/ UNCHANGED file
  /\ UNCHANGED <<wallet, up, mem, onDisk, arg, synced, n, stops, history>>

\* and gives it the name of the file.
Rename(h) ==
  /\ pc[h] = "rename"
  /\ pc' = [pc EXCEPT ![h] = "ack"]
  /\ file' = [id |-> arg[h], synced |-> synced[h]]
  /\ UNCHANGED <<wallet, up, mem, onDisk, arg, synced, n, stops, history>>

\* Any of these may fail: the temporary file is removed, the error returned,
\* and m.cfg stays as it is.
Fail(h) ==
  /\ pc[h] \in {"write", "sync", "rename"}
  /\ pc' = [pc EXCEPT ![h] = "idle"]
  /\ failed' = TRUE
  /\ UNCHANGED <<wallet, up, mem, disk, arg, synced, n, stops,
                 acked, before, obsolete, powerCut>>

\* After the restart of the miner, the handler answers "ok".
Ack(h) ==
  /\ pc[h] = "ack"
  /\ pc' = [pc EXCEPT ![h] = "idle"]
  /\ acked' = acked \cup {arg[h]}
  /\ obsolete' = obsolete \cup before[h]
  /\ UNCHANGED <<wallet, up, mem, disk, arg, synced, n, stops, before, failed, powerCut>>

-----------------------------------------------------------------------------
(* The process, the machine and its file system.                           *)

Stopped ==
  /\ stops < MaxStops
  /\ stops' = stops + 1
  /\ up' = FALSE
  /\ pc' = [h \in Handlers |-> "idle"]
  /\ UNCHANGED <<wallet, mem, arg, synced, n, acked, before, obsolete, failed>>

\* The process dies, or the container is rebuilt: the volume stays.
Kill == up /\ Stopped /\ UNCHANGED <<disk, powerCut>>

\* The machine loses power: the name is found as it last reached the disk, and
\* so is the file, if it was ever synced.
PowerLoss ==
  /\ Stopped
  /\ powerCut' = TRUE
  /\ file' \in {onDisk} \cup (IF onDisk.synced THEN {} ELSE {Torn})
  /\ UNCHANGED onDisk

\* The file system writes the directory back when it likes.
Flush ==
  /\ file # Torn
  /\ onDisk # file
  /\ onDisk' = file
  /\ UNCHANGED <<wallet, up, mem, file, pc, arg, synced, n, stops, history>>

\* Nothing is left to do within the bounds.
Ended ==
  /\ \A h \in Handlers : pc[h] = "idle"
  /\ stops = MaxStops
  /\ n = MaxUpdates \/ (~up /\ Load = 0 /\ ~wallet)
  /\ UNCHANGED vars

Next ==
  \/ Boot \/ Kill \/ PowerLoss \/ Flush \/ Ended
  \/ \E h \in Handlers :
       Begin(h) \/ Write(h) \/ Sync(h) \/ Rename(h) \/ Fail(h) \/ Ack(h)

Spec == Init /\ [][Next]_vars

-----------------------------------------------------------------------------
Quiet == \A h \in Handlers : pc[h] = "idle"

\* Whatever stops in the middle of a save, the file parses: it is the old one
\* or the new one (manager.go:143-159), and loadConfig never falls back to the
\* defaults because of a write of its own.
NeverTorn == file # Torn

\* No update that was answered comes back over one that was requested after
\* the answer and is answered too: not in the file, across any number of
\* process stops and of failed or concurrent saves, and not in m.cfg while the
\* process serves (manager.go:218-233).  A power failure is excepted: nothing
\* makes the directory reach the disk before the answer.
NoOldSettings ==
  ~powerCut => /\ file.id \notin obsolete
               /\ up /\ Quiet => mem \notin obsolete

\* __rebuild.sh:4-5, "Miner settings live in config/miner.json ... so they
\* survive a rebuild": when no update is in progress and none has failed, the
\* settings in use are those in the file, which a rebuild comes back with.
SettingsLiveInFile == up /\ Quiet /\ ~failed => mem = file.id
=============================================================================
