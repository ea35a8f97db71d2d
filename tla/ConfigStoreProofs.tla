-------------------------- MODULE ConfigStoreProofs --------------------------
(***************************************************************************)
(* The settings file, for any number of handlers, updates and stops.  That *)
(* it parses rests on the order of Sync and Rename; that no old settings   *)
(* return rests on each save having a file of its own, so that what is     *)
(* renamed has not been answered yet.                                      *)
(***************************************************************************)
EXTENDS ConfigStore, TLAPS

Busy(h) == pc[h] # "idle"

\* An update in progress has its own number, which has not been answered.
NumberInv ==
  /\ acked \subseteq 1..n
  /\ \A h \in Handlers : Busy(h) => /\ up
                                    /\ arg[h] \in 1..n
                                    /\ arg[h] \notin acked
                                    /\ before[h] \subseteq acked
  /\ \A g, h \in Handlers : Busy(g) /\ Busy(h) /\ g # h => arg[g] # arg[h]

\* Nothing gets the name of the file that was not synced.
SyncInv ==
  /\ file \in Files /\ file.synced = TRUE /\ onDisk.synced = TRUE
  /\ \A h \in Handlers : pc[h] = "rename" => synced[h] = TRUE

\* What h finds answered when it begins is not in m.cfg afterwards, and not
\* in the file once h has renamed its own.
OldInv ==
  /\ \A h \in Handlers : Busy(h) => mem \notin before[h]
  /\ ~powerCut => /\ file.id \notin obsolete
                  /\ up => mem \notin obsolete
                  /\ \A h \in Handlers : pc[h] = "ack" => file.id \notin before[h]

IInv == TypeOK /\ NumberInv /\ SyncInv /\ OldInv

-----------------------------------------------------------------------------
LEMMA InitIInv == Init => IInv
<1> SUFFICES ASSUME Init PROVE IInv
  OBVIOUS
<1>1. TypeOK
  <2>1. wallet \in BOOLEAN /\ file \in Files /\ onDisk \in Files
    BY StoreAssumption DEF Init, Files, Settings
  <2>2. 0 \in Settings /\ 0 \in 0..MaxStops
    BY StoreAssumption DEF Settings
  <2>3. /\ pc \in [Handlers -> {"idle", "write", "sync", "rename", "ack"}]
        /\ arg \in [Handlers -> Settings]
        /\ synced \in [Handlers -> BOOLEAN]
        /\ before \in [Handlers -> SUBSET Updates]
    BY <2>2 DEF Init
  <2> QED
    BY <2>1, <2>2, <2>3 DEF Init, TypeOK
<1>2. NumberInv /\ SyncInv /\ OldInv
  BY StoreAssumption DEF Init, NumberInv, SyncInv, OldInv, Busy, Files, Settings
<1> QED
  BY <1>1, <1>2 DEF IInv

LEMMA LoadType ==
  ASSUME IInv
  PROVE  Load \in Settings /\ (Load = file.id \/ Load = 0)
  BY StoreAssumption DEF IInv, TypeOK, Load, Settings, Files, SyncInv

\* The steps of one handler.
LEMMA HandlerStep ==
  ASSUME IInv, NEW h \in Handlers,
         Begin(h) \/ Write(h) \/ Sync(h) \/ Rename(h) \/ Fail(h) \/ Ack(h)
  PROVE  IInv'
<1> USE StoreAssumption DEF Busy, Settings, Updates, Files, disk, history
<1>0. TypeOK /\ NumberInv /\ SyncInv /\ OldInv
  BY DEF IInv
<1>1. CASE Begin(h)
  <2>1. n + 1 \in Updates /\ n' = n + 1 /\ n + 1 \notin acked
    BY <1>0, <1>1 DEF Begin, TypeOK, NumberInv
  <2>2. TypeOK'
    BY <1>0, <1>1, <2>1 DEF Begin, TypeOK
  <2>3. NumberInv'
    BY <1>0, <1>1, <2>1 DEF Begin, TypeOK, NumberInv
  <2>4. SyncInv'
    BY <1>0, <1>1 DEF Begin, TypeOK, SyncInv
  <2>5. OldInv'
    BY <1>0, <1>1, <2>1 DEF Begin, TypeOK, NumberInv, OldInv
  <2> QED
    BY <2>2, <2>3, <2>4, <2>5 DEF IInv
<1>2. CASE Write(h) \/ Sync(h) \/ Fail(h)
  <2>1. TypeOK'
    <3>1. CASE Write(h)
      BY <1>0, <3>1 DEF Write, TypeOK
    <3>2. CASE Sync(h)
      BY <1>0, <3>2 DEF Sync, TypeOK
    <3>3. CASE Fail(h)
      BY <1>0, <3>3 DEF Fail, TypeOK
    <3> QED
      BY <1>2, <3>1, <3>2, <3>3
  <2>2. NumberInv'
    BY <1>0, <1>2 DEF Write, Sync, Fail, TypeOK, NumberInv
  <2>3. SyncInv'
    BY <1>0, <1>2 DEF Write, Sync, Fail, TypeOK, SyncInv
  <2>4. OldInv'
    BY <1>0, <1>2 DEF Write, Sync, Fail, TypeOK, OldInv
  <2> QED
    BY <2>1, <2>2, <2>3, <2>4 DEF IInv
<1>3. CASE Rename(h)
  <2>1. synced[h] = TRUE /\ file' = [id |-> arg[h], synced |-> TRUE]
    BY <1>0, <1>3 DEF Rename, TypeOK, SyncInv
  <2>2. TypeOK'
    <3>1. file' \in Files
      BY <1>0, <2>1 DEF TypeOK
    <3> QED
      BY <1>0, <1>3, <3>1 DEF Rename, TypeOK
  <2>3. NumberInv'
    BY <1>0, <1>3 DEF Rename, TypeOK, NumberInv
  <2>4. SyncInv'
    BY <1>0, <1>3, <2>1 DEF Rename, TypeOK, SyncInv
  <2>5. arg[h] \notin acked /\ obsolete \subseteq acked
        /\ \A g \in Handlers : Busy(g) => before[g] \subseteq acked
    BY <1>0, <1>3 DEF Rename, TypeOK, NumberInv
  <2>6. OldInv'
    BY <1>0, <1>3, <2>1, <2>5 DEF Rename, TypeOK, OldInv
  <2> QED
    BY <2>2, <2>3, <2>4, <2>6 DEF IInv
<1>4. CASE Ack(h)
  <2>0. /\ arg[h] \in 1..n /\ arg[h] \notin acked /\ before[h] \subseteq acked
        /\ \A g \in Handlers : Busy(g) /\ g # h => arg[g] # arg[h]
    BY <1>0, <1>4 DEF Ack, NumberInv
  <2>1. TypeOK'
    <3>1. arg[h] \in Updates
      BY <1>0, <2>0 DEF TypeOK
    <3> QED
      BY <1>0, <1>4, <2>0, <3>1 DEF Ack, TypeOK
  <2>2. NumberInv'
    <3>1. \A g \in Handlers : Busy(g)' => g # h /\ Busy(g)
      BY <1>0, <1>4 DEF Ack, TypeOK
    <3> QED
      BY <1>0, <1>4, <2>0, <3>1 DEF Ack, NumberInv
  <2>3. SyncInv'
    BY <1>0, <1>4 DEF Ack, TypeOK, SyncInv
  <2>4. OldInv'
    BY <1>0, <1>4 DEF Ack, TypeOK, OldInv
  <2> QED
    BY <2>1, <2>2, <2>3, <2>4 DEF IInv
<1> QED
  BY <1>1, <1>2, <1>3, <1>4

\* The process, the machine and its file system.
LEMMA SystemStep ==
  ASSUME IInv, Boot \/ Kill \/ PowerLoss \/ Flush
  PROVE  IInv'
<1> USE StoreAssumption DEF Busy, Settings, Updates, Files, disk, history
<1>0. TypeOK /\ NumberInv /\ SyncInv /\ OldInv
  BY DEF IInv
<1>1. CASE Boot
  <2>1. Load \in Settings /\ (Load = file.id \/ Load = 0)
    BY LoadType
  <2>2. TypeOK'
    BY <1>0, <1>1, <2>1 DEF Boot, TypeOK
  <2>3. NumberInv'
    BY <1>0, <1>1 DEF Boot, NumberInv
  <2>4. SyncInv'
    BY <1>0, <1>1 DEF Boot, SyncInv
  <2>5. 0 \notin obsolete
    BY <1>0 DEF TypeOK
  <2>6. OldInv'
    BY <1>0, <1>1, <2>1, <2>5 DEF Boot, NumberInv, OldInv
  <2> QED
    BY <2>2, <2>3, <2>4, <2>6 DEF IInv
<1>2. CASE Kill
  <2>1. TypeOK'
    <3>1. stops' \in 0..MaxStops
      BY <1>0, <1>2 DEF Kill, Stopped, TypeOK
    <3>2. pc' \in [Handlers -> {"idle", "write", "sync", "rename", "ack"}]
      BY <1>2 DEF Kill, Stopped
    <3> QED
      BY <1>0, <1>2, <3>1, <3>2 DEF Kill, Stopped, TypeOK
  <2>2. NumberInv' /\ OldInv'
    BY <1>0, <1>2 DEF Kill, Stopped, NumberInv, OldInv
  <2>3. SyncInv'
    BY <1>0, <1>2 DEF Kill, Stopped, SyncInv
  <2> QED
    BY <2>1, <2>2, <2>3 DEF IInv
<1>3. CASE PowerLoss
  <2>1. file' = onDisk /\ UNCHANGED onDisk /\ powerCut'
    BY <1>0, <1>3 DEF PowerLoss, SyncInv
  <2>2. TypeOK'
    <3>1. stops' \in 0..MaxStops
      BY <1>0, <1>3 DEF PowerLoss, Stopped, TypeOK
    <3>2. pc' \in [Handlers -> {"idle", "write", "sync", "rename", "ack"}]
      BY <1>3 DEF PowerLoss, Stopped
    <3>3. powerCut' = TRUE
      BY <1>3 DEF PowerLoss
    <3> QED
      BY <1>0, <1>3, <2>1, <3>1, <3>2, <3>3 DEF PowerLoss, Stopped, TypeOK
  <2>3. NumberInv' /\ OldInv'
    BY <1>0, <1>3, <2>1 DEF PowerLoss, Stopped, NumberInv, OldInv
  <2>4. SyncInv'
    BY <1>0, <1>3, <2>1 DEF PowerLoss, Stopped, SyncInv, TypeOK
  <2> QED
    BY <2>2, <2>3, <2>4 DEF IInv
<1>4. CASE Flush
  <2>1. TypeOK'
    BY <1>0, <1>4 DEF Flush, TypeOK, SyncInv
  <2>2. NumberInv' /\ OldInv' /\ SyncInv'
    BY <1>0, <1>4 DEF Flush, NumberInv, OldInv, SyncInv
  <2> QED
    BY <2>1, <2>2 DEF IInv
<1> QED
  BY <1>1, <1>2, <1>3, <1>4

LEMMA Unmoved == ASSUME IInv, UNCHANGED vars PROVE IInv'
<1> USE DEF IInv, vars, disk, history
<1>1. TypeOK'
  BY DEF TypeOK
<1>2. NumberInv' /\ SyncInv' /\ OldInv'
  BY DEF NumberInv, SyncInv, OldInv, Busy
<1> QED
  BY <1>1, <1>2

LEMMA NextIInv == IInv /\ [Next]_vars => IInv'
<1> SUFFICES ASSUME IInv, [Next]_vars PROVE IInv'
  OBVIOUS
<1>1. CASE \E h \in Handlers :
             Begin(h) \/ Write(h) \/ Sync(h) \/ Rename(h) \/ Fail(h) \/ Ack(h)
  BY <1>1, HandlerStep
<1>2. CASE Boot \/ Kill \/ PowerLoss \/ Flush
  BY <1>2, SystemStep
<1>3. CASE Ended \/ UNCHANGED vars
  BY <1>3, Unmoved DEF Ended
<1> QED
  BY <1>1, <1>2, <1>3 DEF Next

LEMMA Inductive == Spec => []IInv
  BY InitIInv, NextIInv, PTL DEF Spec

-----------------------------------------------------------------------------
\* Settings in use, in the file or on their way to it are those of updates that
\* were requested, and only such updates are ever answered.
THEOREM StoreTypeCorrect == Spec => []TypeOK
  BY Inductive, PTL DEF IInv

\* Whatever number of saves, failures and stops of process or machine meet, the
\* settings file parses (saveConfig).
THEOREM FileCorrect == Spec => []NeverTorn
<1>1. IInv => NeverTorn
  BY StoreAssumption DEF IInv, SyncInv, NeverTorn, Torn, Files, Settings, Invalid
<1> QED
  BY <1>1, Inductive, PTL

\* No answered update comes back, in the file or in m.cfg, over one that was
\* requested after the answer and answered too, unless the power failed.
THEOREM AnswersHold == Spec => []NoOldSettings
<1>1. IInv => NoOldSettings
  BY DEF IInv, OldInv, NoOldSettings
<1> QED
  BY <1>1, Inductive, PTL
=============================================================================
