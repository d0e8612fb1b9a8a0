---------------------------- MODULE BackupProofs ----------------------------
(***************************************************************************)
(* Proofs about Backup, for every bound and every set of faults.           *)
(***************************************************************************)
EXTENDS Backup, TLAPS

(* The constants are what their assumptions say. *)
LEMMA Constants ==
  /\ MaxWrites \in Nat \ {0} /\ MaxUpgrades \in Nat
  /\ KeepLatest \in Nat \ {0} /\ BackoffLimit \in Nat /\ MaxKills \in Nat
  /\ MaxRestores \in Nat
BY VolumeAssumption, SnapshotAssumption, RestoreAssumption
   DEF VolumeAssumption, SnapshotAssumption, RestoreAssumption

(* Contents of a volume combine to contents of a volume. *)
LEMMA ContentsClosed ==
  /\ {} \in Contents /\ Wiped \in Contents
  /\ \A c, d \in Contents : c \union d \in Contents
  /\ \A v \in Versions : {v} \in Contents
BY Constants DEF Contents, Versions, Wiped

(* Retention neither changes the type of the snapshot list nor lets it grow *)
(* beyond KeepLatest.                                                       *)
LEMMA RetainType ==
  ASSUME NEW S, NEW s \in Seq(S), Len(s) <= KeepLatest, NEW e \in S
  PROVE  /\ Retain(Append(s, e)) \in Seq(S)
         /\ Len(Retain(Append(s, e))) <= KeepLatest
BY Constants DEF Retain

(* A member of a list of snapshots has the type of the snapshots. *)
LEMMA SnapshotType ==
  ASSUME NEW S, NEW s \in Seq(S), NEW c \in ToSet(s)
  PROVE  c \in S
BY DEF ToSet
(* The counters of failed containers and of kills stay within their bounds. *)
LEMMA CounterBounds ==
  /\ 0 \in 0 .. BackoffLimit /\ 0 \in 0 .. MaxKills
  /\ \A n \in 0 .. BackoffLimit : n < BackoffLimit => n + 1 \in 0 .. BackoffLimit
  /\ \A n \in 0 .. MaxKills : n < MaxKills => n + 1 \in 0 .. MaxKills
BY Constants

LEMMA FailBound ==
  ASSUME NEW line, stries \in 0 .. BackoffLimit, Fail(line)
  PROVE  stries' \in 0 .. BackoffLimit
BY CounterBounds DEF Fail

LEMMA RetryBound ==
  ASSUME NEW line, rtries \in 0 .. BackoffLimit, RestoreRetry(line)
  PROVE  rtries' \in 0 .. BackoffLimit
BY CounterBounds DEF RestoreRetry
-----------------------------------------------------------------------------
(* Every variable of Backup keeps its type. *)
THEOREM TypeCorrect == Spec => []TypeOK
<1>1. Init => TypeOK
  <2> SUFFICES ASSUME Init PROVE TypeOK
    OBVIOUS
  <2>1. AppTypeOK
    <3>1. 1 \in Versions /\ 0 \in 0 .. MaxUpgrades
      BY Constants DEF Versions
    <3>2. {1} \in Contents
      BY <3>1, ContentsClosed
    <3> QED BY <3>1, <3>2 DEF Init, AppInit, AppTypeOK
  <2>2. SnapTypeOK
    <3>1. << >> \in Seq(Contents) /\ Len(<< >>) <= KeepLatest
      BY Constants
    <3> QED BY <3>1, CounterBounds, ContentsClosed
            DEF Init, SnapInit, SnapTypeOK
  <2>3. RestoreTypeOK
    <3>1. 0 \in 0 .. MaxRestores
      BY Constants
    <3> QED BY <3>1, CounterBounds, ContentsClosed
            DEF Init, RestoreInit, RestoreTypeOK, NoSnapshot
  <2> QED BY <2>1, <2>2, <2>3 DEF TypeOK
<1>2. TypeOK /\ [Next]_vars => TypeOK'
  <2> SUFFICES ASSUME TypeOK, [Next]_vars PROVE TypeOK'
    OBVIOUS
  <2>T. AppTypeOK /\ SnapTypeOK /\ RestoreTypeOK
    BY DEF TypeOK
  <2>E. {} \in Contents
    BY ContentsClosed
  <2>1. CASE AppNext /\ UNCHANGED << snapVars, restoreVars >>
    <3>1. AppTypeOK'
      <4>1. CASE AppWrite
        <5>1. writes' \in Versions
          BY <4>1, <2>T, Constants DEF AppTypeOK, AppWrite, Versions
        <5> QED BY <4>1, <5>1, <2>T, ContentsClosed
                DEF AppTypeOK, AppWrite, fluxVars
      <4>2. CASE GitChange
        <5>1. changes' \in 0 .. MaxUpgrades
          BY <4>2, <2>T, Constants DEF AppTypeOK, GitChange
        <5> QED BY <4>2, <5>1, <2>T DEF AppTypeOK, GitChange
      <4>3. CASE PodStart \/ PodStop \/ UpgradeBegin \/ UpgradeApply
        BY <4>3, <2>T
           DEF AppTypeOK, PodStart, PodStop, UpgradeBegin, UpgradeApply, fluxVars
      <4> QED BY <2>1, <4>1, <4>2, <4>3 DEF AppNext
    <3>2. SnapTypeOK'
      BY <2>1, <2>T DEF SnapTypeOK, snapVars
    <3>3. RestoreTypeOK'
      BY <2>1, <2>T DEF RestoreTypeOK, restoreVars, taskVars, rjobVars
    <3> QED BY <3>1, <3>2, <3>3 DEF TypeOK
  <2>2. CASE SnapNext /\ UNCHANGED restoreVars
    <3>1. AppTypeOK'
      BY <2>2, <2>T
         DEF AppTypeOK, SnapNext, CronFire, SnapStart, SnapKill, Script,
             CreateRepo, Connect, Freeze, SnapBegin, SnapEnd, SnapFail,
             Unfreeze, Disconnect, appVars, fluxVars
    <3>2. SnapTypeOK'
      <4>1. CASE CronFire \/ SnapStart
        <5>1. stries' \in 0 .. BackoffLimit
          BY <4>1, <2>T, CounterBounds DEF SnapTypeOK, CronFire, SnapStart
        <5> QED BY <4>1, <5>1, <2>T, <2>E
                DEF SnapTypeOK, CronFire, SnapStart, Lines
      <4>2. CASE SnapKill
        <5>1. PICK line \in {"create", "off"} : Fail(line)
          BY <4>2 DEF SnapKill
        <5>2. stries' \in 0 .. BackoffLimit
          BY <5>1, <2>T, FailBound DEF SnapTypeOK
        <5>3. kills' \in 0 .. MaxKills
          BY <4>2, <2>T, CounterBounds DEF SnapTypeOK, SnapKill
        <5> QED BY <4>2, <5>1, <5>2, <5>3, <2>T, <2>E
                DEF SnapTypeOK, SnapKill, Fail, Lines
      <4>3. CASE CreateRepo \/ Connect \/ Freeze \/ Unfreeze
        BY <4>3, <2>T
           DEF SnapTypeOK, CreateRepo, Connect, Freeze, Unfreeze, Goto, Lines
      <4>4. CASE SnapBegin \/ SnapFail
        BY <4>4, <2>T, <2>E
           DEF AppTypeOK, SnapTypeOK, SnapBegin, SnapFail, Goto, Lines
      <4>5. CASE SnapEnd
        <5>1. sread \union vol \in Contents
          BY <2>T, ContentsClosed DEF AppTypeOK, SnapTypeOK
        <5>2. snaps' \in Seq(Contents) /\ Len(snaps') <= KeepLatest
          BY <4>5, <5>1, <2>T, RetainType DEF SnapTypeOK, SnapEnd
        <5> QED BY <4>5, <5>2, <2>T, <2>E
                DEF SnapTypeOK, SnapEnd, Goto, Lines
      <4>6. CASE Disconnect
        <5>1. stries' \in 0 .. BackoffLimit
          BY <4>6, <2>T, FailBound DEF SnapTypeOK, Disconnect
        <5> QED BY <4>6, <5>1, <2>T, <2>E
                DEF SnapTypeOK, Disconnect, Fail, Goto, Lines
      <4> QED BY <2>2, <4>1, <4>2, <4>3, <4>4, <4>5, <4>6
              DEF SnapNext, Script
    <3>3. RestoreTypeOK'
      BY <2>2, <2>T DEF RestoreTypeOK, restoreVars, taskVars, rjobVars
    <3> QED BY <3>1, <3>2, <3>3 DEF TypeOK
  <2>3. CASE RestoreNext
    <3>1. AppTypeOK'
      <4>1. CASE TaskNext
        BY <4>1, <2>T
           DEF AppTypeOK, TaskNext, TaskStart, TaskSuspend, TaskScale,
               TaskPodGone, TaskApply, TaskJobComplete, TaskResume,
               TaskCleanup, TaskAbort, appVars, fluxVars
      <4>2. CASE RestoreRemove \/ RestoreBegin \/ RestoreEnd
        BY <4>2, <2>T, ContentsClosed
           DEF AppTypeOK, RestoreTypeOK, RestoreRemove, RestoreBegin,
               RestoreEnd, fluxVars
      <4>3. CASE RestoreStart \/ RestoreKill \/ RestoreExpire
                   \/ RestoreConnect \/ RestoreFail \/ RestoreDisconnect
        BY <4>3, <2>T
           DEF AppTypeOK, RestoreStart, RestoreKill, RestoreExpire,
               RestoreConnect, RestoreFail, RestoreDisconnect, appVars, fluxVars
      <4> QED BY <2>3, <4>1, <4>2, <4>3 DEF RestoreNext, RestoreScript
    <3>2. SnapTypeOK'
      <4>1. CASE RestoreKill
        <5>1. kills' \in 0 .. MaxKills
          BY <4>1, <2>T, CounterBounds DEF SnapTypeOK, RestoreKill
        <5> QED BY <4>1, <5>1, <2>T DEF SnapTypeOK, RestoreKill
      <4>2. CASE RestoreNext /\ ~RestoreKill
        BY <4>2, <2>T
           DEF SnapTypeOK, RestoreNext, TaskNext, TaskStart, TaskSuspend,
               TaskScale, TaskPodGone, TaskApply, TaskJobComplete, TaskResume,
               TaskCleanup, TaskAbort, RestoreStart, RestoreExpire,
               RestoreScript, RestoreConnect, RestoreRemove, RestoreBegin,
               RestoreEnd, RestoreFail, RestoreDisconnect, snapVars
      <4> QED BY <2>3, <4>1, <4>2
    <3>3. RestoreTypeOK'
      <4>1. CASE TaskStart
        <5>1. chosen' \in Contents
          BY <4>1, <2>T, SnapshotType, ContentsClosed
             DEF SnapTypeOK, TaskStart, NoSnapshot
        <5>2. runs' \in 0 .. MaxRestores
          BY <4>1, <2>T, Constants DEF RestoreTypeOK, TaskStart
        <5> QED BY <4>1, <5>1, <5>2, <2>T
                DEF RestoreTypeOK, TaskStart, Commands, rjobVars
      <4>2. CASE TaskApply
        <5>1. rtries' \in 0 .. BackoffLimit
          BY <4>2, <2>T, CounterBounds DEF RestoreTypeOK, TaskApply, rjobVars
        <5> QED BY <4>2, <5>1, <2>T
                DEF RestoreTypeOK, TaskApply, Commands, rjobVars
      <4>3. CASE TaskNext /\ ~TaskStart /\ ~TaskApply
        BY <4>3, <2>T
           DEF RestoreTypeOK, TaskNext, TaskSuspend, TaskScale, TaskPodGone,
               TaskJobComplete, TaskResume, TaskCleanup, TaskAbort, Commands,
               rjobVars
      <4>4. CASE RestoreStart \/ RestoreExpire \/ RestoreConnect
                   \/ RestoreRemove \/ RestoreBegin \/ RestoreEnd
                   \/ RestoreFail
        BY <4>4, <2>T
           DEF RestoreTypeOK, RestoreStart, RestoreExpire, RestoreConnect,
               RestoreRemove, RestoreBegin, RestoreEnd, RestoreFail, taskVars
      <4>5. CASE RestoreKill \/ RestoreDisconnect
        <5>1. rtries' \in 0 .. BackoffLimit
          BY <4>5, <2>T, RetryBound
             DEF RestoreTypeOK, RestoreKill, RestoreDisconnect
        <5> QED BY <4>5, <5>1, <2>T
                DEF RestoreTypeOK, RestoreKill, RestoreDisconnect,
                    RestoreRetry, taskVars
      <4> QED BY <2>3, <4>1, <4>2, <4>3, <4>4, <4>5
              DEF RestoreNext, RestoreScript
    <3> QED BY <3>1, <3>2, <3>3 DEF TypeOK
  <2>4. CASE NodeReboot
    <3>1. AppTypeOK'
      BY <2>4, <2>T DEF AppTypeOK, NodeReboot, fluxVars
    <3>2. SnapTypeOK'
      <4>1. stries' \in 0 .. BackoffLimit
        BY <2>4, <2>T, FailBound DEF SnapTypeOK, NodeReboot
      <4>2. kills' \in 0 .. MaxKills
        BY <2>4, <2>T, CounterBounds DEF SnapTypeOK, NodeReboot
      <4> QED BY <2>4, <4>1, <4>2, <2>T, <2>E DEF SnapTypeOK, NodeReboot, Fail
    <3>3. RestoreTypeOK'
      <4>1. rtries' \in 0 .. BackoffLimit
        BY <2>4, <2>T, RetryBound DEF RestoreTypeOK, NodeReboot
      <4> QED BY <2>4, <4>1, <2>T
              DEF RestoreTypeOK, NodeReboot, RestoreRetry, taskVars
    <3> QED BY <3>1, <3>2, <3>3 DEF TypeOK
  <2>5. CASE UNCHANGED vars
    <3>1. AppTypeOK'
      BY <2>5, <2>T DEF vars, appVars, AppTypeOK
    <3>2. SnapTypeOK'
      BY <2>5, <2>T DEF vars, snapVars, SnapTypeOK
    <3>3. RestoreTypeOK'
      BY <2>5, <2>T DEF vars, restoreVars, taskVars, rjobVars, RestoreTypeOK
    <3> QED BY <3>1, <3>2, <3>3 DEF TypeOK
  <2> QED BY <2>1, <2>2, <2>3, <2>4, <2>5 DEF Next
<1> QED BY <1>1, <1>2, PTL DEF Spec
-----------------------------------------------------------------------------
(* The script holds the freeze exactly from [04] to [06], whatever else     *)
(* happens, and no Job that reports success leaves the volume frozen.       *)
LEMMA FreezeInvariant == Spec => []FreezeInv
<1>1. Init => FreezeInv
  BY DEF Init, AppInit, SnapInit, FreezeInv, FreezeBracketsSnapshot,
         FreezeOwned
<1>2. FreezeInv /\ [Next]_vars => FreezeInv'
  <2> SUFFICES ASSUME FreezeInv, [Next]_vars PROVE FreezeInv'
    OBVIOUS
  <2> USE DEF FreezeInv, FreezeBracketsSnapshot, FreezeOwned
  <2>1. CASE AppNext /\ UNCHANGED << snapVars, restoreVars >>
    BY <2>1 DEF AppNext, AppWrite, PodStart, PodStop, GitChange, UpgradeBegin,
         UpgradeApply, snapVars
  <2>2. CASE SnapNext /\ UNCHANGED restoreVars
    <3>1. CASE CronFire \/ SnapStart
      BY <3>1 DEF CronFire, SnapStart, appVars
    <3>2. CASE SnapKill
      BY <3>2 DEF SnapKill, Fail, appVars
    <3>3. CASE CreateRepo \/ Connect \/ Freeze
      BY <3>3 DEF CreateRepo, Connect, Freeze, At, Goto, appVars
    <3>4. CASE SnapBegin \/ SnapEnd \/ SnapFail
      BY <3>4 DEF SnapBegin, SnapEnd, SnapFail, At, Goto, appVars
    <3>5. CASE Unfreeze \/ Disconnect
      BY <3>5 DEF Unfreeze, Disconnect, Fail, At, Goto, appVars
    <3> QED BY <2>2, <3>1, <3>2, <3>3, <3>4, <3>5 DEF SnapNext, Script
  <2>3. CASE RestoreNext
    <3>1. UNCHANGED << frozen, sstatus, spc >>
      BY <2>3 DEF RestoreNext, TaskNext, TaskStart, TaskSuspend, TaskScale,
           TaskPodGone, TaskApply, TaskJobComplete, TaskResume, TaskCleanup,
           TaskAbort, RestoreStart, RestoreKill, RestoreExpire, RestoreScript,
           RestoreConnect, RestoreRemove, RestoreBegin, RestoreEnd,
           RestoreFail, RestoreDisconnect, snapVars, appVars
    <3> QED BY <3>1
  <2>4. CASE NodeReboot
    BY <2>4 DEF NodeReboot, Fail
  <2>5. CASE UNCHANGED vars
    BY <2>5 DEF vars, appVars, snapVars
  <2> QED BY <2>1, <2>2, <2>3, <2>4, <2>5 DEF Next
<1> QED BY <1>1, <1>2, PTL DEF Spec

(* While kopia reads a volume that can be frozen, the volume does not       *)
(* change: neither the application nor a restore Job can write to it.       *)
LEMMA SnapshotInvariant == Spec => []SnapshotInv
<1>1. Init => SnapshotInv
  BY DEF Init, SnapInit, SnapshotInv, PointInTime
<1>2. SnapshotInv /\ FreezeInv /\ [Next]_vars => SnapshotInv'
  <2> SUFFICES ASSUME "freeze" \notin Faults, PointInTime, FreezeInv,
                      [Next]_vars
               PROVE  PointInTime'
    BY DEF SnapshotInv
  <2>F. spc = "snapping" => frozen
    BY DEF FreezeInv, FreezeBracketsSnapshot
  <2>1. CASE AppNext /\ UNCHANGED << snapVars, restoreVars >>
    BY <2>1, <2>F DEF PointInTime, AppNext, AppWrite, PodStart, PodStop,
         GitChange, UpgradeBegin, UpgradeApply, snapVars
  <2>2. CASE SnapNext /\ UNCHANGED restoreVars
    BY <2>2 DEF PointInTime, SnapNext, CronFire, SnapStart, SnapKill, Fail,
         Script, CreateRepo, Connect, Freeze, SnapBegin, SnapEnd, SnapFail,
         Unfreeze, Disconnect, At, Goto, appVars
  <2>3. CASE RestoreNext
    <3>1. CASE RestoreRemove \/ RestoreBegin \/ RestoreEnd
      BY <3>1, <2>F DEF PointInTime, RestoreRemove, RestoreBegin, RestoreEnd,
           snapVars
    <3>2. CASE ~(RestoreRemove \/ RestoreBegin \/ RestoreEnd)
      BY <2>3, <3>2 DEF PointInTime, RestoreNext, TaskNext, TaskStart,
           TaskSuspend, TaskScale, TaskPodGone, TaskApply, TaskJobComplete,
           TaskResume, TaskCleanup, TaskAbort, RestoreStart, RestoreKill,
           RestoreExpire, RestoreScript, RestoreConnect, RestoreFail,
           RestoreDisconnect, snapVars, appVars
    <3> QED BY <3>1, <3>2
  <2>4. CASE NodeReboot
    BY <2>4 DEF PointInTime, NodeReboot, Fail
  <2>5. CASE UNCHANGED vars
    BY <2>5 DEF PointInTime, vars, appVars, snapVars
  <2> QED BY <2>1, <2>2, <2>3, <2>4, <2>5 DEF Next
<1> QED BY <1>1, <1>2, FreezeInvariant, PTL DEF Spec

(* A snapshot is of one moment, on every volume that can be frozen. *)
THEOREM SnapshotCorrect == "freeze" \notin Faults => (Spec => []PointInTime)
<1> SUFFICES ASSUME "freeze" \notin Faults PROVE Spec => []PointInTime
  OBVIOUS
<1>1. SnapshotInv => PointInTime
  BY DEF SnapshotInv
<1> QED BY <1>1, SnapshotInvariant, PTL

(* No Job that reports success leaves the volume frozen. *)
THEOREM FreezeCorrect == Spec => []FreezeOwned
<1>1. FreezeInv => FreezeOwned
  BY DEF FreezeInv
<1> QED BY <1>1, FreezeInvariant, PTL
-----------------------------------------------------------------------------
(* Each command of the task finds what the earlier ones have left.          *)
LEMMA TaskOrderInvariant == Spec => []TaskOrder
<1>1. Init => TaskOrder
  BY DEF Init, AppInit, RestoreInit, TaskOrder
<1>2. TypeOK /\ TaskOrder /\ [Next]_vars => TaskOrder'
  <2> SUFFICES ASSUME TypeOK, TaskOrder, [Next]_vars PROVE TaskOrder'
    OBVIOUS
  <2>1. CASE AppNext /\ UNCHANGED << snapVars, restoreVars >>
    <3>1. CASE AppWrite \/ PodStart \/ PodStop \/ GitChange \/ UpgradeBegin
      BY <2>1, <3>1 DEF TaskOrder, AppWrite, PodStart, PodStop, GitChange,
           UpgradeBegin, restoreVars, taskVars, rjobVars, fluxVars
    <3>2. CASE UpgradeApply
      <4>1. ~staleApply' => ~staleApply /\ ~suspended
        BY <3>2 DEF UpgradeApply
      <4>2. UNCHANGED << tpc, rstatus, suspended, pod >>
        BY <2>1, <3>2 DEF UpgradeApply, restoreVars, taskVars, rjobVars
      <4> QED BY <4>1, <4>2 DEF TaskOrder
    <3> QED BY <2>1, <3>1, <3>2 DEF AppNext
  <2>2. CASE SnapNext /\ UNCHANGED restoreVars
    <3>1. UNCHANGED << replicas, pod, suspended, staleApply >>
      BY <2>2 DEF SnapNext, CronFire, SnapStart, SnapKill, Script, CreateRepo,
           Connect, Freeze, SnapBegin, SnapEnd, SnapFail, Unfreeze,
           Disconnect, appVars, fluxVars
    <3> QED BY <2>2, <3>1 DEF TaskOrder, restoreVars, taskVars, rjobVars
  <2>3. CASE RestoreNext
    <3>1. CASE TaskStart \/ TaskSuspend \/ TaskScale \/ TaskPodGone
      BY <3>1 DEF TaskOrder, TaskStart, TaskSuspend, TaskScale, TaskPodGone,
           rjobVars, appVars, fluxVars
    <3>2. CASE TaskApply \/ TaskJobComplete
      BY <3>2 DEF TaskOrder, TaskApply, TaskJobComplete, rjobVars, appVars
    <3>3. CASE TaskResume \/ TaskCleanup \/ TaskAbort
      BY <3>3 DEF TaskOrder, TaskResume, TaskCleanup, TaskAbort, rjobVars,
           appVars
    <3>4. CASE RestoreStart \/ RestoreKill \/ RestoreExpire
      BY <3>4 DEF TaskOrder, RestoreStart, RestoreKill, RestoreExpire,
           RestoreRetry, taskVars, appVars
    <3>5. CASE RestoreScript
      BY <3>5 DEF TaskOrder, RestoreScript, RestoreConnect, RestoreRemove,
           RestoreBegin, RestoreEnd, RestoreFail, RestoreDisconnect,
           RestoreRetry, taskVars, appVars, fluxVars
    <3> QED BY <2>3, <3>1, <3>2, <3>3, <3>4, <3>5 DEF RestoreNext, TaskNext
  <2>4. CASE NodeReboot
    BY <2>4 DEF TaskOrder, NodeReboot, RestoreRetry, taskVars, fluxVars
  <2>5. CASE UNCHANGED vars
    BY <2>5 DEF TaskOrder, vars, appVars, restoreVars, taskVars, rjobVars
  <2> QED BY <2>1, <2>2, <2>3, <2>4, <2>5 DEF Next
<1> QED BY <1>1, <1>2, TypeCorrect, PTL DEF Spec

(* The application never runs while a restore Job is active, but for an     *)
(* upgrade that began before the suspend and was applied after it.          *)
THEOREM RestoreCorrect == Spec => []RestoreExclusive
<1>1. TaskOrder => RestoreExclusive
  BY DEF TaskOrder, RestoreExclusive
<1> QED BY <1>1, TaskOrderInvariant, PTL
-----------------------------------------------------------------------------
(* What the copy has put on the volume stays there until the resume. *)
LEMMA RestoredInvariant == Spec => []RestoredKept
<1>1. Init => RestoredKept
  BY DEF Init, RestoreInit, RestoredKept, Restored
<1>2. TypeOK /\ TaskOrder /\ RestoredKept /\ [Next]_vars => RestoredKept'
  <2> SUFFICES ASSUME TypeOK, TaskOrder, RestoredKept, [Next]_vars
               PROVE  RestoredKept'
    OBVIOUS
  <2>S. rstatus = "active" /\ ~staleApply => suspended /\ replicas = 0 /\ ~pod
    BY DEF TaskOrder
  <2>1. CASE AppNext /\ UNCHANGED << snapVars, restoreVars >>
    <3>1. UNCHANGED << tpc, chosen, rfresh, rstatus, rid, rpc, rok >>
      BY <2>1 DEF restoreVars, taskVars, rjobVars
    <3>2. CASE AppWrite \/ PodStart \/ PodStop \/ GitChange \/ UpgradeBegin
      BY <3>1, <3>2, <2>S DEF RestoredKept, Restored, AppWrite, PodStart,
           PodStop, GitChange, UpgradeBegin, fluxVars
    <3>3. CASE UpgradeApply
      <4>1. ~staleApply' => ~staleApply /\ ~suspended
        BY <3>3 DEF UpgradeApply
      <4>2. UNCHANGED << vol, suspended, pod >>
        BY <3>3 DEF UpgradeApply
      <4> QED BY <3>1, <4>1, <4>2, <2>S DEF RestoredKept, Restored
    <3> QED BY <2>1, <3>2, <3>3 DEF AppNext
  <2>2. CASE SnapNext /\ UNCHANGED restoreVars
    <3>1. UNCHANGED << vol, replicas, pod, suspended, staleApply >>
      BY <2>2 DEF SnapNext, CronFire, SnapStart, SnapKill, Script, CreateRepo,
           Connect, Freeze, SnapBegin, SnapEnd, SnapFail, Unfreeze,
           Disconnect, appVars, fluxVars
    <3> QED BY <2>2, <3>1
            DEF RestoredKept, Restored, restoreVars, taskVars, rjobVars
  <2>3. CASE RestoreNext
    <3>1. CASE TaskStart \/ TaskSuspend \/ TaskScale \/ TaskPodGone
      BY <3>1 DEF RestoredKept, Restored, TaskStart, TaskSuspend, TaskScale,
           TaskPodGone, rjobVars, appVars, fluxVars
    <3>2. CASE TaskApply
      <4>1. UNCHANGED << vol, replicas, pod, suspended, staleApply, rpc, chosen >>
        BY <3>2 DEF TaskApply, rjobVars, appVars, fluxVars
      <4>2. ~rfresh /\ tpc' = "waitJob"
        BY <3>2 DEF TaskApply, RestoredKept
      <4>3. CASE rstatus = "none"
        BY <3>2, <4>1, <4>2, <4>3 DEF TaskApply, RestoredKept, Restored
      <4>4. CASE rstatus # "none"
        BY <3>2, <4>1, <4>2, <4>4
           DEF TaskApply, RestoredKept, Restored, rjobVars
      <4> QED BY <4>3, <4>4
    <3>3. CASE TaskJobComplete
      BY <3>3 DEF RestoredKept, Restored, TaskJobComplete, rjobVars, appVars
    <3>4. CASE TaskResume \/ TaskCleanup \/ TaskAbort
      BY <3>4 DEF RestoredKept, Restored, TaskOrder, TaskResume, TaskCleanup,
           TaskAbort, rjobVars, appVars
    <3>5. CASE RestoreStart \/ RestoreKill \/ RestoreExpire
      BY <3>5 DEF RestoredKept, Restored, RestoreStart, RestoreKill,
           RestoreExpire, RestoreRetry, taskVars, appVars
    <3>6. CASE RestoreConnect \/ RestoreRemove \/ RestoreBegin
      BY <3>6 DEF RestoredKept, Restored, TaskOrder, RestoreConnect,
           RestoreRemove, RestoreBegin, taskVars, appVars, fluxVars
    <3>7. CASE RestoreEnd \/ RestoreFail
      BY <3>7, <2>S DEF RestoredKept, Restored, TaskOrder, RestoreEnd,
           RestoreFail, taskVars, appVars, fluxVars
    <3>8. CASE RestoreDisconnect
      BY <3>8, <2>S DEF RestoredKept, Restored, TaskOrder, RestoreDisconnect,
           RestoreRetry, taskVars, appVars, fluxVars
    <3> QED BY <2>3, <3>1, <3>2, <3>3, <3>4, <3>5, <3>6, <3>7, <3>8
            DEF RestoreNext, TaskNext, RestoreScript
  <2>4. CASE NodeReboot
    BY <2>4 DEF RestoredKept, Restored, NodeReboot, RestoreRetry, taskVars,
         fluxVars
  <2>5. CASE UNCHANGED vars
    BY <2>5 DEF RestoredKept, Restored, vars, appVars, restoreVars, taskVars,
         rjobVars
  <2> QED BY <2>1, <2>2, <2>3, <2>4, <2>5 DEF Next
<1> QED BY <1>1, <1>2, TypeCorrect, TaskOrderInvariant, PTL DEF Spec

(* An invocation whose Job copied the snapshot resumes the release on       *)
(* exactly that snapshot, unless an upgrade went past the suspend.          *)
THEOREM ResumeCorrect == Spec => ResumeRestored
<1>1. RestoredKept /\ [Next]_vars
        => [suspended /\ ~suspended' /\ rfresh /\ rok /\ ~staleApply
              => vol = chosen]_vars
  <2> SUFFICES ASSUME RestoredKept, [Next]_vars, suspended, ~suspended',
                      rfresh, rok, ~staleApply
               PROVE  vol = chosen
    OBVIOUS
  <2>1. TaskResume
    <3>1. ~(AppNext /\ UNCHANGED << snapVars, restoreVars >>)
      BY DEF AppNext, AppWrite, PodStart, PodStop, GitChange, UpgradeBegin,
         UpgradeApply, fluxVars
    <3>2. ~(SnapNext /\ UNCHANGED restoreVars)
      BY DEF SnapNext, CronFire, SnapStart, SnapKill, Script, CreateRepo,
         Connect, Freeze, SnapBegin, SnapEnd, SnapFail, Unfreeze, Disconnect,
         appVars, fluxVars
    <3>3. ~NodeReboot /\ ~UNCHANGED vars
      BY DEF NodeReboot, vars, appVars, fluxVars
    <3>4. RestoreNext => TaskResume
      BY DEF RestoreNext, TaskNext, TaskStart, TaskSuspend, TaskScale,
         TaskPodGone, TaskApply, TaskJobComplete, TaskCleanup, TaskAbort,
         RestoreStart, RestoreKill, RestoreExpire, RestoreScript,
         RestoreConnect, RestoreRemove, RestoreBegin, RestoreEnd, RestoreFail,
         RestoreDisconnect, appVars, fluxVars
    <3> QED BY <3>1, <3>2, <3>3, <3>4 DEF Next
  <2> QED BY <2>1 DEF TaskResume, RestoredKept, Restored
<1> QED BY <1>1, RestoredInvariant, PTL DEF Spec, ResumeRestored
-----------------------------------------------------------------------------
(* Where volumes can be frozen, the backup implements the abstract history: *)
(* every snapshot is a copy of the volume at one instant.                   *)
THEOREM HistoryCorrect == "freeze" \notin Faults => (Spec => AtomicSnapshots)
<1> SUFFICES ASSUME "freeze" \notin Faults PROVE Spec => AtomicSnapshots
  OBVIOUS
<1>1. Init => History!Init
  <2>1. Init => vol = {1} /\ snaps = << >>
    BY DEF Init, AppInit, SnapInit
  <2>2. {1} \in Contents
    BY Constants DEF Contents, Versions
  <2> QED BY <2>1, <2>2 DEF History!Init
<1>2. SnapshotInv /\ TypeOK' /\ [Next]_vars => [History!Next]_History!history
  <2> SUFFICES ASSUME PointInTime, vol' \in Contents, [Next]_vars
               PROVE  [History!Next]_History!history
    BY DEF SnapshotInv, TypeOK, AppTypeOK
  <2>1. CASE SnapEnd
    <3>1. snaps' = Retain(Append(snaps, vol)) /\ vol' = vol
      BY <2>1 DEF SnapEnd, PointInTime, At, appVars
    <3> QED BY <3>1 DEF Retain, History!Next, History!Take
  <2>2. CASE ~SnapEnd
    <3>1. snaps' = snaps
      <4>1. CASE AppNext /\ UNCHANGED << snapVars, restoreVars >>
        BY <4>1 DEF snapVars
      <4>2. CASE SnapNext /\ UNCHANGED restoreVars
        BY <4>2, <2>2 DEF SnapNext, CronFire, SnapStart, SnapKill, Script,
             CreateRepo, Connect, Freeze, SnapBegin, SnapFail, Unfreeze,
             Disconnect
      <4>3. CASE RestoreNext
        BY <4>3 DEF RestoreNext, TaskNext, TaskStart, TaskSuspend, TaskScale,
             TaskPodGone, TaskApply, TaskJobComplete, TaskResume,
             TaskCleanup, TaskAbort, RestoreStart, RestoreKill,
             RestoreExpire, RestoreScript, RestoreConnect, RestoreRemove,
             RestoreBegin, RestoreEnd, RestoreFail, RestoreDisconnect,
             snapVars
      <4>4. CASE NodeReboot
        BY <4>4 DEF NodeReboot
      <4>5. CASE UNCHANGED vars
        BY <4>5 DEF vars, snapVars
      <4> QED BY <4>1, <4>2, <4>3, <4>4, <4>5 DEF Next
    <3> QED BY <3>1 DEF History!Next, History!Change, History!history
  <2> QED BY <2>1, <2>2
<1> QED BY <1>1, <1>2, SnapshotInvariant, TypeCorrect, PTL
        DEF Spec, AtomicSnapshots, History!Spec
=============================================================================
