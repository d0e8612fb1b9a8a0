------------------------------- MODULE Backup -------------------------------
(***************************************************************************)
(* Backup and recovery of one volume: the application, Flux, the daily     *)
(* snapshot Job and the operator's restore task, all acting on the same    *)
(* volume and the same Kopia repository.                                   *)
(***************************************************************************)
EXTENDS RestoreTask

vars == << appVars, snapVars, restoreVars >>

Init == AppInit /\ SnapInit /\ RestoreInit

TypeOK == AppTypeOK /\ SnapTypeOK /\ RestoreTypeOK

(* The node reboots: its containers are gone, and so is the freeze, which   *)
(* lives in the kernel.                                                     *)
NodeReboot ==
  /\ "reboot" \in Faults /\ kills < MaxKills
  /\ kills' = kills + 1
  /\ frozen' = FALSE
  /\ pod' = FALSE
  /\ IF spc = "off" THEN UNCHANGED << sstatus, spc, sconn, sread, stries >>
                    ELSE Fail("off")
  /\ IF rpc = "off" THEN UNCHANGED << rstatus, rpc, rconn, rtries >>
                    ELSE RestoreRetry("off")
  /\ UNCHANGED << vol, writes, replicas, fluxVars, repo, snaps, taskVars,
                  rid, rok >>

Next ==
  \/ AppNext /\ UNCHANGED << snapVars, restoreVars >>
  \/ SnapNext /\ UNCHANGED restoreVars
  \/ RestoreNext
  \/ NodeReboot

Spec == Init /\ [][Next]_vars

(* What the cluster does by itself, and keeps doing: controllers act, the   *)
(* schedule fires every day, a running script goes on.  Nothing is assumed  *)
(* of the operator, of git, or of the application's writes.                 *)
Fairness ==
  /\ WF_vars((PodStart \/ PodStop) /\ UNCHANGED << snapVars, restoreVars >>)
  /\ WF_vars((UpgradeBegin \/ UpgradeApply)
             /\ UNCHANGED << snapVars, restoreVars >>)
  /\ WF_vars(CronFire /\ UNCHANGED restoreVars)
  /\ WF_vars(SnapStart /\ UNCHANGED restoreVars)
  /\ WF_vars(Script /\ UNCHANGED restoreVars)
  /\ WF_vars(RestoreStart)
  /\ WF_vars(RestoreScript)

FairSpec == Spec /\ Fairness

-----------------------------------------------------------------------------
(* Properties. *)

(* A snapshot is of one moment: whatever kopia has read of the volume is    *)
(* still what the volume holds, however the application, a restore Job,     *)
(* kills and restarts of the snapshot's container interleave with it.       *)
PointInTime == spc = "snapping" => sread = vol

(* The freeze is never left behind by a Job that reports success: a frozen  *)
(* volume belongs to a Job that is running, or has used up its retries.     *)
FreezeOwned == frozen => sstatus \in {"active", "failed"}

(* The application is not running while a restore Job may still remove or   *)
(* write its files, also after the task was interrupted or run again.  The  *)
(* one way around the suspend is an upgrade that began before it.           *)
RestoreExclusive == rstatus = "active" /\ pod => staleApply

(* The release is resumed on exactly the snapshot that was asked for, if    *)
(* this invocation of the task created the Job and its restore command      *)
(* succeeded, whatever else happened to the volume in between.              *)
ResumeRestored ==
  [][ suspended /\ ~suspended' /\ rfresh /\ rok /\ ~staleApply
        => vol = chosen ]_vars

(* A volume that gets frozen is thawed again: the last line of the recovery *)
(* from a kill between freeze and unfreeze is the next container's.         *)
FreezeEnds == frozen ~> ~frozen

-----------------------------------------------------------------------------
(* The inductive strengthening of PointInTime, FreezeOwned,                 *)
(* RestoreExclusive and ResumeRestored.                                     *)

(* A running script belongs to an active Job, and holds the freeze exactly  *)
(* over the lines from [05] to [06].                                        *)
FreezeBracketsSnapshot ==
  /\ spc # "off" => sstatus = "active"
  /\ spc \in {"snap", "snapping", "unfreeze"} /\ "freeze" \notin Faults
       => frozen
  /\ spc = "disconnect" => ~frozen

(* Each command of the task leaves what the later ones rely on in place.    *)
TaskOrder ==
  /\ tpc = "resume" => rstatus # "active"
  /\ ~staleApply =>
       /\ tpc \in {"scale", "waitGone", "apply"} => suspended
       /\ tpc \in {"waitGone", "apply"} => replicas = 0
       /\ tpc = "apply" => ~pod
       /\ rstatus = "active" => suspended /\ replicas = 0 /\ ~pod

(* This invocation's Job has completed, and the release is not yet resumed. *)
Restored ==
  /\ rfresh
  /\ tpc = "resume" \/ (tpc = "waitJob" /\ rstatus = "complete")

(* From the copy's success to the resume, the volume is the snapshot: the   *)
(* Job that a completed wait speaks of is the one that copied it, and what  *)
(* keeps the application away outlives the Job.                             *)
RestoredKept ==
  /\ rpc # "off" => rstatus = "active"
  /\ tpc = "cleanup" => rstatus # "active"
  /\ tpc \in {"suspend", "scale", "waitGone", "apply"} => ~rfresh
  /\ rfresh /\ tpc \in {"waitJob", "resume"} => rid = chosen
  /\ rok /\ ~staleApply =>
       /\ rpc = "disconnect" => vol = rid
       /\ Restored => vol = rid /\ suspended /\ replicas = 0 /\ ~pod

FreezeInv == FreezeBracketsSnapshot /\ FreezeOwned
SnapshotInv == "freeze" \notin Faults => PointInTime

-----------------------------------------------------------------------------
(* The abstract specification: every snapshot is the volume at an instant.  *)
History == INSTANCE VolumeHistory
             WITH Contents <- Contents, vol <- vol, snaps <- snaps
AtomicSnapshots == History!Spec

(* What the README says of recovery: the release is resumed only on a       *)
(* volume that holds the chosen snapshot.                                   *)
ResumeMeansRestored ==
  [][ suspended /\ ~suspended' => vol = chosen ]_vars
=============================================================================
