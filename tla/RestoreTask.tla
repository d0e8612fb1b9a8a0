---------------------------- MODULE RestoreTask ----------------------------
(***************************************************************************)
(* `task snapshot:restore`: the commands an operator's shell runs one      *)
(* after the other until one fails, and the restore Job they create.  The  *)
(* Job's script, like that of the snapshot, has no `set -e`.               *)
(***************************************************************************)
EXTENDS SnapshotJob

CONSTANT MaxRestores   (* bound: invocations of the task *)

ASSUME RestoreAssumption == MaxRestores \in Nat

VARIABLES
  tpc,      (* the command the task is at; "idle" between invocations      *)
  chosen,   (* the snapshot the task resolved; {} if it resolved none      *)
  rstatus,  (* the Job <app>-restore-snap                                  *)
  rid,      (* the snapshot in that Job's spec                             *)
  rpc,      (* the script line its container is at                         *)
  rconn,    (* its container is connected to the repository                *)
  rtries,   (* failed containers of the Job                                *)
  rok,      (* history: its last `kopia snap restore` succeeded            *)
  rfresh,   (* history: this invocation of the task created the Job        *)
  runs      (* invocations of the task so far                              *)

taskVars == << tpc, chosen, rfresh, runs >>
rjobVars == << rstatus, rid, rpc, rconn, rtries, rok >>
restoreVars == << taskVars, rjobVars >>

Commands == {"suspend", "scale", "waitGone", "apply", "waitJob", "resume",
             "cleanup"}
NoSnapshot == {}

RestoreTypeOK ==
  /\ tpc \in Commands \union {"idle"}
  /\ chosen \in Contents /\ rid \in Contents
  /\ rstatus \in {"none", "active", "complete", "failed"}
  /\ rpc \in {"off", "connect", "remove", "restore", "restoring", "disconnect"}
  /\ rtries \in 0 .. BackoffLimit
  /\ rconn \in BOOLEAN /\ rok \in BOOLEAN /\ rfresh \in BOOLEAN
  /\ runs \in 0 .. MaxRestores

RestoreInit ==
  /\ tpc = "idle" /\ chosen = NoSnapshot /\ rfresh = FALSE /\ runs = 0
  /\ rstatus = "none" /\ rid = NoSnapshot /\ rpc = "off"
  /\ rconn = FALSE /\ rtries = 0 /\ rok = FALSE

-----------------------------------------------------------------------------
(* The task, command by command. *)

(* The task's env is evaluated before its first command: SNAPSHOT is the id *)
(* given, or the last of `kopia snapshot list`.  NoSnapshot is the "null"   *)
(* of an empty list, the empty text of a kubectl exec that fails, and an id *)
(* that names no snapshot: kopia restores none of them.                     *)
TaskStart ==
  /\ tpc = "idle" /\ runs < MaxRestores
  /\ runs' = runs + 1
  /\ tpc' = "suspend"
  /\ rfresh' = FALSE
  /\ chosen' \in ToSet(snaps) \union {NoSnapshot}
  /\ UNCHANGED << rjobVars, snapVars, appVars >>

TaskSuspend ==
  /\ tpc = "suspend" /\ tpc' = "scale"
  /\ suspended' = TRUE
  /\ UNCHANGED << chosen, rfresh, runs, rjobVars, snapVars, vol, frozen,
                  writes, pod, replicas, pending, upgrading, staleApply,
                  changes >>

TaskScale ==
  /\ tpc = "scale" /\ tpc' = "waitGone"
  /\ replicas' = 0
  /\ UNCHANGED << chosen, rfresh, runs, rjobVars, snapVars, vol, frozen,
                  writes, pod, fluxVars >>

(* Fault injection, the wait for the pod's deletion dropped. *)
PodGoneUnawaited ==
  /\ tpc = "waitGone" /\ tpc' = "apply"
  /\ UNCHANGED << chosen, rfresh, runs, rjobVars, snapVars, appVars >>

TaskPodGone ==
  /\ tpc = "waitGone" /\ ~pod
  /\ tpc' = "apply"
  /\ UNCHANGED << chosen, rfresh, runs, rjobVars, snapVars, appVars >>

(* kubectl apply creates the Job, or finds one of the same name: unchanged  *)
(* if it names the same snapshot, an error (TaskAbort) if it does not,      *)
(* because a Job's template cannot be changed.                              *)
TaskApply ==
  /\ tpc = "apply" /\ tpc' = "waitJob"
  /\ \/ /\ rstatus = "none"
        /\ rstatus' = "active" /\ rid' = chosen
        /\ rtries' = 0 /\ rok' = FALSE
        /\ rfresh' = TRUE
        /\ UNCHANGED << rpc, rconn >>
     \/ /\ rstatus # "none" /\ rid = chosen
        /\ UNCHANGED << rfresh, rjobVars >>
  /\ UNCHANGED << chosen, runs, snapVars, appVars >>

(* Fault injection, the wait for the Job returns before it completes. *)
JobUnawaited ==
  /\ tpc = "waitJob" /\ tpc' = "resume"
  /\ UNCHANGED << chosen, rfresh, runs, rjobVars, snapVars, appVars >>

TaskJobComplete ==
  /\ tpc = "waitJob" /\ rstatus = "complete"
  /\ tpc' = "resume"
  /\ UNCHANGED << chosen, rfresh, runs, rjobVars, snapVars, appVars >>

TaskResume ==
  /\ tpc = "resume" /\ tpc' = "cleanup"
  /\ suspended' = FALSE
  /\ pending' = TRUE
  /\ UNCHANGED << chosen, rfresh, runs, rjobVars, snapVars, vol, frozen,
                  writes, pod, replicas, upgrading, staleApply, changes >>

(* kubectl logs and delete job.                                             *)
TaskCleanup ==
  /\ tpc = "cleanup" /\ rstatus # "none"
  /\ tpc' = "idle"
  /\ rstatus' = "none"
  /\ UNCHANGED << chosen, rfresh, runs, rid, rpc, rconn, rtries, rok,
                  snapVars, appVars >>

(* A command fails, one of the waits times out (2m, 60m), or the operator   *)
(* interrupts the task: none of the later commands runs.                    *)
TaskAbort ==
  /\ tpc # "idle"
  /\ tpc' = "idle"
  /\ UNCHANGED << chosen, rfresh, runs, rjobVars, snapVars, appVars >>

TaskNext ==
  \/ TaskStart \/ TaskSuspend \/ TaskScale \/ TaskPodGone \/ TaskApply
  \/ TaskJobComplete \/ TaskResume \/ TaskCleanup \/ TaskAbort

-----------------------------------------------------------------------------
(* The restore Job. *)

RestoreStart ==
  /\ rstatus = "active" /\ rpc = "off"
  /\ rpc' = "connect" /\ rconn' = FALSE
  /\ UNCHANGED << rstatus, rid, rtries, rok, taskVars, snapVars, appVars >>

RestoreRetry(line) ==
  /\ rconn' = FALSE
  /\ IF rtries < BackoffLimit
     THEN rtries' = rtries + 1 /\ rpc' = line /\ UNCHANGED rstatus
     ELSE rstatus' = "failed" /\ rpc' = "off" /\ UNCHANGED rtries

RestoreKill ==
  /\ "kill" \in Faults /\ kills < MaxKills
  /\ rpc # "off"
  /\ \E line \in {"connect", "off"} : RestoreRetry(line)
  /\ kills' = kills + 1
  /\ UNCHANGED << rid, rok, taskVars, repo, snaps, sstatus, spc, sconn,
                  sread, stries, appVars >>

(* ttlSecondsAfterFinished: 3600.                                           *)
RestoreExpire ==
  /\ rstatus \in {"complete", "failed"}
  /\ rstatus' = "none"
  /\ UNCHANGED << rid, rpc, rconn, rtries, rok, taskVars, snapVars, appVars >>

(* [01] *)
RestoreConnect ==
  /\ rpc = "connect" /\ rpc' = "remove"
  /\ \/ repo /\ rconn' = TRUE
     \/ (~repo \/ "connect" \in Faults) /\ UNCHANGED rconn
  /\ UNCHANGED << rstatus, rid, rtries, rok, taskVars, snapVars, appVars >>

(* [02] rm -rf: some files are gone, then all of them.  It blocks while the *)
(* volume is frozen, as does every other write.                             *)
RestoreRemove ==
  /\ rpc = "remove" /\ ~frozen
  /\ \/ vol' = vol \union Wiped /\ UNCHANGED rpc
     \/ vol' = Wiped /\ rpc' = "restore"
  /\ UNCHANGED << rstatus, rid, rconn, rtries, rok, taskVars, snapVars,
                  frozen, writes, pod, replicas, fluxVars >>

(* [03] copies the snapshot back, file by file ...                          *)
RestoreBegin ==
  /\ rpc = "restore" /\ rconn /\ rid \in ToSet(snaps) /\ ~frozen
  /\ rpc' = "restoring"
  /\ vol' = vol \union rid
  /\ UNCHANGED << rstatus, rid, rconn, rtries, rok, taskVars, snapVars,
                  frozen, writes, pod, replicas, fluxVars >>

RestoreEnd ==
  /\ rpc = "restoring" /\ ~frozen
  /\ rpc' = "disconnect"
  /\ vol' = rid
  /\ rok' = TRUE
  /\ UNCHANGED << rstatus, rid, rconn, rtries, taskVars, snapVars,
                  frozen, writes, pod, replicas, fluxVars >>

(* ... or fails, which the script does not notice.                          *)
RestoreFail ==
  /\ \/ rpc = "restore" /\ ~(rconn /\ rid \in ToSet(snaps))
     \/ rpc = "restoring" /\ "restore" \in Faults
  /\ rpc' = "disconnect"
  /\ rok' = FALSE
  /\ UNCHANGED << rstatus, rid, rconn, rtries, taskVars, snapVars, appVars >>

(* [04] decides the Job.                                                    *)
RestoreDisconnect ==
  /\ rpc = "disconnect"
  /\ IF rconn
     THEN /\ rstatus' = "complete" /\ rpc' = "off" /\ rconn' = FALSE
          /\ UNCHANGED rtries
     ELSE RestoreRetry("connect")
  /\ UNCHANGED << rid, rok, taskVars, snapVars, appVars >>

RestoreScript ==
  \/ RestoreConnect \/ RestoreRemove \/ RestoreBegin \/ RestoreEnd
  \/ RestoreFail \/ RestoreDisconnect

RestoreNext ==
  \/ TaskNext
  \/ RestoreStart \/ RestoreKill \/ RestoreExpire \/ RestoreScript
=============================================================================
