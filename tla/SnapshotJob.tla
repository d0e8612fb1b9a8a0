---------------------------- MODULE SnapshotJob ----------------------------
(***************************************************************************)
(* The CronJob Kyverno generates for every PersistentVolumeClaim labelled  *)
(* snapshot.home.arpa/enabled, and the script its Job runs.  The script    *)
(* has no `set -e`: a failing line does not stop it, and the exit status   *)
(* of its last line, `kopia repo disconnect`, is the status of the Job.    *)
(***************************************************************************)
EXTENDS AppVolume, SequencesExt

CONSTANTS
  KeepLatest,    (* snapshots the retention policy keeps                   *)
  BackoffLimit,  (* retries of a Job before Kubernetes fails it            *)
  MaxKills       (* bound: containers and pods killed                      *)

ASSUME SnapshotAssumption ==
  /\ KeepLatest \in Nat \ {0}
  /\ BackoffLimit \in Nat
  /\ MaxKills \in Nat

VARIABLES
  repo,     (* kopia.repository.f exists on the NAS                        *)
  snaps,    (* the snapshots of the volume, oldest first: their contents   *)
  sstatus,  (* the Job of the current schedule period                      *)
  spc,      (* the script line the Job's container is at                   *)
  sconn,    (* its container is connected to the repository                *)
  sread,    (* what `kopia snap create` has read of the volume so far      *)
  stries,   (* failed containers of the Job                                *)
  kills     (* kills so far                                                *)

snapVars == << repo, snaps, sstatus, spc, sconn, sread, stries, kills >>

Lines == {"create", "connect", "freeze", "snap", "snapping", "unfreeze",
          "disconnect"}

SnapTypeOK ==
  /\ repo \in BOOLEAN
  /\ snaps \in Seq(Contents) /\ Len(snaps) <= KeepLatest
  /\ sstatus \in {"none", "active", "complete", "failed"}
  /\ spc \in Lines \union {"off"}
  /\ sconn \in BOOLEAN
  /\ sread \in Contents
  /\ stries \in 0 .. BackoffLimit
  /\ kills \in 0 .. MaxKills

SnapInit ==
  /\ repo = FALSE
  /\ snaps = << >>
  /\ sstatus = "none" /\ spc = "off"
  /\ sconn = FALSE /\ sread = {} /\ stries = 0 /\ kills = 0

(* Fault injection, line [03] dropped: nothing expires. *)
RetainAll(s) == s

(* The newest snapshots survive `kopia policy set --keep-latest`.  The      *)
(* daily, weekly, monthly and annual tiers keep a few older ones as well;   *)
(* no property is about those.                                              *)
Retain(s) == SubSeq(s, IF Len(s) > KeepLatest THEN 2 ELSE 1, Len(s))

-----------------------------------------------------------------------------
(* The CronJob and the Job controller. *)

(* The schedule fires.  concurrencyPolicy Forbid skips it while the last    *)
(* Job is active.                                                           *)
CronFire ==
  /\ sstatus # "active"
  /\ sstatus' = "active"
  /\ stries' = 0
  /\ UNCHANGED << repo, snaps, spc, sconn, sread, kills, appVars >>

(* The Job's pod is scheduled.  Its podAffinity is required: without a pod  *)
(* of the application there is no node for it.                              *)
SnapStart ==
  /\ sstatus = "active" /\ spc = "off" /\ pod
  /\ spc' = "create"
  /\ sconn' = FALSE /\ sread' = {}
  /\ UNCHANGED << repo, snaps, sstatus, stries, kills, appVars >>

(* A container ends without success: the Job restarts it (`line` is where   *)
(* the replacement is) until the retries are used up.                       *)
Fail(line) ==
  /\ sconn' = FALSE /\ sread' = {}
  /\ IF stries < BackoffLimit
     THEN stries' = stries + 1 /\ spc' = line /\ UNCHANGED sstatus
     ELSE sstatus' = "failed" /\ spc' = "off" /\ UNCHANGED stries

(* The container is killed (out of memory) and restarted in its pod, or the *)
(* pod is lost (drain, eviction) and the Job creates a new one.  Neither    *)
(* thaws the volume.                                                        *)
SnapKill ==
  /\ "kill" \in Faults /\ kills < MaxKills
  /\ spc # "off"
  /\ \E line \in {"create", "off"} : Fail(line)
  /\ kills' = kills + 1
  /\ UNCHANGED << repo, snaps, appVars >>

-----------------------------------------------------------------------------
(* The script, line by line. *)

At(line) == spc = line
Goto(line) == spc' = line

(* [01] creates the repository if the NAS has none; that connects to it.    *)
CreateRepo ==
  /\ At("create") /\ Goto("connect")
  /\ \/ /\ repo \/ "connect" \in Faults
        /\ UNCHANGED << repo, sconn >>
     \/ /\ ~repo
        /\ repo' = TRUE /\ sconn' = TRUE
  /\ UNCHANGED << snaps, sstatus, sread, stries, kills, appVars >>

(* [02] and [03].  A connection needs a repository and a reachable NAS.     *)
Connect ==
  /\ At("connect") /\ Goto("freeze")
  /\ \/ repo /\ sconn' = TRUE
     \/ (~repo \/ "connect" \in Faults) /\ UNCHANGED sconn
  /\ UNCHANGED << repo, snaps, sstatus, sread, stries, kills, appVars >>

(* Fault injection, line [04] dropped. *)
FreezeSkipped ==
  /\ At("freeze") /\ Goto("snap")
  /\ UNCHANGED << repo, snaps, sstatus, sconn, sread, stries, kills, appVars >>

(* [04] fsfreeze -f.  On a volume an earlier container left frozen it fails *)
(* and changes nothing; the fault is a filesystem that cannot be frozen.    *)
Freeze ==
  /\ At("freeze") /\ Goto("snap")
  /\ \/ frozen' = TRUE
     \/ "freeze" \in Faults /\ UNCHANGED frozen
  /\ UNCHANGED << repo, snaps, sstatus, sconn, sread, stries, kills, vol,
                  writes, pod, replicas, fluxVars >>

(* [05] kopia snap create reads the volume for a while ...                  *)
SnapBegin ==
  /\ At("snap") /\ sconn
  /\ Goto("snapping")
  /\ sread' = vol
  /\ UNCHANGED << repo, snaps, sstatus, sconn, stries, kills, appVars >>

(* ... and records what it read, or fails.                                  *)
SnapEnd ==
  /\ At("snapping") /\ Goto("unfreeze")
  /\ snaps' = Retain(Append(snaps, sread \union vol))
  /\ sread' = {}
  /\ UNCHANGED << repo, sstatus, sconn, stries, kills, appVars >>

SnapFail ==
  /\ \/ At("snap") /\ ~sconn
     \/ At("snapping") /\ "snap" \in Faults
  /\ Goto("unfreeze")
  /\ sread' = {}
  /\ UNCHANGED << repo, snaps, sstatus, sconn, stries, kills, appVars >>

(* Fault injection, line [06] dropped. *)
UnfreezeSkipped ==
  /\ At("unfreeze") /\ Goto("disconnect")
  /\ UNCHANGED << repo, snaps, sstatus, sconn, sread, stries, kills, appVars >>

(* [06] fsfreeze -u; [07] to [09] only print.                               *)
Unfreeze ==
  /\ At("unfreeze") /\ Goto("disconnect")
  /\ frozen' = FALSE
  /\ UNCHANGED << repo, snaps, sstatus, sconn, sread, stries, kills, vol,
                  writes, pod, replicas, fluxVars >>

(* [10] decides the Job: there is nothing to disconnect from, and the       *)
(* container fails, only if the connection failed.                          *)
Disconnect ==
  /\ At("disconnect")
  /\ IF sconn
     THEN /\ sstatus' = "complete" /\ Goto("off") /\ sconn' = FALSE
          /\ UNCHANGED << sread, stries >>
     ELSE Fail("create")
  /\ UNCHANGED << repo, snaps, kills, appVars >>

Script ==
  \/ CreateRepo \/ Connect \/ Freeze \/ SnapBegin \/ SnapEnd \/ SnapFail
  \/ Unfreeze \/ Disconnect

SnapNext == CronFire \/ SnapStart \/ SnapKill \/ Script
=============================================================================
