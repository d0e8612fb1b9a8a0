----------------------------- MODULE AppVolume -----------------------------
(***************************************************************************)
(* One application of the cluster and the PersistentVolume it writes to:   *)
(* the pod, the replica count of its workload, the Flux HelmRelease that   *)
(* owns the workload, and the volume itself.  The snapshot job and the     *)
(* restore task, modelled in SnapshotJob and RestoreTask, share this       *)
(* state.                                                                  *)
(*                                                                         *)
(* The contents of a volume are the set of versions whose data it holds:   *)
(* the application numbers its states 1, 2, ..., version 0 stands for      *)
(* missing files.  {v} is the state v, {0} a wiped volume, and a set of    *)
(* several versions a mixture: half removed, half restored, or a copy made *)
(* while the application was writing.                                      *)
(***************************************************************************)
EXTENDS Integers, Sequences, FiniteSets

CONSTANTS
  MaxWrites,    (* bound: states the application writes                    *)
  MaxUpgrades,  (* bound: helm upgrades caused by a change in git          *)
  Faults        (* what may go wrong in this environment                   *)

FaultKinds == {"connect", "freeze", "snap", "restore", "kill", "reboot"}

ASSUME VolumeAssumption ==
  /\ MaxWrites \in Nat \ {0}
  /\ MaxUpgrades \in Nat
  /\ Faults \subseteq FaultKinds

VARIABLES
  vol,        (* the contents of the volume                                *)
  frozen,     (* fsfreeze holds the filesystem: every write to it blocks   *)
  writes,     (* states the application has written so far                 *)
  pod,        (* an application pod exists                                 *)
  replicas,   (* the workload's replica count: 0 or 1                      *)
  suspended,  (* spec.suspend of the HelmRelease                           *)
  pending,    (* the HelmRelease differs from the last applied one         *)
  upgrading,  (* helm-controller is inside an upgrade                      *)
  staleApply, (* history: an upgrade was applied to a suspended release    *)
  changes     (* changes in git so far                                     *)

appVars == << vol, frozen, writes, pod, replicas, suspended, pending,
              upgrading, staleApply, changes >>
fluxVars == << suspended, pending, upgrading, staleApply, changes >>

Versions == 0 .. MaxWrites
Wiped == {0}
Contents == SUBSET Versions

AppTypeOK ==
  /\ vol \in Contents
  /\ writes \in Versions
  /\ replicas \in {0, 1}
  /\ changes \in 0 .. MaxUpgrades
  /\ frozen \in BOOLEAN /\ pod \in BOOLEAN /\ suspended \in BOOLEAN
  /\ pending \in BOOLEAN /\ upgrading \in BOOLEAN /\ staleApply \in BOOLEAN

AppInit ==
  /\ vol = {1} /\ writes = 1
  /\ frozen = FALSE
  /\ pod = TRUE /\ replicas = 1
  /\ suspended = FALSE /\ pending = FALSE
  /\ upgrading = FALSE /\ staleApply = FALSE
  /\ changes = 0

-----------------------------------------------------------------------------
(* The application. *)

(* The application reaches a new state.  A write to a frozen filesystem     *)
(* blocks in the kernel until it is thawed.                                 *)
AppWrite ==
  /\ pod /\ ~frozen
  /\ writes < MaxWrites
  /\ writes' = writes + 1
  /\ vol' = {writes + 1}
  /\ UNCHANGED << frozen, pod, replicas, fluxVars >>

(* The workload controller follows the replica count. *)
PodStart ==
  /\ replicas = 1 /\ ~pod
  /\ pod' = TRUE
  /\ UNCHANGED << vol, frozen, writes, replicas, fluxVars >>

PodStop ==
  /\ replicas = 0 /\ pod
  /\ pod' = FALSE
  /\ UNCHANGED << vol, frozen, writes, replicas, fluxVars >>

-----------------------------------------------------------------------------
(* Flux.  An upgrade reads spec.suspend when it begins and patches the      *)
(* workload when it ends, so that a suspend in between does not stop it.    *)

GitChange ==
  /\ changes < MaxUpgrades
  /\ changes' = changes + 1
  /\ pending' = TRUE
  /\ UNCHANGED << vol, frozen, writes, pod, replicas, suspended, upgrading,
                  staleApply >>

UpgradeBegin ==
  /\ pending /\ ~suspended /\ ~upgrading
  /\ upgrading' = TRUE
  /\ pending' = FALSE
  /\ UNCHANGED << vol, frozen, writes, pod, replicas, suspended, staleApply,
                  changes >>

UpgradeApply ==
  /\ upgrading
  /\ upgrading' = FALSE
  /\ replicas' = 1
  /\ staleApply' = (staleApply \/ suspended)
  /\ UNCHANGED << vol, frozen, writes, pod, suspended, pending, changes >>

AppNext ==
  \/ AppWrite \/ PodStart \/ PodStop
  \/ GitChange \/ UpgradeBegin \/ UpgradeApply
=============================================================================
