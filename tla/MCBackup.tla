------------------------------ MODULE MCBackup ------------------------------
(* Instances of Backup for TLC. *)
EXTENDS Backup

AllButFreeze == FaultKinds \ {"freeze"}
KillsOnly == {"connect", "snap", "kill", "reboot"}
NoFaults == {}
=============================================================================
