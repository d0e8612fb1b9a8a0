--------------------------- MODULE VolumeHistory ---------------------------
(***************************************************************************)
(* What a backup of a volume promises, without jobs, freezes or restarts:  *)
(* a snapshot is a copy of the whole volume at one instant, and the newest *)
(* KeepLatest of them are there to restore.                                *)
(***************************************************************************)
EXTENDS Integers, Sequences

CONSTANTS Contents, KeepLatest

VARIABLES vol, snaps

history == << vol, snaps >>

Init == vol \in Contents /\ snaps = << >>

(* The application or a restore changes the volume. *)
Change == vol' \in Contents /\ UNCHANGED snaps

(* A snapshot is taken. *)
Take ==
  /\ LET s == Append(snaps, vol)
     IN  snaps' = SubSeq(s, IF Len(s) > KeepLatest THEN 2 ELSE 1, Len(s))
  /\ UNCHANGED vol

Next == Change \/ Take

Spec == Init /\ [][Next]_history
=============================================================================
