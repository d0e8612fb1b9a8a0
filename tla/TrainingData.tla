---------------------------- MODULE TrainingData ----------------------------
(***************************************************************************)
(* What becomes of the data sets that the notebook downloads: each is       *)
(* begun, and then either finished or left as it is for good.  Nothing but  *)
(* its removal by the user gives a data set that was left another chance.   *)
(***************************************************************************)
CONSTANT Datasets

VARIABLES
  data,  \* how much there is of each: "absent", "partial" or "whole"
  left   \* those that were left before they were whole

Init == data = [d \in Datasets |-> "absent"] /\ left = {}

Begin(d) ==
  /\ data[d] = "absent"
  /\ data' = [data EXCEPT ![d] = "partial"]
  /\ UNCHANGED left

Finish(d) ==
  /\ data[d] = "partial"
  /\ d \notin left
  /\ data' = [data EXCEPT ![d] = "whole"]
  /\ UNCHANGED left

Leave(d) ==
  /\ data[d] = "partial"
  /\ left' = left \cup {d}
  /\ UNCHANGED data

Remove(d) ==
  /\ data[d] # "absent"
  /\ data' = [data EXCEPT ![d] = "absent"]
  /\ left' = left \ {d}

Next == \E d \in Datasets : Begin(d) \/ Finish(d) \/ Leave(d) \/ Remove(d)

Spec == Init /\ [][Next]_<<data, left>>
=============================================================================
