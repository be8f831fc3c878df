---------------------------- MODULE MCWorkPlane -----------------------------
(* Instances of the work plane for TLC: one workload of two partitions and,   *)
(* behind it in the queue, one of a single partition.                         *)
EXTENDS WorkPlane

CONSTANTS big, small

TwoWorkloads == <<big, big, small>>
OneWorkload == <<big, big>>
=============================================================================
