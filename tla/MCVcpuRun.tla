------------------------------ MODULE MCVcpuRun ------------------------------
(* Instances of VcpuRun for TLC: what the payload's threads do in each run. *)
EXTENDS VcpuRunInv
=============================================================================
