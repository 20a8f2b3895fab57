----------------------------- MODULE MCCpuUsage -----------------------------
(***************************************************************************)
(* A small instance of CpuUsage: two processors and a few ticks.           *)
(***************************************************************************)
EXTENDS CpuUsage
=============================================================================
