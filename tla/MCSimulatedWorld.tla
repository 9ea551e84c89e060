-------------------------- MODULE MCSimulatedWorld --------------------------
(***************************************************************************)
(* Small instances of SimulatedWorld: one sensor of each tier.             *)
(***************************************************************************)
EXTENDS SimulatedWorld
=============================================================================
