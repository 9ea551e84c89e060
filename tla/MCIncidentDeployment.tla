------------------------ MODULE MCIncidentDeployment ------------------------
(***************************************************************************)
(* Small instances of IncidentDeployment: one sensor of each tier.         *)
(***************************************************************************)
EXTENDS IncidentDeployment
=============================================================================
