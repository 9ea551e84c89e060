--------------------------- MODULE MCIncidentGraph ---------------------------
(***************************************************************************)
(* Small instances of IncidentGraph: the plans a planner LLM may well      *)
(* return, the broken ones included.                                       *)
(***************************************************************************)
EXTENDS IncidentGraph

Task(i, d, ds) == [id |-> i, domain |-> d, deps |-> ds]

(* A diagnosis and a side effect that depends on it. *)
Chain == <<Task("S1", "airquality", {}), Task("S2", "thermal", {"S1"})>>
(* The advisory subtask comes first, both in one wave. *)
Parallel == <<Task("S1", "thermal", {}), Task("S2", "airquality", {})>>
(* Two subtasks that wait for each other behind one that is free. *)
Cycle == <<Task("S3", "lighting", {}), Task("S1", "airquality", {"S2"}),
           Task("S2", "airquality", {"S1"})>>
(* A dependency on an id the plan does not have. *)
Dangling == <<Task("S2", "airquality", {"S3"})>>
(* One id twice, a domain no specialist has. *)
Twice == <<Task("S2", "other", {}), Task("S2", "airquality", {})>>

AllPlans == {Chain, Parallel, Cycle, Dangling, Twice}
FewPlans == {Chain, Parallel, Cycle}
=============================================================================
