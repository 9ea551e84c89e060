---------------------------- MODULE MCSpecialist ----------------------------
(***************************************************************************)
(* Small instances of SpecialistSubgraph: one branch and the warm-up, of   *)
(* different domains, a document for each and one sample passage for each. *)
(***************************************************************************)
EXTENDS SpecialistSubgraph

MCDomainOf ==
  [c \in Callers |-> IF c = WarmUp THEN "airquality" ELSE "thermal"]

Passage(s, d, n) == [source |-> s, domain |-> d, pieces |-> n]

MCManifest == <<Passage("well-v2", "airquality", 2), Passage("en-16798", "thermal", 1)>>

MCSamples == <<Passage("ashrae-62.1", "airquality", 1), Passage("ashrae-55", "thermal", 1)>>
=============================================================================
