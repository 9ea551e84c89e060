--------------------------- MODULE SubtaskContract ---------------------------
(***************************************************************************)
(* What the main graph relies on when it hands a subtask to a specialist:  *)
(* it gathers, which only adds to its evidence and may add nothing, then   *)
(* judges what it has, and either answers on just that or refines the      *)
(* question, at most MaxRewrites times, and gathers again; it ends with a  *)
(* diagnosis, with a failed subtask or with an error.  SpecialistSubgraph  *)
(* implements this specification.                                          *)
(***************************************************************************)
EXTENDS Naturals

CONSTANTS
  Branches,    \* the concurrent subtasks
  MaxRewrites  \* MAX_REWRITES

VARIABLES
  phase,     \* how far a branch has come
  rewrites,  \* refinements so far
  evidence   \* what it has gathered

contract == <<phase, rewrites, evidence>>

Ended == {"diagnosed", "failed", "raised"}
Phases == {"gathering", "judging", "refining", "answering"} \cup Ended

Init ==
  /\ phase = [b \in Branches |-> "gathering"]
  /\ rewrites = [b \in Branches |-> 0]
  /\ evidence = [b \in Branches |-> {}]

Moves(b, from, to) == phase[b] = from /\ phase' = [phase EXCEPT ![b] = to]

Gather(b) ==
  /\ \E to \in {"gathering", "judging"} : Moves(b, "gathering", to)
  /\ evidence[b] \subseteq evidence'[b]
  /\ evidence' = [evidence EXCEPT ![b] = evidence'[b]]
  /\ UNCHANGED rewrites

Judge(b) ==
  /\ \/ Moves(b, "judging", "answering")
     \/ rewrites[b] < MaxRewrites /\ Moves(b, "judging", "refining")
  /\ UNCHANGED <<rewrites, evidence>>

Refine(b) ==
  /\ Moves(b, "refining", "gathering")
  /\ rewrites' = [rewrites EXCEPT ![b] = @ + 1]
  /\ UNCHANGED evidence

Answer(b) ==
  /\ \E to \in {"diagnosed", "failed"} : Moves(b, "answering", to)
  /\ UNCHANGED <<rewrites, evidence>>

Raise(b) ==
  /\ phase[b] \notin Ended
  /\ phase' = [phase EXCEPT ![b] = "raised"]
  /\ UNCHANGED <<rewrites, evidence>>

Next ==
  \E b \in Branches : Gather(b) \/ Judge(b) \/ Refine(b) \/ Answer(b) \/ Raise(b)

Spec == Init /\ [][Next]_contract
=============================================================================
