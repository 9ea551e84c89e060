---------------------------- MODULE ThreadCustody ----------------------------
(***************************************************************************)
(* Who holds a suspended thread, as the deployment promises it without any *)
(* lock between its scans and its resume job: the scan that created it,    *)
(* then the registry and the resume job by turns, then nobody.  Only a     *)
(* job that holds a thread advances its checkpoint, a thread that is done  *)
(* has left none behind, and a thread that nobody holds any more is never  *)
(* touched again.  IncidentDeployment implements this specification.       *)
(***************************************************************************)
CONSTANTS
  Threads,    \* the threads that may be created
  Positions,  \* where a checkpoint may stand
  None        \* no checkpoint

VARIABLES
  custody,    \* who holds a thread
  checkpoint  \* what is stored of it

custodyVars == <<custody, checkpoint>>

Holders == {"none", "scan", "registry", "resume", "done", "lost"}

Init ==
  /\ custody = [t \in Threads |-> "none"]
  /\ checkpoint = [t \in Threads |-> None]

Passes(t, from, to) ==
  /\ custody[t] = from
  /\ custody' = [custody EXCEPT ![t] = to]

Nobody(holder) == \A t \in Threads : custody[t] # holder

(* One scan at a time has a thread, in whichever process it runs.          *)
Begin(t) == Nobody("scan") /\ Passes(t, "none", "scan") /\ UNCHANGED checkpoint

Register(t) == Passes(t, "scan", "registry") /\ UNCHANGED checkpoint

(* The resume job holds one thread at a time.                              *)
Take(t) ==
  Nobody("resume") /\ Passes(t, "registry", "resume") /\ UNCHANGED checkpoint

GiveBack(t) == Passes(t, "resume", "registry") /\ UNCHANGED checkpoint

Advance(t) ==
  /\ custody[t] \in {"scan", "resume"}
  /\ \E p \in Positions : checkpoint' = [checkpoint EXCEPT ![t] = p]
  /\ UNCHANGED custody

(* A finished thread leaves nothing behind.                                *)
Finish(t) ==
  /\ \E holder \in {"scan", "resume"} : Passes(t, holder, "done")
  /\ checkpoint' = [checkpoint EXCEPT ![t] = None]

(* The operator deletes a checkpoint, and takes a thread off the registry. *)
Delete(t) ==
  /\ custody[t] \in {"registry", "resume"}
  /\ checkpoint' = [checkpoint EXCEPT ![t] = None]
  /\ UNCHANGED custody

Withdraw(t) ==
  Passes(t, "registry", "done") /\ checkpoint[t] = None /\ UNCHANGED checkpoint

(* A failure may lose a thread, not pass off as done what is still stored. *)
Drops(t) ==
  \/ custody[t] = "resume" /\ custody'[t] = "registry"
  \/ custody[t] \in {"scan", "registry", "resume"} /\ custody'[t] = "lost"
  \/ /\ custody[t] \in {"scan", "registry", "resume"} /\ custody'[t] = "done"
     /\ checkpoint[t] = None

(* A job or a deletion fails: any number of held threads are dropped.      *)
Fail ==
  /\ UNCHANGED checkpoint
  /\ custody' \in [Threads -> Holders]
  /\ \A t \in Threads : custody'[t] = custody[t] \/ Drops(t)

Next ==
  \/ Fail
  \/ \E t \in Threads :
       \/ Begin(t) \/ Register(t) \/ Take(t) \/ GiveBack(t) \/ Advance(t)
       \/ Finish(t) \/ Delete(t) \/ Withdraw(t)

Spec == Init /\ [][Next]_custodyVars
=============================================================================
