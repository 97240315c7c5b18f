----------------------------- MODULE ReviewRuns -----------------------------
(***************************************************************************)
(* What the Knowledge Catalog promises of a review run.  A run fixes its   *)
(* targets once.  A target that has its answer keeps it: it is never open  *)
(* again.  A run closes once, and as a success only when it has fixed its  *)
(* targets and none is open.                                               *)
(***************************************************************************)
EXTENDS Integers

CONSTANTS Runs, Targets

VARIABLES
    phase,      \* "none", "running", "success" or "failed"
    fixed,      \* the runs that have fixed their targets
    open        \* the targets of each run that still want an answer

\* Runs may already be under way.
Init ==
    /\ phase \in [Runs -> {"none", "running"}]
    /\ fixed \subseteq {r \in Runs : phase[r] = "running"}
    /\ open \in [Runs -> SUBSET Targets]
    /\ \A r \in Runs \ fixed : open[r] = {}

Begin(r) ==
    /\ phase[r] = "none"
    /\ phase' = [phase EXCEPT ![r] = "running"]
    /\ UNCHANGED <<fixed, open>>

Fix(r, targets) ==
    /\ phase[r] # "none" /\ r \notin fixed
    /\ fixed' = fixed \cup {r}
    /\ open' = [open EXCEPT ![r] = targets]
    /\ UNCHANGED phase

Answer(r, targets) ==
    /\ open' = [open EXCEPT ![r] = @ \ targets]
    /\ UNCHANGED <<phase, fixed>>

Succeed(r) ==
    /\ phase[r] = "running" /\ r \in fixed /\ open[r] = {}
    /\ phase' = [phase EXCEPT ![r] = "success"]
    /\ UNCHANGED <<fixed, open>>

Fail(r) ==
    /\ phase[r] = "running"
    /\ phase' = [phase EXCEPT ![r] = "failed"]
    /\ UNCHANGED <<fixed, open>>

Next ==
    \E r \in Runs :
        \/ Begin(r) \/ Succeed(r) \/ Fail(r)
        \/ \E targets \in SUBSET Targets : Fix(r, targets) \/ Answer(r, targets)

Spec == Init /\ [][Next]_<<phase, fixed, open>>
=============================================================================
