-------------------------- MODULE ExperimentPromise --------------------------
(***************************************************************************)
(* What the tuning-experiment controller promises to whoever reads the     *)
(* live overrides file (controller.py, finalize_terminal): one experiment  *)
(* at a time, each closed once and for good, and a candidate that is live  *)
(* only while its experiment is open or after it was kept.                 *)
(***************************************************************************)
CONSTANTS Experiments, OperatorContents, Outcomes, None

VARIABLES
    live,      \* the overrides the next bot process loads
    active,    \* the open experiment, or None
    baseline,  \* what the open experiment goes back to, or None
    outcome    \* how each closed experiment ended, or "none"

vars == <<live, active, baseline, outcome>>

\* An operator wrote it, or an experiment earned it.
Trusted == OperatorContents \cup {e \in Experiments : outcome[e] = "KEPT"}

Init ==
    /\ live \in OperatorContents
    /\ active = None
    /\ baseline = None
    /\ outcome = [e \in Experiments |-> "none"]

Open(e) ==
    /\ active = None
    /\ outcome[e] = "none"
    /\ active' = e
    /\ baseline' \in Trusted
    /\ UNCHANGED <<live, outcome>>

Start ==
    /\ active # None
    /\ live' = active
    /\ UNCHANGED <<active, baseline, outcome>>

GoBack ==
    /\ active # None
    /\ live' = baseline
    /\ UNCHANGED <<active, baseline, outcome>>

\* Only a kept candidate may still be live when its experiment closes.
Close(s) ==
    /\ active # None
    /\ s # "KEPT" => live # active
    /\ outcome' = [outcome EXCEPT ![active] = s]
    /\ active' = None
    /\ baseline' = None
    /\ UNCHANGED live

Edit(bytes) ==
    /\ live' = bytes
    /\ UNCHANGED <<active, baseline, outcome>>

Next ==
    \/ \E e \in Experiments : Open(e)
    \/ Start
    \/ GoBack
    \/ \E s \in Outcomes : Close(s)
    \/ \E bytes \in OperatorContents : Edit(bytes)

Spec == Init /\ [][Next]_vars
=============================================================================
