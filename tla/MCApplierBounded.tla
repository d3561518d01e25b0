--------------------------- MODULE MCApplierBounded ---------------------------
(***************************************************************************)
(* The home of MCApplier, with bounds on what a run does: what the hub and *)
(* the user ask for, how often other programs write, and how many things   *)
(* go wrong.                                                               *)
(***************************************************************************)
EXTENDS MCApplier

CONSTANTS MaxRequests, MaxEdits, MaxFaults
VARIABLES requests, edits, faults
mcVars == <<vars, requests, edits, faults>>

MCInit == Init /\ requests = 0 /\ edits = 0 /\ faults = 0

Spend(rq, ed, ft) ==
    /\ requests' = requests + rq /\ requests' <= MaxRequests
    /\ edits' = edits + ed /\ edits' <= MaxEdits
    /\ faults' = faults + ft /\ faults' <= MaxFaults

\* A failed state.Save counts as a fault.
SaveFault == IF saved' = st' \/ saved' # saved THEN 0 ELSE 1

MCJobStep ==
    \/ (PassStep \/ WriteStep \/ MergeRead \/ MergeSame \/ MergeCheck \/ MergeAgain
        \/ MergeWrite \/ MergeRefuses \/ MergeGivesUp \/ UndoStep) /\ Spend(0, 0, 0)
    \/ (StepFails \/ UndoFails) /\ Spend(0, 0, 1)
    \/ Finish /\ Spend(0, 0, SaveFault)

MCNext ==
    \/ \E r \in Revisions, s \in Secrets : Apply(r, s) /\ Spend(1, 0, 0)
    \/ \E r \in Revisions, s \in Secrets : Survey(r, s) /\ Spend(1, 0, SaveFault)
    \/ \E s \in Secrets : Decline(s) /\ Spend(1, 0, SaveFault)
    \/ \E s \in Secrets : SecretsArrive(s) /\ Spend(1, 0, 0)
    \/ \E ps \in SUBSET Paths : Restore(ps) /\ Spend(1, 0, 0)
    \/ \E ps \in SUBSET Paths : RestoreDeclined(ps) /\ Spend(1, 0, SaveFault)
    \/ MCJobStep
    \/ \E p \in Paths : Edit(p) /\ Spend(0, 1, 0)
    \/ \E on \in BOOLEAN : PauseReads(on) /\ Spend(1, 0, 0)
    \/ PauseWrites /\ Spend(0, 0, 0)
    \/ Crash /\ Spend(0, 0, 1)

MCSpec == MCInit /\ [][MCNext]_mcVars /\ WF_mcVars(MCJobStep)
=============================================================================
