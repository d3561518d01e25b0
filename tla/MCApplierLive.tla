---------------------------- MODULE MCApplierLive ----------------------------
(***************************************************************************)
(* The home of MCApplier without bounds, but with applies and restores     *)
(* only: how often the files are rewritten meanwhile is not limited.       *)
(***************************************************************************)
EXTENDS MCApplier

LiveNext ==
    \/ \E r \in Revisions, s \in Secrets : Apply(r, s)
    \/ \E ps \in SUBSET Paths : Restore(ps)
    \/ JobStep
    \/ \E p \in Keyed : Edit(p)

LiveSpec == Init /\ [][LiveNext]_vars /\ WF_vars(JobStep)

=============================================================================
