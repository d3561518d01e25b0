--------------------------- MODULE MCDriftReports ---------------------------
(* Two files, reports in parts, from two goroutines: what the inbox shows in the end.          *)
EXTENDS DriftInbox

CONSTANTS Old, New

Allow(e, o, f) == [edits |-> e, orders |-> o, faults |-> f]
SomeBudgets == {Allow(1, 0, 1), Allow(2, 0, 0), Allow(1, 1, 0)}

ModelInit ==
    /\ Init
    /\ head = [p \in Paths |-> Old]
    /\ \/ base = Noted(head, TRUE)
       \/ disk = [p \in Paths |-> New] /\ left.orders = 0

ModelSpec == ModelInit /\ [][Next]_vars /\ Fairness

=============================================================================
