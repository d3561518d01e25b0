---------------------------- MODULE MCDriftInbox ----------------------------
(* One file under edits, orders of the user and a fault.  The machine agrees with the head, or  *)
(* it is a fresh one with a file of its own.                                                    *)
EXTENDS DriftInbox

CONSTANTS Old, New

Allow(e, o, f) == [edits |-> e, orders |-> o, faults |-> f]
SomeBudgets == {Allow(1, 1, 1), Allow(2, 1, 0), Allow(1, 2, 0)}

ModelInit ==
    /\ Init
    /\ head = [p \in Paths |-> Old]
    /\ \/ base = Noted(head, TRUE)
       \/ disk = [p \in Paths |-> New] /\ left.orders < 2

ModelSpec == ModelInit /\ [][Next]_vars

=============================================================================
