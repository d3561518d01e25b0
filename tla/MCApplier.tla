------------------------------ MODULE MCApplier ------------------------------
(***************************************************************************)
(* A home with ~/.claude.json, managed by one key, and two files managed   *)
(* as a whole; two revisions, the second of which drops a file; a secret   *)
(* that is rotated once and, in its second version, leaves one reference   *)
(* undefined.                                                              *)
(***************************************************************************)
EXTENDS Applier

CONSTANTS oa, ob, ou, rx, re, b1, b2, s1, s2, r1, r2

MCOwns == {oa, ob, ou}
MCRests == {rx, re}
MCRender ==
    [bl \in Blobs |-> [s \in Secrets |->
        CASE bl = b1 /\ s = s1 -> oa
          [] bl = b1 /\ s = s2 -> ob
          [] bl = b2 /\ s = s1 -> ob
          [] bl = b2 /\ s = s2 -> Undefined]]
MCTarget ==
    [r \in Revisions |-> [p \in Paths |->
        CASE r = r1 -> b1
          [] r = r2 /\ p = N -> Unmanaged
          [] r = r2 /\ p # N -> b2]]
MCIgnorePaths == [r \in Revisions |-> {}]
Whole(o) == [own |-> o, rest |-> re]
MCUserWrites ==
    [p \in Paths |-> IF p \in Keyed
                    THEN {Absent, Garbled, [own |-> oa, rest |-> rx], [own |-> ou, rest |-> rx]}
                    ELSE {Absent, Whole(ou)}]

=============================================================================
