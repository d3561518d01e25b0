----------------------------- MODULE AtomicApply -----------------------------
(***************************************************************************)
(* What one apply (or one restore) of the agent promises about the managed *)
(* home: it happens entirely, or it leaves no trace, or it ends in one of  *)
(* the two outcomes the code names for a half-written home (a rollback     *)
(* that failed, a process that died).  Even then every path holds either   *)
(* its old or its new content, because each file is written with a rename. *)
(*                                                                         *)
(* Other programs (the user's editor, Claude Code) write the same files at *)
(* any time.  The promise is about the paths they left alone while the     *)
(* apply was running: `touched' is the set of the others.                  *)
(***************************************************************************)
CONSTANTS
    Paths,      \* the managed paths
    Contents,   \* what a path can hold, the absence of a file included
    Keep        \* the wanted content of a path the plan leaves alone

VARIABLES
    disk,       \* what every path holds
    busy,       \* is an apply running
    want,       \* what the running apply is to leave at every path
    touched,    \* paths somebody else wrote since the apply began
    verdict     \* how the last apply ended

vars == <<disk, busy, want, touched, verdict>>

Verdicts == {"none", "applied", "rolledback", "broken", "torn", "refused"}

Result(p) == IF want[p] = Keep THEN disk[p] ELSE want[p]

Init ==
    /\ disk \in [Paths -> Contents]
    /\ busy = FALSE
    /\ want = [p \in Paths |-> Keep]
    /\ touched = {}
    /\ verdict = "none"

\* Somebody writes p; the running apply overwriting what they wrote counts too.
Write(p) ==
    /\ \E c \in Contents : disk' = [disk EXCEPT ![p] = c]
    /\ touched' = IF busy THEN touched \cup {p} ELSE touched
    /\ UNCHANGED <<busy, want, verdict>>

Begin ==
    /\ ~busy
    /\ busy' = TRUE
    /\ want' \in [Paths -> Contents \cup {Keep}]
    /\ touched' = {}
    /\ verdict' = "none"
    /\ UNCHANGED disk

\* The agent declines: degraded, paused, or no pre-apply snapshot could be taken.
Refuse ==
    /\ ~busy
    /\ verdict' = "refused"
    /\ UNCHANGED <<disk, busy, want, touched>>

End(v) ==
    /\ busy
    /\ busy' = FALSE
    /\ want' = [p \in Paths |-> Keep]
    /\ touched' = {}
    /\ verdict' = v

Succeed ==
    /\ End("applied")
    /\ disk' \in [Paths -> Contents]
    /\ \A p \in Paths \ touched : disk'[p] = Result(p)

Undo ==
    /\ End("rolledback")
    /\ disk' \in [Paths -> Contents]
    /\ \A p \in Paths \ touched : disk'[p] = disk[p]

\* A failed rollback and a crash: a mixture, but never a third content.
Fall(v) ==
    /\ End(v)
    /\ disk' \in [Paths -> Contents]
    /\ \A p \in Paths \ touched : disk'[p] \in {disk[p], Result(p)}

\* A crash with nothing running leaves no verdict behind.
Forget ==
    /\ ~busy
    /\ verdict' = "none"
    /\ UNCHANGED <<disk, busy, want, touched>>

Next ==
    \/ \E p \in Paths : Write(p)
    \/ Begin
    \/ Refuse
    \/ Succeed
    \/ Undo
    \/ Fall("broken")
    \/ Fall("torn")
    \/ Forget

Spec == Init /\ [][Next]_vars

=============================================================================
