----------------------------- MODULE MCConfigLoop -----------------------------
(***************************************************************************)
(* Two config sets that share a content, with bounds on what people ask    *)
(* for, on how often the agent connects, and on what goes wrong.           *)
(***************************************************************************)
EXTENDS ConfigLoop

CONSTANTS c1, c2, b1, b2, b3, MaxEvents
VARIABLE events
mcVars == <<vars, events>>

MCContent == [c \in Sets |-> [n \in 1..MaxRev |->
                IF c = c1 /\ n = 1 THEN {b1} ELSE {b2, b3}]]

\* A new machine, one that has applied the first revision of c1 and is offline, or one
\* that applied it after a failed attempt, could not save that, and has restarted.
MCInit ==
    /\ head = [c \in Sets |-> IF c = c1 THEN 1 ELSE 0]
    /\ \/ Init
       \/ /\ assign = [set |-> c1, mode |-> "apply", applied |-> <<c1, 1>>,
                        state |-> "aligned"]
          /\ saved \in {[rev |-> <<c1, 1>>, health |-> "ok"],
                        [rev |-> NoRevision, health |-> "ok"]}
          /\ st = saved /\ cache = {b1} /\ had = {<<c1, 1>>}
          /\ paused = [c \in Sets |-> FALSE]
          /\ ver = 1 /\ todo = {} /\ serving = [l \in Links |-> NoSnapshot]
          /\ up = [l \in Links |-> <<>>] /\ link = "none" /\ down = <<>>
          /\ pending = NoSnapshot /\ waiting = {}
          /\ owed = 0 /\ excuses = {} /\ mixed = FALSE /\ spoilt = {} /\ blind = FALSE
    /\ events = 0

\* What somebody asks for (2 each), and what goes wrong (1 each).
Spend(n) == events' = events + n /\ events' <= MaxEvents

\* A failed state.Save, and an apply that does not succeed though the agent is well.
SaveFault == IF st' # st /\ saved' # st' THEN 1 ELSE 0
Cost(o) ==
    IF o \in {"applied", "surveyed"} \/ (o = "refused" /\ st.health = "degraded") THEN 0 ELSE 1

MCAgentLoop ==
    \/ HandleNotify /\ Spend(0)
    \/ \E o \in Results : (HandleSnapshot(o) \/ HandleBlob(o)) /\ Spend(Cost(o) + SaveFault)
    \/ \E o \in Acknowledged : HandleRestore(o) /\ Spend(Cost(o) + SaveFault)

MCNext ==
    \/ Admin /\ Spend(2)
    \/ \E t \in Tasks : Notify(t) /\ Spend(0)
    \/ \E l \in Links : HubLoop(l) /\ Spend(0)
    \/ OldLoopEnds /\ Spend(0)
    \/ MCAgentLoop
    \/ (Connect \/ StoreSession) /\ Spend(0)
    \/ Failure /\ Spend(1)

MCSpec ==
    /\ MCInit /\ [][MCNext]_mcVars
    /\ \A t \in Tasks : WF_mcVars(Notify(t) /\ Spend(0))
    /\ WF_mcVars(HubLoop("new") /\ Spend(0))
    /\ WF_mcVars(MCAgentLoop)
    /\ WF_mcVars(StoreSession /\ Spend(0))
=============================================================================
