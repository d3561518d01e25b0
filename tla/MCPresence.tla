----------------------------- MODULE MCPresence -----------------------------
(***************************************************************************)
(* The instance: two records one after the other, a few connections, and a *)
(* bound on what people do and what goes wrong.                            *)
(***************************************************************************)
EXTENDS Presence

CONSTANTS m1, m2, c1, c2, MaxEvents

VARIABLE events     \* how much has been asked for, or has gone wrong
mcVars == <<vars, events>>

Spend(n) == events' = events + n /\ events' <= MaxEvents

MCInit == Init /\ rec = m1 /\ events = 0

People == Delete \/ (\E m \in Machines : Enroll(m)) \/ CloseAll \/ Boot
MCReadLoop(c) == ReadLoop(c) /\ Spend(0)
MCWaiter(c) == Waiter(c) /\ Spend(0)
\* Connections are alike: the second is used while the first is busy.
MCDial ==
    /\ \E c \in Conns : (c = c1 \/ loop[c1] # "none" \/ wait[c1] # "none") /\ Dial(c)
    /\ Spend(0)
MCDialLoop == DialLoop /\ Spend(0)
MCAgentReader == AgentReader /\ Spend(0)

MCNext ==
    \/ \E c \in Conns : MCReadLoop(c) \/ MCWaiter(c)
    \/ MCDial \/ MCDialLoop \/ MCAgentReader
    \/ RecordDeleted /\ Spend(0)
    \/ Teardown /\ Spend(0)
    \/ People /\ Spend(1)
    \/ Crash /\ Spend(1)
    \/ \E c \in Conns : (Break(c) \/ Fault(c)) /\ Spend(1)

MCSpec ==
    /\ MCInit /\ [][MCNext]_mcVars
    /\ \A c \in Conns : WF_mcVars(MCReadLoop(c)) /\ WF_mcVars(MCWaiter(c))
    /\ WF_mcVars(MCDial) /\ WF_mcVars(MCDialLoop) /\ WF_mcVars(MCAgentReader)
    /\ WF_mcVars(RecordDeleted /\ Spend(0)) /\ WF_mcVars(Teardown /\ Spend(0))

=============================================================================
