--------------------------- MODULE PresenceProofs ---------------------------
(***************************************************************************)
(* Proofs about the registry: type correctness, that no dead connection    *)
(* stays in it, that the status shown follows it, and that an agent stops  *)
(* for good only when its machine was removed.                             *)
(***************************************************************************)
EXTENDS Presence, TLAPS

USE PresenceAssumption

-----------------------------------------------------------------------------
(* Types.                                                                  *)

LEMMA NothingTyped == Nothing \in [msg : Messages \union {"none"}, direct : BOOLEAN]
<1>1. "none" \in Messages \union {"none"} /\ FALSE \in BOOLEAN
  OBVIOUS
<1> QED
  BY <1>1 DEF Nothing

LEMMA InitTyped == Init => TypeOK
<1> SUFFICES ASSUME Init PROVE TypeOK
  OBVIOUS
<1>1. HubTypes
  BY DEF Init, HubTypes, LoopPlaces, WaitPlaces
<1>2. NetTypes
  BY DEF Init, NetTypes
<1>3. AgentTypes
  <2>1. connected \in BOOLEAN /\ told \in BOOLEAN
    BY DEF Init
  <2>2. /\ dial = "asleep" /\ sock = NoConn /\ inbox = <<>> /\ held = Nothing
        /\ reason = "none"
    BY DEF Init
  <2> QED
    BY <2>1, <2>2, NothingTyped DEF AgentTypes, DialPlaces
<1> QED
  BY <1>1, <1>2, <1>3 DEF TypeOK

\* Queues: what is sent, what is read.
LEMMA TellTyped ==
    ASSUME NetTypes, NEW c \in Conns, NEW m \in Messages, Tell(c, m)
    PROVE  down' \in [Conns -> Seq(Messages)]
<1>1. Append(down[c], m) \in Seq(Messages)
  BY DEF NetTypes
<1> QED
  BY <1>1 DEF Tell, NetTypes

LEMMA TakeTyped ==
    ASSUME NEW q \in Seq(Messages), q # <<>>
    PROVE  Head(q) \in Messages /\ Tail(q) \in Seq(Messages)
OBVIOUS

LEMMA HubTypesKept == TypeOK /\ [Next]_vars => HubTypes'
<1> SUFFICES ASSUME HubTypes, AgentTypes, [Next]_vars PROVE HubTypes'
  BY DEF TypeOK
<1> USE DEF HubTypes, dbVars, registryVars, hubVars, historyVars, At, WaitAt, StopTimer, LoopPlaces,
            WaitPlaces
<1>1. ASSUME NEW c \in Conns, ReadLoop(c) PROVE HubTypes'
  <2>1. CASE Open(c) \/ ReadHello(c) \/ RejectHello(c) \/ ReadAuth(c)
    BY <2>1 DEF Open, ReadHello, RejectHello, Reject, ReadAuth
  <2>2. CASE Register(c)
    BY <2>2 DEF Register
  <2>3. CASE ReadOnline(c) \/ SaveOnline(c) \/ Withdraw(c) \/ Close(c)
    BY <2>3 DEF ReadOnline, SaveOnline, Withdraw, Close
  <2> QED
    BY <1>1, <2>1, <2>2, <2>3 DEF ReadLoop
<1>2. ASSUME NEW c \in Conns, Waiter(c) PROVE HubTypes'
  BY <1>2 DEF Waiter, Expire, CheckTimer, ReadOffline, SaveOffline
<1>3. ASSUME NEW c \in Conns, Fault(c) PROVE HubTypes'
  BY <1>3 DEF Fault, LookupFails, Reject, OnlineFails, OfflineFails
<1>4. ASSUME NEW c \in Conns, Break(c) \/ Dial(c) PROVE HubTypes'
  BY <1>4 DEF Break, Dial
<1>5. CASE Delete \/ RecordDeleted \/ (\E m \in Machines : Enroll(m))
  BY <1>5 DEF Delete, RecordDeleted, Enroll
<1>6. CASE CloseAll \/ Teardown \/ Crash \/ Boot
  <2>1. CASE CloseAll
    <3>1. late' \in BOOLEAN
      BY <2>1 DEF CloseAll
    <3> QED
      BY <2>1, <3>1 DEF CloseAll
  <2>2. CASE StopManager
    BY <2>2 DEF StopManager
  <2>3. CASE Wake \/ Exit
    <3>1. hooked' \in BOOLEAN /\ parked' \in BOOLEAN
      BY <2>3 DEF Wake, Exit
    <3>2. /\ phase' \in {"stopping", "down"}
          /\ UNCHANGED <<dbVars, registered, pending, wait, loop, owner, raced, faulted, late>>
      BY <2>3 DEF Wake, Exit
    <3> QED
      BY <3>1, <3>2
  <2>4. CASE Crash
    <3>1. hooked' \in BOOLEAN /\ parked' \in BOOLEAN
      BY <2>4 DEF Crash
    <3>2. /\ phase' = "down" /\ registered' = NoConn /\ pending' = NoConn
          /\ loop' = [c \in Conns |-> "none"] /\ wait' = [c \in Conns |-> "none"]
          /\ UNCHANGED <<dbVars, owner, raced, faulted, late>>
      BY <2>4 DEF Crash
    <3> QED
      BY <3>1, <3>2
  <2>5. CASE Boot
    <3>1. raced' \in BOOLEAN /\ faulted' \in BOOLEAN /\ late' \in BOOLEAN
      BY <2>5 DEF Boot
    <3>2. /\ status' = "offline" /\ phase' = "serving"
          /\ UNCHANGED <<rec, hooked, registryVars, loop, owner>>
      BY <2>5 DEF Boot
    <3> QED
      BY <3>1, <3>2
  <2> QED
    BY <1>6, <2>1, <2>2, <2>3, <2>4, <2>5 DEF Teardown
<1>7. CASE DialLoop \/ AgentReader
  BY <1>7 DEF DialLoop, AnswerChallenge, ReadResult, AwaitFails, MarkConnected, Drain, Report,
              SessionEnds, AgentReader, Hear, Deliver, LinkLost
<1>8. CASE UNCHANGED vars
  BY <1>8 DEF vars
<1> QED
  BY <1>1, <1>2, <1>3, <1>4, <1>5, <1>6, <1>7, <1>8 DEF Next

LEMMA NetTypesKept == TypeOK /\ [Next]_vars => NetTypes'
<1> SUFFICES ASSUME TypeOK, HubTypes, NetTypes, AgentTypes, [Next]_vars PROVE NetTypes'
  BY DEF TypeOK
<1> USE DEF NetTypes
<1>1. ASSUME NEW c \in Conns, ReadLoop(c) PROVE NetTypes'
  <2>1. CASE ReadHello(c) \/ RejectHello(c) \/ ReadAuth(c)
    <3>1. up[c] \in Seq(Messages) /\ up[c] # <<>>
      BY <2>1 DEF ReadHello, RejectHello, Reject, ReadAuth
    <3>2. [up EXCEPT ![c] = Tail(@)] \in [Conns -> Seq(Messages)]
      BY <3>1, TakeTyped
    <3>3. "challenge" \in Messages /\ "unknown" \in Messages /\ "ok" \in Messages
      BY DEF Messages
    <3>4. down' \in [Conns -> Seq(Messages)]
      BY <2>1, <3>3, TellTyped DEF ReadHello, RejectHello, Reject, ReadAuth
    <3>5. cut' \in [Conns -> BOOLEAN]
      BY <2>1 DEF ReadHello, RejectHello, Reject, ReadAuth
    <3> QED
      BY <2>1, <3>2, <3>4, <3>5 DEF ReadHello, RejectHello, Reject, ReadAuth
  <2>2. CASE Open(c) \/ Register(c) \/ ReadOnline(c) \/ SaveOnline(c) \/ Withdraw(c) \/ Close(c)
    BY <2>2 DEF Open, Register, ReadOnline, SaveOnline, Withdraw, Close, netVars
  <2> QED
    BY <1>1, <2>1, <2>2 DEF ReadLoop
<1>2. ASSUME NEW c \in Conns, Waiter(c) PROVE NetTypes'
  BY <1>2 DEF Waiter, Expire, CheckTimer, ReadOffline, SaveOffline, netVars
<1>3. ASSUME NEW c \in Conns, Fault(c) PROVE NetTypes'
  <2>1. CASE LookupFails(c)
    <3>1. up[c] \in Seq(Messages) /\ up[c] # <<>>
      BY <2>1 DEF LookupFails, Reject
    <3>2. [up EXCEPT ![c] = Tail(@)] \in [Conns -> Seq(Messages)]
      BY <3>1, TakeTyped
    <3>3. "unknown" \in Messages
      BY DEF Messages
    <3>4. down' \in [Conns -> Seq(Messages)]
      BY <2>1, <3>3, TellTyped DEF LookupFails, Reject
    <3> QED
      BY <2>1, <3>2, <3>4 DEF LookupFails, Reject
  <2>2. CASE OnlineFails(c) \/ OfflineFails(c)
    BY <2>2 DEF OnlineFails, OfflineFails, netVars
  <2> QED
    BY <1>3, <2>1, <2>2 DEF Fault
<1>4. ASSUME NEW c \in Conns, Break(c) \/ Dial(c) PROVE NetTypes'
  <2>1. <<>> \in Seq(Messages) /\ <<"hello">> \in Seq(Messages)
    BY DEF Messages
  <2> QED
    BY <1>4, <2>1 DEF Break, Dial
<1>5. CASE Delete \/ (\E m \in Machines : Enroll(m))
  BY <1>5 DEF Delete, Enroll, netVars
<1>6. CASE RecordDeleted
  <2>1. "removed" \in Messages
    BY DEF Messages
  <2>2. CASE registered = NoConn
    BY <1>6, <2>2 DEF RecordDeleted
  <2>3. CASE registered \in Conns
    <3>1. down' \in [Conns -> Seq(Messages)]
      BY <1>6, <2>1, <2>3, TellTyped DEF RecordDeleted
    <3> QED
      BY <1>6, <2>3, <3>1 DEF RecordDeleted
  <2> QED
    BY <2>2, <2>3 DEF HubTypes
<1>7. CASE CloseAll \/ Teardown \/ Crash \/ Boot
  BY <1>7 DEF CloseAll, Teardown, StopManager, Wake, Exit, Crash, Boot, netVars
<1>8. ASSUME NEW d, LeaveFor(d) PROVE NetTypes'
  <2>1. <<>> \in Seq(Messages) /\ TRUE \in BOOLEAN
    OBVIOUS
  <2>2. cut' \in [Conns -> BOOLEAN]
    BY <1>8, <2>1 DEF LeaveFor
  <2>3. down' \in [Conns -> Seq(Messages)]
    BY <1>8, <2>1 DEF LeaveFor
  <2> QED
    BY <1>8, <2>2, <2>3 DEF LeaveFor
<1>9. CASE DialLoop
  <2>1. CASE AnswerChallenge
    <3>1. "auth" \in Messages
      BY DEF Messages
    <3>2. ASSUME sock \in Conns PROVE Append(up[sock], "auth") \in Seq(Messages)
      BY <3>1, <3>2
    <3>3. [up EXCEPT ![sock] = Append(@, "auth")] \in [Conns -> Seq(Messages)]
      BY <3>2 DEF AgentTypes
    <3> QED
      BY <2>1, <1>8, <3>3 DEF AnswerChallenge
  <2>2. CASE AwaitFails \/ Report \/ SessionEnds
    BY <2>2, <1>8 DEF AwaitFails, Report, SessionEnds
  <2>3. CASE ReadResult \/ MarkConnected \/ Drain
    BY <2>3 DEF ReadResult, MarkConnected, Drain, OnConnected, netVars
  <2> QED
    BY <1>9, <2>1, <2>2, <2>3 DEF DialLoop
<1>10. CASE AgentReader
  <2>1. CASE Hear
    <3>1. sock \in Conns /\ down[sock] \in Seq(Messages) /\ down[sock] # <<>>
      BY <2>1 DEF Hear, AgentTypes
    <3>2. [down EXCEPT ![sock] = Tail(@)] \in [Conns -> Seq(Messages)]
      BY <3>1, TakeTyped
    <3> QED
      BY <2>1, <3>2 DEF Hear
  <2>2. CASE Deliver \/ LinkLost
    BY <2>2 DEF Deliver, LinkLost, OnConnected, netVars
  <2> QED
    BY <1>10, <2>1, <2>2 DEF AgentReader
<1>11. CASE UNCHANGED vars
  BY <1>11 DEF vars, netVars
<1> QED
  BY <1>1, <1>2, <1>3, <1>4, <1>5, <1>6, <1>7, <1>9, <1>10, <1>11 DEF Next

LEMMA AgentTypesKept == TypeOK /\ [Next]_vars => AgentTypes'
<1> SUFFICES ASSUME NetTypes, AgentTypes, [Next]_vars PROVE AgentTypes'
  BY DEF TypeOK
<1> USE DEF AgentTypes
<1>0. CASE UNCHANGED <<agentVars, told>>
  BY <1>0 DEF agentVars
<1>1. ASSUME NEW c \in Conns, ReadLoop(c) PROVE AgentTypes'
  BY <1>0, <1>1 DEF ReadLoop, Open, ReadHello, RejectHello, Reject, ReadAuth, Register, ReadOnline,
                    SaveOnline, Withdraw, Close, historyVars
<1>2. ASSUME NEW c \in Conns, Waiter(c) \/ Fault(c) \/ Break(c) PROVE AgentTypes'
  BY <1>0, <1>2 DEF Waiter, Expire, CheckTimer, ReadOffline, SaveOffline, Fault, LookupFails,
                    Reject, OnlineFails, OfflineFails, Break, historyVars
<1>3. ASSUME NEW c \in Conns, Dial(c) PROVE AgentTypes'
  <2>1. connected' \in BOOLEAN /\ told' \in BOOLEAN
    BY <1>3 DEF Dial, historyVars
  <2>2. /\ dial' = "hello" /\ sock' = c /\ inbox' = <<>> /\ held' = Nothing
        /\ reason' = "none"
    BY <1>3 DEF Dial
  <2> QED
    BY <2>1, <2>2, NothingTyped DEF DialPlaces
<1>4. CASE \E m \in Machines : Enroll(m)
  BY <1>4 DEF Enroll, DialPlaces
<1>5. CASE Delete \/ RecordDeleted \/ CloseAll \/ Teardown \/ Crash \/ Boot
  BY <1>0, <1>5 DEF Delete, RecordDeleted, CloseAll, Teardown, StopManager, Wake, Exit, Crash, Boot,
                    historyVars
<1>6. ASSUME NEW d \in DialPlaces, LeaveFor(d), UNCHANGED told PROVE AgentTypes'
  <2>1. connected' \in BOOLEAN /\ told' \in BOOLEAN
    BY <1>6 DEF LeaveFor
  <2>2. /\ dial' = d /\ sock' = NoConn /\ inbox' = <<>> /\ held' = Nothing
        /\ reason' = "none"
    BY <1>6 DEF LeaveFor
  <2> QED
    BY <2>1, <2>2, NothingTyped
<1>7. {"asleep", "stopped", "auth", "mark", "drain", "report", "up"} \subseteq DialPlaces
  BY DEF DialPlaces
<1>8. CASE DialLoop
  <2>1. CASE AnswerChallenge \/ AwaitFails \/ Report \/ SessionEnds
    <3>1. UNCHANGED told
      BY <2>1 DEF AnswerChallenge, AwaitFails, Report, SessionEnds, historyVars
    <3>2. CASE LeaveFor("asleep") \/ LeaveFor("stopped")
      BY <3>1, <3>2, <1>6, <1>7
    <3>3. CASE AnswerChallenge /\ inbox' = Tail(inbox) /\ dial' = "auth"
               /\ UNCHANGED <<sock, connected, held, reason>>
      BY <3>1, <3>3, <1>7, TakeTyped DEF AnswerChallenge
    <3>4. CASE dial' = "up" /\ UNCHANGED <<sock, connected, inbox, held, reason>>
      BY <3>1, <3>4, <1>7
    <3> QED
      BY <2>1, <3>2, <3>3, <3>4 DEF AnswerChallenge, AwaitFails, Report, SessionEnds
  <2>2. CASE ReadResult \/ MarkConnected
    BY <2>2, <1>7, TakeTyped DEF ReadResult, MarkConnected, historyVars
  <2>3. CASE Drain
    BY <2>3, <1>7, TakeTyped DEF Drain, OnConnected, historyVars
  <2> QED
    BY <1>8, <2>1, <2>2, <2>3 DEF DialLoop
<1>9. CASE AgentReader
  <2>1. CASE Hear
    <3>1. sock \in Conns /\ down[sock] \in Seq(Messages) /\ down[sock] # <<>>
      BY <2>1 DEF Hear, NetTypes
    <3>2. Head(down[sock]) \in Messages
      BY <3>1, TakeTyped
    <3> QED
      BY <2>1, <3>2 DEF Hear
  <2>2. CASE Deliver
    <3>1. held.msg \in Messages \union {"none"}
      OBVIOUS
    <3>2. CASE held.direct
      BY <2>2, <3>2 DEF Deliver, OnConnected, Nothing, historyVars
    <3>3. CASE ~held.direct
      <4>1. held.msg \in Messages
        BY <2>2, <3>1, <3>3 DEF Deliver, Nothing
      <4>2. Append(inbox, held.msg) \in Seq(Messages)
        BY <4>1
      <4> QED
        BY <2>2, <3>3, <4>2 DEF Deliver, Nothing, historyVars
    <3> QED
      BY <3>2, <3>3
  <2>3. CASE LinkLost
    BY <2>3 DEF LinkLost, historyVars
  <2> QED
    BY <1>9, <2>1, <2>2, <2>3 DEF AgentReader
<1>10. CASE UNCHANGED vars
  BY <1>0, <1>10 DEF vars, historyVars
<1> QED
  BY <1>1, <1>2, <1>3, <1>4, <1>5, <1>8, <1>9, <1>10 DEF Next

LEMMA TypesKept == TypeOK /\ [Next]_vars => TypeOK'
BY HubTypesKept, NetTypesKept, AgentTypesKept DEF TypeOK

\* The variables keep their types.
THEOREM TypeCorrect == Spec => []TypeOK
<1>1. Init => TypeOK
  BY InitTyped
<1>2. TypeOK /\ [Next]_vars => TypeOK'
  BY TypesKept
<1> QED
  BY <1>1, <1>2, PTL DEF Spec

-----------------------------------------------------------------------------
(* The registry.                                                           *)

\* A waiter belongs to a connection that has ended.  At most one timer counts, and only
\* while nothing is registered; a timer that was replaced no longer runs.
TimerInv ==
    /\ \A c \in Conns : wait[c] # "none" => loop[c] = "none"
    /\ \A c \in Conns : wait[c] = "armed" => pending = c
    /\ pending # NoConn => wait[pending] \in {"armed", "fired"} /\ registered = NoConn

\* What is registered is at work, and what is at work was found in the database: its
\* record is there, or is gone.
EntryInv ==
    /\ RegistryIsLive
    /\ hooked => rec = NoMachine
    /\ \A c \in Conns : loop[c] \in {"auth", "enter", "read", "save", "withdraw", "serve"}
        => owner[c] \in Machines /\ rec \in {owner[c], NoMachine}

\* Stop is called when the read loops are gone, and the process ends without waiters.
PhaseInv ==
    /\ phase \in {"stopping", "down"} => \A c \in Conns : loop[c] = "none"
    /\ phase = "down" => \A c \in Conns : wait[c] = "none"

HubInv == TimerInv /\ EntryInv /\ PhaseInv

\* Without a race and a failure, only the registered connection writes "online", only the
\* absence of one "offline", and a connection is withdrawn only for a missing record.
WriterInv ==
    /\ ~faulted => \A c \in Conns : loop[c] = "withdraw" => rec = NoMachine
    /\ ~raced => \A c \in Conns : loop[c] \in {"read", "save"} /\ rec = owner[c] => registered = c
    /\ ~raced /\ registered # NoConn => \A c \in Conns : wait[c] \notin {"read", "save"}

StatusInv == WriterInv /\ ConnectedShowsOnline /\ OnlineIsAccountedFor

LEMMA InitHub == Init => HubInv /\ StatusInv
BY DEF Init, HubInv, TimerInv, EntryInv, PhaseInv, RegistryIsLive, StatusInv, WriterInv,
       ConnectedShowsOnline, OnlineIsAccountedFor

LEMMA TimersKept == HubTypes /\ HubInv /\ [Next]_vars => TimerInv'
<1> SUFFICES ASSUME HubTypes, HubInv, [Next]_vars PROVE TimerInv'
  OBVIOUS
<1> USE DEF dbVars, registryVars, hubVars, historyVars, At, WaitAt, StopTimer, HubTypes, HubInv,
            TimerInv, EntryInv, PhaseInv, RegistryIsLive
<1>1. ASSUME NEW c \in Conns, ReadLoop(c) PROVE TimerInv'
  <2>1. CASE Open(c)
    BY <2>1 DEF Open
  <2>2. CASE ReadHello(c)
    BY <2>2 DEF ReadHello
  <2>3. CASE RejectHello(c)
    BY <2>3 DEF RejectHello, Reject
  <2>4. CASE ReadAuth(c)
    BY <2>4 DEF ReadAuth
  <2>5. CASE Register(c)
    BY <2>5 DEF Register
  <2>6. CASE ReadOnline(c)
    BY <2>6 DEF ReadOnline
  <2>7. CASE SaveOnline(c)
    BY <2>7 DEF SaveOnline
  <2>8. CASE Withdraw(c)
    BY <2>8 DEF Withdraw
  <2>9. CASE Close(c)
    BY <2>9 DEF Close
  <2> QED
    BY <1>1, <2>1, <2>2, <2>3, <2>4, <2>5, <2>6, <2>7, <2>8, <2>9 DEF ReadLoop
<1>2. ASSUME NEW c \in Conns, Waiter(c) PROVE TimerInv'
  <2>1. CASE Expire(c)
    BY <2>1 DEF Expire
  <2>2. CASE CheckTimer(c)
    BY <2>2 DEF CheckTimer
  <2>3. CASE ReadOffline(c)
    BY <2>3 DEF ReadOffline
  <2>4. CASE SaveOffline(c)
    BY <2>4 DEF SaveOffline
  <2> QED
    BY <1>2, <2>1, <2>2, <2>3, <2>4 DEF Waiter
<1>3. ASSUME NEW c \in Conns, Fault(c) PROVE TimerInv'
  BY <1>3 DEF Fault, LookupFails, Reject, OnlineFails, OfflineFails
<1>4. ASSUME NEW c \in Conns, Dial(c) PROVE TimerInv'
  BY <1>4 DEF Dial
<1>5. CASE Delete
  BY <1>5 DEF Delete
<1>6. CASE RecordDeleted
  BY <1>6 DEF RecordDeleted
<1>7. ASSUME NEW m \in Machines, Enroll(m) PROVE TimerInv'
  BY <1>7 DEF Enroll
<1>8. CASE CloseAll
  BY <1>8 DEF CloseAll
<1>9. CASE StopManager
  BY <1>9 DEF StopManager
<1>10. CASE Wake \/ Exit
  BY <1>10 DEF Wake, Exit
<1>11. CASE Crash
  BY <1>11 DEF Crash
<1>12. CASE Boot
  BY <1>12 DEF Boot
<1>13. CASE DialLoop \/ AgentReader \/ UNCHANGED vars \/ \E c \in Conns : Break(c)
  <2>1. UNCHANGED <<dbVars, hubVars, raced, faulted>>
    BY <1>13 DEF DialLoop, AnswerChallenge, ReadResult, AwaitFails, MarkConnected, Drain, Report,
                 SessionEnds, AgentReader, Hear, Deliver, LinkLost, Break, vars
  <2> QED
    BY <2>1
<1> QED
  BY <1>1, <1>2, <1>3, <1>4, <1>5, <1>6, <1>7, <1>8, <1>9, <1>10, <1>11, <1>12, <1>13
     DEF Next, Teardown

LEMMA EntriesKept == HubTypes /\ HubInv /\ [Next]_vars => EntryInv'
<1> SUFFICES ASSUME HubTypes, HubInv, [Next]_vars PROVE EntryInv'
  OBVIOUS
<1> USE DEF dbVars, registryVars, hubVars, historyVars, At, WaitAt, StopTimer, HubTypes, HubInv,
            TimerInv, EntryInv, PhaseInv, RegistryIsLive
<1>1. ASSUME NEW c \in Conns, ReadLoop(c) PROVE EntryInv'
  <2>1. CASE Open(c)
    BY <2>1 DEF Open
  <2>2. CASE ReadHello(c)
    BY <2>2 DEF ReadHello
  <2>3. CASE RejectHello(c)
    BY <2>3 DEF RejectHello, Reject
  <2>4. CASE ReadAuth(c)
    BY <2>4 DEF ReadAuth
  <2>5. CASE Register(c)
    BY <2>5 DEF Register
  <2>6. CASE ReadOnline(c)
    BY <2>6 DEF ReadOnline
  <2>7. CASE SaveOnline(c)
    BY <2>7 DEF SaveOnline
  <2>8. CASE Withdraw(c)
    BY <2>8 DEF Withdraw
  <2>9. CASE Close(c)
    BY <2>9 DEF Close
  <2> QED
    BY <1>1, <2>1, <2>2, <2>3, <2>4, <2>5, <2>6, <2>7, <2>8, <2>9 DEF ReadLoop
<1>2. ASSUME NEW c \in Conns, Waiter(c) PROVE EntryInv'
  <2>1. CASE Expire(c)
    BY <2>1 DEF Expire
  <2>2. CASE CheckTimer(c)
    BY <2>2 DEF CheckTimer
  <2>3. CASE ReadOffline(c)
    BY <2>3 DEF ReadOffline
  <2>4. CASE SaveOffline(c)
    BY <2>4 DEF SaveOffline
  <2> QED
    BY <1>2, <2>1, <2>2, <2>3, <2>4 DEF Waiter
<1>3. ASSUME NEW c \in Conns, Fault(c) PROVE EntryInv'
  BY <1>3 DEF Fault, LookupFails, Reject, OnlineFails, OfflineFails
<1>4. ASSUME NEW c \in Conns, Dial(c) PROVE EntryInv'
  BY <1>4 DEF Dial
<1>5. CASE Delete
  BY <1>5 DEF Delete
<1>6. CASE RecordDeleted
  BY <1>6 DEF RecordDeleted
<1>7. ASSUME NEW m \in Machines, Enroll(m) PROVE EntryInv'
  BY <1>7 DEF Enroll
<1>8. CASE CloseAll
  BY <1>8 DEF CloseAll
<1>9. CASE StopManager
  BY <1>9 DEF StopManager
<1>10. CASE Wake \/ Exit
  BY <1>10 DEF Wake, Exit
<1>11. CASE Crash
  BY <1>11 DEF Crash
<1>12. CASE Boot
  BY <1>12 DEF Boot
<1>13. CASE DialLoop \/ AgentReader \/ UNCHANGED vars \/ \E c \in Conns : Break(c)
  <2>1. UNCHANGED <<dbVars, hubVars, raced, faulted>>
    BY <1>13 DEF DialLoop, AnswerChallenge, ReadResult, AwaitFails, MarkConnected, Drain, Report,
                 SessionEnds, AgentReader, Hear, Deliver, LinkLost, Break, vars
  <2> QED
    BY <2>1
<1> QED
  BY <1>1, <1>2, <1>3, <1>4, <1>5, <1>6, <1>7, <1>8, <1>9, <1>10, <1>11, <1>12, <1>13
     DEF Next, Teardown

LEMMA PhasesKept == HubTypes /\ HubInv /\ [Next]_vars => PhaseInv'
<1> SUFFICES ASSUME HubTypes, HubInv, [Next]_vars PROVE PhaseInv'
  OBVIOUS
<1> USE DEF dbVars, registryVars, hubVars, historyVars, At, WaitAt, StopTimer, HubTypes, HubInv,
            TimerInv, EntryInv, PhaseInv, RegistryIsLive
<1>1. ASSUME NEW c \in Conns, ReadLoop(c) PROVE PhaseInv'
  <2>1. CASE Open(c)
    BY <2>1 DEF Open
  <2>2. CASE ReadHello(c)
    BY <2>2 DEF ReadHello
  <2>3. CASE RejectHello(c)
    BY <2>3 DEF RejectHello, Reject
  <2>4. CASE ReadAuth(c)
    BY <2>4 DEF ReadAuth
  <2>5. CASE Register(c)
    BY <2>5 DEF Register
  <2>6. CASE ReadOnline(c)
    BY <2>6 DEF ReadOnline
  <2>7. CASE SaveOnline(c)
    BY <2>7 DEF SaveOnline
  <2>8. CASE Withdraw(c)
    BY <2>8 DEF Withdraw
  <2>9. CASE Close(c)
    BY <2>9 DEF Close
  <2> QED
    BY <1>1, <2>1, <2>2, <2>3, <2>4, <2>5, <2>6, <2>7, <2>8, <2>9 DEF ReadLoop
<1>2. ASSUME NEW c \in Conns, Waiter(c) PROVE PhaseInv'
  <2>1. CASE Expire(c)
    BY <2>1 DEF Expire
  <2>2. CASE CheckTimer(c)
    BY <2>2 DEF CheckTimer
  <2>3. CASE ReadOffline(c)
    BY <2>3 DEF ReadOffline
  <2>4. CASE SaveOffline(c)
    BY <2>4 DEF SaveOffline
  <2> QED
    BY <1>2, <2>1, <2>2, <2>3, <2>4 DEF Waiter
<1>3. ASSUME NEW c \in Conns, Fault(c) PROVE PhaseInv'
  BY <1>3 DEF Fault, LookupFails, Reject, OnlineFails, OfflineFails
<1>4. ASSUME NEW c \in Conns, Dial(c) PROVE PhaseInv'
  BY <1>4 DEF Dial
<1>5. CASE Delete
  BY <1>5 DEF Delete
<1>6. CASE RecordDeleted
  BY <1>6 DEF RecordDeleted
<1>7. ASSUME NEW m \in Machines, Enroll(m) PROVE PhaseInv'
  BY <1>7 DEF Enroll
<1>8. CASE CloseAll
  BY <1>8 DEF CloseAll
<1>9. CASE StopManager
  BY <1>9 DEF StopManager
<1>10. CASE Wake \/ Exit
  BY <1>10 DEF Wake, Exit
<1>11. CASE Crash
  BY <1>11 DEF Crash
<1>12. CASE Boot
  BY <1>12 DEF Boot
<1>13. CASE DialLoop \/ AgentReader \/ UNCHANGED vars \/ \E c \in Conns : Break(c)
  <2>1. UNCHANGED <<dbVars, hubVars, raced, faulted>>
    BY <1>13 DEF DialLoop, AnswerChallenge, ReadResult, AwaitFails, MarkConnected, Drain, Report,
                 SessionEnds, AgentReader, Hear, Deliver, LinkLost, Break, vars
  <2> QED
    BY <2>1
<1> QED
  BY <1>1, <1>2, <1>3, <1>4, <1>5, <1>6, <1>7, <1>8, <1>9, <1>10, <1>11, <1>12, <1>13
     DEF Next, Teardown

LEMMA WritersKept == HubTypes /\ HubInv /\ WriterInv /\ [Next]_vars => WriterInv'
<1> SUFFICES ASSUME HubTypes, HubInv, WriterInv, [Next]_vars PROVE WriterInv'
  OBVIOUS
<1> USE DEF dbVars, registryVars, hubVars, historyVars, At, WaitAt, StopTimer, HubTypes, HubInv,
            TimerInv, EntryInv, PhaseInv, RegistryIsLive, WriterInv, Writing
<1>1. ASSUME NEW c \in Conns, ReadLoop(c) PROVE WriterInv'
  <2>1. CASE Open(c)
    BY <2>1 DEF Open
  <2>2. CASE ReadHello(c)
    BY <2>2 DEF ReadHello
  <2>3. CASE RejectHello(c)
    BY <2>3 DEF RejectHello, Reject
  <2>4. CASE ReadAuth(c)
    BY <2>4 DEF ReadAuth
  <2>5. CASE Register(c)
    <3>1. raced' \/ (UNCHANGED raced /\ (Stopped \/ ~Writing))
      BY <2>5, Zenon DEF Register
    <3>2. loop' \in [Conns -> LoopPlaces] /\ UNCHANGED <<dbVars, phase, hooked, owner, faulted>>
      BY <2>5 DEF Register, LoopPlaces
    <3>3. CASE Stopped
      BY <2>5, <3>1, <3>3 DEF Register
    <3>4. CASE ~Stopped /\ ~Writing
      BY <2>5, <3>1, <3>4 DEF Register
    <3>5. CASE raced' /\ ~Stopped
      BY <3>2, <3>5, <2>5 DEF Register
    <3> QED
      BY <3>1, <3>3, <3>4, <3>5
  <2>6. CASE ReadOnline(c)
    BY <2>6 DEF ReadOnline
  <2>7. CASE SaveOnline(c)
    BY <2>7 DEF SaveOnline
  <2>8. CASE Withdraw(c)
    BY <2>8 DEF Withdraw
  <2>9. CASE Close(c)
    BY <2>9 DEF Close
  <2> QED
    BY <1>1, <2>1, <2>2, <2>3, <2>4, <2>5, <2>6, <2>7, <2>8, <2>9 DEF ReadLoop
<1>2. ASSUME NEW c \in Conns, Waiter(c) PROVE WriterInv'
  <2>1. CASE Expire(c)
    BY <2>1 DEF Expire
  <2>2. CASE CheckTimer(c)
    BY <2>2 DEF CheckTimer
  <2>3. CASE ReadOffline(c)
    BY <2>3 DEF ReadOffline
  <2>4. CASE SaveOffline(c)
    BY <2>4 DEF SaveOffline
  <2> QED
    BY <1>2, <2>1, <2>2, <2>3, <2>4 DEF Waiter
<1>3. ASSUME NEW c \in Conns, Fault(c) PROVE WriterInv'
  BY <1>3 DEF Fault, LookupFails, Reject, OnlineFails, OfflineFails
<1>4. ASSUME NEW c \in Conns, Dial(c) PROVE WriterInv'
  BY <1>4 DEF Dial
<1>5. CASE Delete
  BY <1>5 DEF Delete
<1>6. CASE RecordDeleted
  BY <1>6 DEF RecordDeleted
<1>7. ASSUME NEW m \in Machines, Enroll(m) PROVE WriterInv'
  BY <1>7 DEF Enroll
<1>8. CASE CloseAll
  BY <1>8 DEF CloseAll
<1>9. CASE StopManager
  BY <1>9 DEF StopManager
<1>10. CASE Wake \/ Exit
  BY <1>10 DEF Wake, Exit
<1>11. CASE Crash
  BY <1>11 DEF Crash
<1>12. CASE Boot
  BY <1>12 DEF Boot
<1>13. CASE DialLoop \/ AgentReader \/ UNCHANGED vars \/ \E c \in Conns : Break(c)
  <2>1. UNCHANGED <<dbVars, hubVars, raced, faulted>>
    BY <1>13 DEF DialLoop, AnswerChallenge, ReadResult, AwaitFails, MarkConnected, Drain, Report,
                 SessionEnds, AgentReader, Hear, Deliver, LinkLost, Break, vars
  <2> QED
    BY <2>1
<1> QED
  BY <1>1, <1>2, <1>3, <1>4, <1>5, <1>6, <1>7, <1>8, <1>9, <1>10, <1>11, <1>12, <1>13
     DEF Next, Teardown

LEMMA ShownOnlineKept == HubTypes /\ HubInv /\ StatusInv /\ [Next]_vars => ConnectedShowsOnline'
<1> SUFFICES ASSUME HubTypes, HubInv, StatusInv, [Next]_vars PROVE ConnectedShowsOnline'
  OBVIOUS
<1> USE DEF dbVars, registryVars, hubVars, historyVars, At, WaitAt, StopTimer, HubTypes, HubInv,
            TimerInv, EntryInv, PhaseInv, RegistryIsLive, StatusInv, WriterInv, ConnectedShowsOnline,
            Writing
<1>1. ASSUME NEW c \in Conns, ReadLoop(c) PROVE ConnectedShowsOnline'
  <2>1. CASE Open(c)
    BY <2>1 DEF Open
  <2>2. CASE ReadHello(c)
    BY <2>2 DEF ReadHello
  <2>3. CASE RejectHello(c)
    BY <2>3 DEF RejectHello, Reject
  <2>4. CASE ReadAuth(c)
    BY <2>4 DEF ReadAuth
  <2>5. CASE Register(c)
    BY <2>5 DEF Register
  <2>6. CASE ReadOnline(c)
    BY <2>6 DEF ReadOnline
  <2>7. CASE SaveOnline(c)
    BY <2>7 DEF SaveOnline
  <2>8. CASE Withdraw(c)
    BY <2>8 DEF Withdraw
  <2>9. CASE Close(c)
    BY <2>9 DEF Close
  <2> QED
    BY <1>1, <2>1, <2>2, <2>3, <2>4, <2>5, <2>6, <2>7, <2>8, <2>9 DEF ReadLoop
<1>2. ASSUME NEW c \in Conns, Waiter(c) PROVE ConnectedShowsOnline'
  <2>1. CASE Expire(c)
    BY <2>1 DEF Expire
  <2>2. CASE CheckTimer(c)
    BY <2>2 DEF CheckTimer
  <2>3. CASE ReadOffline(c)
    BY <2>3 DEF ReadOffline
  <2>4. CASE SaveOffline(c)
    BY <2>4 DEF SaveOffline
  <2> QED
    BY <1>2, <2>1, <2>2, <2>3, <2>4 DEF Waiter
<1>3. ASSUME NEW c \in Conns, Fault(c) PROVE ConnectedShowsOnline'
  BY <1>3 DEF Fault, LookupFails, Reject, OnlineFails, OfflineFails
<1>4. ASSUME NEW c \in Conns, Dial(c) PROVE ConnectedShowsOnline'
  BY <1>4 DEF Dial
<1>5. CASE Delete
  BY <1>5 DEF Delete
<1>6. CASE RecordDeleted
  BY <1>6 DEF RecordDeleted
<1>7. ASSUME NEW m \in Machines, Enroll(m) PROVE ConnectedShowsOnline'
  BY <1>7 DEF Enroll
<1>8. CASE CloseAll
  BY <1>8 DEF CloseAll
<1>9. CASE StopManager
  BY <1>9 DEF StopManager
<1>10. CASE Wake \/ Exit
  BY <1>10 DEF Wake, Exit
<1>11. CASE Crash
  BY <1>11 DEF Crash
<1>12. CASE Boot
  BY <1>12 DEF Boot
<1>13. CASE DialLoop \/ AgentReader \/ UNCHANGED vars \/ \E c \in Conns : Break(c)
  <2>1. UNCHANGED <<dbVars, hubVars, raced, faulted>>
    BY <1>13 DEF DialLoop, AnswerChallenge, ReadResult, AwaitFails, MarkConnected, Drain, Report,
                 SessionEnds, AgentReader, Hear, Deliver, LinkLost, Break, vars
  <2> QED
    BY <2>1
<1> QED
  BY <1>1, <1>2, <1>3, <1>4, <1>5, <1>6, <1>7, <1>8, <1>9, <1>10, <1>11, <1>12, <1>13
     DEF Next, Teardown

LEMMA AccountedKept == HubTypes /\ HubInv /\ StatusInv /\ [Next]_vars => OnlineIsAccountedFor'
<1> SUFFICES ASSUME HubTypes, HubInv, StatusInv, [Next]_vars PROVE OnlineIsAccountedFor'
  OBVIOUS
<1> USE DEF dbVars, registryVars, hubVars, historyVars, At, WaitAt, StopTimer, HubTypes, HubInv,
            TimerInv, EntryInv, PhaseInv, RegistryIsLive, StatusInv, WriterInv, OnlineIsAccountedFor,
            Writing
<1>1. ASSUME NEW c \in Conns, ReadLoop(c) PROVE OnlineIsAccountedFor'
  <2>1. CASE Open(c)
    BY <2>1 DEF Open
  <2>2. CASE ReadHello(c)
    BY <2>2 DEF ReadHello
  <2>3. CASE RejectHello(c)
    BY <2>3 DEF RejectHello, Reject
  <2>4. CASE ReadAuth(c)
    BY <2>4 DEF ReadAuth
  <2>5. CASE Register(c)
    <3>1. raced' \/ (UNCHANGED raced /\ (Stopped \/ ~Writing))
      BY <2>5, Zenon DEF Register
    <3>2. loop' \in [Conns -> LoopPlaces] /\ UNCHANGED <<dbVars, phase, hooked, owner, faulted>>
      BY <2>5 DEF Register, LoopPlaces
    <3>3. CASE Stopped
      BY <2>5, <3>1, <3>3 DEF Register
    <3>4. CASE ~Stopped /\ ~Writing
      BY <2>5, <3>1, <3>4 DEF Register
    <3>5. CASE raced' /\ ~Stopped
      BY <3>2, <3>5, <2>5 DEF Register
    <3> QED
      BY <3>1, <3>3, <3>4, <3>5
  <2>6. CASE ReadOnline(c)
    BY <2>6 DEF ReadOnline
  <2>7. CASE SaveOnline(c)
    BY <2>7 DEF SaveOnline
  <2>8. CASE Withdraw(c)
    BY <2>8 DEF Withdraw
  <2>9. CASE Close(c)
    <3>1. CASE registered # c
      <4>1. UNCHANGED <<dbVars, registered, pending, wait, owner, phase, raced, faulted>>
        BY <2>9, <3>1 DEF Close
      <4> QED
        BY <4>1
    <3>2. CASE registered = c /\ Stopped
      BY <2>9, <3>2 DEF Close, Stopped
    <3>3. CASE registered = c /\ ~Stopped
      <4>1. pending' = c /\ UNCHANGED <<dbVars, owner>>
        BY <2>9, <3>3 DEF Close
      <4>2. loop[c] = "serve"
        BY <2>9, <3>3 DEF Close
      <4>3. rec = NoMachine \/ rec = owner[c]
        BY <4>2
      <4> QED
        BY <4>1, <4>3
    <3> QED
      BY <3>1, <3>2, <3>3
  <2> QED
    BY <1>1, <2>1, <2>2, <2>3, <2>4, <2>5, <2>6, <2>7, <2>8, <2>9 DEF ReadLoop
<1>2. ASSUME NEW c \in Conns, Waiter(c) PROVE OnlineIsAccountedFor'
  <2>1. CASE Expire(c)
    BY <2>1 DEF Expire
  <2>2. CASE CheckTimer(c)
    BY <2>2 DEF CheckTimer
  <2>3. CASE ReadOffline(c)
    BY <2>3 DEF ReadOffline
  <2>4. CASE SaveOffline(c)
    BY <2>4 DEF SaveOffline
  <2> QED
    BY <1>2, <2>1, <2>2, <2>3, <2>4 DEF Waiter
<1>3. ASSUME NEW c \in Conns, Fault(c) PROVE OnlineIsAccountedFor'
  BY <1>3 DEF Fault, LookupFails, Reject, OnlineFails, OfflineFails
<1>4. ASSUME NEW c \in Conns, Dial(c) PROVE OnlineIsAccountedFor'
  BY <1>4 DEF Dial
<1>5. CASE Delete
  BY <1>5 DEF Delete
<1>6. CASE RecordDeleted
  BY <1>6 DEF RecordDeleted
<1>7. ASSUME NEW m \in Machines, Enroll(m) PROVE OnlineIsAccountedFor'
  BY <1>7 DEF Enroll
<1>8. CASE CloseAll
  BY <1>8 DEF CloseAll
<1>9. CASE StopManager
  BY <1>9 DEF StopManager
<1>10. CASE Wake \/ Exit
  BY <1>10 DEF Wake, Exit
<1>11. CASE Crash
  BY <1>11 DEF Crash
<1>12. CASE Boot
  BY <1>12 DEF Boot
<1>13. CASE DialLoop \/ AgentReader \/ UNCHANGED vars \/ \E c \in Conns : Break(c)
  <2>1. UNCHANGED <<dbVars, hubVars, raced, faulted>>
    BY <1>13 DEF DialLoop, AnswerChallenge, ReadResult, AwaitFails, MarkConnected, Drain, Report,
                 SessionEnds, AgentReader, Hear, Deliver, LinkLost, Break, vars
  <2> QED
    BY <2>1
<1> QED
  BY <1>1, <1>2, <1>3, <1>4, <1>5, <1>6, <1>7, <1>8, <1>9, <1>10, <1>11, <1>12, <1>13
     DEF Next, Teardown

LEMMA HubKept == HubTypes /\ HubInv /\ StatusInv /\ [Next]_vars => HubInv' /\ StatusInv'
<1> SUFFICES ASSUME HubTypes, HubInv, StatusInv, [Next]_vars PROVE HubInv' /\ StatusInv'
  OBVIOUS
<1>1. TimerInv' /\ EntryInv' /\ PhaseInv'
  BY TimersKept, EntriesKept, PhasesKept
<1>2. WriterInv'
  BY WritersKept DEF StatusInv
<1>3. ConnectedShowsOnline' /\ OnlineIsAccountedFor'
  BY ShownOnlineKept, AccountedKept
<1> QED
  BY <1>1, <1>2, <1>3 DEF HubInv, StatusInv

-----------------------------------------------------------------------------
(* The notice of removal.                                                  *)

\* A notice is on its way only to the agent of a machine that is gone.
NoNotice(q) == \A i \in DOMAIN q : q[i] # "removed"
Unnoticed ==
    /\ NoNotice(down[sock]) /\ NoNotice(inbox)
    /\ held.msg # "removed" /\ reason # "removed"
SockInv ==
    /\ sock = NoConn <=> dial \in {"asleep", "stopped"}
    /\ sock # NoConn /\ rec # NoMachine => Unnoticed
NoticeInv == StopsOnlyWhenRemoved /\ SockInv

LEMMA NoNoticeIn ==
    ASSUME NEW q \in Seq(Messages), NoNotice(q)
    PROVE  /\ q # <<>> => Head(q) # "removed" /\ NoNotice(Tail(q))
           /\ \A m \in Messages \ {"removed"} : NoNotice(Append(q, m))
BY DEF NoNotice

LEMMA NoNoticeInNone == NoNotice(<<>>)
BY DEF NoNotice

LEMMA InitNotice == Init => NoticeInv
BY DEF Init, NoticeInv, SockInv, StopsOnlyWhenRemoved

\* What the hub sends, but for RecordDeleted, is no notice.
LEMMA TellUnnoticed ==
    ASSUME NetTypes, AgentTypes, NEW c \in Conns, NEW m \in Messages \ {"removed"}, Tell(c, m),
           UNCHANGED agentVars, sock # NoConn, Unnoticed
    PROVE  Unnoticed'
<1>1. sock \in Conns /\ down[sock] \in Seq(Messages)
  BY DEF NetTypes, AgentTypes
<1>2. NoNotice(Append(down[sock], m)) /\ NoNotice(down[sock])
  BY <1>1, NoNoticeIn DEF Unnoticed
<1>3. down'[sock] = down[sock] \/ down'[sock] = Append(down[sock], m)
  BY <1>1 DEF Tell, NetTypes
<1>4. UNCHANGED <<sock, inbox, held, reason>>
  BY DEF agentVars
<1> QED
  BY <1>2, <1>3, <1>4 DEF Unnoticed

\* To leave a session is to forget what was said in it.
LEMMA LeaveUnnoticed ==
    ASSUME NEW d, d = "asleep" \/ (d = "stopped" /\ rec = NoMachine), LeaveFor(d), UNCHANGED rec
    PROVE  NoticeInv'
BY DEF LeaveFor, NoticeInv, SockInv, StopsOnlyWhenRemoved

LEMMA NoticeKept == TypeOK /\ HubInv /\ NoticeInv /\ [Next]_vars => NoticeInv'
<1> SUFFICES ASSUME HubTypes, NetTypes, AgentTypes, HubInv, NoticeInv, [Next]_vars
             PROVE  NoticeInv'
  BY DEF TypeOK
<1> USE DEF NoticeInv, SockInv, StopsOnlyWhenRemoved
<1>0. CASE UNCHANGED <<rec, agentVars>> /\ (sock # NoConn => down'[sock] = down[sock])
  BY <1>0 DEF agentVars, Unnoticed
<1>1. ASSUME NEW c \in Conns, ReadLoop(c) PROVE NoticeInv'
  <2>1. CASE ReadHello(c) \/ RejectHello(c) \/ ReadAuth(c)
    <3>1. UNCHANGED <<rec, agentVars>>
      BY <2>1 DEF ReadHello, RejectHello, Reject, ReadAuth, dbVars
    <3>2. PICK m \in {"challenge", "unknown", "ok"} : Tell(c, m)
      BY <2>1 DEF ReadHello, RejectHello, Reject, ReadAuth
    <3>3. m \in Messages \ {"removed"}
      BY DEF Messages
    <3>4. sock # NoConn /\ Unnoticed => Unnoticed'
      BY <3>1, <3>2, <3>3, TellUnnoticed
    <3> QED
      BY <3>1, <3>4 DEF agentVars
  <2>2. CASE Open(c) \/ Register(c) \/ ReadOnline(c) \/ SaveOnline(c) \/ Withdraw(c) \/ Close(c)
    BY <1>0, <2>2 DEF Open, Register, ReadOnline, SaveOnline, Withdraw, Close, dbVars, netVars
  <2> QED
    BY <1>1, <2>1, <2>2 DEF ReadLoop
<1>2. ASSUME NEW c \in Conns, Waiter(c) PROVE NoticeInv'
  BY <1>0, <1>2 DEF Waiter, Expire, CheckTimer, ReadOffline, SaveOffline, dbVars, netVars
<1>3. ASSUME NEW c \in Conns, Fault(c) PROVE NoticeInv'
  <2>1. CASE LookupFails(c)
    <3>1. UNCHANGED <<rec, agentVars>> /\ Tell(c, "unknown")
      BY <2>1 DEF LookupFails, Reject, dbVars
    <3>2. "unknown" \in Messages \ {"removed"}
      BY DEF Messages
    <3>3. sock # NoConn /\ Unnoticed => Unnoticed'
      BY <3>1, <3>2, TellUnnoticed
    <3> QED
      BY <3>1, <3>3 DEF agentVars
  <2>2. CASE OnlineFails(c) \/ OfflineFails(c)
    BY <1>0, <2>2 DEF OnlineFails, OfflineFails, dbVars, netVars
  <2> QED
    BY <1>3, <2>1, <2>2 DEF Fault
<1>4. ASSUME NEW c \in Conns, Break(c) PROVE NoticeInv'
  <2>1. UNCHANGED <<rec, agentVars>>
    BY <1>4 DEF Break, dbVars
  <2>2. sock # NoConn => down'[sock] = down[sock] \/ down'[sock] = <<>>
    BY <1>4 DEF Break, NetTypes, AgentTypes
  <2> QED
    BY <2>1, <2>2, NoNoticeInNone DEF agentVars, Unnoticed
<1>5. ASSUME NEW c \in Conns, Dial(c) PROVE NoticeInv'
  <2>1. "hello" \notin {"asleep", "stopped"} /\ dial' = "hello" /\ sock' = c
    BY <1>5 DEF Dial
  <2>2. down'[c] = <<>> /\ inbox' = <<>> /\ held' = Nothing /\ reason' = "none"
    BY <1>5 DEF Dial, NetTypes
  <2> QED
    BY <2>1, <2>2, NoNoticeInNone DEF Unnoticed, Nothing
<1>6. CASE Delete \/ (\E m \in Machines : Enroll(m))
  BY <1>6 DEF Delete, Enroll, agentVars
<1>7. CASE RecordDeleted
  <2>1. rec = NoMachine /\ UNCHANGED <<rec, agentVars>>
    BY <1>7 DEF RecordDeleted, HubInv, EntryInv, dbVars
  <2> QED
    BY <2>1 DEF agentVars
<1>8. CASE CloseAll \/ Teardown \/ Crash \/ Boot
  BY <1>0, <1>8 DEF CloseAll, Teardown, StopManager, Wake, Exit, Crash, Boot, dbVars, netVars
<1>9. CASE DialLoop
  <2>1. CASE \E d \in {"asleep", "stopped"} : LeaveFor(d)
    <3>1. UNCHANGED rec
      BY <1>9 DEF DialLoop, AnswerChallenge, ReadResult, AwaitFails, MarkConnected, Drain, Report,
                  SessionEnds, dbVars
    <3>2. CASE LeaveFor("asleep")
      BY <3>1, <3>2, LeaveUnnoticed
    <3>3. CASE LeaveFor("stopped") /\ ~LeaveFor("asleep")
      <4>1. reason = "removed" /\ sock # NoConn
        BY <1>9, <3>3 DEF DialLoop, AnswerChallenge, ReadResult, AwaitFails, MarkConnected, Drain,
                          Report, SessionEnds, LeaveFor
      <4>2. rec = NoMachine
        BY <4>1 DEF Unnoticed
      <4> QED
        BY <3>1, <3>3, <4>2, LeaveUnnoticed
    <3> QED
      BY <2>1, <3>2, <3>3
  <2>2. CASE ~\E d \in {"asleep", "stopped"} : LeaveFor(d)
    <3>1. /\ UNCHANGED <<rec, down, sock, held>>
          /\ dial \notin {"asleep", "stopped"} /\ dial' \notin {"asleep", "stopped"}
      BY <1>9, <2>2 DEF DialLoop, AnswerChallenge, ReadResult, AwaitFails, MarkConnected, Drain,
                        Report, SessionEnds, dbVars, netVars
    <3>2. \/ inbox' = inbox /\ reason' = reason
          \/ inbox # <<>> /\ inbox' = Tail(inbox)
             /\ (reason' = reason \/ Head(inbox) = "removed")
      BY <1>9, <2>2 DEF DialLoop, AnswerChallenge, ReadResult, AwaitFails, MarkConnected, Drain,
                        Report, SessionEnds, OnConnected
    <3>3. sock # NoConn /\ Unnoticed => Unnoticed'
      BY <3>1, <3>2, NoNoticeIn DEF Unnoticed, AgentTypes
    <3> QED
      BY <3>1, <3>3
  <2> QED
    BY <2>1, <2>2
<1>10. CASE AgentReader
  <2>1. UNCHANGED <<rec, dial, sock>>
    BY <1>10 DEF AgentReader, Hear, Deliver, LinkLost, dbVars
  <2>2. CASE Hear
    <3>1. sock \in Conns /\ down[sock] \in Seq(Messages) /\ down[sock] # <<>>
      BY <2>2 DEF Hear, NetTypes, AgentTypes
    <3>2. held'.msg = Head(down[sock]) /\ down'[sock] = Tail(down[sock])
      BY <2>2, <3>1 DEF Hear, NetTypes
    <3>3. UNCHANGED <<inbox, reason>>
      BY <2>2 DEF Hear
    <3>4. Unnoticed => Unnoticed'
      BY <2>1, <3>1, <3>2, <3>3, NoNoticeIn DEF Unnoticed
    <3> QED
      BY <2>1, <3>4
  <2>3. CASE Deliver
    <3>1. held' = Nothing /\ held # Nothing /\ UNCHANGED down
      BY <2>3 DEF Deliver
    <3>2. Unnoticed => UNCHANGED reason
      BY <2>3 DEF Deliver, OnConnected, Unnoticed
    <3>3. inbox' = inbox \/ (~held.direct /\ inbox' = Append(inbox, held.msg))
      BY <2>3 DEF Deliver
    <3>4. ~held.direct => held.msg \in Messages
      <4>1. held \in [msg : Messages \union {"none"}, direct : BOOLEAN]
        BY DEF AgentTypes
      <4> QED
        BY <3>1, <4>1 DEF Nothing
    <3>5. Unnoticed => NoNotice(inbox')
      BY <3>3, <3>4, NoNoticeIn DEF Unnoticed, AgentTypes
    <3>6. held'.msg # "removed"
      BY <3>1 DEF Nothing
    <3> QED
      BY <2>1, <3>1, <3>2, <3>5, <3>6 DEF Unnoticed
  <2>4. CASE LinkLost
    BY <2>1, <2>4 DEF LinkLost, netVars, Unnoticed
  <2> QED
    BY <1>10, <2>2, <2>3, <2>4 DEF AgentReader
<1>11. CASE UNCHANGED vars
  BY <1>0, <1>11 DEF vars, dbVars, netVars
<1> QED
  BY <1>1, <1>2, <1>3, <1>4, <1>5, <1>6, <1>7, <1>8, <1>9, <1>10, <1>11 DEF Next

-----------------------------------------------------------------------------
(* The theorems.                                                           *)

LEMMA Invariants == Spec => [](TypeOK /\ HubInv /\ StatusInv /\ NoticeInv)
<1>1. Init => TypeOK /\ HubInv /\ StatusInv /\ NoticeInv
  BY InitTyped, InitHub, InitNotice
<1>2. TypeOK /\ HubInv /\ StatusInv /\ NoticeInv /\ [Next]_vars
        => TypeOK' /\ HubInv' /\ StatusInv' /\ NoticeInv'
  BY TypesKept, HubKept, NoticeKept DEF TypeOK
<1> QED
  BY <1>1, <1>2, PTL DEF Spec

\* manager.go Register, Unregister, OnRecordDeleted: no connection stays registered that has
\* ended, or whose record is gone for good.
THEOREM RegistryStaysLive == Spec => []RegistryIsLive
<1>1. HubInv => RegistryIsLive
  BY DEF HubInv, EntryInv
<1> QED
  BY <1>1, Invariants, PTL

\* setStatus: a machine that is served is shown as online, but for races of the two writers
\* and failed saves.
THEOREM ServedIsOnline == Spec => []ConnectedShowsOnline
<1>1. StatusInv => ConnectedShowsOnline
  BY DEF StatusInv
<1> QED
  BY <1>1, Invariants, PTL

\* Unregister and waitAndMarkOffline: a machine that is shown as online without a connection
\* is waited for, but for the same exceptions.
THEOREM OnlineIsAwaited == Spec => []OnlineIsAccountedFor
<1>1. StatusInv => OnlineIsAccountedFor
  BY DEF StatusInv
<1> QED
  BY <1>1, Invariants, PTL

\* Client.Run: an agent stops for good only when its machine was removed.
THEOREM StopsForRemoval == Spec => []StopsOnlyWhenRemoved
<1>1. NoticeInv => StopsOnlyWhenRemoved
  BY DEF NoticeInv
<1> QED
  BY <1>1, Invariants, PTL

=============================================================================
