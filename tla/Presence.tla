------------------------------ MODULE Presence ------------------------------
(***************************************************************************)
(* Who is online: the hub's registry of connections with its grace timer   *)
(* (machines/manager.go), the read loops and the handshake that feed it    *)
(* (ws/handler.go, handshake/server.go), its shutdown and restart, and the *)
(* agent that dials, is rejected, retries and stops (conn/dial.go,         *)
(* conn/client.go).                                                        *)
(*                                                                         *)
(* The registry is keyed by fingerprint and fingerprints share nothing, so *)
(* one is modelled.  Its record may be deleted, and enrolled anew under    *)
(* another id.  Every lock section of the manager is one step; the reads   *)
(* and writes of the database lie between them.                            *)
(***************************************************************************)
EXTENDS Naturals, Sequences

CONSTANTS
    Machines,   \* ids of machine records
    Conns,      \* connections; one that has ended may be used again
    NoMachine,
    NoConn

ASSUME PresenceAssumption == NoMachine \notin Machines /\ NoConn \notin Conns

VARIABLES
    \* the database
    rec,        \* the record of this fingerprint, or NoMachine
    status,     \* its column status
    \* the hub process
    phase,      \* "serving", "closing" (CloseAll, Wait), "stopping" (Manager.Stop), "down"
    hooked,     \* the record is deleted and OnRecordDeleted has not run yet
    registered, \* Manager.conns[fingerprint]
    pending,    \* Manager.pending[fingerprint]: the connection whose end started the timer
    loop,       \* per connection: what its read loop is at
    owner,      \* per connection: the machine id its handshake found
    wait,       \* per connection: what its waitAndMarkOffline is at
    parked,     \* some waitAndMarkOffline waits for a timer that was stopped
    \* the network
    cut,        \* per connection: closed by a side, or broken
    up, down,   \* per connection: messages to the hub, and to the agent
    \* the agent process
    dial,       \* what Run and Dial are at
    sock,       \* the connection of the running Dial or session
    connected,  \* handler.connected
    inbox,      \* handler.inbox
    held,       \* OnMessage has read `connected` and has not yet passed the message on
    reason,     \* Session.err
    \* history
    raced,      \* a connection was registered while the record was being changed for another
    faulted,    \* a read or a write of the record failed
    late,       \* a connection was being opened when CloseAll listed the live ones
    told        \* the agent has received the notice that its machine was removed

dbVars == <<rec, status>>
registryVars == <<registered, pending, wait, parked>>
hubVars == <<phase, hooked, registryVars, loop, owner>>
netVars == <<cut, up, down>>
agentVars == <<dial, sock, connected, inbox, held, reason>>
historyVars == <<raced, faulted, late, told>>
vars == <<dbVars, hubVars, netVars, agentVars, historyVars>>

Nothing == [msg |-> "none", direct |-> FALSE]

Init ==
    /\ rec \in Machines /\ status = "offline"
    /\ phase = "serving" /\ hooked = FALSE /\ registered = NoConn /\ pending = NoConn
    /\ loop = [c \in Conns |-> "none"] /\ owner = [c \in Conns |-> NoMachine]
    /\ wait = [c \in Conns |-> "none"] /\ parked = FALSE
    /\ cut = [c \in Conns |-> TRUE]
    /\ up = [c \in Conns |-> <<>>] /\ down = [c \in Conns |-> <<>>]
    /\ dial = "asleep" /\ sock = NoConn /\ connected = FALSE
    /\ inbox = <<>> /\ held = Nothing /\ reason = "none"
    /\ raced = FALSE /\ faulted = FALSE /\ late = FALSE /\ told = FALSE

-----------------------------------------------------------------------------
(* The read loop of a connection at the hub.                               *)

Stopped == phase \in {"stopping", "down"}

At(c, l) == loop' = [loop EXCEPT ![c] = l]

\* What is written to a connection that is cut does not arrive.
Tell(c, m) == down' = IF cut[c] THEN down ELSE [down EXCEPT ![c] = Append(@, m)]

\* OnOpen: from here on CloseAll knows the connection.
Open(c) ==
    /\ loop[c] = "opening" /\ At(c, "hello")
    /\ UNCHANGED <<dbVars, phase, hooked, registryVars, owner, netVars, agentVars, historyVars>>

\* handleHello, for a known fingerprint.
ReadHello(c) ==
    /\ loop[c] = "hello" /\ up[c] # <<>> /\ Head(up[c]) = "hello" /\ rec # NoMachine
    /\ up' = [up EXCEPT ![c] = Tail(@)]
    /\ owner' = [owner EXCEPT ![c] = rec]
    /\ Tell(c, "challenge") /\ At(c, "auth")
    /\ UNCHANGED <<dbVars, phase, hooked, registryVars, cut, agentVars, historyVars>>

\* reject: the agent is told why, and the connection closed.
Reject(c) ==
    /\ loop[c] = "hello" /\ up[c] # <<>> /\ Head(up[c]) = "hello"
    /\ up' = [up EXCEPT ![c] = Tail(@)]
    /\ Tell(c, "unknown") /\ At(c, "over")
    /\ cut' = [cut EXCEPT ![c] = TRUE]
    /\ UNCHANGED <<dbVars, phase, hooked, registryVars, owner, agentVars, raced, late, told>>

RejectHello(c) == rec = NoMachine /\ Reject(c) /\ UNCHANGED faulted

\* handleAuth, then handleHandshake: the result is written before Register is called; a
\* write that fails ends the matter.
ReadAuth(c) ==
    /\ loop[c] = "auth" /\ up[c] # <<>> /\ Head(up[c]) = "auth"
    /\ up' = [up EXCEPT ![c] = Tail(@)]
    /\ Tell(c, "ok")
    /\ At(c, "enter") \/ (cut[c] /\ At(c, "over"))
    /\ UNCHANGED <<dbVars, phase, hooked, registryVars, owner, cut, agentVars, historyVars>>

\* A timer that is stopped leaves its waitAndMarkOffline waiting for the end of the hub.
StopTimer ==
    /\ pending' = NoConn
    /\ IF pending # NoConn /\ wait[pending] = "armed"
       THEN wait' = [wait EXCEPT ![pending] = "none"] /\ parked' = TRUE
       ELSE UNCHANGED <<wait, parked>>

\* Somebody is between the lock and the save of setStatus.
Writing ==
    \/ \E c \in Conns : wait[c] \in {"read", "save"}
    \/ registered # NoConn /\ loop[registered] \in {"read", "save"}

\* Register, its first lock section, and the close of the connection that was replaced.
Register(c) ==
    /\ loop[c] = "enter"
    /\ IF Stopped
       THEN /\ At(c, "over") /\ cut' = [cut EXCEPT ![c] = TRUE]
            /\ UNCHANGED <<registryVars, raced>>
       ELSE /\ registered' = c /\ StopTimer
            /\ At(c, "read")
            /\ cut' = [d \in Conns |-> cut[d] \/ (d = registered /\ d # c)]
            /\ raced' = (raced \/ Writing)
    /\ UNCHANGED <<dbVars, phase, hooked, owner, up, down, agentVars, faulted, late, told>>

\* setStatus(online), the query.
ReadOnline(c) ==
    /\ loop[c] = "read"
    /\ At(c, IF rec # owner[c] THEN "withdraw" ELSE IF status = "online" THEN "serve" ELSE "save")
    /\ UNCHANGED <<dbVars, phase, hooked, registryVars, owner, netVars, agentVars, historyVars>>

\* setStatus(online), the save: it changes the record if that is still there.
SaveOnline(c) ==
    /\ loop[c] = "save" /\ At(c, "serve")
    /\ status' = IF rec = owner[c] THEN "online" ELSE status
    /\ UNCHANGED <<rec, phase, hooked, registryVars, owner, netVars, agentVars, historyVars>>

\* A mutant: the connection of a missing record stays in the registry.
WithdrawNothing(c) ==
    /\ loop[c] = "withdraw" /\ At(c, "over")
    /\ cut' = [cut EXCEPT ![c] = TRUE]
    /\ UNCHANGED <<dbVars, phase, hooked, registryVars, owner, up, down, agentVars, historyVars>>

\* Register, the error path; handleHandshake closes the connection.
Withdraw(c) ==
    /\ loop[c] = "withdraw" /\ At(c, "over")
    /\ registered' = IF registered = c THEN NoConn ELSE registered
    /\ cut' = [cut EXCEPT ![c] = TRUE]
    /\ UNCHANGED <<dbVars, phase, hooked, pending, wait, parked, owner, up, down, agentVars,
                   historyVars>>

\* OnClose and Unregister.
Close(c) ==
    /\ cut[c] /\ loop[c] \in {"hello", "auth", "serve", "over"}
    /\ At(c, "none")
    /\ IF registered = c
       THEN /\ registered' = NoConn
            /\ IF Stopped
               THEN UNCHANGED <<pending, wait>>
               ELSE pending' = c /\ wait' = [wait EXCEPT ![c] = "armed"]
       ELSE UNCHANGED <<registered, pending, wait>>
    /\ UNCHANGED <<dbVars, phase, hooked, parked, owner, netVars, agentVars, historyVars>>

ReadLoop(c) ==
    \/ Open(c) \/ ReadHello(c) \/ RejectHello(c) \/ ReadAuth(c) \/ Register(c) \/ ReadOnline(c)
    \/ SaveOnline(c) \/ Withdraw(c) \/ Close(c)

-----------------------------------------------------------------------------
(* waitAndMarkOffline.                                                     *)

WaitAt(c, w) == wait' = [wait EXCEPT ![c] = w]

\* The grace period is over.
Expire(c) ==
    /\ wait[c] = "armed" /\ WaitAt(c, "fired")
    /\ UNCHANGED <<dbVars, phase, hooked, registered, pending, parked, loop, owner, netVars,
                   agentVars, historyVars>>

\* A mutant: the timer that was replaced is not told from the current one.
CheckNothing(c) ==
    /\ wait[c] = "fired" /\ pending' = NoConn /\ WaitAt(c, "read")
    /\ UNCHANGED <<dbVars, phase, hooked, registered, parked, loop, owner, netVars, agentVars,
                   historyVars>>

\* The lock section.
CheckTimer(c) ==
    /\ wait[c] = "fired"
    /\ IF pending = c
       THEN /\ pending' = NoConn
            /\ WaitAt(c, IF registered # NoConn THEN "none" ELSE "read")
       ELSE UNCHANGED pending /\ WaitAt(c, "none")
    /\ UNCHANGED <<dbVars, phase, hooked, registered, parked, loop, owner, netVars, agentVars,
                   historyVars>>

\* setStatus(offline), outside the lock: the query, and the save.
ReadOffline(c) ==
    /\ wait[c] = "read"
    /\ WaitAt(c, IF rec = owner[c] /\ status = "online" THEN "save" ELSE "none")
    /\ UNCHANGED <<dbVars, phase, hooked, registered, pending, parked, loop, owner, netVars,
                   agentVars, historyVars>>

SaveOffline(c) ==
    /\ wait[c] = "save" /\ WaitAt(c, "none")
    /\ status' = IF rec = owner[c] THEN "offline" ELSE status
    /\ UNCHANGED <<rec, phase, hooked, registered, pending, parked, loop, owner, netVars,
                   agentVars, historyVars>>

Waiter(c) == Expire(c) \/ CheckTimer(c) \/ ReadOffline(c) \/ SaveOffline(c)

-----------------------------------------------------------------------------
(* The database fails.                                                     *)

\* The agent is rejected like an unknown one.
LookupFails(c) == Reject(c) /\ faulted' = TRUE

\* setStatus fails in Register, ...
OnlineFails(c) ==
    /\ loop[c] \in {"read", "save"} /\ At(c, "withdraw") /\ faulted' = TRUE
    /\ UNCHANGED <<dbVars, phase, hooked, registryVars, owner, netVars, agentVars,
                   raced, late, told>>

\* ... and in waitAndMarkOffline, which logs it and ends.
OfflineFails(c) ==
    /\ wait[c] \in {"read", "save"} /\ WaitAt(c, "none") /\ faulted' = TRUE
    /\ UNCHANGED <<dbVars, phase, hooked, registered, pending, parked, loop, owner, netVars,
                   agentVars, raced, late, told>>

Fault(c) == LookupFails(c) \/ OnlineFails(c) \/ OfflineFails(c)

-----------------------------------------------------------------------------
(* The record is deleted, and enrolled anew.                               *)

Delete ==
    /\ phase = "serving" /\ rec # NoMachine
    /\ rec' = NoMachine /\ hooked' = TRUE
    /\ UNCHANGED <<status, phase, registryVars, loop, owner, netVars, agentVars, historyVars>>

\* OnRecordDeleted: say why, and close.
RecordDeleted ==
    /\ hooked /\ hooked' = FALSE
    /\ registered' = NoConn /\ StopTimer
    /\ IF registered # NoConn
       THEN Tell(registered, "removed") /\ cut' = [cut EXCEPT ![registered] = TRUE]
       ELSE UNCHANGED <<down, cut>>
    /\ UNCHANGED <<dbVars, phase, loop, owner, up, agentVars, historyVars>>

\* upsertMachine, for a fingerprint without a record.  Somebody has fetched a token and
\* starts the agent again, so nothing of the former machine is under way any more.
Enroll(m) ==
    /\ phase = "serving" /\ rec = NoMachine /\ ~hooked
    /\ sock = NoConn /\ \A c \in Conns : loop[c] = "none" /\ (wait[c] # "none" => owner[c] # m)
    /\ rec' = m /\ status' = "offline"
    /\ dial' = "asleep" /\ told' = FALSE
    /\ UNCHANGED <<hubVars, netVars, sock, connected, inbox, held, reason, raced, faulted,
                   late>>

-----------------------------------------------------------------------------
(* Shutdown, crash, restart.                                               *)

\* Shutdown begins: CloseAll closes what is in `live`.  The listener is closed by now.
CloseAll ==
    /\ phase = "serving" /\ phase' = "closing"
    /\ cut' = [c \in Conns |-> cut[c] \/ loop[c] \notin {"none", "opening"}]
    /\ late' = \E c \in Conns : loop[c] = "opening"
    /\ UNCHANGED <<dbVars, hooked, registryVars, loop, owner, up, down, agentVars, raced,
                   faulted, told>>

\* Wait has returned; Stop sets stopped, stops the timers and closes done.
StopManager ==
    /\ phase = "closing" /\ \A c \in Conns : loop[c] = "none"
    /\ phase' = "stopping" /\ StopTimer
    /\ UNCHANGED <<dbVars, hooked, registered, loop, owner, netVars, agentVars, historyVars>>

\* A mutant: only the timer that is pending is woken.
WakePending ==
    /\ phase = "stopping" /\ parked /\ pending # NoConn /\ parked' = FALSE
    /\ UNCHANGED <<dbVars, phase, hooked, registered, pending, wait, loop, owner, netVars,
                   agentVars, historyVars>>

\* Whoever waits for a timer hears `done` and returns.
Wake ==
    /\ phase = "stopping" /\ parked /\ parked' = FALSE
    /\ UNCHANGED <<dbVars, phase, hooked, registered, pending, wait, loop, owner, netVars,
                   agentVars, historyVars>>

\* wg.Wait has returned; the process ends.
Exit ==
    /\ phase = "stopping" /\ ~parked /\ \A c \in Conns : wait[c] = "none"
    /\ phase' = "down" /\ hooked' = FALSE
    /\ UNCHANGED <<dbVars, registryVars, loop, owner, netVars, agentVars, historyVars>>

\* The process ends at once, and what it had in memory with it.
Crash ==
    /\ phase # "down" /\ phase' = "down" /\ hooked' = FALSE
    /\ registered' = NoConn /\ pending' = NoConn /\ parked' = FALSE
    /\ loop' = [c \in Conns |-> "none"] /\ wait' = [c \in Conns |-> "none"]
    /\ cut' = [c \in Conns |-> TRUE]
    /\ UNCHANGED <<dbVars, owner, up, down, agentVars, historyVars>>

\* A mutant: the hub starts with what the last process left in the records.
BootWithGhosts ==
    /\ phase = "down" /\ phase' = "serving"
    /\ raced' = FALSE /\ faulted' = FALSE /\ late' = FALSE
    /\ UNCHANGED <<dbVars, hooked, registryVars, loop, owner, netVars, agentVars, told>>

\* OnServe: ResetGhosts, before the endpoint accepts connections.
Boot ==
    /\ phase = "down" /\ phase' = "serving"
    /\ status' = "offline"
    /\ raced' = FALSE /\ faulted' = FALSE /\ late' = FALSE
    /\ UNCHANGED <<rec, hooked, registryVars, loop, owner, netVars, agentVars, told>>

\* A connection breaks, or a deadline of either side passes; what was on its way is lost.
Break(c) ==
    /\ ~cut[c] /\ cut' = [cut EXCEPT ![c] = TRUE]
    /\ up' = [up EXCEPT ![c] = <<>>] /\ down' = [down EXCEPT ![c] = <<>>]
    /\ UNCHANGED <<dbVars, hubVars, agentVars, historyVars>>

-----------------------------------------------------------------------------
(* The agent: Run and Dial.                                                *)

\* NewClient, the start of the read loop, and the hello.
Dial(c) ==
    /\ dial = "asleep" /\ phase = "serving" /\ loop[c] = "none" /\ wait[c] = "none"
    /\ dial' = "hello" /\ sock' = c /\ loop' = [loop EXCEPT ![c] = "opening"]
    /\ owner' = [owner EXCEPT ![c] = NoMachine] /\ cut' = [cut EXCEPT ![c] = FALSE]
    /\ up' = [up EXCEPT ![c] = <<"hello">>] /\ down' = [down EXCEPT ![c] = <<>>]
    /\ connected' = FALSE /\ inbox' = <<>> /\ held' = Nothing /\ reason' = "none"
    /\ UNCHANGED <<dbVars, phase, hooked, registryVars, historyVars>>

\* The connection is closed and forgotten; Run sleeps, or returns.
LeaveFor(d) ==
    /\ dial' = d /\ sock' = NoConn
    /\ cut' = [cut EXCEPT ![sock] = TRUE] /\ down' = [down EXCEPT ![sock] = <<>>]
    /\ connected' = FALSE /\ inbox' = <<>> /\ held' = Nothing /\ reason' = "none"
    /\ UNCHANGED up

\* handshakeWith, after the first await.
AnswerChallenge ==
    /\ dial = "hello" /\ inbox # <<>>
    /\ \/ /\ Head(inbox) = "challenge" /\ ~cut[sock]
          /\ dial' = "auth" /\ inbox' = Tail(inbox)
          /\ up' = [up EXCEPT ![sock] = Append(@, "auth")]
          /\ UNCHANGED <<cut, down, sock, connected, held, reason>>
       \/ (Head(inbox) # "challenge" \/ cut[sock]) /\ LeaveFor("asleep")
    /\ UNCHANGED <<dbVars, hubVars, historyVars>>

\* handshakeWith, after the second await.
ReadResult ==
    /\ dial = "auth" /\ inbox # <<>>
    /\ dial' = "mark" /\ inbox' = Tail(inbox)
    /\ UNCHANGED <<dbVars, hubVars, netVars, sock, connected, held, reason, historyVars>>

\* A mutant: the second await does not hear that the connection has ended.
AwaitFailsOnce ==
    /\ dial = "hello" /\ reason # "none" /\ LeaveFor("asleep")
    /\ UNCHANGED <<dbVars, hubVars, historyVars>>

\* await is woken by the end of the connection.
AwaitFails ==
    /\ dial \in {"hello", "auth"} /\ reason # "none" /\ LeaveFor("asleep")
    /\ UNCHANGED <<dbVars, hubVars, historyVars>>

MarkConnected ==
    /\ dial = "mark" /\ dial' = "drain" /\ connected' = TRUE
    /\ UNCHANGED <<dbVars, hubVars, netVars, sock, inbox, held, reason, historyVars>>

\* onConnected: the notice ends the session, for this reason if it is the first.
OnConnected(m) ==
    IF m = "removed"
    THEN /\ reason' = IF reason = "none" THEN "removed" ELSE reason
         /\ cut' = [cut EXCEPT ![sock] = TRUE]
    ELSE UNCHANGED <<reason, cut>>

Drain ==
    /\ dial = "drain"
    /\ IF inbox = <<>>
       THEN dial' = "report" /\ UNCHANGED <<inbox, reason, cut>>
       ELSE OnConnected(Head(inbox)) /\ inbox' = Tail(inbox) /\ UNCHANGED dial
    /\ UNCHANGED <<dbVars, hubVars, up, down, sock, connected, held, historyVars>>

\* MachineInfo is sent: on a connection that has ended this fails, and Dial with it.
Report ==
    /\ dial = "report"
    /\ \/ /\ reason = "none"
          /\ dial' = "up" /\ UNCHANGED <<cut, up, down, sock, connected, inbox, held, reason>>
       \/ cut[sock] /\ LeaveFor("asleep")
    /\ UNCHANGED <<dbVars, hubVars, historyVars>>

\* A mutant: the reason of the end is not looked at.
SessionEndsForGood ==
    /\ dial = "up" /\ reason # "none" /\ LeaveFor("stopped")
    /\ UNCHANGED <<dbVars, hubVars, historyVars>>

\* Run, when the session is done: a removed machine stops, any other loss is retried.
SessionEnds ==
    /\ dial = "up" /\ reason # "none"
    /\ LeaveFor(IF reason = "removed" THEN "stopped" ELSE "asleep")
    /\ UNCHANGED <<dbVars, hubVars, historyVars>>

DialLoop ==
    \/ AnswerChallenge \/ ReadResult \/ AwaitFails \/ MarkConnected \/ Drain \/ Report
    \/ SessionEnds

\* OnMessage, as far as the read of `connected`.
Hear ==
    /\ sock # NoConn /\ held = Nothing /\ reason = "none" /\ down[sock] # <<>>
    /\ held' = [msg |-> Head(down[sock]), direct |-> connected]
    /\ down' = [down EXCEPT ![sock] = Tail(@)]
    /\ told' = (told \/ Head(down[sock]) = "removed")
    /\ UNCHANGED <<dbVars, hubVars, cut, up, dial, sock, connected, inbox, reason,
                   raced, faulted, late>>

\* OnMessage, the rest.
Deliver ==
    /\ held # Nothing /\ held' = Nothing
    /\ IF held.direct
       THEN OnConnected(held.msg) /\ UNCHANGED inbox
       ELSE inbox' = Append(inbox, held.msg) /\ UNCHANGED <<reason, cut>>
    /\ UNCHANGED <<dbVars, hubVars, up, down, dial, sock, connected, historyVars>>

\* OnClose.
LinkLost ==
    /\ sock # NoConn /\ held = Nothing /\ reason = "none" /\ cut[sock] /\ down[sock] = <<>>
    /\ reason' = "lost"
    /\ UNCHANGED <<dbVars, hubVars, netVars, dial, sock, connected, inbox, held, historyVars>>

AgentReader == Hear \/ Deliver \/ LinkLost

-----------------------------------------------------------------------------
Teardown == StopManager \/ Wake \/ Exit

Next ==
    \/ \E c \in Conns : ReadLoop(c) \/ Waiter(c) \/ Fault(c) \/ Break(c) \/ Dial(c)
    \/ Delete \/ RecordDeleted \/ (\E m \in Machines : Enroll(m))
    \/ CloseAll \/ Teardown \/ Crash \/ Boot
    \/ DialLoop \/ AgentReader

\* Goroutines run, timers end, the agent dials again.  Nobody has to delete or enrol, no
\* connection has to break, and no hub has to be shut down or started.
Fairness ==
    /\ \A c \in Conns : WF_vars(ReadLoop(c)) /\ WF_vars(Waiter(c))
    /\ WF_vars(\E c \in Conns : Dial(c))
    /\ WF_vars(DialLoop) /\ WF_vars(AgentReader) /\ WF_vars(RecordDeleted) /\ WF_vars(Teardown)

Spec == Init /\ [][Next]_vars /\ Fairness

-----------------------------------------------------------------------------
(* What must hold.                                                         *)

Messages == {"hello", "auth", "challenge", "ok", "unknown", "removed"}
LoopPlaces == {"none", "opening", "hello", "auth", "enter", "read", "save", "withdraw", "serve",
               "over"}
WaitPlaces == {"none", "armed", "fired", "read", "save"}
DialPlaces == {"asleep", "hello", "auth", "mark", "drain", "report", "up", "stopped"}

HubTypes ==
    /\ rec \in Machines \union {NoMachine} /\ status \in {"online", "offline"}
    /\ phase \in {"serving", "closing", "stopping", "down"} /\ hooked \in BOOLEAN
    /\ registered \in Conns \union {NoConn} /\ pending \in Conns \union {NoConn}
    /\ loop \in [Conns -> LoopPlaces] /\ owner \in [Conns -> Machines \union {NoMachine}]
    /\ wait \in [Conns -> WaitPlaces] /\ parked \in BOOLEAN
    /\ raced \in BOOLEAN /\ faulted \in BOOLEAN /\ late \in BOOLEAN
NetTypes ==
    /\ cut \in [Conns -> BOOLEAN]
    /\ up \in [Conns -> Seq(Messages)] /\ down \in [Conns -> Seq(Messages)]
AgentTypes ==
    /\ dial \in DialPlaces /\ sock \in Conns \union {NoConn} /\ connected \in BOOLEAN
    /\ inbox \in Seq(Messages)
    /\ held \in [msg : Messages \union {"none"}, direct : BOOLEAN]
    /\ reason \in {"none", "lost", "removed"} /\ told \in BOOLEAN

\* The types of the variables.
TypeOK == HubTypes /\ NetTypes /\ AgentTypes

\* manager.go:88: no connection stays in the registry that has ended, or that belongs to a
\* record that is gone, unless a step under way is about to take it out: SendTo would speak
\* to nobody, and Online be wrong for good.
RegistryIsLive ==
    registered # NoConn =>
        /\ loop[registered] \in {"read", "save", "withdraw", "serve"}
        /\ owner[registered] # rec => hooked \/ loop[registered] \in {"read", "withdraw"}

\* A machine with a connection in service is shown as online, unless it was registered
\* while the record was being changed, or a change failed.
ConnectedShowsOnline ==
    registered # NoConn /\ loop[registered] = "serve" /\ owner[registered] = rec
            /\ ~raced /\ ~faulted
        => status = "online"

\* manager.go:24: a machine that is shown as online and has no connection is waited for:
\* there is a timer, or somebody who is about to save it as offline.
OnlineIsAccountedFor ==
    phase = "serving" /\ rec # NoMachine /\ status = "online" /\ registered = NoConn
            /\ ~raced /\ ~faulted
        => \E c \in Conns : owner[c] = rec /\ (pending = c \/ wait[c] \in {"read", "save"})

\* client.go:100: only the removal of its machine makes an agent stop for good.
StopsOnlyWhenRemoved == dial = "stopped" => rec = NoMachine

\* hub.go Shutdown: it ends, whoever it has to wait for, unless CloseAll overlooked a
\* connection that was being opened.
ShutdownEnds == phase = "closing" ~> (phase = "down" \/ late)

\* client.go:101: the agent of an enrolled machine is served in the end, however its
\* connections broke and whatever failed, while the hub is running.
AgentReturns ==
    (phase = "serving" /\ rec # NoMachine)
        ~> \/ sock # NoConn /\ registered = sock /\ loop[sock] = "serve" /\ dial = "up"
           \/ rec = NoMachine \/ phase # "serving"

-----------------------------------------------------------------------------
(* What a comment says, and the code does not do.                          *)

\* manager.go:26: a machine is set offline only if it has no connection when the grace
\* period is over.  The lock is released before the record is read and saved, and the
\* connection that comes in between has found the record online.
OfflineMeansGone ==
    registered # NoConn /\ loop[registered] = "serve" /\ owner[registered] = rec
            /\ ~faulted /\ (\A c \in Conns : wait[c] = "none")
        => status = "online"

\* hooks.go:41: an agent that receives the notice of its removal stops to retry.
RemovedAgentStops == told => dial # "hello"

=============================================================================
