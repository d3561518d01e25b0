------------------------------ MODULE ConfigLoop ------------------------------
(***************************************************************************)
(* How a configuration gets from the hub to one machine: the assignment    *)
(* the hub keeps (hub/internal/configsync, configsets/assign.go), the      *)
(* websocket between them (machines/manager.go, agent/run.go), and the     *)
(* Syncer that pulls, waits for contents, applies or surveys, and          *)
(* acknowledges (agent/internal/syncer).  The hub only signals; the agent  *)
(* asks.                                                                   *)
(*                                                                         *)
(* The hub serves every connection in a read loop of its own, and a broken *)
(* connection may still be in the middle of a handler when the next one is *)
(* up: `up' and `serving' have an entry for each.  What an apply does to   *)
(* the files is the subject of Applier; here it has an outcome.            *)
(***************************************************************************)
EXTENDS Naturals, Sequences

CONSTANTS
    Sets,           \* the config sets
    MaxRev,         \* bound: revisions of one config set
    Blobs,          \* contents, named by their hash
    Content,        \* Content[c][n]: the blobs of revision n of set c
    NoRevision,     \* the empty revision id
    NoAssignment,
    NoSnapshot,
    Assembling      \* a read loop is about to assemble a snapshot

Revisions == Sets \X (1..MaxRev)
OrNone(S) == S \cup {NoRevision}
Modes == {"apply", "survey"}
Assignment == [set : Sets, mode : Modes, applied : OrNone(Revisions),
               state : {"pending", "aligned", "failed", "degraded"}]
Snapshot == [rev : Revisions, mode : Modes, ver : Nat]
State == [rev : OrNone(Revisions), health : {"none", "ok", "degraded"}]
NoState == [rev |-> NoRevision, health |-> "none"]
Tasks == Sets \cup {"machine", "online"}
Links == {"new", "old"}

ToAgent ==
    [kind : {"notify", "restore"}] \cup [kind : {"snapshot"}, snap : Snapshot]
        \cup [kind : {"blob"}, hash : Blobs, missing : BOOLEAN]
ToHub ==
    [kind : {"pull"}, have : OrNone(Revisions)] \cup [kind : {"need"}, hashes : SUBSET Blobs]
        \cup [kind : {"ack"}, rev : OrNone(Revisions), how : {"ok", "rolledback", "other"}]

ASSUME ConstantsAssumption ==
    /\ MaxRev \in Nat \ {0}
    /\ Content \in [Sets -> [1..MaxRev -> SUBSET Blobs]]
    /\ NoRevision \notin Revisions /\ NoAssignment \notin Assignment
    /\ NoSnapshot \notin Snapshot
    /\ Assembling \notin Snapshot /\ Assembling # NoSnapshot
    /\ Sets \cap {"machine", "online"} = {}

VARIABLES
    head,       \* the number of the last revision of every config set, 0: none
    paused,     \* config_sets.paused
    assign,     \* the assignment of the machine
    ver,        \* history: changes of what the machine is to get
    todo,       \* notifications the hub is about to send, by the call that sends them
    serving,    \* per read loop: nothing, a snapshot to assemble, one to send
    up,         \* per connection: messages the hub has not read yet
    link,       \* "none", "greeting": Connect has not returned to run.go, "ready"
    down,       \* messages the agent has not read yet
    st,         \* the Syncer's state, in memory
    saved,      \* state.json
    pending,    \* the snapshot that waits for contents
    waiting,    \* the hashes it waits for
    cache,      \* the blob cache, which survives the process
    owed,       \* history: ver when the hub last told the agent, 0 once it was answered
    excuses,    \* history: why a notification may stay unanswered
    mixed,      \* history: the read loop of an older connection answered on this one
    spoilt,     \* history: contents of the pending snapshot that could not be cached
    blind,      \* history: the agent lost its baseline, and the hub still has reason to know
    had         \* history: the revisions the agent ever had in its state

hubVars == <<head, paused, assign, ver, todo, serving>>
agentVars == <<st, saved, pending, waiting, cache>>
historyVars == <<owed, excuses, mixed, spoilt, blind, had>>
vars == <<hubVars, up, link, down, agentVars, historyVars>>

Init ==
    /\ head \in [Sets -> 0..1] /\ paused = [c \in Sets |-> FALSE]
    /\ assign = NoAssignment /\ ver = 1
    /\ todo = {} /\ serving = [l \in Links |-> NoSnapshot]
    /\ up = [l \in Links |-> <<>>]
    /\ link = "none" /\ down = <<>>
    /\ st = NoState /\ saved = NoState
    /\ pending = NoSnapshot /\ waiting = {} /\ cache = {}
    /\ owed = 0 /\ excuses = {} /\ mixed = FALSE /\ spoilt = {} /\ blind = FALSE /\ had = {}

\* Manager.SendTo: onto the connection the machine has now, or nowhere.
Send(m) == down' = IF link = "none" THEN down ELSE Append(down, m)

\* Syncer.Deps.Send: refused while the session is not stored yet.
Reply(m) == up' = IF link = "ready" THEN [up EXCEPT !["new"] = Append(@, m)] ELSE up

-----------------------------------------------------------------------------
(* What people do at the hub.  Each call changes the records and then      *)
(* notifies, in two steps.                                                 *)

\* Mutant: a rollback moves the head back instead of publishing the old content anew.
PublishMovesBack(c) ==
    /\ \E n \in 1..MaxRev : n # head[c] /\ head' = [head EXCEPT ![c] = n]
    /\ ver' = ver + 1
    /\ todo' = todo \cup {c}
    /\ UNCHANGED <<paused, assign, serving, up, link, down, agentVars, historyVars>>

\* Publish and Rollback: both make the next revision.
Publish(c) ==
    /\ head[c] < MaxRev
    /\ head' = [head EXCEPT ![c] = @ + 1]
    /\ ver' = ver + 1
    /\ todo' = todo \cup {c}
    /\ UNCHANGED <<paused, assign, serving, up, link, down, agentVars, historyVars>>

\* A provider's credentials change: the same revision, with other secrets.
Rotate(c) ==
    /\ head[c] > 0
    /\ ver' = ver + 1
    /\ todo' = todo \cup {c}
    /\ UNCHANGED <<head, paused, assign, serving, up, link, down, agentVars, historyVars>>

\* Another set starts over; the same set in another mode keeps what is known of it.
Assign(c, m) ==
    /\ assign' = IF assign = NoAssignment \/ assign.set # c
                 THEN [set |-> c, mode |-> m, applied |-> NoRevision, state |-> "pending"]
                 ELSE [assign EXCEPT !.mode = m]
    /\ ver' = ver + 1
    /\ todo' = todo \cup {"machine"}
    /\ blind' = FALSE
    /\ UNCHANGED <<head, paused, serving, up, link, down, agentVars,
                   owed, excuses, mixed, spoilt, had>>

ClearDegraded ==
    /\ assign # NoAssignment /\ assign.state = "degraded"
    /\ assign' = [assign EXCEPT !.state = "pending", !.mode = "survey"]
    /\ ver' = ver + 1
    /\ todo' = todo \cup {"machine"}
    /\ UNCHANGED <<head, paused, serving, up, link, down, agentVars, historyVars>>

\* Nothing is sent when a config set is paused, nor when it is resumed.
SetPaused(c) ==
    /\ paused' = [paused EXCEPT ![c] = ~@]
    /\ UNCHANGED <<head, assign, ver, todo, serving, up, link, down, agentVars, historyVars>>

\* Restore in the drift inbox.
OrderRestore ==
    /\ link # "none" /\ assign # NoAssignment
    /\ Send([kind |-> "restore"])
    /\ UNCHANGED <<hubVars, up, link, agentVars, historyVars>>

-----------------------------------------------------------------------------
(* The hub.                                                                *)

\* NotifyConfigSet, NotifyProvider and NotifyOverride (a config set), NotifyMachine
\* (after Assign and ClearDegraded), OnMachineOnline.
Told(t) ==
    assign # NoAssignment /\ ~paused[assign.set] /\ (t \in Sets => t = assign.set)

Notify(t) ==
    /\ t \in todo /\ todo' = todo \ {t}
    /\ IF Told(t)
       THEN /\ Send([kind |-> "notify"])
            /\ IF link # "none" /\ head[assign.set] > 0
               THEN /\ owed' = ver
                    /\ excuses' = IF link = "ready" THEN {} ELSE excuses
               ELSE UNCHANGED <<owed, excuses>>
       ELSE UNCHANGED <<down, owed, excuses>>
    /\ UNCHANGED <<head, paused, assign, ver, serving, up, link, agentVars,
                   mixed, spoilt, blind, had>>

Reads(l, k) == serving[l] = NoSnapshot /\ up[l] # <<>> /\ Head(up[l]).kind = k
Popped(l) == up' = [up EXCEPT ![l] = Tail(@)]

\* Mutant: the machine is sent to the inbox, its mode is not.
ServePullNoSurvey(l) ==
    /\ Reads(l, "pull") /\ Popped(l)
    /\ serving' = [serving EXCEPT ![l] = Assembling]
    /\ IF /\ assign # NoAssignment /\ assign.applied # NoRevision
          /\ Head(up[l]).have = NoRevision /\ assign.mode # "survey"
       THEN assign' = [assign EXCEPT !.state = "pending", !.applied = NoRevision]
       ELSE UNCHANGED assign
    /\ UNCHANGED <<head, paused, ver, todo, link, down, agentVars, historyVars>>

\* Pull: a machine that applied something and now has nothing lost its state, and is
\* to be surveyed.
ServePull(l) ==
    /\ Reads(l, "pull") /\ Popped(l)
    /\ serving' = [serving EXCEPT ![l] = Assembling]
    /\ IF /\ assign # NoAssignment /\ assign.applied # NoRevision
          /\ Head(up[l]).have = NoRevision /\ assign.mode # "survey"
       THEN assign' = [assign EXCEPT !.state = "pending", !.applied = NoRevision,
                                     !.mode = "survey"]
       ELSE UNCHANGED assign
    /\ UNCHANGED <<head, paused, ver, todo, link, down, agentVars, historyVars>>

HeadRevision == <<assign.set, head[assign.set]>>

\* Snapshot: the head of the assigned set, whether it is paused or not.
Assemble(l) ==
    /\ serving[l] = Assembling
    /\ assign # NoAssignment /\ head[assign.set] > 0
    /\ serving' = [serving EXCEPT ![l] =
                    [rev |-> HeadRevision, mode |-> assign.mode, ver |-> ver]]
    /\ UNCHANGED <<head, paused, assign, ver, todo, up, link, down, agentVars, historyVars>>

NotAssembled(l) ==
    /\ serving[l] = Assembling
    /\ serving' = [serving EXCEPT ![l] = NoSnapshot]
    /\ excuses' = excuses \cup {"fault"}
    /\ UNCHANGED <<head, paused, ver, todo, up, link, down, agentVars,
                   owed, mixed, spoilt, blind, had>>

\* No assignment, or nothing was ever published: only a line in the log.
NothingToAssemble(l) ==
    /\ assign # NoAssignment => head[assign.set] = 0
    /\ NotAssembled(l)
    /\ UNCHANGED assign

\* A provider is missing, or the agent too old for one: the assignment says so.  Other
\* errors are logged.
AssembleFails(l) ==
    /\ assign # NoAssignment
    /\ NotAssembled(l)
    /\ \/ assign' = [assign EXCEPT !.state = "failed"]
       \/ UNCHANGED assign

SendSnapshot(l) ==
    /\ serving[l] \notin {NoSnapshot, Assembling}
    /\ Send([kind |-> "snapshot", snap |-> serving[l]])
    /\ serving' = [serving EXCEPT ![l] = NoSnapshot]
    /\ mixed' = (mixed \/ (l = "old" /\ link # "none"))
    /\ UNCHANGED <<head, paused, assign, ver, todo, up, link, agentVars,
                   owed, excuses, spoilt, blind, had>>

\* A request without the hash that was just answered.
Answered(q, h) ==
    IF Head(q).hashes = {h} THEN Tail(q)
    ELSE <<[kind |-> "need", hashes |-> Head(q).hashes \ {h}]>> \o Tail(q)

\* BlobRequest: one message per hash.
ServeBlob(l, h, missing) ==
    /\ Reads(l, "need") /\ h \in Head(up[l]).hashes
    /\ Send([kind |-> "blob", hash |-> h, missing |-> missing])
    /\ up' = [up EXCEPT ![l] = Answered(@, h)]
    /\ UNCHANGED <<hubVars, link, agentVars, historyVars>>

\* Mutant: the revision of a failed apply is recorded too.
ServeAckAll(l) ==
    /\ Reads(l, "ack") /\ Popped(l)
    /\ assign' = IF assign = NoAssignment THEN assign
                 ELSE [assign EXCEPT !.state = "aligned", !.applied = Head(up[l]).rev]
    /\ UNCHANGED <<head, paused, ver, todo, serving, link, down, agentVars, historyVars>>

\* ApplyAck: it is not compared with what is assigned by now, and a restore on a state
\* without a revision empties the record.
ServeAck(l) ==
    /\ Reads(l, "ack") /\ Popped(l)
    /\ LET a == Head(up[l]) IN
        /\ assign' = IF assign = NoAssignment THEN assign
                  ELSE CASE a.how = "ok" ->
                                [assign EXCEPT !.state = "aligned", !.applied = a.rev]
                         [] a.how = "rolledback" -> [assign EXCEPT !.state = "failed"]
                         [] a.how = "other" -> [assign EXCEPT !.state = "degraded"]
        /\ blind' = (blind /\ ~(a.how = "ok" /\ a.rev = NoRevision))
    /\ UNCHANGED <<head, paused, ver, todo, serving, link, down, agentVars,
                   owed, excuses, mixed, spoilt, had>>

\* The read loop of the broken connection ends: what it had not read is lost.
OldLoopEnds ==
    /\ up["old"] # <<>>
    /\ up' = [up EXCEPT !["old"] = <<>>]
    /\ UNCHANGED <<hubVars, link, down, agentVars, historyVars>>

-----------------------------------------------------------------------------
(* The agent.                                                              *)

Hears(k) == down # <<>> /\ Head(down).kind = k

Made(s) == [s EXCEPT !.health = IF @ = "none" THEN "ok" ELSE @]

\* A Syncer gives its state to state.Save, and keeps it if that fails.
Save(s) ==
    /\ st' = s /\ saved' \in {s, saved}
    /\ had' = had \cup ({s.rev} \ {NoRevision})

\* ConfigNotify: pull.  The error of a send without a session is dropped.
HandleNotify ==
    /\ Hears("notify") /\ down' = Tail(down)
    /\ Reply([kind |-> "pull", have |-> st.rev])
    /\ excuses' = IF link = "ready" THEN excuses ELSE excuses \cup {"early"}
    /\ UNCHANGED <<hubVars, link, agentVars, owed, mixed, spoilt, blind, had>>

\* "aborted": no plan could be made, or the hub lacks a content.  "refused": by the
\* gates of the Applier, which only a degraded agent is sure to meet.  "dropped": the
\* secrets are unreadable, or a survey lacks a content; only the agent's log says so.
Outcomes(s) ==
    IF s.mode = "survey" THEN {"surveyed", "dropped"}
    ELSE IF st.health = "degraded" THEN {"refused", "aborted", "dropped"}
    ELSE {"applied", "rolledback", "broken", "refused", "aborted", "dropped"}

Ack(s, o) ==
    [kind |-> "ack", rev |-> s.rev,
     how |-> CASE o = "applied" -> "ok" [] o = "rolledback" -> "rolledback" [] OTHER -> "other"]

\* applyPending and survey: the snapshot s ends in o, and there is none any more.
Conclude(s, o) ==
    /\ CASE o \in {"applied", "surveyed"} -> Save([rev |-> s.rev, health |-> "ok"])
         [] o = "broken" -> Save([st EXCEPT !.health = "degraded"])
         [] o \in {"rolledback", "refused"} -> Save(Made(st))
         [] o \in {"aborted", "dropped"} -> UNCHANGED <<st, saved, had>>
    /\ IF o \in {"surveyed", "dropped"} THEN UNCHANGED up ELSE Reply(Ack(s, o))
    /\ pending' = NoSnapshot /\ waiting' = {}
    /\ owed' = IF s.ver >= owed THEN 0 ELSE owed
    /\ blind' = (blind /\ o # "surveyed")

\* Mutant: while contents are on their way, another snapshot is not looked at.
HandleSnapshotOnce(o) ==
    /\ Hears("snapshot") /\ down' = Tail(down)
    /\ LET s == Head(down).snap
           need == Content[s.rev[1]][s.rev[2]] \ cache
       IN  IF pending # NoSnapshot
           THEN UNCHANGED <<st, saved, pending, waiting, up, owed, spoilt, blind, had>>
           ELSE IF need = {}
           THEN o \in Outcomes(s) /\ Conclude(s, o) /\ spoilt' = {}
           ELSE /\ pending' = s /\ waiting' = need /\ spoilt' = {}
                /\ Reply([kind |-> "need", hashes |-> need])
                /\ UNCHANGED <<st, saved, owed, blind, had>>
    /\ UNCHANGED <<hubVars, link, cache, excuses, mixed>>

\* onSnapshot: it takes the place of the one that waits.
HandleSnapshot(o) ==
    /\ Hears("snapshot") /\ down' = Tail(down)
    /\ spoilt' = {}
    /\ LET s == Head(down).snap
           need == Content[s.rev[1]][s.rev[2]] \ cache
       IN  IF need = {}
           THEN o \in Outcomes(s) /\ Conclude(s, o)
           ELSE /\ pending' = s /\ waiting' = need
                /\ Reply([kind |-> "need", hashes |-> need])
                /\ UNCHANGED <<st, saved, owed, blind, had>>
    /\ UNCHANGED <<hubVars, link, cache, excuses, mixed>>

\* Mutant: the snapshot is dropped, the hashes it waited for are not.
BlobMissingForgets ==
    /\ pending' = NoSnapshot
    /\ owed' = IF pending.ver >= owed THEN 0 ELSE owed
    /\ Reply(Ack(pending, "aborted"))
    /\ UNCHANGED <<st, saved, waiting, blind, had>>

\* The hub has no such content: nothing is written, whatever else arrived.
BlobMissing == Conclude(pending, "aborted")

\* onBlob: a content that nobody waits for is ignored, the last one starts the apply.
HandleBlob(o) ==
    /\ Hears("blob") /\ down' = Tail(down)
    /\ LET b == Head(down) IN
        IF b.hash \notin waiting
        THEN UNCHANGED <<up, agentVars, owed, blind, had>>
        ELSE IF b.missing
        THEN BlobMissing /\ UNCHANGED cache
        ELSE /\ cache' = cache \cup {b.hash}
             /\ IF waiting = {b.hash}
                THEN o \in Outcomes(pending) /\ Conclude(pending, o)
                ELSE /\ waiting' = waiting \ {b.hash}
                     /\ UNCHANGED <<up, st, saved, pending, owed, blind, had>>
    /\ UNCHANGED <<hubVars, link, excuses, mixed, spoilt>>

\* PutHash fails (another content, a full disk): the hash stays in waiting.
BlobSpoilt ==
    /\ Hears("blob") /\ down' = Tail(down)
    /\ Head(down).hash \in waiting /\ ~Head(down).missing
    /\ spoilt' = spoilt \cup {Head(down).hash}
    /\ UNCHANGED <<hubVars, up, link, agentVars, owed, excuses, mixed, blind, had>>

\* restore, which acknowledges the revision of the state; "aborted": without a word.
HandleRestore(o) ==
    /\ Hears("restore") /\ down' = Tail(down)
    /\ IF st = NoState \/ o = "aborted"
       THEN UNCHANGED <<up, st, saved, had>>
       ELSE /\ st.health = "degraded" => o = "refused"
            /\ Save(st)
            /\ Reply(Ack([rev |-> st.rev], o))
    /\ UNCHANGED <<hubVars, link, pending, waiting, cache,
                   owed, excuses, mixed, spoilt, blind>>

-----------------------------------------------------------------------------
(* The connection.                                                         *)

\* Mutant: the Syncer outlives the connection.
FreshKeepsPending == UNCHANGED <<st, pending, waiting>>

\* A Syncer for each connection, from what state.json says.
Fresh ==
    /\ st' = saved
    /\ pending' = NoSnapshot /\ waiting' = {}

\* The hub has registered the connection, and its callback will catch up.
Connect ==
    /\ link = "none" /\ link' = "greeting"
    /\ Fresh
    /\ todo' = todo \cup {"online"}
    /\ blind' = /\ saved.rev = NoRevision
                /\ blind \/ (assign # NoAssignment /\ assign.applied # NoRevision)
    /\ UNCHANGED <<head, paused, assign, ver, serving, up, down, saved, cache,
                   owed, excuses, mixed, spoilt, had>>

\* run.go: Connect returns, and the Syncer's Send has a session.
StoreSession ==
    /\ link = "greeting" /\ link' = "ready"
    /\ UNCHANGED <<hubVars, up, down, agentVars, historyVars>>

\* The connection breaks, by itself or with the agent.  What was sent to the agent is
\* lost; what the agent sent may still be read.
Disconnect ==
    /\ link # "none" /\ link' = "none"
    /\ down' = <<>>
    /\ up' = [l \in Links |-> IF l = "old" THEN up["new"] ELSE <<>>]
    /\ serving' = [l \in Links |-> IF l = "old" THEN serving["new"] ELSE NoSnapshot]
    /\ owed' = 0 /\ excuses' = {} /\ mixed' = FALSE /\ spoilt' = {}
    /\ UNCHANGED <<head, paused, assign, ver, todo, agentVars, blind, had>>

\* state.json is deleted or damaged.
LoseStateFile ==
    /\ saved # NoState /\ saved' = NoState
    /\ UNCHANGED <<hubVars, up, link, down, st, pending, waiting, cache, historyVars>>

-----------------------------------------------------------------------------
Admin ==
    \/ \E c \in Sets : Publish(c) \/ Rotate(c) \/ SetPaused(c)
    \/ \E c \in Sets, m \in Modes : Assign(c, m)
    \/ ClearDegraded \/ OrderRestore

\* What a read loop of the hub does as long as its connection lasts.
HubLoop(l) ==
    \/ ServePull(l) \/ Assemble(l) \/ NothingToAssemble(l) \/ SendSnapshot(l)
    \/ \E h \in Blobs : ServeBlob(l, h, FALSE)
    \/ ServeAck(l)

Acknowledged == {"applied", "rolledback", "broken", "refused", "aborted"}
Results == Acknowledged \cup {"surveyed", "dropped"}

AgentLoop ==
    \/ HandleNotify
    \/ \E o \in Results : HandleSnapshot(o) \/ HandleBlob(o)
    \/ \E o \in Acknowledged : HandleRestore(o)

Failure ==
    \/ Disconnect \/ LoseStateFile \/ BlobSpoilt
    \/ \E l \in Links : AssembleFails(l) \/ \E h \in Blobs : ServeBlob(l, h, TRUE)

Next ==
    \/ Admin
    \/ \E t \in Tasks : Notify(t)
    \/ \E l \in Links : HubLoop(l)
    \/ OldLoopEnds
    \/ AgentLoop
    \/ Connect \/ StoreSession
    \/ Failure

Spec == Init /\ [][Next]_vars

\* Handlers, read loops and calls that have begun run on; people and failures need not.
Fairness ==
    /\ \A t \in Tasks : WF_vars(Notify(t))
    /\ WF_vars(HubLoop("new"))
    /\ WF_vars(AgentLoop)
    /\ WF_vars(StoreSession)

FairSpec == Spec /\ Fairness

-----------------------------------------------------------------------------
TypeOK ==
    /\ head \in [Sets -> 0..MaxRev] /\ paused \in [Sets -> BOOLEAN]
    /\ assign \in Assignment \cup {NoAssignment}
    /\ ver \in Nat \ {0} /\ todo \subseteq Tasks
    /\ serving \in [Links -> Snapshot \cup {NoSnapshot, Assembling}]
    /\ up \in [Links -> Seq(ToHub)]
    /\ link \in {"none", "greeting", "ready"} /\ down \in Seq(ToAgent)
    /\ st \in State /\ saved \in State
    /\ pending \in Snapshot \cup {NoSnapshot}
    /\ waiting \subseteq Blobs /\ cache \subseteq Blobs
    /\ pending = NoSnapshot <=> waiting = {}
    /\ owed \in Nat /\ excuses \subseteq {"early", "fault"}
    /\ mixed \in BOOLEAN /\ spoilt \subseteq Blobs /\ blind \in BOOLEAN
    /\ had \subseteq Revisions

Requested(h) ==
    \/ \E i \in DOMAIN up["new"] :
            up["new"][i].kind = "need" /\ h \in up["new"][i].hashes
    \/ \E i \in DOMAIN down : down[i].kind = "blob" /\ down[i].hash = h

\* A snapshot never waits for a content that is not on its way: every hash in waiting
\* is in a request or an answer of this connection, unless it could not be cached, or an
\* older connection's read loop put a snapshot on this one.
NobodyWaitsAlone ==
    link # "none" /\ ~mixed => \A h \in waiting \ spoilt : Requested(h)

\* The revision the hub believes applied is one the agent has had in its state.
AppliedWasReached ==
    assign # NoAssignment /\ assign.applied # NoRevision => assign.applied \in had

\* On one connection the revision of a machine moves forward, unless an older
\* connection's read loop answers on it: a rollback is a revision of its own, and
\* snapshots, contents and requests may not overtake each other.
RevisionsAdvance ==
    [][~mixed /\ link # "none" /\ st.rev # NoRevision /\ st'.rev # NoRevision
            /\ st'.rev[1] = st.rev[1]
        => st'.rev[2] >= st.rev[2]]_vars

\* A machine the hub saw apply something, and that comes back without a baseline, is
\* surveyed before anything is applied, unless somebody assigns it anew, or the success
\* of a restore without a revision makes the hub forget what it saw.
LostStateIsSurveyed ==
    blind /\ ~mixed /\ link # "none" =>
        /\ pending # NoSnapshot => pending.mode = "survey"
        /\ \A i \in DOMAIN down :
                down[i].kind = "snapshot" => down[i].snap.mode = "survey"

\* What the hub tells a connected agent is answered: the agent comes to the end of a
\* snapshot at least as new, or the connection breaks, or one of the failures the code
\* knows has hit.
TellingSuffices ==
    owed # 0 ~> (owed = 0 \/ excuses # {} \/ mixed \/ spoilt # {})

-----------------------------------------------------------------------------
(* What a comment says, and the code does not do.                          *)

\* notify.go:16: an offline machine needs no queue, the hub catches up once it is
\* online.  The notification may come before the session is stored; the pull is refused,
\* the error dropped, and nobody asks again.
OnlineCatchesUp ==
    owed # 0 ~> (owed = 0 \/ "fault" \in excuses \/ mixed \/ spoilt # {})

\* service.go:191: whoever was aligned once and says it has applied nothing is sent to
\* survey.  The success of a restore on a state without a revision empties the record
\* first; then the pull finds nothing odd, and the snapshot is applied.
ForgettingIsSurveying ==
    [][assign # NoAssignment /\ assign.applied # NoRevision
            /\ assign'.set = assign.set /\ assign'.applied = NoRevision
        => assign'.mode = "survey"]_vars

=============================================================================
