----------------------------- MODULE DriftInbox -----------------------------
(***************************************************************************)
(* The drift inbox of one machine, from the scan of the agent to the       *)
(* decision of the user: the watcher's scans and reports                   *)
(* (watcher/watcher.go, watcher/scan.go, syncer/drift.go), the events at   *)
(* the hub (drift/service.go), adoption, restoring, ignoring and managing  *)
(* again (drift/adopt.go, drift/resolve.go), and what an acknowledgement   *)
(* does to the events (configsync/notify.go).                              *)
(*                                                                         *)
(* The hub handles the messages of a connection one after the other;       *)
(* requests of the user run beside that.  The agent has two goroutines: the*)
(* handler of messages and the watcher; both send reports.                 *)
(***************************************************************************)
EXTENDS Naturals, Sequences, FiniteSets

CONSTANTS
    Paths,
    Contents,
    None,           \* no file
    MaxEvents, MaxQueue, MaxReports,
    Budgets         \* how many edits, orders and faults there may be, one way or another

ASSUME DriftInboxAssumption ==
    None \notin Contents \cup Paths /\ Budgets \subseteq [edits : Nat, orders : Nat, faults : Nat]

VARIABLES
    head,           \* the files of the head revision
    mode,           \* the mode of the assignment
    rules,          \* the paths ignored for this machine, and for every machine
    events,         \* the drift events; one is open per path at most
    fullSeen,       \* paths of the full report that is arriving; memory of the hub
    pending,        \* paths restore was asked for; memory of the hub
    work,           \* the report the hub is working on
    adopting,       \* the events an adoption has published and not yet closed
    asked,          \* the agent has been notified, and its pull has not been answered
    snapping,       \* a snapshot being put together: the mode as read, or "no"
    taken,          \* the files read for it, if they have been
    disk, base, ignored,    \* the agent's files and its state.json
    watching,       \* the entries and the ignored paths as the watcher has them
    reports,        \* batches each goroutine of the agent has still to send
    due,            \* the acknowledgement the handler has still to send
    up, down, online,
    left,           \* what the bounds leave
    \* history
    lost,           \* contents the agent overwrote while their event was open
    unseen,         \* paths managed again and not approved since
    mishaps

hub == <<head, mode, rules, events, fullSeen, pending, work, adopting, asked, snapping, taken>>
agent == <<disk, base, ignored, watching, reports, due>>
net == <<up, down, online>>
history == <<lost, unseen, mishaps>>
vars == <<hub, agent, net, left, history>>

Files == [Paths -> Contents \cup {None}]
NoFiles == [p \in Paths |-> None]
Goroutines == {"watcher", "handler"}
Modes == {"apply", "survey"}

\* An entry of state.json: the content, and whether the agent has written it.
Entry == [blob : Contents \cup {None}, written : BOOLEAN]
Noted(files, written) == [p \in Paths |-> [blob |-> files[p], written |-> written /\ files[p] # None]]

Event == [path : Paths, content : Contents \cup {None},
          state : {"open", "adopted", "restored", "ignored", "superseded"}]

\* Part of a report; `all` is every path the scan found.
Batch == [kind : {"report"}, items : UNION {[P -> Contents \cup {None}] : P \in SUBSET Paths},
          full : BOOLEAN, final : BOOLEAN, all : SUBSET Paths]
\* `done`: the paths in the results, `over`: those overwritten, deleted or merged.
Ack == [kind : {"ack"}, ok : BOOLEAN, restore : BOOLEAN, done : SUBSET Paths, over : SUBSET Paths]
Snapshot == [kind : {"snapshot"}, files : Files, mode : Modes, ignore : SUBSET Paths]
Command == [kind : {"restore", "ignore"}, paths : SUBSET Paths]

NoAck == [kind |-> "ack", ok |-> FALSE, restore |-> FALSE, done |-> {}, over |-> {}]
NoBatch == [kind |-> "report", items |-> <<>>, full |-> FALSE, final |-> FALSE, all |-> {}]
NoWork == [batch |-> NoBatch, todo |-> {}, path |-> None, event |-> 0, seen |-> {}]

Ids == 1 .. Len(events)
OpenAt(p) == {e \in Ids : events[e].path = p /\ events[e].state = "open"}
Open == {e \in Ids : events[e].state = "open"}

TypeOK ==
    /\ head \in Files /\ mode \in Modes /\ rules \in [{"own", "global"} -> SUBSET Paths]
    /\ events \in Seq(Event) /\ \A p \in Paths : \A e, f \in OpenAt(p) : e = f
    /\ fullSeen \subseteq Paths /\ pending \subseteq Paths
    /\ work \in [batch : Batch, todo : SUBSET Paths, path : Paths \cup {None},
                 event : 0 .. Len(events), seen : SUBSET Paths]
    /\ adopting \subseteq Ids
    /\ asked \in BOOLEAN /\ snapping \in Modes \cup {"no"} /\ taken \subseteq Files
    /\ disk \in Files /\ base \in [Paths -> Entry] /\ ignored \subseteq Paths
    /\ watching \in [entries : [Paths -> Entry], skip : SUBSET Paths]
    /\ reports \in [Goroutines -> Seq(Batch)] /\ due \in Ack
    /\ up \in Seq(Batch \cup Ack) /\ down \in Seq(Snapshot \cup Command) /\ online \in BOOLEAN
    /\ lost \subseteq Paths \X Contents /\ unseen \subseteq Paths
    /\ mishaps \subseteq {"unacknowledged", "created", "raced", "overtaken", "failed", "torn", "mixed"}

\* What Reload gives the watcher.
Current == [entries |-> base, skip |-> ignored]

\* A machine that agrees with the head, or a fresh one with files of its own.
Init ==
    /\ head \in Files /\ mode \in Modes
    /\ \/ disk = head /\ base = Noted(head, TRUE)
       \/ disk \in Files /\ base = Noted(NoFiles, FALSE)
    /\ ignored = {} /\ watching = Current /\ rules = [s \in {"own", "global"} |-> {}]
    /\ events = <<>> /\ fullSeen = {} /\ pending = {} /\ work = NoWork
    /\ adopting = {} /\ asked = TRUE /\ snapping = "no" /\ taken = {}
    /\ reports = [g \in Goroutines |-> <<>>] /\ due = NoAck
    /\ up = <<>> /\ down = <<>> /\ online = TRUE
    /\ left \in Budgets
    /\ lost = {} /\ unseen = {} /\ mishaps = {}

Spend(what) == left[what] > 0 /\ left' = [left EXCEPT ![what] = @ - 1]
Note(when, what) == mishaps' = IF when THEN mishaps \cup {what} ELSE mishaps

\* A notification, or being connected again, makes the agent pull.
Notify == asked' = (asked \/ online)

\* SendTo fails while the machine is not connected; nothing is kept for later.
ToAgent(m) == down' = IF online THEN Append(down, m) ELSE down
ToHub(m) == up' = IF online THEN Append(up, m) ELSE up
Room(queue) == Len(queue) < MaxQueue

-----------------------------------------------------------------------------
(* The agent: scans and reports.                                           *)

\* The user, or a program of theirs, changes a managed file.
Edit(p, c) ==
    /\ c # disk[p] /\ Spend("edits")
    /\ disk' = [disk EXCEPT ![p] = c]
    /\ UNCHANGED <<hub, base, ignored, watching, reports, due, net, history>>

\* What is a drift: a file that differs from its entry, is missing, or has no entry.
Drifted(files, entries, skip) == {p \in Paths \ skip : files[p] # entries[p].blob}
Drifts == Drifted(disk, base, ignored)

\* What a scan finds: the watcher may still have the entries from before the last apply.
Differing == Drifted(disk, watching.entries, watching.skip)

\* Report cuts the items into batches in the order of the paths; an empty list is not sent.
BatchesOf(found, P, full) ==
    LET Part(Q, final) == [kind |-> "report", items |-> [p \in Q |-> found[p]], full |-> full,
                           final |-> final, all |-> P]
    IN  IF P = {} THEN {<<>>}
        ELSE {<<Part(P, TRUE)>>}
             \cup {<<Part(Q, FALSE), Part(P \ Q, TRUE)>> : Q \in SUBSET P \ {{}, P}}

Busy == Cardinality({g \in Goroutines : reports[g] # <<>>})
        + Cardinality({i \in DOMAIN up : up[i].kind = "report"}) + (IF work = NoWork THEN 0 ELSE 1)

\* The watcher: a full scan at every tick, an incremental one after events of the file system,
\* from which the paths reported in the last 30 seconds are left out (T).
Scan(full, T) ==
    /\ reports["watcher"] = <<>> /\ Busy < MaxReports
    /\ Differing \ T # {} /\ (full => T = {})
    /\ \E bs \in BatchesOf(disk, Differing \ T, full) :
           reports' = [reports EXCEPT !["watcher"] = bs]
    /\ UNCHANGED <<hub, disk, base, ignored, watching, due, net, left, history>>

\* One part of the full report of g is sent and the other is not.
HalfSent(g) == reports[g] # <<>> /\ Head(reports[g]).full /\ Head(reports[g]).final
               /\ DOMAIN Head(reports[g]).items # Head(reports[g]).all

\* A goroutine sends its next batch.  Without a connection Send fails and the rest is dropped.
SendBatch(g) ==
    /\ reports[g] # <<>> /\ Room(up)
    /\ ToHub(Head(reports[g]))
    /\ reports' = [reports EXCEPT ![g] = IF online THEN Tail(@) ELSE <<>>]
    /\ mishaps' = mishaps
         \cup (IF due.over \cap DOMAIN Head(reports[g]).items # {} THEN {"raced"} ELSE {})
         \cup (IF Head(reports[g]).full /\ \E h \in Goroutines \ {g} : HalfSent(h)
               THEN {"mixed"} ELSE {})
    /\ UNCHANGED <<hub, disk, base, ignored, watching, due, down, online, left, lost, unseen>>

-----------------------------------------------------------------------------
(* The agent: snapshots and commands.                                      *)

\* The handler takes the next message when it has done with the last one.
Take(kind) ==
    /\ down # <<>> /\ Head(down).kind = kind
    /\ due = NoAck /\ reports["handler"] = <<>>
    /\ down' = Tail(down)

\* A report of p is on its way: scanned, sent, or being saved.
OnTheWay(p) ==
    \/ \E g \in Goroutines, i \in 1 .. 2 :
           i \in DOMAIN reports[g] /\ p \in DOMAIN reports[g][i].items
    \/ \E i \in DOMAIN up : up[i].kind = "report" /\ p \in DOMAIN up[i].items
    \/ p \in work.todo \cup {work.path}

\* Contents of open events the agent writes over.
Shown(files, P) == {<<p, files[p]>> : p \in {q \in P : files[q] # None
                                     /\ \E e \in OpenAt(q) : events[e].content = files[q]}}

\* A survey writes nothing: the files of the snapshot become the entries, and a full report.
Survey ==
    /\ Take("snapshot") /\ Head(down).mode = "survey"
    /\ base' = Noted(Head(down).files, FALSE) /\ ignored' = Head(down).ignore
    /\ watching' = [entries |-> base', skip |-> ignored']
    /\ \E bs \in BatchesOf(disk, Drifted(disk, base', ignored'), TRUE) :
           reports' = [reports EXCEPT !["handler"] = bs]
    /\ UNCHANGED <<hub, disk, due, up, online, left, history>>

\* The plan: an entry the agent wrote with this content is skipped, whatever is on the disk.
Wanted(s) == {p \in Paths \ s.ignore : s.files[p] # None}
Skips(s) == {p \in Wanted(s) : base[p].written /\ base[p].blob = s.files[p]}
Creates(s) == {p \in Wanted(s) : ~base[p].written}
Deletes(s) == {p \in Paths \ s.ignore : s.files[p] = None /\ base[p].blob # None}
Writes(s) == (Wanted(s) \ Skips(s)) \cup Deletes(s)
Over(now, s, P) == [p \in Paths |-> IF p \in P THEN s.files[p] ELSE now[p]]
Entries(s, P) == [p \in Paths |-> IF p \in P
                     THEN [blob |-> s.files[p], written |-> s.files[p] # None] ELSE base[p]]

Apply ==
    /\ Take("snapshot") /\ Head(down).mode = "apply"
    /\ LET s == Head(down) IN
         /\ disk' = Over(disk, s, Writes(s)) /\ base' = Entries(s, Writes(s))
         /\ ignored' = s.ignore
         /\ due' = [kind |-> "ack", ok |-> TRUE, restore |-> FALSE,
                    done |-> Wanted(s) \cup Deletes(s), over |-> Writes(s) \ Creates(s)]
         /\ LET gone == Shown(disk, {p \in Writes(s) : disk[p] # s.files[p]}) IN
              /\ lost' = lost \cup gone
              /\ mishaps' = mishaps
                   \cup (IF \E l \in gone : l[1] \in Creates(s) THEN {"created"} ELSE {})
                   \cup (IF \E l \in gone : OnTheWay(l[1]) THEN {"raced"} ELSE {})
    /\ UNCHANGED <<hub, watching, reports, up, online, left, unseen>>

\* A write fails after those of D: the files are put back, the entries of D are not.
ApplyFails(D) ==
    /\ Take("snapshot") /\ Head(down).mode = "apply" /\ Spend("faults")
    /\ D \subseteq Writes(Head(down)) /\ D # Writes(Head(down))
    /\ base' = Entries(Head(down), D)
    /\ due' = [NoAck EXCEPT !.done = D]
    /\ UNCHANGED <<hub, disk, ignored, watching, reports, up, online, lost, unseen, mishaps>>

\* Restore rewrites the paths with their entries; a path without an entry is deleted.
RestoreFiles(ok) ==
    /\ Take("restore")
    /\ IF ok THEN left' = left ELSE Spend("faults")
    /\ LET P == Head(down).paths
           old == [files |-> [p \in Paths |-> base[p].blob]] IN
         /\ disk' = IF ok THEN Over(disk, old, P) ELSE disk
         /\ base' = Entries(old, P)
         /\ due' = [kind |-> "ack", ok |-> ok, restore |-> TRUE, done |-> P, over |-> P]
         /\ LET gone == IF ok THEN Shown(disk, {p \in P : disk[p] # base[p].blob}) ELSE {} IN
              /\ lost' = lost \cup gone
              /\ Note(\E l \in gone : OnTheWay(l[1]), "raced")
    /\ UNCHANGED <<hub, ignored, watching, reports, up, online, unseen>>

\* Ignoring does not touch the files.
IgnoreFiles ==
    /\ Take("ignore")
    /\ ignored' = ignored \cup Head(down).paths
    /\ watching' = [watching EXCEPT !.skip = ignored']
    /\ UNCHANGED <<hub, disk, base, reports, due, up, online, left, history>>

\* When the files are written and state.json is saved, the watcher is given the new entries ...
ReloadWatcher ==
    /\ watching # Current
    /\ watching' = Current
    /\ UNCHANGED <<hub, disk, base, ignored, reports, due, net, left, history>>

\* ... and then the acknowledgement goes out.
SendAck ==
    /\ due # NoAck /\ watching = Current /\ Room(up)
    /\ ToHub(due)
    /\ Note(~online, "unacknowledged")
    /\ due' = NoAck
    /\ UNCHANGED <<hub, disk, base, ignored, watching, reports, down, online, left, lost, unseen>>

-----------------------------------------------------------------------------
(* The hub: reports and acknowledgements.                                  *)

TakeReport ==
    /\ up # <<>> /\ Head(up).kind = "report" /\ work = NoWork
    /\ up' = Tail(up)
    /\ work' = [NoWork EXCEPT !.batch = Head(up), !.todo = DOMAIN Head(up).items]
    /\ UNCHANGED <<head, mode, rules, events, fullSeen, pending, adopting, asked, snapping, taken, agent,
                   down, online, left, history>>

\* Mutant: upsert does not look.
FindNone(p) ==
    /\ work.path = None /\ p \in work.todo
    /\ work' = [work EXCEPT !.path = p, !.todo = @ \ {p}, !.event = 0]
    /\ UNCHANGED <<head, mode, rules, events, fullSeen, pending, adopting, asked, snapping, taken, agent, net,
                   left, history>>

\* Mutant: any event of the path will do, a closed one too.
FindAny(p) ==
    /\ work.path = None /\ p \in work.todo
    /\ work' = [work EXCEPT !.path = p, !.todo = @ \ {p},
                            !.event = IF \E e \in Ids : events[e].path = p
                                      THEN CHOOSE e \in Ids : events[e].path = p ELSE 0]
    /\ UNCHANGED <<head, mode, rules, events, fullSeen, pending, adopting, asked, snapping, taken, agent, net,
                   left, history>>

\* upsert: look for the open event of the path ...
FindEvent(p) ==
    /\ work.path = None /\ p \in work.todo
    /\ work' = [work EXCEPT !.path = p, !.todo = @ \ {p},
                            !.event = IF OpenAt(p) = {} THEN 0 ELSE CHOOSE e \in OpenAt(p) : TRUE]
    /\ UNCHANGED <<head, mode, rules, events, fullSeen, pending, adopting, asked, snapping, taken, agent, net,
                   left, history>>

\* Mutant: the last batch of a full report stands for all of it.
AllSeenOfLast(seen) == seen

\* What the batches of a full report have held so far.
AllSeen(seen) == fullSeen \cup seen

Closed(es, E, state) == [e \in DOMAIN es |-> IF e \in E THEN [es[e] EXCEPT !.state = state]
                                             ELSE es[e]]

\* closeVanished: open events of paths the full report has not shown.
Vanished(es, seen) == {e \in DOMAIN es : es[e].state = "open" /\ es[e].path \notin AllSeen(seen)}

\* Mutant: what a full report has held is never forgotten.
ContinueKeepsSeen(es, seen) ==
    IF work.todo # {}
    THEN /\ work' = [work EXCEPT !.seen = seen, !.path = None, !.event = 0]
         /\ events' = es /\ UNCHANGED fullSeen
    ELSE /\ work' = NoWork
         /\ fullSeen' = IF work.batch.full THEN AllSeen(seen) ELSE fullSeen
         /\ events' = IF work.batch.full /\ work.batch.final
                      THEN Closed(es, Vanished(es, seen), "superseded") ELSE es

\* On to the next item; the last batch of a full report closes what has vanished.
Continue(es, seen) ==
    IF work.todo # {}
    THEN /\ work' = [work EXCEPT !.seen = seen, !.path = None, !.event = 0]
         /\ events' = es /\ UNCHANGED fullSeen
    ELSE /\ work' = NoWork
         /\ fullSeen' = CASE ~work.batch.full -> fullSeen
                          [] work.batch.full /\ work.batch.final -> {}
                          [] OTHER -> AllSeen(seen)
         /\ events' = IF work.batch.full /\ work.batch.final
                      THEN Closed(es, Vanished(es, seen), "superseded") ELSE es

\* ... and save it, or a new one.  Only the columns of the report are written.
SaveEvent ==
    /\ work.path # None /\ (work.event = 0 => Len(events) < MaxEvents)
    /\ LET p == work.path  c == work.batch.items[p] IN
         Continue(IF work.event # 0
                  THEN [events EXCEPT ![work.event].content = c]
                  ELSE Append(events, [path |-> p, content |-> c, state |-> "open"]),
                  work.seen \cup {p})
    /\ UNCHANGED <<head, mode, rules, pending, adopting, asked, snapping, taken, agent, net, left, history>>

\* An item that cannot be saved is logged and passed over.
PassOver ==
    /\ work.path # None /\ Spend("faults")
    /\ Continue(events, work.seen)
    /\ mishaps' = mishaps \cup {"failed"}
    /\ UNCHANGED <<head, mode, rules, pending, adopting, asked, snapping, taken, agent, net, lost, unseen>>

\* Of the paths of an acknowledgement, the events restore was asked for.
Restored(a) == UNION {OpenAt(p) : p \in a.done \cap pending}

\* Mutant: nothing is superseded.
SupersededNone(a) == {}

\* What is still open of the overwritten paths.
Superseded(a) == (UNION {OpenAt(p) : p \in a.over}) \ Restored(a)

\* A successful acknowledgement closes the events of its paths, as restored or superseded.
TakeAck ==
    /\ up # <<>> /\ Head(up).kind = "ack" /\ work = NoWork
    /\ up' = Tail(up)
    /\ LET a == Head(up) IN
         IF a.ok
         THEN /\ events' = [e \in Ids |->
                   IF e \in Restored(a) THEN [events[e] EXCEPT !.state = "restored"]
                   ELSE IF e \in Superseded(a) THEN [events[e] EXCEPT !.state = "superseded"]
                   ELSE events[e]]
              /\ pending' = pending \ a.done
         ELSE UNCHANGED <<events, pending>>
    /\ UNCHANGED <<head, mode, rules, fullSeen, work, adopting, asked, snapping, taken, agent, down, online,
                   left, history>>

-----------------------------------------------------------------------------
(* The hub: what the user decides.                                         *)

\* A publication of other files.
Publish(p, c) ==
    /\ Spend("orders") /\ c # head[p] /\ adopting = {}
    /\ head' = [head EXCEPT ![p] = c]
    /\ Notify
    /\ UNCHANGED <<mode, rules, events, fullSeen, pending, work, adopting, snapping, taken, agent, net,
                   history>>

\* Assign with a mode the user chose.
Assign(m) ==
    /\ Spend("orders") /\ m # mode
    /\ mode' = m
    /\ unseen' = IF m = "apply" THEN {} ELSE unseen
    /\ Notify
    /\ UNCHANGED <<head, rules, events, fullSeen, pending, work, adopting, snapping, taken, agent, net,
                   lost, mishaps>>

\* Adopt reads the events and publishes the head with their contents over it ...
StartAdopt(E) ==
    /\ adopting = {} /\ E # {} /\ E \subseteq Open /\ Spend("orders")
    /\ adopting' = E
    /\ head' = [p \in Paths |-> IF OpenAt(p) \cap E = {} THEN head[p]
                                ELSE events[CHOOSE e \in OpenAt(p) : TRUE].content]
    /\ UNCHANGED <<mode, rules, events, fullSeen, pending, work, asked, snapping, taken, agent, net,
                   history>>

\* ... and then closes the events it has read, and notifies.
MarkAdopted ==
    /\ adopting # {}
    /\ events' = Closed(events, adopting, "adopted")
    /\ adopting' = {}
    /\ Notify
    /\ UNCHANGED <<head, mode, rules, fullSeen, pending, work, snapping, taken, agent, net, left, history>>

\* Restore only notes the paths and sends the command; the events stay open.
Restore(E) ==
    /\ E # {} /\ E \subseteq Open /\ Spend("orders") /\ Room(down)
    /\ LET P == {events[e].path : e \in E} IN
         /\ pending' = pending \cup P
         /\ ToAgent([kind |-> "restore", paths |-> P])
    /\ UNCHANGED <<head, mode, rules, events, fullSeen, work, adopting, asked, snapping, taken, agent, up, online,
                   history>>

\* Ignore writes a rule for the machine or for all, closes the event, and tells the agent.
Ignore(e, scope) ==
    /\ e \in Open /\ Spend("orders") /\ Room(down)
    /\ rules' = [rules EXCEPT ![scope] = @ \cup {events[e].path}]
    /\ events' = Closed(events, {e}, "ignored")
    /\ ToAgent([kind |-> "ignore", paths |-> {events[e].path}])
    /\ UNCHANGED <<head, mode, fullSeen, pending, work, adopting, asked, snapping, taken, agent, up, online,
                   history>>

\* An apply snapshot without the rule of p is on its way, or its mode has been read.
Overtaken(p) ==
    \/ snapping = "apply"
    \/ \E i \in 1 .. Len(down) :
           down[i].kind = "snapshot" /\ down[i].mode = "apply" /\ p \notin down[i].ignore

\* Mutant: the mode stays as it is.
RemanageAsIs(p) ==
    /\ p \in rules["own"] \ rules["global"] /\ Spend("orders")
    /\ rules' = [rules EXCEPT !["own"] = @ \ {p}]
    /\ unseen' = unseen \cup {p}
    /\ Note(Overtaken(p), "overtaken")
    /\ Notify
    /\ UNCHANGED <<head, mode, events, fullSeen, pending, work, adopting, snapping, taken, agent, net, lost>>

\* Remanage: in one transaction back to survey and the rule is gone.  A global rule refuses it.
Remanage(p) ==
    /\ p \in rules["own"] \ rules["global"] /\ Spend("orders")
    /\ mode' = "survey"
    /\ rules' = [rules EXCEPT !["own"] = @ \ {p}]
    /\ unseen' = unseen \cup {p}
    /\ Note(Overtaken(p), "overtaken")
    /\ Notify
    /\ UNCHANGED <<head, events, fullSeen, pending, work, adopting, snapping, taken, agent, net, lost>>

\* Snapshot reads the assignment first, then the head with its files, and the rules last.
ReadMode ==
    /\ asked /\ snapping = "no" /\ Room(down)
    /\ asked' = FALSE /\ snapping' = mode
    /\ UNCHANGED <<head, mode, rules, events, fullSeen, pending, work, adopting, taken, agent, net, left,
                   history>>

ReadHead ==
    /\ snapping # "no" /\ taken = {}
    /\ taken' = {head}
    /\ UNCHANGED <<head, mode, rules, events, fullSeen, pending, work, adopting, asked, snapping, agent,
                   net, left, history>>

SendSnapshot ==
    /\ Room(down)
    /\ \E files \in taken :
           ToAgent([kind |-> "snapshot", files |-> files, mode |-> snapping,
                    ignore |-> rules["own"] \cup rules["global"]])
    /\ snapping' = "no" /\ taken' = {}
    /\ UNCHANGED <<head, mode, rules, events, fullSeen, pending, work, adopting, asked, agent, up, online,
                   left, history>>

-----------------------------------------------------------------------------
(* Faults.                                                                 *)

AckIn(queue) == \E i \in 1 .. Len(queue) : queue[i].kind = "ack"
ReportIn(queue) == \E i \in 1 .. Len(queue) : queue[i].kind = "report"

\* The connection breaks; a goroutine that was sending a report may not notice.
Disconnect ==
    /\ online /\ Spend("faults")
    /\ online' = FALSE /\ asked' = FALSE /\ up' = <<>> /\ down' = <<>>
    /\ mishaps' = mishaps \cup (IF AckIn(up) THEN {"unacknowledged"} ELSE {})
                          \cup (IF ReportIn(up) THEN {"torn"} ELSE {})
    /\ UNCHANGED <<head, mode, rules, events, fullSeen, pending, work, adopting, snapping, taken, agent,
                   lost, unseen>>

Reconnect ==
    /\ ~online
    /\ online' = TRUE /\ asked' = TRUE
    /\ UNCHANGED <<head, mode, rules, events, fullSeen, pending, work, adopting, snapping, taken, agent, up, down, left, history>>

\* The hub restarts: what was only in memory is gone.
Restart ==
    /\ Spend("faults")
    /\ fullSeen' = {} /\ pending' = {} /\ work' = NoWork /\ adopting' = {}
    /\ asked' = FALSE /\ snapping' = "no" /\ taken' = {}
    /\ online' = FALSE /\ up' = <<>> /\ down' = <<>>
    /\ mishaps' = mishaps \cup (IF AckIn(up) THEN {"unacknowledged"} ELSE {})
                          \cup (IF ReportIn(up) \/ work # NoWork \/ fullSeen # {} THEN {"torn"} ELSE {})
    /\ UNCHANGED <<head, mode, rules, events, agent, lost, unseen>>

User ==
    \/ \E p \in Paths : \/ Remanage(p)
                        \/ \E c \in Contents \cup {None} : Edit(p, c) \/ Publish(p, c)
    \/ \E E \in SUBSET Ids : StartAdopt(E) \/ Restore(E)
    \/ \E e \in Ids, scope \in {"own", "global"} : Ignore(e, scope)
    \/ \E m \in Modes : Assign(m)

Agent ==
    \/ \E T \in SUBSET Paths : Scan(FALSE, T)
    \/ Scan(TRUE, {})
    \/ \E g \in Goroutines : SendBatch(g)
    \/ \E D \in SUBSET Paths : ApplyFails(D)
    \/ \E ok \in BOOLEAN : RestoreFiles(ok)
    \/ Survey \/ Apply \/ IgnoreFiles \/ ReloadWatcher \/ SendAck

Hub ==
    \/ TakeReport \/ SaveEvent \/ PassOver \/ TakeAck \/ MarkAdopted
    \/ ReadMode \/ ReadHead \/ SendSnapshot
    \/ \E p \in Paths : FindEvent(p)

Next == User \/ Agent \/ Hub \/ Disconnect \/ Reconnect \/ Restart

Spec == Init /\ [][Next]_vars

\* The goroutines of the agent and of the hub go on, the connection comes back, and the tick of
\* the full scan is taken sooner or later although other events compete with it in the select.
Fairness ==
    /\ SF_vars(Scan(TRUE, {}))
    /\ \A g \in Goroutines : WF_vars(SendBatch(g))
    /\ WF_vars(Survey \/ Apply \/ IgnoreFiles \/ RestoreFiles(TRUE) \/ ReloadWatcher \/ SendAck)
    /\ WF_vars(TakeReport \/ (\E p \in Paths : FindEvent(p)) \/ SaveEvent \/ TakeAck)
    /\ WF_vars(ReadMode \/ ReadHead \/ SendSnapshot) /\ WF_vars(MarkAdopted) /\ WF_vars(Reconnect)

FairSpec == Spec /\ Fairness

-----------------------------------------------------------------------------
(* What is expected.                                                       *)

Without(ms) == mishaps \cap ms = {}

\* Applying goes over a drift but never loses it: what the inbox showed of a file stays in an
\* event, however the file changes afterwards, as long as the acknowledgement of the apply
\* arrives, before the next report, and the file was not written as a new one.
NothingLost ==
    Without({"unacknowledged", "created", "raced"}) =>
        \A l \in lost : \E e \in Ids : events[e].path = l[1] /\ events[e].content = l[2]

\* A full report closes events of paths that its scan did not find, and no others, although it
\* comes in parts: unless an item could not be saved, a part was lost, or the parts of two full
\* reports, of the survey and of the watcher, mixed.
ClosedHadVanished ==
    [][\A e \in Ids : events[e].state = "open" /\ events'[e].state = "superseded"
                        /\ work # NoWork /\ mishaps' \cap {"failed", "torn", "mixed"} = {} =>
           events[e].path \notin work.batch.all]_vars

\* A path that is managed again is not written by an apply before the user has chosen "apply",
\* unless Remanage overtakes a snapshot.
SurveyFirst ==
    [][\A p \in unseen : Without({"overtaken"}) /\ due'.restore = FALSE /\ due' # due =>
           p \notin due'.done]_vars

\* A drift that stays is in the inbox in the end, with the content of the file, whatever was
\* lost, raced or closed before: the full scan reports it again.
DriftShown ==
    \A p \in Paths, c \in Contents \cup {None} :
        <>[](p \in Drifts /\ disk[p] = c) => <>[](\E e \in OpenAt(p) : events[e].content = c)

\* The event of a file that has been put back is closed in the end, as long as some other file
\* drifts: a full scan that finds nothing is not reported.
RevertCloses ==
    \A p \in Paths : <>[](p \notin Drifts /\ Drifts # {}) => <>[](OpenAt(p) = {})

=============================================================================
