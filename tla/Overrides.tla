------------------------------ MODULE Overrides ------------------------------
(***************************************************************************)
(* One path of one machine that keeps some of its own content: the hub's   *)
(* machine_overrides records of the path, the calls that make them out of  *)
(* a drift, drop them and clear their reminders, the snapshot that lays    *)
(* them over the head of the config set, and the machine that applies it,  *)
(* edits the file and reports the difference.                              *)
(*                                                                         *)
(* A record keeps one point of a JSON object, or a whole text.  A call of  *)
(* Override checks everything first and then drops what it replaces, makes *)
(* its records one by one, and closes the drift: another request, or an    *)
(* error, may come between any two of these.                               *)
(***************************************************************************)
EXTENDS Merge3

CONSTANTS
    None,        \* no value, no record, no event: a key that is absent
    Leaves,      \* JSON values that are not objects
    Arrays,      \* those of them that are arrays
    Tops,        \* top-level keys
    Subs,        \* keys of the objects below them
    SelOrder,    \* the selectors, in the order of the database's sort
    Objects,     \* the JSON objects the users write
    Texts,       \* the texts they write: sequences of lines
    Firsts,      \* the published file, which the machine has, at first
    Context,     \* lines of context around a hunk
    Calls,       \* requests the hub serves at the same time
    Budgets      \* how many publishes, edits, overrides, drops and faults there are

Json(tree) == [kind |-> "json", tree |-> tree]
Text(lines) == [kind |-> "text", lines |-> lines]
Docs == {Json(o) : o \in Objects} \cup {Text(t) : t \in Texts}

\* The selector of a text record, and those of the points of an object.
Whole == <<>>
Selectors == {<<t>> : t \in Tops} \cup {<<t, s>> : t \in Tops, s \in Subs}

Inner == [Subs -> Leaves \cup {None}]
IsObj(v) == v \in Inner
Trees == [Tops -> Leaves \cup {None} \cup Inner]

ASSUME LeavesAssumption ==
    /\ None \notin Leaves /\ (Leaves \cup {None}) \cap Inner = {} /\ Arrays \subseteq Leaves
    /\ Objects \subseteq Trees /\ Firsts \subseteq Docs /\ Context \in Nat
    /\ SelOrder \in Seq(Selectors)
    /\ ToSet(SelOrder) = Selectors /\ Len(SelOrder) = Cardinality(Selectors)
    /\ \A i, j \in 1..Len(SelOrder) : IsStrictPrefix(SelOrder[i], SelOrder[j]) => i < j

VARIABLES
    head,        \* the file in the head revision, None when it is not in it
    records,     \* the overrides there are, by their selectors
    event,       \* the open drift of the path, and the calls planned from it
    unmanaged,   \* there is an ignore rule for the path
    calls,       \* what each request has still to do
    notice,      \* a ConfigNotify is on its way to the machine
    disk,        \* the file on the machine
    based,       \* what the machine applied last
    raced,       \* two requests have changed the records at the same time
    failed,      \* a request has failed half-way, or a snapshot has
    left         \* the publishes, edits, overrides, drops and faults to come

vars == <<head, records, event, unmanaged, calls, notice, disk, based, raced, failed, left>>

-----------------------------------------------------------------------------
(* JSON trees, and the points in which two of them differ.                  *)

\* gjson: the value at a selector, None when there is none.
At(tree, sel) ==
    IF Len(sel) = 1 THEN tree[sel[1]]
    ELSE IF IsObj(tree[sel[1]]) THEN tree[sel[1]][sel[2]] ELSE None

\* sjson refuses to set a key of an array.
CannotSet(tree, sel, v) == Len(sel) = 2 /\ v # None /\ tree[sel[1]] \in Arrays

\* sjson: set or delete; what is not an object gives way to one.
Put(tree, sel, v) ==
    IF Len(sel) = 1 THEN [tree EXCEPT ![sel[1]] = v]
    ELSE IF IsObj(tree[sel[1]]) THEN [tree EXCEPT ![sel[1]][sel[2]] = v]
    ELSE IF v = None THEN tree
    ELSE [tree EXCEPT ![sel[1]] = [s \in Subs |-> IF s = sel[2] THEN v ELSE None]]

\* Mutant: an object that is missing on one side is compared key by key.
SplitDeep(base, mine) ==
    {sel \in Selectors : Len(sel) = 2 /\ At(base, sel) # At(mine, sel)}

\* Only where both sides are objects does the comparison go down.
Split(base, mine) ==
    {sel \in Selectors :
        /\ At(base, sel) # At(mine, sel)
        /\ LET both == IsObj(base[sel[1]]) /\ IsObj(mine[sel[1]])
           IN IF Len(sel) = 1 THEN ~both ELSE both}

\* Mutant: only what lies below the new selector counts.
selectorsBelow(a, b) == a = b \/ (b # Whole /\ IsPrefix(b, a))

\* One selector is a prefix of the other, or the same.
selectorsOverlap(a, b) ==
    \/ a = b
    \/ a # Whole /\ b # Whole /\ (IsPrefix(a, b) \/ IsPrefix(b, a))

-----------------------------------------------------------------------------
(* The merge of a snapshot.                                                 *)

\* A flag is the attention and what the hub says.
Flag(r, attention, shadow) ==
    [r EXCEPT !.attention = attention, !.shadow = IF attention = "none" THEN None ELSE shadow]

\* The record at a selector: what the hub changed is seen against the head, not against what the
\* points before have made of it; the first point that cannot be set ends the merge.
mergePoint(recs, tree, m, sel) ==
    LET r == recs[sel]
        seen == At(tree, sel)
        flagged == IF seen = r.base THEN Flag(r, "none", None) ELSE Flag(r, "hub_changed", seen)
    IN IF m.stuck \/ sel \notin DOMAIN recs THEN m
       ELSE [recs |-> [m.recs EXCEPT ![sel] = flagged],
             out |-> IF CannotSet(m.out, sel, r.mine) THEN m.out ELSE Put(m.out, sel, r.mine),
             stuck |-> CannotSet(m.out, sel, r.mine)]

\* Point by point, in the order of the selectors.
mergeJSON(recs, tree) ==
    LET merged[k \in 0..Len(SelOrder)] ==
            IF k = 0 THEN [recs |-> recs, out |-> tree, stuck |-> FALSE]
            ELSE mergePoint(recs, tree, merged[k - 1], SelOrder[k])
    IN merged[Len(SelOrder)]

\* The lines of a file: what a three-way merge works on.  An object counts as
\* a single line of its own.
Lines(doc) == IF doc.kind = "text" THEN doc.lines ELSE <<doc.tree>>

mergeText(recs, doc) ==
    LET r == recs[Whole]
        m == Merge(Lines(r.base), Lines(r.mine), Lines(doc))
        flagged == IF m.conflict THEN Flag(r, "merge_conflict", doc) ELSE Flag(r, "none", None)
    IN [recs |-> [recs EXCEPT ![Whole] = flagged], out |-> m.lines, stuck |-> FALSE]

FlagAll(recs, attention) ==
    [sel \in DOMAIN recs |-> Flag(recs[sel], attention, None)]

\* A merge of texts may give back the one line that stands for an object.
AsDoc(lines) ==
    IF Len(lines) = 1 /\ lines[1] \in Trees THEN Json(lines[1]) ELSE Text(lines)

\* What a snapshot serves at the path, and what it makes of the records.  The
\* kind of the first record decides.
Apply(recs, doc) ==
    CASE DOMAIN recs = {} -> [recs |-> recs, out |-> doc, stuck |-> FALSE]
      [] DOMAIN recs # {} /\ doc = None ->
            [recs |-> FlagAll(recs, "path_gone"), out |-> doc, stuck |-> FALSE]
      [] doc # None /\ Whole \in DOMAIN recs ->
            LET m == mergeText(recs, doc) IN [m EXCEPT !.out = AsDoc(@)]
      [] doc # None /\ Whole \notin DOMAIN recs /\ DOMAIN recs # {} ->
            IF doc.kind # "json"
            THEN [recs |-> FlagAll(recs, "unmergeable"), out |-> doc, stuck |-> FALSE]
            ELSE LET m == mergeJSON(recs, doc.tree) IN [m EXCEPT !.out = Json(@)]

Served(recs, doc) == Apply(recs, doc).out

-----------------------------------------------------------------------------
(* The hub's operations.                                                    *)

Idle == [pc |-> "idle"]
Point(base, mine) == [base |-> base, mine |-> mine, attention |-> "none", shadow |-> None]
NoRecords == [sel \in {} |-> None]
Drop(recs, sels) == [sel \in DOMAIN recs \ sels |-> recs[sel]]
Add(recs, sel, r) == [s \in DOMAIN recs \cup {sel} |-> IF s = sel THEN r ELSE recs[s]]

Init ==
    /\ head \in Firsts /\ disk = head /\ based = head
    /\ records = NoRecords
    /\ event = None
    /\ unmanaged = FALSE
    /\ calls = [c \in Calls |-> Idle]
    /\ notice = FALSE /\ raced = FALSE /\ failed = FALSE
    /\ left \in Budgets

Spend(what) == left[what] > 0 /\ left' = [left EXCEPT ![what] = @ - 1]

\* A file of the revision changes, or goes: by a publish or a rollback, which
\* notify the machine.
Publish(doc) ==
    /\ doc # head
    /\ Spend("publishes")
    /\ head' = doc
    /\ notice' = TRUE
    /\ UNCHANGED <<records, event, unmanaged, calls, disk, based, raced, failed>>

\* What a call of Override makes of the drift: the selected points of two
\* objects, or the selected hunks of two texts.
BothObjects(base, cur) == base.kind = "json" /\ cur.kind = "json"

Selections(base, cur) ==
    IF BothObjects(base, cur)
    THEN {[sel \in sels |-> Point(At(base.tree, sel), At(cur.tree, sel))] :
             sels \in SUBSET Split(base.tree, cur.tree) \ {{}}}
    ELSE {[sel \in {Whole} |->
              Point(base, AsDoc(SynthesizeMine(Lines(base), Lines(cur), keep, Context)))] :
             keep \in SUBSET DOMAIN Hunks(Lines(base), Lines(cur), Context) \ {{}}}

\* planOverride: every check, and nothing written.  Whether the drift was taken
\* from what the hub would serve now is noted for the properties only.
Override(c, points) ==
    /\ calls[c] = Idle
    /\ Spend("overrides")
    /\ event # None
    /\ event.cur # None       \* a deleted file has no points
    /\ ~unmanaged
    /\ points \in Selections(event.base, event.cur)
    /\ calls' = [calls EXCEPT ![c] =
                    [pc |-> "drop", points |-> points, todo |-> {}, base |-> event.base,
                     json |-> BothObjects(event.base, event.cur),
                     fresh |-> event.base = Served(records, head)]]
    /\ event' = [event EXCEPT !.calls = @ \cup {c}]
    /\ UNCHANGED <<head, records, unmanaged, notice, disk, based, raced, failed>>

Working(c) == calls[c] # Idle
Alone(c) == \A d \in Calls \ {c} : ~Working(d)
Goto(c, pc) == calls' = [calls EXCEPT ![c].pc = pc]

\* What the new records replace: everything when the path changes its kind or
\* is a text, else the records that overlap one of the new selectors.
Replaced(call) ==
    IF ~call.json \/ Whole \in DOMAIN records THEN DOMAIN records
    ELSE {sel \in DOMAIN records : \E new \in DOMAIN call.points : selectorsOverlap(sel, new)}

FindOld(c) ==
    /\ calls[c].pc = "drop"
    /\ calls' = [calls EXCEPT ![c].pc = "delete", ![c].todo = Replaced(calls[c])]
    /\ UNCHANGED <<head, records, event, unmanaged, notice, disk, based, raced, failed, left>>

\* DropPath and DropOverlapping: what was found goes, one record after the other.
DeleteOld(c, sel) ==
    /\ calls[c].pc \in {"delete", "clear"}
    /\ sel \in calls[c].todo
    /\ records' = Drop(records, {sel})
    /\ calls' = [calls EXCEPT ![c].todo = @ \ {sel}]
    /\ raced' = (raced \/ ~Alone(c))
    /\ UNCHANGED <<head, event, unmanaged, notice, disk, based, failed, left>>

OldDeleted(c) ==
    /\ calls[c].pc = "delete" /\ calls[c].todo = {}
    /\ calls' = [calls EXCEPT ![c].pc = "create", ![c].todo = DOMAIN calls[c].points]
    /\ UNCHANGED <<head, records, event, unmanaged, notice, disk, based, raced, failed, left>>

\* One record after the other; two of one selector are refused by the index.
CreateRecord(c, sel) ==
    /\ calls[c].pc = "create"
    /\ sel \in calls[c].todo
    /\ sel \notin DOMAIN records
    /\ records' = Add(records, sel, calls[c].points[sel])
    /\ calls' = [calls EXCEPT ![c].todo = @ \ {sel}]
    /\ raced' = (raced \/ ~Alone(c))
    /\ UNCHANGED <<head, event, unmanaged, notice, disk, based, failed, left>>

\* The drift the call was planned from, unless it is another one by now.
Closed(c) == IF event # None /\ c \in event.calls THEN None ELSE event

\* Mutant: the drift is closed, the machine not told.
FinishUntold(c) ==
    /\ calls[c].pc = "create" /\ calls[c].todo = {}
    /\ event' = Closed(c)
    /\ calls' = [calls EXCEPT ![c] = Idle]
    /\ raced' = (raced \/ ~Alone(c))
    /\ UNCHANGED <<head, records, unmanaged, notice, disk, based, failed, left>>

\* That drift is closed, whatever was reported of it since, and the machine is
\* told.
Finish(c) ==
    /\ calls[c].pc = "create" /\ calls[c].todo = {}
    /\ event' = Closed(c)
    /\ notice' = TRUE
    /\ calls' = [calls EXCEPT ![c] = Idle]
    /\ raced' = (raced \/ ~Alone(c))
    /\ UNCHANGED <<head, records, unmanaged, disk, based, failed, left>>

\* An error of the database, or of the index, ends the call where it is: what
\* it has dropped and made stays, and nobody is told.
Fail(c) ==
    /\ calls[c].pc \in {"drop", "delete", "create", "tell", "clear"}
    /\ Spend("faults")
    /\ calls' = [calls EXCEPT ![c] = Idle]
    /\ failed' = TRUE
    /\ UNCHANGED <<head, records, event, unmanaged, notice, disk, based, raced>>

Refused(c) ==
    /\ calls[c].pc = "create"
    /\ calls[c].todo \cap DOMAIN records # {}
    /\ calls' = [calls EXCEPT ![c] = Idle]
    /\ failed' = TRUE
    /\ UNCHANGED <<head, records, event, unmanaged, notice, disk, based, raced, left>>

\* DropOverride: delete the record, then notify.
DropOverride(c, sel) ==
    /\ calls[c] = Idle
    /\ sel \in DOMAIN records
    /\ Spend("drops")
    /\ records' = Drop(records, {sel})
    /\ calls' = [calls EXCEPT ![c] = [pc |-> "tell"]]
    /\ raced' = (raced \/ ~Alone(c))
    /\ UNCHANGED <<head, event, unmanaged, notice, disk, based, failed>>

Tell(c) ==
    /\ calls[c].pc = "tell"
    /\ notice' = TRUE
    /\ calls' = [calls EXCEPT ![c] = Idle]
    /\ UNCHANGED <<head, records, event, unmanaged, disk, based, raced, failed, left>>

\* Mutant: what the hub says is not cleared with the reminder.
KeepShadow(sel) ==
    /\ sel \in DOMAIN records /\ records[sel].attention # "none"
    /\ records' = [records EXCEPT ![sel].attention = "none"]
    /\ UNCHANGED <<head, event, unmanaged, calls, notice, disk, based, raced, failed, left>>

\* KeepOverride: the reminder goes, and what the record keeps stays.
Keep(sel) ==
    /\ sel \in DOMAIN records /\ records[sel].attention # "none"
    /\ records' = [records EXCEPT ![sel] = Flag(@, "none", None)]
    /\ UNCHANGED <<head, event, unmanaged, calls, notice, disk, based, raced, failed, left>>

\* Ignore: the overrides of the path go, and then the rule is made.
Ignore(c) ==
    /\ calls[c] = Idle
    /\ event # None
    /\ Spend("drops")
    /\ calls' = [calls EXCEPT ![c] = [pc |-> "clear", todo |-> DOMAIN records]]
    /\ event' = [event EXCEPT !.calls = @ \cup {c}]
    /\ UNCHANGED <<head, records, unmanaged, notice, disk, based, raced, failed>>

MakeRule(c) ==
    /\ calls[c].pc = "clear" /\ calls[c].todo = {}
    /\ unmanaged' = TRUE
    /\ event' = Closed(c)
    /\ calls' = [calls EXCEPT ![c] = Idle]
    /\ raced' = (raced \/ ~Alone(c))
    /\ UNCHANGED <<head, records, notice, disk, based, failed, left>>

-----------------------------------------------------------------------------
(* The machine.                                                             *)

\* A snapshot is served and applied: the file is written unless it is what was
\* applied before, whatever is on disk.  The hub's acknowledgement handler
\* closes the drift that was overwritten.
Pull ==
    /\ ~Apply(records, head).stuck
    /\ records' = Apply(records, head).recs
    /\ notice' = FALSE
    /\ IF unmanaged \/ Served(records, head) = based THEN UNCHANGED <<disk, based, event>>
       ELSE /\ based' = Served(records, head)
            /\ disk' = Served(records, head)
            /\ event' = None
    /\ UNCHANGED <<head, unmanaged, calls, raced, failed, left>>

\* A point that cannot be set fails the snapshot, after the records before it
\* have been flagged.
PullFails ==
    /\ Apply(records, head).stuck
    /\ records' = Apply(records, head).recs
    /\ notice' = FALSE
    /\ failed' = TRUE
    /\ UNCHANGED <<head, event, unmanaged, calls, disk, based, raced, left>>

\* The user edits or deletes the file.
Edit(doc) ==
    /\ doc # disk
    /\ Spend("edits")
    /\ disk' = doc
    /\ UNCHANGED <<head, records, event, unmanaged, calls, notice, based, raced, failed>>

\* The base of a drift is the hash of what the agent applied; the hub takes the
\* file of its head when the agent has none, and no base for an added file.
Bases == IF based = None THEN {Text(<<>>)} ELSE {based} \cup ({head} \ {None})

Report(base) ==
    /\ ~unmanaged
    /\ LET open == IF event = None THEN {} ELSE event.calls
       IN event' = IF disk = based THEN None ELSE [base |-> base, cur |-> disk, calls |-> open]
    /\ event' # event
    /\ UNCHANGED <<head, records, unmanaged, calls, notice, disk, based, raced, failed, left>>

Next ==
    \/ \E doc \in Docs \cup {None} : Publish(doc) \/ Edit(doc)
    \/ \E c \in Calls :
        \/ /\ event # None /\ event.cur # None
           /\ \E points \in Selections(event.base, event.cur) : Override(c, points)
        \/ FindOld(c) \/ OldDeleted(c) \/ Finish(c) \/ Fail(c) \/ Refused(c) \/ Tell(c)
        \/ \E sel \in Selectors \cup {Whole} :
               DeleteOld(c, sel) \/ CreateRecord(c, sel) \/ DropOverride(c, sel)
        \/ Ignore(c) \/ MakeRule(c)
    \/ \E sel \in Selectors \cup {Whole} : Keep(sel)
    \/ Pull \/ PullFails
    \/ \E base \in Bases : Report(base)

Spec == Init /\ [][Next]_vars

-----------------------------------------------------------------------------
(* What has to hold.                                                        *)

Values == Leaves \cup {None} \cup Inner
Records ==
    [base : Values, mine : Values, attention : {"none", "hub_changed", "path_gone", "unmergeable"},
     shadow : Values]

\* The shapes of the state.
TypeOK ==
    /\ head \in Docs \cup {None}
    /\ DOMAIN records \subseteq Selectors \cup {Whole}
    /\ \A sel \in DOMAIN records \ {Whole} : records[sel] \in Records
    /\ Whole \in DOMAIN records => records[Whole].attention \in {"none", "merge_conflict", "path_gone"}
    /\ \A sel \in DOMAIN records : records[sel].attention = "none" => records[sel].shadow = None
    /\ unmanaged \in BOOLEAN /\ notice \in BOOLEAN /\ raced \in BOOLEAN /\ failed \in BOOLEAN
    /\ \A c \in Calls : calls[c].pc \in {"idle", "drop", "delete", "create", "tell", "clear"}

\* As long as no two requests have changed the records at the same time, no
\* selector of a path is a prefix of another and the records are of one kind,
\* so that the order in which they are laid over the head does not matter
\* (overrides/service.go, DropOverlapping): also after a call that has failed
\* half-way.
NoneOverlap ==
    ~raced => \A a, b \in DOMAIN records :
        a # b => ~selectorsOverlap(a, b) /\ Whole \notin {a, b}

\* A machine that would be served something else than it has applied is going
\* to hear of it: a notice is under way, or a request that will send one, or
\* one has failed (overrides, hub/api.go, drift/override.go).
MachineIsTold ==
    \/ unmanaged \/ notice \/ failed
    \/ \E c \in Calls : Working(c)
    \/ Served(records, head) = based

\* What the selected points make of the file they were taken from.
Selected(call) ==
    IF call.json
    THEN LET put(tree, sel) ==
                IF sel \in DOMAIN call.points THEN Put(tree, sel, call.points[sel].mine) ELSE tree
         IN Json(FoldLeft(put, call.base.tree, SelOrder))
    ELSE call.points[Whole].mine

\* The machine is served exactly what its user selected when the file is the
\* hub's own: nothing was kept before and nothing was published since
\* (overrides/split.go and synth.go against apply.go and merge3.go).
KeepsTheSelected ==
    [][\A c \in Calls :
        calls[c] # Idle /\ calls'[c] = Idle /\ notice' /\ ~raced' /\ ~failed /\ ~failed'
          /\ calls[c].pc = "create" /\ calls[c].fresh /\ calls[c].base = head
        => Served(records', head') = Selected(calls[c])]_vars

\* The same where the machine kept something before: the base of the drift is
\* the file of the head (docs/superpowers/specs/2026-07-31-m1-config-loop-
\* design.md, base_hash), and what a machine keeps always wins
\* (docs/superpowers/plans/2026-09-01-machine-overrides.md).  Stated for runs
\* in which nothing is published.
OverridesAddUp ==
    [][\A c \in Calls :
        calls[c] # Idle /\ calls'[c] = Idle /\ notice' /\ ~raced' /\ ~failed /\ ~failed'
          /\ calls[c].pc = "create" /\ calls[c].fresh
        => Served(records', head') = Selected(calls[c])]_vars

\* No change of the hub's keeps a snapshot from being made (overrides/apply.go:
\* a collision never blocks an apply).
NeverStuck == ~Apply(records, head).stuck

=============================================================================
