------------------------------- MODULE Applier -------------------------------
(***************************************************************************)
(* The part of the agent that writes the user's files: the plan, the       *)
(* pre-apply snapshot, the writes, the rollback and the state file of      *)
(* agent/internal/applier, driven by agent/internal/syncer (apply, survey, *)
(* restore), among programs that write the same files whenever they like,  *)
(* failing file operations, crashes, and a CLI that shares state.json.     *)
(*                                                                         *)
(* Paths are numbered in the order of their names, because the plan is     *)
(* sorted by name and rolled back in the reverse order.                    *)
(***************************************************************************)
EXTENDS Naturals, FiniteSets

CONSTANTS
    N,              \* number of managed paths
    Keyed,          \* the paths managed in keys mode (~/.claude.json)
    Owns,           \* what the managed part of a file can say, once rendered
    Rests,          \* what the unmanaged keys of a keyed file can say
    EmptyRest,      \* no unmanaged keys: every file managed as a whole
    Blobs,          \* contents before rendering, named by their hash
    Secrets,        \* versions of the secrets and variables of the machine
    Render,         \* Render[b][s]: blob b rendered with secrets s, or Undefined
    Undefined,      \* the blob refers to a name the secrets do not define
    Revisions,      \* what the hub may send
    NoRevision,     \* state.Revision before the first apply
    Target,         \* Target[r][p]: the blob revision r has at p, or Unmanaged
    Unmanaged,
    IgnorePaths,    \* IgnorePaths[r]: the paths the user asked to ignore
    UserWrites,     \* UserWrites[p]: what other programs may leave at p
    Absent,         \* the file does not exist
    Garbled,        \* a keyed file that is not valid JSON
    NoHash,         \* the empty hash
    OtherHash,      \* a hash no file has ("stale", "none" in restore)
    NoEntry,        \* the path is not in state.Files
    Keep,           \* the plan writes nothing there
    MergeRetries

Paths == 1..N
File == [own : Owns, rest : Rests]
Disk == File \cup {Absent, Garbled}
Hashes == File \cup {NoHash, OtherHash}
FileState == [blob : Blobs, rendered : Hashes]
NoStep == [act |-> "none", blob |-> Unmanaged, file |-> Absent]
StepOf ==
    {NoStep} \cup [act : {"delete"}, blob : Blobs \cup {Unmanaged}, file : {Absent}]
             \cup [act : {"skip", "create", "overwrite", "merge"}, blob : Blobs, file : File]
Healths == {"none", "ok", "degraded"}   \* "none": there is no state.json
State == [rev : Revisions \cup {NoRevision}, health : Healths, paused : BOOLEAN,
          files : [Paths -> FileState \cup {NoEntry}]]
Phases == {"idle", "step", "merge", "commit", "undo", "broken"}
Verdicts == {"none", "applied", "rolledback", "broken", "torn", "refused"}
Marks == {"clean", "edited", "undone", "torn"}

ASSUME ConstantsAssumption ==
    /\ N \in Nat /\ Keyed \subseteq Paths /\ MergeRetries \in Nat \ {0}
    /\ EmptyRest \in Rests /\ Keep \notin Disk
    /\ Absent \notin File /\ Garbled \notin File /\ Absent # Garbled
    /\ NoHash \notin File /\ OtherHash \notin File /\ NoHash # OtherHash
    /\ NoEntry \notin FileState /\ Unmanaged \notin Blobs /\ Undefined \notin Owns
    /\ Render \in [Blobs -> [Secrets -> Owns \cup {Undefined}]]
    /\ Target \in [Revisions -> [Paths -> Blobs \cup {Unmanaged}]]
    /\ IgnorePaths \in [Revisions -> SUBSET Paths]
    /\ UserWrites \in [Paths -> SUBSET Disk]

VARIABLES
    disk,       \* the managed home
    saved,      \* state.json
    st,         \* the Syncer's state, in memory
    sec,        \* secrets.json
    phase,      \* what the running apply is doing; "idle": no apply is running
    restoring,  \* the running apply is a restore of the drift inbox
    rev,        \* its revision
    plan,       \* its Plan: one step for every path, "none" where there is none
    shot,       \* its pre-apply snapshot of the paths it is to write
    at,         \* the step it is at; in a rollback, the steps below are to be undone
    next,       \* the State.Files it is building
    seen,       \* the keyed file as the merge read it
    tries,      \* the attempts of the merge that a concurrent write spoilt
    ack,        \* how the last apply was reported to the hub
    cli,        \* the state a pause or resume command is about to write; NoState: none
    touched,    \* history: paths others wrote since the apply began
    raced,      \* history: somebody wrote between the merge's last check and its write
    mark        \* history: why the baseline of a path may differ from the disk

jobVars == <<restoring, rev, plan, shot>>
stateVars == <<saved, st, sec, ack, cli>>
historyVars == <<touched, raced, mark>>
vars == <<disk, stateVars, phase, jobVars, at, next, seen, tries, historyVars>>

NoFiles == [p \in Paths |-> NoEntry]
NoState == [rev |-> NoRevision, health |-> "none", paused |-> FALSE, files |-> NoFiles]
\* The Applier and the CLI make a state where there was none.
Made(s) == [s EXCEPT !.health = IF @ = "none" THEN "ok" ELSE @]
NoPlan == [p \in Paths |-> NoStep]
NoShot == [p \in Paths |-> Keep]
Busy == phase # "idle"

-----------------------------------------------------------------------------
(* The plan.  The mode bits of a file are part of its content here.        *)

\* Mutant: a file is skipped when its blob is the recorded one, rotated secrets or not.
PlanStepByBlob(p, b, files, s) ==
    IF p \notin Keyed /\ b # Unmanaged /\ files[p] # NoEntry /\ files[p].blob = b
    THEN [act |-> "skip", blob |-> b, file |-> [own |-> Render[b][s], rest |-> EmptyRest]]
    ELSE IF b = Unmanaged THEN NoStep
    ELSE [act |-> "overwrite", blob |-> b, file |-> [own |-> Render[b][s], rest |-> EmptyRest]]

\* What is to be done at p when blob b (or nothing) is wanted there.
PlanStep(p, b, files, s) ==
    LET out == [own |-> Render[b][s], rest |-> EmptyRest]
        step(a) == [act |-> a, blob |-> b, file |-> out]
    IN  CASE b = Unmanaged /\ files[p] # NoEntry ->
                [act |-> "delete", blob |-> files[p].blob, file |-> Absent]
          [] b = Unmanaged /\ files[p] = NoEntry -> NoStep
          [] b # Unmanaged /\ Render[b][s] = Undefined -> NoStep
          [] b # Unmanaged /\ Render[b][s] # Undefined ->
                IF p \in Keyed THEN step("merge")
                ELSE IF files[p] = NoEntry THEN step("create")
                ELSE IF files[p].rendered = out THEN step("skip")
                ELSE IF files[p].rendered = NoHash THEN step("create")
                ELSE step("overwrite")

\* applier.BuildPlan: what is wanted against what state.Files records.
BuildPlan(wanted, ignored, files, s) ==
    [p \in Paths |-> IF p \in ignored THEN NoStep ELSE PlanStep(p, wanted[p], files, s)]

Writes(p) == plan[p].act \notin {"none", "skip"}

\* The keyed file after the merge: the managed keys of the step, the rest as read.
Merged(step, cur) ==
    [step.file EXCEPT !.rest = IF cur = Absent THEN EmptyRest ELSE cur.rest]

\* next.Files after a step that left c at its path.
Recorded(p, c) ==
    [next EXCEPT ![p] = IF plan[p].act = "delete" THEN NoEntry
                        ELSE [blob |-> plan[p].blob, rendered |-> c]]

-----------------------------------------------------------------------------
Init ==
    /\ disk \in [Paths -> Disk]
    /\ \A p \in Paths : disk[p] \in UserWrites[p]
    /\ saved = NoState
    /\ st = NoState
    /\ sec \in Secrets
    /\ phase = "idle" /\ restoring = FALSE /\ rev = NoRevision
    /\ plan = NoPlan /\ shot = NoShot
    /\ at = 1 /\ next = NoFiles /\ seen = Absent /\ tries = 0
    /\ ack = "none" /\ cli = NoState
    /\ touched = {} /\ raced = FALSE
    /\ mark = [p \in Paths |-> "edited"]

\* Back to no running apply.
Rest ==
    /\ phase' = "idle" /\ restoring' = FALSE /\ rev' = NoRevision
    /\ plan' = NoPlan /\ shot' = NoShot
    /\ at' = 1 /\ next' = NoFiles /\ seen' = Absent /\ tries' = 0
    /\ touched' = {} /\ raced' = FALSE

\* state.Save may fail; the Syncer logs it and goes on with the new state in memory.
Save(s) ==
    /\ st' = s
    /\ saved' \in {s, saved}
    /\ UNCHANGED cli

\* The first half of ApplyWithHook: past the gates, the snapshot is taken.
Begin(r, p, isRestore) ==
    /\ phase' = "step" /\ restoring' = isRestore /\ rev' = r
    /\ plan' = p
    /\ shot' = [q \in Paths |-> IF p[q].act \in {"none", "skip"} THEN Keep ELSE disk[q]]
    /\ at' = 1 /\ next' = st.files
    /\ ack' = "none" /\ touched' = {}
    /\ UNCHANGED <<disk, saved, st, cli, seen, tries, raced, mark>>

Degraded == st.health = "degraded"

\* What a snapshot of revision r, with secrets s, asks for.
SnapshotPlan(r, s) == BuildPlan(Target[r], IgnorePaths[r], st.files, s)

\* onSnapshot, all contents at hand: the secrets are saved, then the plan is begun.
Apply(r, s) ==
    /\ phase = "idle"
    /\ ~Degraded /\ ~st.paused
    /\ sec' = s
    /\ Begin(r, SnapshotPlan(r, s), FALSE)

\* The apply the Applier declines (degraded, paused, no snapshot could be taken):
\* the home is left alone, and the Syncer saves the state it was given.
Decline(s) ==
    /\ phase = "idle"
    /\ sec' = s
    /\ Save(Made(st))
    /\ ack' = "refused"
    /\ UNCHANGED <<disk, phase, jobVars, at, next, seen, tries, historyVars>>

\* onSnapshot saves the secrets before it has the contents.  They may not come, or no
\* plan can be made of them, and then nothing but the secrets changes.
SecretsArrive(s) ==
    /\ phase = "idle"
    /\ sec' = s
    /\ ack' \in {ack, "refused"}
    /\ UNCHANGED <<disk, saved, st, cli, phase, jobVars, at, next, seen, tries, historyVars>>

\* survey: the snapshot becomes the baseline, and nothing is written.
Survey(r, s) ==
    /\ phase = "idle"
    /\ sec' = s
    /\ Save([rev |-> r, health |-> "ok", paused |-> FALSE,
             files |-> [p \in Paths |-> IF Target[r][p] = Unmanaged THEN NoEntry
                                        ELSE [blob |-> Target[r][p], rendered |-> NoHash]]])
    /\ ack' = "none"
    /\ UNCHANGED <<disk, phase, jobVars, at, next, seen, tries, historyVars>>

\* The plan of restore: the baseline of the given paths, whatever is on disk.
RestorePlan(ps) ==
    BuildPlan([p \in Paths |-> IF p \in ps /\ st.files[p] # NoEntry
                                THEN st.files[p].blob ELSE Unmanaged],
              {},
              [p \in Paths |-> IF p \in ps THEN [blob |-> Unmanaged, rendered |-> OtherHash]
                               ELSE NoEntry],
              sec)

\* Mutant: restore leaves the recorded hashes alone.
AfterRestoreUnrecorded(pl) ==
    [st EXCEPT !.files = [p \in Paths |->
        IF pl[p].act = "delete" THEN NoEntry ELSE st.files[p]]]

\* What restore makes of the state, however the writing ended.
AfterRestore(pl) ==
    [st EXCEPT !.files = [p \in Paths |->
        CASE pl[p].act = "delete" -> NoEntry
          [] pl[p].act \in {"none", "skip"} \/ st.files[p] = NoEntry -> st.files[p]
          [] OTHER -> [st.files[p] EXCEPT !.rendered = pl[p].file]]]

\* A restore that did not write what it records.
Unrestored(pl) ==
    [p \in Paths |-> IF pl[p].act = "none" \/ mark[p] = "edited" THEN mark[p] ELSE "undone"]

\* Mutant: the second, laxer path, without the gate of Apply.
RestoreUngated(ps) ==
    /\ phase = "idle" /\ st # NoState
    /\ UNCHANGED sec
    /\ Begin(st.rev, RestorePlan(ps), TRUE)

\* onDriftCommand(OpRestore): the degraded gate holds, the paused one is not consulted.
Restore(ps) ==
    /\ phase = "idle" /\ st # NoState
    /\ ~Degraded
    /\ UNCHANGED sec
    /\ Begin(st.rev, RestorePlan(ps), TRUE)

RestoreDeclined(ps) ==
    /\ phase = "idle" /\ st # NoState
    /\ Save(AfterRestore(RestorePlan(ps)))
    /\ ack' = "refused"
    /\ mark' = Unrestored(RestorePlan(ps))
    /\ UNCHANGED <<disk, sec, phase, jobVars, at, next, seen, tries, touched, raced>>

-----------------------------------------------------------------------------
(* The steps of a running apply.                                           *)

\* Step p succeeded and left c there.
Advance(p, c) ==
    /\ phase' = "step" /\ at' = at + 1
    /\ next' = Recorded(p, c)
    /\ seen' = Absent /\ tries' = 0 /\ raced' = FALSE
    /\ mark' = [mark EXCEPT ![p] = "clean"]
    /\ UNCHANGED <<stateVars, jobVars, touched>>

PassStep ==
    /\ phase = "step" /\ at \in Paths /\ ~Writes(at)
    /\ at' = at + 1
    /\ UNCHANGED <<disk, stateVars, phase, jobVars, next, seen, tries, historyVars>>

WriteStep ==
    /\ phase = "step" /\ at \in Paths
    /\ plan[at].act \in {"create", "overwrite", "delete"}
    /\ disk' = [disk EXCEPT ![at] = plan[at].file]
    /\ Advance(at, plan[at].file)

\* merge: the fingerprint is taken and the file is read.
MergeRead ==
    /\ phase = "step" /\ at \in Paths /\ plan[at].act = "merge"
    /\ disk[at] # Garbled
    /\ seen' = disk[at] /\ phase' = "merge"
    /\ UNCHANGED <<disk, stateVars, jobVars, at, next, tries, historyVars>>

\* renderedOnDisk: what a merge left is read again, and whatever is there is recorded.
HashOf(c) == CASE c = Absent -> NoHash [] c = Garbled -> OtherHash [] OTHER -> c

\* The merge would change nothing: the file is not written.
MergeSame ==
    /\ phase = "merge"
    /\ seen # Absent /\ Merged(plan[at], seen) = seen
    /\ Advance(at, HashOf(disk[at]))
    /\ UNCHANGED disk

MergeDiffers == seen = Absent \/ Merged(plan[at], seen) # seen

\* Mutant: the second fingerprint is not compared.
MergeCheckBlind ==
    /\ phase = "merge" /\ MergeDiffers
    /\ phase' = "commit" /\ raced' = FALSE
    /\ UNCHANGED <<disk, stateVars, jobVars, at, next, seen, tries, touched, mark>>

\* The second fingerprint equals the first: nobody wrote since the read, or what is there is what
\* was read.
MergeCheck ==
    /\ phase = "merge" /\ MergeDiffers
    /\ disk[at] = seen
    /\ phase' = "commit" /\ raced' = FALSE
    /\ UNCHANGED <<disk, stateVars, jobVars, at, next, seen, tries, touched, mark>>

\* Mutant: the attempts are not counted.
MergeAgainForever ==
    /\ phase = "merge" /\ MergeDiffers
    /\ phase' = "step" /\ seen' = Absent
    /\ UNCHANGED <<disk, stateVars, jobVars, at, next, tries, historyVars>>

\* It does not: read again, as long as attempts are left.  The fingerprint is made of time and
\* size: whoever writes the same contents again changes it as well.
MergeAgain ==
    /\ phase = "merge" /\ MergeDiffers
    /\ tries' = tries + 1
    /\ tries' < MergeRetries
    /\ phase' = "step" /\ seen' = Absent
    /\ UNCHANGED <<disk, stateVars, jobVars, at, next, historyVars>>

MergeWrite ==
    /\ phase = "commit"
    /\ disk' = [disk EXCEPT ![at] = Merged(plan[at], seen)]
    /\ Advance(at, Merged(plan[at], seen))

\* The failing step leaves its file as it was: writes are renames.
ToRollback ==
    /\ phase' = "undo"
    /\ seen' = Absent /\ tries' = 0 /\ raced' = FALSE
    /\ UNCHANGED <<disk, stateVars, jobVars, at, next, touched, mark>>

\* merge refuses a file that is not JSON, and gives up when it is out of attempts.
MergeRefuses ==
    /\ phase = "step" /\ at \in Paths /\ plan[at].act = "merge"
    /\ disk[at] = Garbled
    /\ ToRollback

MergeGivesUp ==
    /\ phase = "merge" /\ MergeDiffers
    /\ tries + 1 = MergeRetries
    /\ ToRollback

\* A file operation of the step fails.
StepFails ==
    /\ \/ phase = "step" /\ at \in Paths /\ Writes(at)
       \/ phase \in {"merge", "commit"}
    /\ ToRollback

\* Mutant: a file that did not exist before is not removed again.
UndoStepKeepsCreated ==
    /\ phase = "undo" /\ at > 1
    /\ at' = at - 1
    /\ disk' = IF Writes(at - 1) /\ shot[at - 1] # Absent
                THEN [disk EXCEPT ![at - 1] = shot[at - 1]] ELSE disk
    /\ UNCHANGED <<stateVars, phase, jobVars, next, seen, tries, historyVars>>

\* rollback: the last step not yet undone gets its snapshot back.
UndoStep ==
    /\ phase = "undo" /\ at > 1
    /\ at' = at - 1
    /\ IF Writes(at - 1)
       THEN /\ disk' = [disk EXCEPT ![at - 1] = shot[at - 1]]
            /\ mark' = [mark EXCEPT ![at - 1] = "undone"]
       ELSE UNCHANGED <<disk, mark>>
    /\ UNCHANGED <<stateVars, phase, jobVars, next, seen, tries, touched, raced>>

UndoFails ==
    /\ phase = "undo" /\ at > 1 /\ Writes(at - 1)
    /\ phase' = "broken"
    /\ UNCHANGED <<disk, stateVars, jobVars, at, next, seen, tries, historyVars>>

Outcome ==
    IF phase = "step" THEN "applied" ELSE IF phase = "undo" THEN "rolledback" ELSE "broken"

Ended ==
    \/ phase = "step" /\ at = N + 1
    \/ phase = "undo" /\ at = 1
    \/ phase = "broken"

\* The state an apply hands back: the version only moves when every step succeeded,
\* and health falls when the rollback failed.  The entries written on the way stay.
AfterApply ==
    [Made(st) EXCEPT !.files = next,
                     !.rev = IF Outcome = "applied" THEN rev ELSE @,
                     !.health = IF Outcome = "broken" THEN "degraded" ELSE @]

\* applyPending after Apply returned: save the state, adopt it, report.
Finish ==
    /\ Ended
    /\ Save(IF restoring THEN AfterRestore(plan) ELSE AfterApply)
    /\ ack' = Outcome
    /\ mark' = IF restoring /\ Outcome # "applied" THEN Unrestored(plan) ELSE mark
    /\ Rest
    /\ UNCHANGED <<disk, sec>>

JobStep ==
    \/ PassStep \/ WriteStep
    \/ MergeRead \/ MergeSame \/ MergeCheck \/ MergeAgain \/ MergeWrite
    \/ MergeRefuses \/ MergeGivesUp
    \/ StepFails \/ UndoStep \/ UndoFails
    \/ Finish

-----------------------------------------------------------------------------
(* The environment.                                                        *)

\* The user or Claude Code writes a managed file, or removes it.
Edit(p) ==
    /\ \E c \in UserWrites[p] \ {disk[p]} : disk' = [disk EXCEPT ![p] = c]
    /\ mark' = [mark EXCEPT ![p] = "edited"]
    /\ touched' = IF Busy THEN touched \cup {p} ELSE touched
    /\ raced' = (raced \/ (phase = "commit" /\ p = at))
    /\ UNCHANGED <<stateVars, phase, jobVars, at, next, seen, tries>>

\* orciny-agent pause and resume: another process reads state.json, and rewrites it.
PauseReads(on) ==
    /\ cli = NoState
    /\ cli' = [Made(saved) EXCEPT !.paused = on]
    /\ UNCHANGED <<disk, saved, st, sec, ack, phase, jobVars, at, next, seen, tries, historyVars>>

PauseWrites ==
    /\ cli # NoState
    /\ saved' = cli /\ cli' = NoState
    /\ UNCHANGED <<disk, st, sec, ack, phase, jobVars, at, next, seen, tries, historyVars>>

\* The agent dies, or its connection does while nothing runs: a new Syncer starts from
\* state.json, which may be lost or corrupt by then.
Crash ==
    /\ st' \in {saved, NoState}
    /\ saved' = st'
    /\ ack' = IF Busy THEN "torn" ELSE "none"
    /\ mark' = [p \in Paths |->
                  IF mark[p] # "edited" /\ (Writes(p) \/ st'.files[p] # st.files[p])
                  THEN "torn" ELSE mark[p]]
    /\ Rest
    /\ UNCHANGED <<disk, sec, cli>>

Request ==
    \/ \E r \in Revisions, s \in Secrets : Apply(r, s) \/ Survey(r, s)
    \/ \E s \in Secrets : Decline(s) \/ SecretsArrive(s)
    \/ \E ps \in SUBSET Paths : Restore(ps) \/ RestoreDeclined(ps)

Next ==
    \/ Request
    \/ JobStep
    \/ \E p \in Paths : Edit(p)
    \/ \E on \in BOOLEAN : PauseReads(on)
    \/ PauseWrites
    \/ Crash

Spec == Init /\ [][Next]_vars

\* Once begun, an apply is code that runs: nothing in it waits for anybody.
FairSpec == Spec /\ WF_vars(JobStep)

-----------------------------------------------------------------------------
TypeOK ==
    /\ disk \in [Paths -> Disk]
    /\ saved \in State /\ st \in State /\ cli \in State /\ sec \in Secrets
    /\ phase \in Phases /\ restoring \in BOOLEAN /\ rev \in Revisions \cup {NoRevision}
    /\ plan \in [Paths -> StepOf] /\ shot \in [Paths -> Disk \cup {Keep}]
    /\ at \in 1..(N + 1) /\ next \in [Paths -> FileState \cup {NoEntry}]
    /\ seen \in File \cup {Absent} /\ tries \in 0..(MergeRetries - 1)
    /\ ack \in Verdicts
    /\ touched \subseteq Paths /\ raced \in BOOLEAN /\ mark \in [Paths -> Marks]

\* watcher.Scan on one path: a keyed file is compared by its managed keys alone, and a
\* baseline without a rendered hash by what its blob would render to.
CompareHash(p, c) == IF p \in Keyed THEN [c EXCEPT !.rest = EmptyRest] ELSE c

BaseHash(p) ==
    IF st.files[p].rendered # NoHash THEN st.files[p].rendered
    ELSE IF Render[st.files[p].blob][sec] = Undefined THEN NoHash
    ELSE [own |-> Render[st.files[p].blob][sec], rest |-> EmptyRest]

Drifted(p) ==
    IF disk[p] = Absent THEN st.files[p] # NoEntry
    ELSE \/ st.files[p] = NoEntry
         \/ disk[p] = Garbled
         \/ BaseHash(p) # CompareHash(p, disk[p])

\* The agent recorded what it wrote at p, and nothing happened to p since.
Settled(p) ==
    mark[p] = "clean" /\ st.files[p] # NoEntry /\ st.files[p].rendered # NoHash

\* No false alarm: a file managed as a whole that the agent wrote last, and that no
\* rollback and no crash has touched, is not reported as drift, whatever was applied,
\* restored, surveyed or lost before.
NoFalseDrift ==
    phase = "idle" => \A p \in Paths \ Keyed : Settled(p) => ~Drifted(p)

\* A successful acknowledgement is true of every file managed as a whole that nobody
\* else wrote: it holds what the revision says, also where the plan skipped it.
AckIsTrue ==
    [][ack' = "applied" /\ ack # "applied" =>
        \A p \in Paths \ Keyed :
            mark[p] = "clean" /\ plan[p].act # "none" => disk[p] = plan[p].file]_vars

\* merge keeps the keys it does not manage, and never overwrites a file it cannot
\* parse, unless somebody wrote between its last check and the rename.
MergeKeepsForeignKeys ==
    [][MergeWrite => \/ raced
                     \/ disk[at] = Absent
                     \/ disk[at] \in File /\ disk'[at].rest = disk[at].rest]_vars

\* Degraded is final: while it lasts only other programs change the managed home.
DegradedFreezes ==
    [][Degraded /\ disk' # disk => \E p \in Paths : Edit(p)]_vars

\* Every apply comes to its end, however often the keyed file is rewritten meanwhile.
JobEnds == Busy ~> ~Busy

-----------------------------------------------------------------------------
(* The promise of AtomicApply, with the home of a running apply seen as it *)
(* was before, wherever nobody else wrote.                                 *)

HomeBefore ==
    [p \in Paths |-> IF Writes(p) /\ p \notin touched THEN shot[p] ELSE disk[p]]

WantedHome ==
    [p \in Paths |->
        IF ~Writes(p) THEN Keep
        ELSE IF plan[p].act # "merge" THEN plan[p].file
        ELSE IF shot[p] = Garbled THEN Garbled ELSE Merged(plan[p], shot[p])]

Promise == INSTANCE AtomicApply WITH
    Contents <- Disk, disk <- HomeBefore, busy <- Busy, want <- WantedHome, verdict <- ack

\* An apply or a restore takes effect entirely, or not at all, or is reported as broken.
ApplyIsAtomic == Promise!Spec

\* Why it is so, at every moment of a job: the paths nobody else wrote are split by `at'
\* into those that hold what is wanted and those that hold their snapshot (in a rollback
\* too), and a merge works on what is still on disk unless somebody else wrote there.
JobInv ==
    /\ \A p \in Paths : IF Writes(p) THEN shot[p] \in Disk ELSE shot[p] = Keep
    /\ ~Busy => plan = NoPlan /\ touched = {}
    /\ phase \in {"merge", "commit"} =>
            /\ at \in Paths /\ plan[at].act = "merge"
            /\ at \notin touched => seen = disk[at]
    /\ \A p \in Paths \ touched :
            Writes(p) => disk[p] = IF p < at THEN WantedHome[p] ELSE shot[p]

-----------------------------------------------------------------------------
(* What the comments and the documents say, and the code does not do.      *)

\* plan.go:6: once a rollback failed, no version is applied on the agent's own motion.
\* A restore whose rollback failed reports it and forgets it.
BrokenStops == [][ack = "broken" => phase' = "idle"]_vars

\* state.go:32: Rendered is the hash of what is on disk.  The entries of a rolled back
\* apply keep the new hash, and the retry skips the files that hold the old content.
RetryIsTrue ==
    [][ack' = "applied" /\ ack # "applied" =>
        \A p \in Paths \ Keyed :
            mark[p] = "undone" /\ plan[p].act # "none" => disk[p] = plan[p].file]_vars

\* scan.go:282: a keyed file drifts by its managed keys alone.  merge records the hash
\* of the whole file, and the next scan reports the file it has just written.
KeyedFileIsQuiet ==
    phase = "idle" => \A p \in Keyed : Settled(p) => ~Drifted(p)

=============================================================================
