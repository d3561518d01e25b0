---------------------------- MODULE ApplierProofs ----------------------------
(***************************************************************************)
(* Theorems about Applier, for every number of paths, every content and    *)
(* every revision: its types, the split of a half-written home, the        *)
(* promise of AtomicApply, and what the agent remembers of the files it    *)
(* wrote: an entry that nothing has happened to is true of the disk, so    *)
(* that neither a scan nor an acknowledgement is wrong about it, and a     *)
(* merge loses no foreign key.                                             *)
(***************************************************************************)
EXTENDS Applier, TLAPS

-----------------------------------------------------------------------------
(* What the operators of the plan return.                                  *)

\* A baseline as BuildPlan reads it: state.Files, or the made-up one of a restore.
Baselines == [Paths -> [blob : Blobs \cup {Unmanaged}, rendered : Hashes] \cup {NoEntry}]

\* A plan is a step for every path, whatever it was built from.
LEMMA PlanTyped ==
    ASSUME NEW wanted \in [Paths -> Blobs \cup {Unmanaged}], NEW ignored,
           NEW files \in Baselines, NEW s \in Secrets
    PROVE  BuildPlan(wanted, ignored, files, s) \in [Paths -> StepOf]
<1>1. ASSUME NEW p \in Paths
      PROVE  PlanStep(p, wanted[p], files, s) \in StepOf
  <2>1. CASE wanted[p] = Unmanaged /\ files[p] # NoEntry
    <3>1. files[p].blob \in Blobs \cup {Unmanaged}
      BY <2>1 DEF Baselines
    <3> QED
      BY <2>1, <3>1 DEF PlanStep, StepOf
  <2>2. CASE wanted[p] = Unmanaged /\ files[p] = NoEntry
    BY <2>2 DEF PlanStep, StepOf
  <2>3. CASE wanted[p] # Unmanaged /\ Render[wanted[p]][s] = Undefined
    BY <2>3 DEF PlanStep, StepOf
  <2>4. CASE wanted[p] # Unmanaged /\ Render[wanted[p]][s] # Undefined
    <3>1. [own |-> Render[wanted[p]][s], rest |-> EmptyRest] \in File
      BY <2>4, ConstantsAssumption DEF File
    <3> QED
      BY <2>4, <3>1, ConstantsAssumption DEF PlanStep, StepOf
  <2> QED
    BY <2>1, <2>2, <2>3, <2>4
<1> QED
  BY <1>1 DEF BuildPlan, StepOf

\* The state file's entries are a baseline.
LEMMA FilesAreBaseline == [Paths -> FileState \cup {NoEntry}] \subseteq Baselines
BY DEF Baselines, FileState

\* What a snapshot asks for is a plan.
LEMMA SnapshotPlanTyped ==
    ASSUME TypeOK, NEW r \in Revisions, NEW s \in Secrets
    PROVE  SnapshotPlan(r, s) \in [Paths -> StepOf]
<1>1. Target[r] \in [Paths -> Blobs \cup {Unmanaged}]
  BY ConstantsAssumption
<1>2. st.files \in Baselines
  BY FilesAreBaseline DEF TypeOK, State
<1> QED
  BY <1>1, <1>2, PlanTyped DEF SnapshotPlan

\* What a restore asks for is a plan.
LEMMA RestorePlanTyped ==
    ASSUME TypeOK, NEW ps \in SUBSET Paths
    PROVE  RestorePlan(ps) \in [Paths -> StepOf]
<1> DEFINE wanted == [p \in Paths |-> IF p \in ps /\ st.files[p] # NoEntry
                                      THEN st.files[p].blob ELSE Unmanaged]
           files == [p \in Paths |-> IF p \in ps
                                     THEN [blob |-> Unmanaged, rendered |-> OtherHash]
                                     ELSE NoEntry]
<1>1. wanted \in [Paths -> Blobs \cup {Unmanaged}]
  BY DEF TypeOK, State, FileState
<1>2. files \in Baselines
  BY DEF Baselines, Hashes
<1>3. sec \in Secrets
  BY DEF TypeOK
<1>4. BuildPlan(wanted, {}, files, sec) \in [Paths -> StepOf]
  <2> HIDE DEF wanted, files
  <2> QED
    BY <1>1, <1>2, <1>3, PlanTyped
<1> QED
  BY <1>4 DEF RestorePlan

\* A merge leaves a file: the managed keys of its step over the rest of what it read.
LEMMA MergedTyped ==
    ASSUME NEW f \in StepOf, f.act = "merge", NEW c \in File \cup {Absent}
    PROVE  Merged(f, c) \in File
<1>1. f.file \in File
  BY DEF StepOf, NoStep
<1>2. f.file.own \in Owns
  BY <1>1 DEF File
<1>3. (IF c = Absent THEN EmptyRest ELSE c.rest) \in Rests
  BY ConstantsAssumption DEF File
<1>4. Merged(f, c) = [own |-> f.file.own, rest |-> IF c = Absent THEN EmptyRest ELSE c.rest]
  BY <1>1 DEF Merged, File
<1> QED
  BY <1>2, <1>3, <1>4 DEF File

\* Entries stay entries when a step is recorded.
LEMMA RecordedTyped ==
    ASSUME TypeOK, NEW p \in Paths, Writes(p), NEW c,
           plan[p].act # "delete" => c \in Hashes
    PROVE  Recorded(p, c) \in [Paths -> FileState \cup {NoEntry}]
<1>1. CASE plan[p].act = "delete"
  BY <1>1 DEF Recorded, TypeOK
<1>2. CASE plan[p].act # "delete"
  <2>1. plan[p].blob \in Blobs
    BY <1>2 DEF TypeOK, StepOf, NoStep, Writes
  <2>2. [blob |-> plan[p].blob, rendered |-> c] \in FileState
    BY <1>2, <2>1 DEF FileState
  <2> QED
    BY <1>2, <2>2 DEF Recorded, TypeOK
<1> QED
  BY <1>1, <1>2

\* The state a restore saves is a state.
LEMMA AfterRestoreTyped ==
    ASSUME TypeOK, NEW pl \in [Paths -> StepOf]
    PROVE  AfterRestore(pl) \in State
<1> DEFINE entry(p) ==
        CASE pl[p].act = "delete" -> NoEntry
          [] pl[p].act \in {"none", "skip"} \/ st.files[p] = NoEntry -> st.files[p]
          [] OTHER -> [st.files[p] EXCEPT !.rendered = pl[p].file]
<1>1. ASSUME NEW p \in Paths PROVE entry(p) \in FileState \cup {NoEntry}
  <2>1. st.files[p] \in FileState \cup {NoEntry}
    BY DEF TypeOK, State
  <2>2. CASE pl[p].act = "delete"
    BY <2>2
  <2>3. CASE pl[p].act \in {"none", "skip"} \/ st.files[p] = NoEntry
    BY <2>1, <2>3
  <2>4. CASE pl[p].act \notin {"none", "skip", "delete"} /\ st.files[p] # NoEntry
    <3>1. pl[p].file \in Hashes
      BY <2>4 DEF StepOf, NoStep, Hashes
    <3>2. [st.files[p] EXCEPT !.rendered = pl[p].file] \in FileState
      BY <2>1, <2>4, <3>1 DEF FileState
    <3> QED
      BY <2>4, <3>2
  <2> QED
    BY <2>2, <2>3, <2>4
<1>2. [p \in Paths |-> entry(p)] \in [Paths -> FileState \cup {NoEntry}]
  BY <1>1
<1>3. AfterRestore(pl) = [st EXCEPT !.files = [p \in Paths |-> entry(p)]]
  BY DEF AfterRestore
<1> QED
  <2> HIDE DEF entry
  <2> QED
    BY <1>2, <1>3 DEF TypeOK, State

-----------------------------------------------------------------------------
(* Types.                                                                  *)

\* The state an apply hands back is a state.
LEMMA AfterApplyTyped == ASSUME TypeOK PROVE AfterApply \in State
<1>1. Made(st) \in State
  BY DEF TypeOK, State, Made, Healths
<1>2. (IF Outcome = "applied" THEN rev ELSE Made(st).rev) \in Revisions \cup {NoRevision}
  BY <1>1 DEF TypeOK, State
<1>3. (IF Outcome = "broken" THEN "degraded" ELSE Made(st).health) \in Healths
  BY <1>1 DEF State, Healths
<1> QED
  BY <1>1, <1>2, <1>3 DEF AfterApply, TypeOK, State

\* No apply and no snapshot is as well typed as any.
LEMMA RestTyped ==
    ASSUME Rest
    PROVE  /\ phase' \in Phases /\ restoring' \in BOOLEAN
           /\ rev' \in Revisions \cup {NoRevision}
           /\ plan' \in [Paths -> StepOf] /\ shot' \in [Paths -> Disk \cup {Keep}]
           /\ at' \in 1..(N + 1) /\ next' \in [Paths -> FileState \cup {NoEntry}]
           /\ seen' \in File \cup {Absent} /\ tries' \in 0..(MergeRetries - 1)
           /\ touched' \subseteq Paths /\ raced' \in BOOLEAN
<1>1. 1 \in 1..(N + 1) /\ 0 \in 0..(MergeRetries - 1)
  BY ConstantsAssumption
<1> QED
  BY <1>1 DEF Rest, Phases, NoPlan, NoShot, NoFiles, StepOf

\* Taking the snapshot keeps the types.
LEMMA BeginTyped ==
    ASSUME TypeOK, NEW r \in Revisions \cup {NoRevision}, NEW p \in [Paths -> StepOf],
           NEW isRestore \in BOOLEAN, Begin(r, p, isRestore), sec' \in Secrets
    PROVE  TypeOK'
<1>1. 1 \in 1..(N + 1)
  BY ConstantsAssumption
<1>2. shot' \in [Paths -> Disk \cup {Keep}]
  BY DEF Begin, TypeOK
<1>3. next' \in [Paths -> FileState \cup {NoEntry}]
  BY DEF Begin, TypeOK, State
<1> QED
  BY <1>1, <1>2, <1>3 DEF Begin, TypeOK, Phases, Verdicts

\* So does a step that succeeded.
LEMMA AdvanceTyped ==
    ASSUME TypeOK, at \in Paths, Writes(at), NEW c, Advance(at, c),
           plan[at].act # "delete" => c \in Hashes,
           disk' \in [Paths -> Disk]
    PROVE  TypeOK'
<1>1. at + 1 \in 1..(N + 1) /\ 0 \in 0..(MergeRetries - 1)
  BY ConstantsAssumption DEF Paths
<1>2. next' \in [Paths -> FileState \cup {NoEntry}]
  BY RecordedTyped DEF Advance
<1>3. mark' \in [Paths -> Marks]
  BY DEF Advance, TypeOK, Marks
<1> QED
  BY <1>1, <1>2, <1>3 DEF Advance, TypeOK, Phases, stateVars, jobVars

\* And a step that failed.
LEMMA ToRollbackTyped == ASSUME TypeOK, ToRollback PROVE TypeOK'
<1>1. 0 \in 0..(MergeRetries - 1)
  BY ConstantsAssumption
<1> QED
  BY <1>1 DEF ToRollback, TypeOK, Phases, stateVars, jobVars

LEMMA InitTyped == Init => TypeOK
<1> SUFFICES ASSUME Init PROVE TypeOK
  OBVIOUS
<1>1. 1 \in 1..(N + 1) /\ 0 \in 0..(MergeRetries - 1)
  BY ConstantsAssumption
<1>2. NoState \in State
  BY DEF NoState, State, NoFiles, Healths
<1> QED
  BY <1>1, <1>2 DEF Init, TypeOK, Phases, NoPlan, NoShot, NoFiles, StepOf, Verdicts, Marks

\* Every step keeps the types.
LEMMA TypesKept == TypeOK /\ JobInv /\ [Next]_vars => TypeOK'
<1> SUFFICES ASSUME TypeOK, JobInv, [Next]_vars PROVE TypeOK'
  OBVIOUS
<1> USE DEF stateVars, jobVars, historyVars
<1>1. ASSUME NEW r \in Revisions, NEW s \in Secrets, Apply(r, s) PROVE TypeOK'
  BY <1>1, BeginTyped, SnapshotPlanTyped DEF Apply
<1>2. ASSUME NEW r \in Revisions, NEW s \in Secrets, Survey(r, s) PROVE TypeOK'
  <2>1. Target[r] \in [Paths -> Blobs \cup {Unmanaged}]
    BY ConstantsAssumption
  <2>2. [p \in Paths |-> IF Target[r][p] = Unmanaged THEN NoEntry
                         ELSE [blob |-> Target[r][p], rendered |-> NoHash]]
            \in [Paths -> FileState \cup {NoEntry}]
    BY <2>1 DEF FileState, Hashes
  <2>3. st' \in State
    BY <1>2, <2>2 DEF Survey, Save, State, Healths
  <2> QED
    BY <1>2, <2>3 DEF Survey, Save, TypeOK, Verdicts
<1>3. ASSUME NEW s \in Secrets, Decline(s) PROVE TypeOK'
  <2>1. Made(st) \in State
    BY DEF Made, TypeOK, State, Healths
  <2> QED
    BY <1>3, <2>1 DEF Decline, Save, TypeOK, Verdicts
<1>22. ASSUME NEW s \in Secrets, SecretsArrive(s) PROVE TypeOK'
  BY <1>22 DEF SecretsArrive, TypeOK, Verdicts
<1>4. ASSUME NEW ps \in SUBSET Paths, Restore(ps) PROVE TypeOK'
  <2>1. st.rev \in Revisions \cup {NoRevision} /\ sec' \in Secrets
    BY <1>4 DEF Restore, TypeOK, State
  <2> QED
    BY <1>4, <2>1, BeginTyped, RestorePlanTyped DEF Restore
<1>5. ASSUME NEW ps \in SUBSET Paths, RestoreDeclined(ps) PROVE TypeOK'
  <2>1. AfterRestore(RestorePlan(ps)) \in State
    BY AfterRestoreTyped, RestorePlanTyped
  <2>2. mark' \in [Paths -> Marks]
    BY <1>5 DEF RestoreDeclined, Unrestored, TypeOK, Marks
  <2> QED
    BY <1>5, <2>1, <2>2 DEF RestoreDeclined, Save, TypeOK, Verdicts
<1>6. CASE PassStep
  <2>1. at + 1 \in 1..(N + 1)
    BY <1>6, ConstantsAssumption DEF PassStep, Paths
  <2> QED
    BY <1>6, <2>1 DEF PassStep, TypeOK
<1>7. CASE WriteStep
  <2>1. /\ Writes(at)
        /\ plan[at].file \in File \cup {Absent}
        /\ plan[at].act # "delete" => plan[at].file \in Hashes
    BY <1>7 DEF WriteStep, Writes, TypeOK, StepOf, NoStep, Hashes
  <2>2. disk' \in [Paths -> Disk]
    BY <1>7, <2>1 DEF WriteStep, TypeOK, Disk
  <2> QED
    BY <1>7, <2>1, <2>2, AdvanceTyped DEF WriteStep
<1>8. CASE MergeRead
  BY <1>8 DEF MergeRead, TypeOK, Disk, Phases
<1>9. CASE MergeSame
  <2>1. at \in Paths /\ Writes(at)
    BY <1>9 DEF MergeSame, JobInv, Writes
  <2>2. HashOf(disk[at]) \in Hashes /\ plan[at].act = "merge"
    BY <1>9, <2>1 DEF MergeSame, JobInv, TypeOK, Disk, HashOf, Hashes
  <2> QED
    BY <1>9, <2>1, <2>2, AdvanceTyped DEF MergeSame, TypeOK
<1>10. CASE MergeCheck
  BY <1>10 DEF MergeCheck, TypeOK, Phases
<1>11. CASE MergeAgain
  <2>1. tries' \in 0..(MergeRetries - 1)
    BY <1>11, ConstantsAssumption DEF MergeAgain, TypeOK
  <2> QED
    BY <1>11, <2>1 DEF MergeAgain, TypeOK, Phases
<1>12. CASE MergeWrite
  <2>1. at \in Paths /\ plan[at].act = "merge" /\ Writes(at)
    BY <1>12 DEF MergeWrite, JobInv, Writes
  <2>2. Merged(plan[at], seen) \in File /\ Merged(plan[at], seen) \in Hashes
    BY <2>1, MergedTyped DEF TypeOK, Hashes
  <2>3. disk' \in [Paths -> Disk]
    BY <1>12, <2>2 DEF MergeWrite, TypeOK, Disk
  <2> QED
    BY <1>12, <2>1, <2>2, <2>3, AdvanceTyped DEF MergeWrite
<1>13. CASE MergeRefuses \/ MergeGivesUp \/ StepFails
  BY <1>13, ToRollbackTyped DEF MergeRefuses, MergeGivesUp, StepFails
<1>14. CASE UndoStep
  <2>1. at - 1 \in Paths /\ at - 1 \in 1..(N + 1)
    BY <1>14, ConstantsAssumption DEF UndoStep, TypeOK, Paths
  <2>2. disk' \in [Paths -> Disk] /\ mark' \in [Paths -> Marks]
    BY <1>14, <2>1 DEF UndoStep, TypeOK, JobInv, Marks
  <2> QED
    BY <1>14, <2>1, <2>2 DEF UndoStep, TypeOK
<1>15. CASE UndoFails
  BY <1>15 DEF UndoFails, TypeOK, Phases
<1>16. CASE Finish
  <2>1. st' \in State /\ saved' \in State
    BY <1>16, AfterApplyTyped, AfterRestoreTyped DEF Finish, Save, TypeOK
  <2>2. mark' \in [Paths -> Marks]
    BY <1>16 DEF Finish, Unrestored, TypeOK, Marks
  <2>3. ack' \in Verdicts
    BY <1>16 DEF Finish, Outcome, Verdicts
  <2> QED
    BY <1>16, <2>1, <2>2, <2>3, RestTyped DEF Finish, Save, TypeOK
<1>17. ASSUME NEW p \in Paths, Edit(p) PROVE TypeOK'
  <2>1. UserWrites[p] \subseteq Disk
    BY ConstantsAssumption
  <2>2. disk' \in [Paths -> Disk]
    BY <1>17, <2>1 DEF Edit, TypeOK
  <2>3. mark' \in [Paths -> Marks] /\ touched' \subseteq Paths /\ raced' \in BOOLEAN
    BY <1>17 DEF Edit, TypeOK, Marks
  <2> QED
    BY <1>17, <2>2, <2>3 DEF Edit, TypeOK
<1>18. ASSUME NEW on \in BOOLEAN, PauseReads(on) PROVE TypeOK'
  <2>1. [Made(saved) EXCEPT !.paused = on] \in State
    BY DEF Made, TypeOK, State, Healths
  <2> QED
    BY <1>18, <2>1 DEF PauseReads, TypeOK
<1>19. CASE PauseWrites
  <2>1. NoState \in State
    BY DEF NoState, State, NoFiles, Healths
  <2> QED
    BY <1>19, <2>1 DEF PauseWrites, TypeOK
<1>20. CASE Crash
  <2>1. NoState \in State
    BY DEF NoState, State, NoFiles, Healths
  <2>2. mark' \in [Paths -> Marks]
    BY <1>20 DEF Crash, TypeOK, Marks
  <2>3. ack' \in Verdicts
    BY <1>20 DEF Crash, Verdicts
  <2> QED
    BY <1>20, <2>1, <2>2, <2>3, RestTyped DEF Crash, TypeOK
<1>21. CASE UNCHANGED vars
  BY <1>21 DEF vars, TypeOK
<1> QED
  BY <1>1, <1>2, <1>3, <1>4, <1>5, <1>6, <1>7, <1>8, <1>9, <1>10, <1>11, <1>12, <1>13,
     <1>14, <1>15, <1>16, <1>17, <1>18, <1>19, <1>20, <1>21, <1>22 DEF Next, Request, JobStep

-----------------------------------------------------------------------------
(* The invariant of a running apply.                                       *)

\* A step that leaves the home, the plan, the snapshot, the place and the history of
\* other writers alone keeps the invariant, if its phase asks for no more than before.
LEMMA HomeUntouched ==
    ASSUME JobInv, UNCHANGED <<disk, plan, shot, at, touched>>,
           phase' # "idle" \/ phase = "idle",
           phase' \in {"merge", "commit"} => phase = phase' /\ seen' = seen
    PROVE  JobInv'
BY DEF JobInv, Busy, Writes, WantedHome

\* The snapshot splits nothing yet: every path holds what it held.
LEMMA BeginSplits ==
    ASSUME TypeOK, NEW r, NEW p \in [Paths -> StepOf], NEW isRestore, Begin(r, p, isRestore)
    PROVE  JobInv'
<1>1. at' = 1 /\ \A q \in Paths : ~(q < 1)
  BY DEF Begin, Paths
<1>2. \A q \in Paths : shot'[q] = IF p[q].act \in {"none", "skip"} THEN Keep ELSE disk[q]
  BY DEF Begin
<1>3. \A q \in Paths : disk'[q] = disk[q] /\ disk[q] \in Disk
  BY DEF Begin, TypeOK
<1>4. plan' = p /\ phase' = "step" /\ at' = 1
  BY DEF Begin
<1> QED
  BY <1>1, <1>2, <1>3, <1>4 DEF JobInv, Writes, Busy

\* Once at rest there is no plan.
LEMMA RestSplits == ASSUME Rest PROVE JobInv'
BY DEF Rest, JobInv, Busy, Writes, NoPlan, NoShot, NoStep

\* A step that succeeded moves its path over to the wanted ones, if it left what is
\* wanted there, or if somebody else wrote there.
LEMMA AdvanceSplits ==
    ASSUME TypeOK, JobInv, Busy, at \in Paths, NEW c, Advance(at, c),
           \A p \in Paths \ {at} : disk'[p] = disk[p],
           at \notin touched => disk'[at] = WantedHome[at]
    PROVE  JobInv'
<1>1. at' = at + 1 /\ at \in Nat /\ \A p \in Paths : p \in Nat
  BY ConstantsAssumption DEF Advance, Paths
<1>2. \A p \in Paths : (p < at') <=> (p < at \/ p = at)
  BY <1>1
<1>3. UNCHANGED <<plan, shot, touched>> /\ phase' = "step"
  BY DEF Advance, jobVars
<1>4. ASSUME NEW p \in Paths \ touched', Writes(p)'
      PROVE  disk'[p] = IF p < at' THEN WantedHome'[p] ELSE shot'[p]
  <2>1. WantedHome'[p] = WantedHome[p] /\ Writes(p)
    BY <1>3, <1>4 DEF WantedHome, Writes
  <2>2. disk[p] = IF p < at THEN WantedHome[p] ELSE shot[p]
    BY <1>3, <1>4, <2>1 DEF JobInv
  <2>3. CASE p = at
    BY <1>2, <1>3, <1>4, <2>1, <2>3
  <2>4. CASE p # at
    BY <1>2, <1>3, <1>4, <2>1, <2>2, <2>4
  <2> QED
    BY <2>3, <2>4
<1>5. \A p \in Paths : IF Writes(p)' THEN shot'[p] \in Disk ELSE shot'[p] = Keep
  BY <1>3 DEF JobInv, Writes
<1> QED
  BY <1>3, <1>4, <1>5 DEF JobInv, Busy

\* Every step keeps the split.
LEMMA SplitKept == TypeOK /\ JobInv /\ [Next]_vars => JobInv'
<1> SUFFICES ASSUME TypeOK, JobInv, [Next]_vars PROVE JobInv'
  OBVIOUS
<1> USE DEF stateVars, jobVars, historyVars
<1>1. ASSUME NEW r \in Revisions, NEW s \in Secrets, Apply(r, s) PROVE JobInv'
  BY <1>1, BeginSplits, SnapshotPlanTyped DEF Apply
<1>2. ASSUME NEW r \in Revisions, NEW s \in Secrets, Survey(r, s) PROVE JobInv'
  BY <1>2, HomeUntouched DEF Survey
<1>3. ASSUME NEW s \in Secrets, Decline(s) PROVE JobInv'
  BY <1>3, HomeUntouched DEF Decline
<1>22. ASSUME NEW s \in Secrets, SecretsArrive(s) PROVE JobInv'
  BY <1>22, HomeUntouched DEF SecretsArrive
<1>4. ASSUME NEW ps \in SUBSET Paths, Restore(ps) PROVE JobInv'
  BY <1>4, BeginSplits, RestorePlanTyped DEF Restore
<1>5. ASSUME NEW ps \in SUBSET Paths, RestoreDeclined(ps) PROVE JobInv'
  BY <1>5, HomeUntouched DEF RestoreDeclined
<1>6. CASE PassStep
  <2>1. at' = at + 1 /\ at \in Nat /\ \A p \in Paths : p \in Nat
    BY <1>6, ConstantsAssumption DEF PassStep, Paths
  <2>2. \A p \in Paths : Writes(p) => ((p < at') <=> (p < at))
    BY <1>6, <2>1 DEF PassStep
  <2>3. UNCHANGED <<disk, phase, plan, shot, touched>> /\ phase = "step"
    BY <1>6 DEF PassStep
  <2>4. ASSUME NEW p \in Paths \ touched', Writes(p)'
        PROVE  disk'[p] = IF p < at' THEN WantedHome'[p] ELSE shot'[p]
    <3>1. WantedHome'[p] = WantedHome[p] /\ Writes(p)
      BY <2>3, <2>4 DEF WantedHome, Writes
    <3> QED
      BY <2>2, <2>3, <2>4, <3>1 DEF JobInv
  <2>5. \A p \in Paths : IF Writes(p)' THEN shot'[p] \in Disk ELSE shot'[p] = Keep
    BY <2>3 DEF JobInv, Writes
  <2> QED
    BY <2>3, <2>4, <2>5 DEF JobInv, Busy
<1>7. CASE WriteStep
  <2>1. at \in Paths /\ Writes(at) /\ plan[at].act # "merge" /\ Busy
    BY <1>7 DEF WriteStep, Writes, Busy
  <2>2. WantedHome[at] = plan[at].file
    BY <2>1 DEF WantedHome
  <2>3. disk'[at] = plan[at].file /\ \A p \in Paths \ {at} : disk'[p] = disk[p]
    BY <1>7, <2>1 DEF WriteStep, TypeOK
  <2> QED
    BY <1>7, <2>1, <2>2, <2>3, AdvanceSplits DEF WriteStep
<1>8. CASE MergeRead
  BY <1>8 DEF MergeRead, JobInv, Busy, Writes, WantedHome
<1>9. CASE MergeSame
  <2>1. at \in Paths /\ plan[at].act = "merge" /\ Writes(at) /\ Busy
    BY <1>9 DEF MergeSame, JobInv, Writes, Busy
  <2>2. \A p : disk'[p] = disk[p]
    BY <1>9 DEF MergeSame
  <2>3. at \notin touched => disk[at] = shot[at] /\ seen = disk[at]
    BY <1>9, <2>1, ConstantsAssumption DEF MergeSame, JobInv, Paths
  <2>4. at \notin touched => disk'[at] = WantedHome[at]
    BY <1>9, <2>1, <2>2, <2>3 DEF MergeSame, WantedHome
  <2> QED
    BY <1>9, <2>1, <2>2, <2>4, AdvanceSplits DEF MergeSame
<1>10. CASE MergeCheck
  BY <1>10 DEF MergeCheck, JobInv, Busy, Writes, WantedHome
<1>11. CASE MergeAgain
  BY <1>11, HomeUntouched DEF MergeAgain
<1>12. CASE MergeWrite
  <2>1. at \in Paths /\ plan[at].act = "merge" /\ Writes(at) /\ Busy
    BY <1>12 DEF MergeWrite, JobInv, Writes, Busy
  <2>2. /\ disk'[at] = Merged(plan[at], seen)
        /\ \A p \in Paths \ {at} : disk'[p] = disk[p]
    BY <1>12, <2>1 DEF MergeWrite, TypeOK
  <2>3. at \notin touched => seen = shot[at]
    BY <1>12, <2>1, ConstantsAssumption DEF MergeWrite, JobInv, Paths
  <2>4. seen # Garbled
    BY ConstantsAssumption DEF TypeOK
  <2>5. at \notin touched => disk'[at] = WantedHome[at]
    BY <2>1, <2>2, <2>3, <2>4 DEF WantedHome
  <2> QED
    BY <1>12, <2>1, <2>2, <2>5, AdvanceSplits DEF MergeWrite
<1>13. CASE MergeRefuses \/ MergeGivesUp \/ StepFails
  <2>1. ToRollback
    BY <1>13 DEF MergeRefuses, MergeGivesUp, StepFails
  <2> QED
    BY <2>1, HomeUntouched DEF ToRollback
<1>14. CASE UndoStep
  <2>1. at - 1 \in Paths /\ at' = at - 1 /\ at \in Nat /\ \A p \in Paths : p \in Nat
    BY <1>14, ConstantsAssumption DEF UndoStep, TypeOK, Paths
  <2>2. \A p \in Paths : (p < at') <=> (p < at /\ p # at - 1)
    BY <2>1
  <2>3. UNCHANGED <<phase, plan, shot, touched>> /\ phase = "undo"
    BY <1>14 DEF UndoStep
  <2>4. /\ \A p \in Paths \ {at - 1} : disk'[p] = disk[p]
        /\ Writes(at - 1) => disk'[at - 1] = shot[at - 1]
    BY <1>14, <2>1 DEF UndoStep, TypeOK
  <2>5. ASSUME NEW p \in Paths \ touched', Writes(p)'
        PROVE  disk'[p] = IF p < at' THEN WantedHome'[p] ELSE shot'[p]
    <3>1. WantedHome'[p] = WantedHome[p] /\ Writes(p)
      BY <2>3, <2>5 DEF WantedHome, Writes
    <3>2. disk[p] = IF p < at THEN WantedHome[p] ELSE shot[p]
      BY <2>3, <2>5, <3>1 DEF JobInv
    <3>3. CASE p = at - 1
      BY <2>2, <2>3, <2>4, <3>1, <3>3
    <3>4. CASE p # at - 1
      BY <2>2, <2>3, <2>4, <2>5, <3>1, <3>2, <3>4
    <3> QED
      BY <3>3, <3>4
  <2>6. \A p \in Paths : IF Writes(p)' THEN shot'[p] \in Disk ELSE shot'[p] = Keep
    BY <2>3 DEF JobInv, Writes
  <2> QED
    BY <2>3, <2>5, <2>6 DEF JobInv, Busy
<1>15. CASE UndoFails
  BY <1>15, HomeUntouched DEF UndoFails
<1>16. CASE Finish
  BY <1>16, RestSplits DEF Finish
<1>17. ASSUME NEW p \in Paths, Edit(p) PROVE JobInv'
  <2>1. /\ \A q \in Paths \ {p} : disk'[q] = disk[q]
        /\ UNCHANGED <<phase, plan, shot, at, seen>>
        /\ touched' = IF Busy THEN touched \cup {p} ELSE touched
    BY <1>17 DEF Edit, TypeOK
  <2>2. CASE Busy
    BY <2>1, <2>2 DEF JobInv, Busy, Writes, WantedHome
  <2>3. CASE ~Busy
    <3>1. plan' = NoPlan /\ \A q \in Paths : ~Writes(q)'
      BY <2>1, <2>3 DEF JobInv, NoPlan, NoStep, Writes
    <3> QED
      BY <2>1, <2>3, <3>1 DEF JobInv, Busy, Writes
  <2> QED
    BY <2>2, <2>3
<1>18. ASSUME NEW on \in BOOLEAN, PauseReads(on) PROVE JobInv'
  BY <1>18, HomeUntouched DEF PauseReads
<1>19. CASE PauseWrites
  BY <1>19, HomeUntouched DEF PauseWrites
<1>20. CASE Crash
  BY <1>20, RestSplits DEF Crash
<1>21. CASE UNCHANGED vars
  BY <1>21, HomeUntouched DEF vars
<1> QED
  BY <1>1, <1>2, <1>3, <1>4, <1>5, <1>6, <1>7, <1>8, <1>9, <1>10, <1>11, <1>12, <1>13,
     <1>14, <1>15, <1>16, <1>17, <1>18, <1>19, <1>20, <1>21, <1>22 DEF Next, Request, JobStep

LEMMA InitSplits == Init => JobInv
BY DEF Init, JobInv, Busy, Writes, NoPlan, NoShot, NoStep

\* Every variable keeps its type, and at every moment of every apply and restore the
\* home is split into what is wanted and what the snapshot holds: neither statement is
\* inductive without the other.
THEOREM TypesAndSplit == Spec => [](TypeOK /\ JobInv)
<1>1. Init => TypeOK /\ JobInv
  BY InitTyped, InitSplits
<1>2. TypeOK /\ JobInv /\ [Next]_vars => (TypeOK /\ JobInv)'
  BY TypesKept, SplitKept
<1> QED
  BY <1>1, <1>2, PTL DEF Spec

\* The types alone.
THEOREM TypeCorrect == Spec => []TypeOK
BY TypesAndSplit, PTL

-----------------------------------------------------------------------------
(* The promise of AtomicApply.                                             *)

\* The home seen by the promise is a home, and what a write wants is a content.
LEMMA HomeTyped ==
    ASSUME TypeOK, JobInv
    PROVE  /\ HomeBefore \in [Paths -> Disk]
           /\ WantedHome \in [Paths -> Disk \cup {Keep}]
           /\ \A p \in Paths : IF Writes(p) THEN WantedHome[p] \in Disk ELSE WantedHome[p] = Keep
<1>1. HomeBefore \in [Paths -> Disk]
  BY DEF HomeBefore, TypeOK, JobInv
<1>2. ASSUME NEW p \in Paths, Writes(p) PROVE WantedHome[p] \in Disk
  <2>1. CASE plan[p].act # "merge"
    <3>1. plan[p].file \in File \cup {Absent} /\ WantedHome[p] = plan[p].file
      BY <1>2, <2>1 DEF TypeOK, StepOf, NoStep, WantedHome
    <3> QED
      BY <3>1 DEF Disk
  <2>2. CASE plan[p].act = "merge" /\ shot[p] = Garbled
    BY <1>2, <2>2 DEF WantedHome, Disk
  <2>3. CASE plan[p].act = "merge" /\ shot[p] # Garbled
    <3>1. shot[p] \in File \cup {Absent} /\ plan[p] \in StepOf
      BY <1>2, <2>3 DEF JobInv, Disk, TypeOK
    <3>2. Merged(plan[p], shot[p]) \in File
      BY <2>3, <3>1, MergedTyped
    <3> QED
      BY <1>2, <2>3, <3>2 DEF WantedHome, Disk
  <2> QED
    BY <2>1, <2>2, <2>3
<1>3. ASSUME NEW p \in Paths, ~Writes(p) PROVE WantedHome[p] = Keep
  BY <1>3 DEF WantedHome
<1>4. WantedHome \in [Paths -> Disk \cup {Keep}]
  <2>1. \A p \in Paths : WantedHome[p] \in Disk \cup {Keep}
    BY <1>2, <1>3
  <2> QED
    BY <2>1 DEF WantedHome
<1> QED
  BY <1>1, <1>2, <1>3, <1>4

\* With nothing running, the home is what is on disk, and nothing is wanted.
LEMMA HomeAtRest ==
    ASSUME disk \in [Paths -> Disk], plan = NoPlan
    PROVE  HomeBefore = disk /\ WantedHome = [p \in Paths |-> Keep]
BY DEF HomeBefore, WantedHome, Writes, NoPlan, NoStep

LEMMA InitPromises == Init => Promise!Init
<1> SUFFICES ASSUME Init PROVE Promise!Init
  OBVIOUS
<1>1. HomeBefore = disk /\ WantedHome = [p \in Paths |-> Keep]
  BY HomeAtRest DEF Init
<1> QED
  BY <1>1 DEF Init, Promise!Init, Busy

\* Nothing the promise speaks of has changed.
LEMMA SeenStutters ==
    ASSUME UNCHANGED <<disk, plan, shot, touched, ack>>, Busy' = Busy
    PROVE  UNCHANGED Promise!vars
BY DEF Promise!vars, HomeBefore, WantedHome, Writes

\* The running apply writes or restores a path: the promise sees nothing, unless somebody
\* else wrote there before.
LEMMA OwnWriteKept ==
    ASSUME TypeOK, TypeOK', UNCHANGED <<plan, shot, touched, ack>>, Busy, Busy',
           NEW q \in Paths, Writes(q), \A p \in Paths \ {q} : disk'[p] = disk[p]
    PROVE  Promise!Next \/ UNCHANGED Promise!vars
<1>1. WantedHome' = WantedHome /\ \A p \in Paths : Writes(p)' <=> Writes(p)
  BY DEF WantedHome, Writes
<1>2. CASE q \in touched
  <2>1. HomeBefore' = [HomeBefore EXCEPT ![q] = disk'[q]]
    BY <1>1, <1>2 DEF HomeBefore
  <2>2. disk'[q] \in Disk
    BY DEF TypeOK
  <2>3. touched' = touched \cup {q}
    BY <1>2
  <2>4. Promise!Write(q)
    BY <1>1, <2>1, <2>2, <2>3 DEF Promise!Write
  <2> QED
    BY <2>4 DEF Promise!Next
<1>3. CASE q \notin touched
  <2>1. HomeBefore' = HomeBefore
    BY <1>1, <1>3 DEF HomeBefore
  <2> QED
    BY <1>1, <2>1 DEF Promise!vars
<1> QED
  BY <1>2, <1>3

\* An apply that begins leaves the home it sees as it was.
LEMMA BeginPromises ==
    ASSUME TypeOK, JobInv, TypeOK', JobInv', ~Busy,
           NEW r, NEW p, NEW isRestore, Begin(r, p, isRestore)
    PROVE  Promise!Next
<1>1. HomeBefore = disk
  BY HomeAtRest DEF TypeOK, JobInv
<1>2. HomeBefore' = disk
  <2>1. \A q \in Paths : Writes(q)' => shot'[q] = disk[q]
    BY DEF Begin, Writes
  <2> QED
    BY <2>1 DEF HomeBefore, Begin, TypeOK
<1>3. WantedHome' \in [Paths -> Disk \cup {Keep}]
  <2>1. (TypeOK /\ JobInv => WantedHome \in [Paths -> Disk \cup {Keep}])'
    BY HomeTyped, PTL
  <2> QED
    BY <2>1
<1>4. Busy' /\ touched' = {} /\ ack' = "none"
  BY DEF Begin, Busy
<1> QED
  BY <1>1, <1>2, <1>3, <1>4 DEF Promise!Next, Promise!Begin

\* An apply that ends, in success or by a rollback, by a failed rollback or a crash, ends
\* in the outcome of its phase.
LEMMA EndPromises ==
    ASSUME TypeOK, JobInv, Busy, Rest, UNCHANGED disk,
           \/ ack' = "torn"
           \/ Ended /\ ack' = Outcome
    PROVE  Promise!Next
<1>1. HomeBefore' = disk /\ WantedHome' = [p \in Paths |-> Keep] /\ ~Busy' /\ touched' = {}
  <2>1. (disk \in [Paths -> Disk] /\ plan = NoPlan =>
            HomeBefore = disk /\ WantedHome = [p \in Paths |-> Keep])'
    BY HomeAtRest, PTL
  <2> QED
    BY <2>1 DEF Rest, TypeOK, Busy
<1>2. disk \in [Paths -> Disk]
  BY DEF TypeOK
<1>3. ASSUME NEW p \in Paths \ touched
      PROVE  /\ Writes(p) => HomeBefore[p] = shot[p] /\ Promise!Result(p) = WantedHome[p]
             /\ ~Writes(p) => HomeBefore[p] = disk[p] /\ Promise!Result(p) = disk[p]
             /\ Writes(p) => disk[p] = IF p < at THEN WantedHome[p] ELSE shot[p]
  <2>1. IF Writes(p) THEN WantedHome[p] \in Disk ELSE WantedHome[p] = Keep
    BY HomeTyped
  <2> QED
    BY <2>1, ConstantsAssumption DEF HomeBefore, Promise!Result, JobInv
<1>4. ASSUME NEW v \in {"broken", "torn"}, ack' = v PROVE Promise!Next
  <2>1. \A p \in Paths \ touched : disk[p] \in {HomeBefore[p], Promise!Result(p)}
    BY <1>3
  <2>2. Promise!Fall(v)
    BY <1>1, <1>2, <1>4, <2>1 DEF Promise!Fall, Promise!End
  <2> QED
    BY <2>2 DEF Promise!Next
<1>5. CASE Ended /\ phase = "step" /\ ack' = Outcome
  <2>1. \A p \in Paths : p < at
    BY <1>5, ConstantsAssumption DEF Ended, Paths
  <2>2. \A p \in Paths \ touched : disk[p] = Promise!Result(p)
    BY <1>3, <2>1
  <2>3. Promise!Succeed
    BY <1>1, <1>2, <1>5, <2>2 DEF Promise!Succeed, Promise!End, Outcome
  <2> QED
    BY <2>3 DEF Promise!Next
<1>6. CASE Ended /\ phase = "undo" /\ ack' = Outcome
  <2>1. \A p \in Paths : ~(p < at)
    BY <1>6, ConstantsAssumption DEF Ended, Paths
  <2>2. \A p \in Paths \ touched : disk[p] = HomeBefore[p]
    BY <1>3, <2>1
  <2>3. Promise!Undo
    BY <1>1, <1>2, <1>6, <2>2 DEF Promise!Undo, Promise!End, Outcome
  <2> QED
    BY <2>3 DEF Promise!Next
<1>7. CASE Ended /\ phase = "broken" /\ ack' = Outcome
  BY <1>4, <1>7 DEF Outcome
<1> QED
  BY <1>4, <1>5, <1>6, <1>7 DEF Ended

\* Every step of the Applier is a step of the promise, or one it does not see.
LEMMA StepPromises ==
    TypeOK /\ JobInv /\ TypeOK' /\ JobInv' /\ [Next]_vars => [Promise!Next]_(Promise!vars)
<1> SUFFICES ASSUME TypeOK, JobInv, TypeOK', JobInv', [Next]_vars
             PROVE  Promise!Next \/ UNCHANGED Promise!vars
  OBVIOUS
<1> USE DEF stateVars, jobVars, historyVars
<1>1. ASSUME NEW r \in Revisions, NEW s \in Secrets, Apply(r, s) PROVE Promise!Next
  BY <1>1, BeginPromises DEF Apply, Busy
<1>2. ASSUME NEW r \in Revisions, NEW s \in Secrets, Survey(r, s) PROVE Promise!Next
  <2>1. UNCHANGED <<HomeBefore, Busy, WantedHome, touched>> /\ ~Busy /\ ack' = "none"
    BY <1>2 DEF Survey, HomeBefore, WantedHome, Busy, Writes
  <2> QED
    BY <2>1 DEF Promise!Next, Promise!Forget
<1>3. ASSUME NEW s \in Secrets, Decline(s) PROVE Promise!Next
  <2>1. UNCHANGED <<HomeBefore, Busy, WantedHome, touched>> /\ ~Busy /\ ack' = "refused"
    BY <1>3 DEF Decline, HomeBefore, WantedHome, Busy, Writes
  <2> QED
    BY <2>1 DEF Promise!Next, Promise!Refuse
<1>16. ASSUME NEW s \in Secrets, SecretsArrive(s)
       PROVE  Promise!Next \/ UNCHANGED Promise!vars
  <2>1. UNCHANGED <<HomeBefore, Busy, WantedHome, touched>> /\ ~Busy
    BY <1>16 DEF SecretsArrive, HomeBefore, WantedHome, Busy, Writes
  <2> QED
    BY <1>16, <2>1 DEF SecretsArrive, Promise!vars, Promise!Next, Promise!Refuse
<1>4. ASSUME NEW ps \in SUBSET Paths, Restore(ps) PROVE Promise!Next
  BY <1>4, BeginPromises DEF Restore, Busy
<1>5. ASSUME NEW ps \in SUBSET Paths, RestoreDeclined(ps) PROVE Promise!Next
  <2>1. UNCHANGED <<HomeBefore, Busy, WantedHome, touched>> /\ ~Busy /\ ack' = "refused"
    BY <1>5 DEF RestoreDeclined, HomeBefore, WantedHome, Busy, Writes
  <2> QED
    BY <2>1 DEF Promise!Next, Promise!Refuse
<1>6. CASE PassStep \/ MergeRead \/ MergeCheck \/ MergeAgain \/ UndoFails
  <2>1. UNCHANGED <<disk, plan, shot, touched, ack>> /\ Busy' = Busy
    BY <1>6 DEF PassStep, MergeRead, MergeCheck, MergeAgain, UndoFails, Busy
  <2> QED
    BY <2>1, SeenStutters
<1>7. CASE MergeRefuses \/ MergeGivesUp \/ StepFails
  <2>1. UNCHANGED <<disk, plan, shot, touched, ack>> /\ Busy' = Busy
    BY <1>7 DEF MergeRefuses, MergeGivesUp, StepFails, ToRollback, Busy
  <2> QED
    BY <2>1, SeenStutters
<1>8. CASE WriteStep \/ MergeSame \/ MergeWrite
  <2>1. at \in Paths /\ Writes(at) /\ Busy /\ \A p \in Paths \ {at} : disk'[p] = disk[p]
    BY <1>8 DEF WriteStep, MergeSame, MergeWrite, JobInv, Writes, Busy, TypeOK
  <2>2. UNCHANGED <<plan, shot, touched, ack>> /\ Busy'
    BY <1>8 DEF WriteStep, MergeSame, MergeWrite, Advance, Busy
  <2> QED
    BY <2>1, <2>2, OwnWriteKept
<1>9. CASE UndoStep
  <2>1. UNCHANGED <<plan, shot, touched, ack>> /\ Busy /\ Busy' /\ at - 1 \in Paths
    BY <1>9, ConstantsAssumption DEF UndoStep, Busy, TypeOK, Paths
  <2>2. CASE Writes(at - 1)
    <3>1. \A p \in Paths \ {at - 1} : disk'[p] = disk[p]
      BY <1>9, <2>2 DEF UndoStep, TypeOK
    <3> QED
      BY <2>1, <2>2, <3>1, OwnWriteKept
  <2>3. CASE ~Writes(at - 1)
    BY <1>9, <2>1, <2>3, SeenStutters DEF UndoStep, Busy
  <2> QED
    BY <2>2, <2>3
<1>10. CASE Finish
  BY <1>10, EndPromises DEF Finish, Ended, Busy
<1>11. ASSUME NEW p \in Paths, Edit(p) PROVE Promise!Next
  <2>1. PICK c \in UserWrites[p] \ {disk[p]} : disk' = [disk EXCEPT ![p] = c]
    BY <1>11 DEF Edit
  <2>2. c \in Disk
    BY ConstantsAssumption
  <2>3. /\ UNCHANGED <<plan, shot, ack>> /\ Busy' = Busy
        /\ touched' = IF Busy THEN touched \cup {p} ELSE touched
    BY <1>11 DEF Edit, Busy
  <2>4. WantedHome' = WantedHome /\ \A q \in Paths : Writes(q)' <=> Writes(q)
    BY <2>3 DEF WantedHome, Writes
  <2>5. ~Busy => \A q \in Paths : ~Writes(q)
    BY DEF JobInv, NoPlan, NoStep, Writes
  <2>6. HomeBefore' = [HomeBefore EXCEPT ![p] = c]
    BY <2>1, <2>3, <2>4, <2>5 DEF HomeBefore, TypeOK
  <2>7. Promise!Write(p)
    BY <2>2, <2>3, <2>4, <2>6 DEF Promise!Write
  <2> QED
    BY <2>7 DEF Promise!Next
<1>12. ASSUME NEW on \in BOOLEAN, PauseReads(on) PROVE UNCHANGED Promise!vars
  BY <1>12, SeenStutters DEF PauseReads, Busy
<1>13. CASE PauseWrites
  BY <1>13, SeenStutters DEF PauseWrites, Busy
<1>14. CASE Crash
  <2>1. CASE Busy
    BY <1>14, <2>1, EndPromises DEF Crash
  <2>2. CASE ~Busy
    <3>1. /\ plan = NoPlan /\ touched = {} /\ plan' = NoPlan /\ touched' = {}
          /\ ~Busy' /\ ack' = "none" /\ disk' = disk
      BY <1>14, <2>2 DEF Crash, Rest, JobInv, Busy
    <3>2. HomeBefore' = HomeBefore /\ WantedHome' = WantedHome
      BY <3>1 DEF HomeBefore, WantedHome, Writes, NoPlan, NoStep
    <3>3. UNCHANGED <<HomeBefore, Busy, WantedHome, touched>>
      BY <2>2, <3>1, <3>2 DEF Busy
    <3> QED
      BY <2>2, <3>1, <3>3 DEF Promise!Next, Promise!Forget
  <2> QED
    BY <2>1, <2>2
<1>15. CASE UNCHANGED vars
  BY <1>15, SeenStutters DEF vars, Busy
<1> QED
  BY <1>1, <1>2, <1>3, <1>4, <1>5, <1>6, <1>7, <1>8, <1>9, <1>10, <1>11, <1>12, <1>13,
     <1>14, <1>15, <1>16 DEF Next, Request, JobStep

\* An apply or a restore, whatever fails and whoever else writes meanwhile, takes effect
\* entirely, leaves no trace, or is reported as broken or cut short by a crash with every
\* path holding its old or its new content.
THEOREM AppliesAreAtomic == Spec => ApplyIsAtomic
<1>1. Spec => [](TypeOK /\ JobInv)
  BY TypesAndSplit
<1>2. Init => Promise!Init
  BY InitPromises
<1>3. TypeOK /\ JobInv /\ TypeOK' /\ JobInv' /\ [Next]_vars => [Promise!Next]_(Promise!vars)
  BY StepPromises
<1> QED
  BY <1>1, <1>2, <1>3, PTL DEF Spec, ApplyIsAtomic, Promise!Spec

-----------------------------------------------------------------------------
(* Degraded.                                                               *)

\* While the state says degraded no apply is running: broken ones fall back to rest in
\* the step that sets it, and no other begins.
DegradedAtRest == Degraded => ~Busy

LEMMA DegradedRests == DegradedAtRest /\ [Next]_vars => DegradedAtRest'
<1> SUFFICES ASSUME DegradedAtRest, [Next]_vars PROVE DegradedAtRest'
  OBVIOUS
<1> USE DEF stateVars, jobVars, historyVars
<1>1. CASE Request
  BY <1>1 DEF Request, Apply, Survey, Decline, SecretsArrive, Restore, RestoreDeclined, Begin, Save,
             DegradedAtRest, Degraded, Busy
<1>2. CASE PassStep \/ WriteStep \/ MergeRead \/ MergeSame \/ MergeCheck \/ MergeAgain
           \/ MergeWrite \/ MergeRefuses \/ MergeGivesUp \/ StepFails \/ UndoStep \/ UndoFails
  BY <1>2 DEF PassStep, WriteStep, MergeRead, MergeSame, MergeCheck, MergeAgain, MergeWrite,
              MergeRefuses, MergeGivesUp, StepFails, UndoStep, UndoFails, Advance, ToRollback,
              DegradedAtRest, Degraded, Busy
<1>3. CASE Finish \/ Crash
  BY <1>3 DEF Finish, Crash, Rest, DegradedAtRest, Busy
<1>4. ASSUME NEW p \in Paths, Edit(p) PROVE DegradedAtRest'
  BY <1>4 DEF Edit, DegradedAtRest, Degraded, Busy
<1>5. ASSUME NEW on \in BOOLEAN, PauseReads(on) PROVE DegradedAtRest'
  BY <1>5 DEF PauseReads, DegradedAtRest, Degraded, Busy
<1>6. CASE PauseWrites \/ UNCHANGED vars
  BY <1>6 DEF PauseWrites, vars, DegradedAtRest, Degraded, Busy
<1> QED
  BY <1>1, <1>2, <1>3, <1>4, <1>5, <1>6 DEF Next, JobStep

\* A degraded agent writes nothing: a home half written once is not written again by an
\* apply or a restore until somebody clears it.
THEOREM DegradedWritesNothing == Spec => DegradedFreezes
<1>1. Init => DegradedAtRest
  BY DEF Init, DegradedAtRest, Busy
<1>2. DegradedAtRest /\ [Next]_vars =>
          (Degraded /\ disk' # disk => \E p \in Paths : Edit(p))
  <2> SUFFICES ASSUME DegradedAtRest, Degraded, [Next]_vars, disk' # disk
               PROVE  \E p \in Paths : Edit(p)
    OBVIOUS
  <2>1. phase = "idle"
    BY DEF DegradedAtRest, Busy
  <2>2. ~JobStep
    BY <2>1 DEF JobStep, PassStep, WriteStep, MergeRead, MergeSame, MergeCheck, MergeAgain,
                MergeWrite, MergeRefuses, MergeGivesUp, StepFails, UndoStep, UndoFails,
                Finish, Ended
  <2>3. ~Request /\ ~Crash /\ ~PauseWrites /\ ~UNCHANGED vars
    BY DEF Request, Apply, Survey, Decline, SecretsArrive, Restore, RestoreDeclined, Begin, Crash,
           PauseWrites, vars
  <2>4. \A on \in BOOLEAN : ~PauseReads(on)
    BY DEF PauseReads
  <2> QED
    BY <2>2, <2>3, <2>4 DEF Next
<1>3. DegradedAtRest /\ [Next]_vars => DegradedAtRest'
  BY DegradedRests
<1>4. DegradedAtRest /\ [Next]_vars =>
          [Degraded /\ disk' # disk => \E p \in Paths : Edit(p)]_vars
  BY <1>2
<1> QED
  BY <1>1, <1>3, <1>4, PTL DEF Spec, DegradedFreezes

-----------------------------------------------------------------------------
(* What the agent remembers of the files it wrote.                        *)

\* The files managed as a whole.
Whole == Paths \ Keyed

-----------------------------------------------------------------------------
(* What a plan skips and merges.                                           *)

\* Only keyed files are merged; a file is skipped when it is recorded to hold what is wanted.
Rightful(p, step, files) ==
    /\ step.act = "merge" => p \in Keyed
    /\ step.act = "skip" => files[p] # NoEntry /\ files[p].rendered = step.file /\ step.file \in File

LEMMA PlanRightful ==
    ASSUME NEW wanted \in [Paths -> Blobs \cup {Unmanaged}], NEW ignored, NEW files,
           NEW s \in Secrets, NEW p \in Paths
    PROVE  Rightful(p, BuildPlan(wanted, ignored, files, s)[p], files)
<1> DEFINE step == PlanStep(p, wanted[p], files, s)
<1>1. step.act = "merge" => p \in Keyed
  BY DEF PlanStep, NoStep
<1>2. ASSUME step.act = "skip"
      PROVE  files[p] # NoEntry /\ files[p].rendered = step.file /\ step.file \in File
  <2>1. wanted[p] # Unmanaged /\ Render[wanted[p]][s] # Undefined
    BY <1>2 DEF PlanStep, NoStep
  <2>2. /\ step.file = [own |-> Render[wanted[p]][s], rest |-> EmptyRest]
        /\ files[p] # NoEntry /\ files[p].rendered = step.file
    BY <1>2, <2>1 DEF PlanStep, NoStep
  <2>3. Render[wanted[p]][s] \in Owns
    BY <2>1, ConstantsAssumption
  <2> QED
    BY <2>2, <2>3, ConstantsAssumption DEF File
<1> HIDE DEF step
<1>3. BuildPlan(wanted, ignored, files, s)[p] = IF p \in ignored THEN NoStep ELSE step
  BY DEF BuildPlan, step
<1> QED
  BY <1>1, <1>2, <1>3 DEF Rightful, NoStep

LEMMA SnapshotPlanRightful ==
    ASSUME TypeOK, NEW r \in Revisions, NEW s \in Secrets, NEW p \in Paths
    PROVE  Rightful(p, SnapshotPlan(r, s)[p], st.files)
<1>1. Target[r] \in [Paths -> Blobs \cup {Unmanaged}]
  BY ConstantsAssumption
<1> QED
  BY <1>1, PlanRightful DEF SnapshotPlan

\* A restore skips nothing: the hashes it compares with are those of no file.
LEMMA RestorePlanRightful ==
    ASSUME TypeOK, NEW ps \in SUBSET Paths, NEW p \in Paths
    PROVE  Rightful(p, RestorePlan(ps)[p], st.files)
<1> DEFINE wanted == [q \in Paths |-> IF q \in ps /\ st.files[q] # NoEntry
                                      THEN st.files[q].blob ELSE Unmanaged]
           files == [q \in Paths |-> IF q \in ps
                                     THEN [blob |-> Unmanaged, rendered |-> OtherHash]
                                     ELSE NoEntry]
<1>1. wanted \in [Paths -> Blobs \cup {Unmanaged}] /\ sec \in Secrets
  BY DEF TypeOK, State, FileState
<1>2. files[p] # NoEntry => files[p].rendered \notin File
  BY ConstantsAssumption
<1>3. RestorePlan(ps) = BuildPlan(wanted, {}, files, sec)
  BY DEF RestorePlan
<1> HIDE DEF wanted, files
<1>4. Rightful(p, BuildPlan(wanted, {}, files, sec)[p], files)
  BY <1>1, PlanRightful
<1> QED
  BY <1>2, <1>3, <1>4 DEF Rightful

-----------------------------------------------------------------------------
(* The entries.                                                            *)

\* An entry with a rendered hash that is true of content c.
TrueOf(f, c) == f # NoEntry /\ f.rendered # NoHash => f.rendered \in File /\ c = f.rendered

\* Between applies the state is true of every file that nothing has happened to; while one
\* runs, so are the entries it builds, and the paths it is past hold what it wanted.
RecordInv ==
    /\ \A p \in Paths : Rightful(p, plan[p], st.files)
    /\ \A p \in Whole :
        /\ ~Busy /\ mark[p] = "clean" => TrueOf(st.files[p], disk[p])
        /\ Busy /\ ~Writes(p) => next[p] = st.files[p]
        /\ Busy /\ mark[p] = "clean" => TrueOf(next[p], disk[p])
        /\ mark[p] = "clean" /\ Writes(p) /\ p < at /\ phase \in {"step", "merge", "commit"} =>
               disk[p] = plan[p].file

LEMMA NothingPlanned ==
    ASSUME NEW p \in Paths, NEW files
    PROVE  NoPlan[p] = NoStep /\ Rightful(p, NoPlan[p], files) /\ NoStep.act = "none"
BY DEF NoPlan, NoStep, Rightful

LEMMA InitRecords == Init => RecordInv
<1> SUFFICES ASSUME Init PROVE RecordInv
  OBVIOUS
<1>1. \A p \in Paths : mark[p] # "clean" /\ Rightful(p, plan[p], st.files)
  BY NothingPlanned DEF Init
<1> QED
  BY <1>1 DEF Init, RecordInv, Whole, Busy

LEMMA BeginRecords ==
    ASSUME TypeOK, RecordInv, ~Busy, NEW r, NEW pl \in [Paths -> StepOf], NEW isRestore,
           Begin(r, pl, isRestore), \A p \in Paths : Rightful(p, pl[p], st.files)
    PROVE  RecordInv'
<1>1. /\ plan' = pl /\ next' = st.files /\ at' = 1 /\ phase' = "step"
      /\ UNCHANGED <<disk, st, mark>>
  BY DEF Begin
<1>2. \A p \in Whole : ~(p < at')
  BY <1>1, ConstantsAssumption DEF Whole, Paths
<1> QED
  BY <1>1, <1>2 DEF RecordInv, Busy, Whole

\* At rest again: only the new state counts.
LEMMA RestRecords ==
    ASSUME Rest, \A p \in Whole : mark'[p] = "clean" => TrueOf(st'.files[p], disk'[p])
    PROVE  RecordInv'
<1>1. \A p \in Paths : Rightful(p, plan'[p], st'.files) /\ plan'[p].act = "none"
  BY NothingPlanned DEF Rest
<1> QED
  BY <1>1 DEF Rest, RecordInv, Busy, Writes, Whole

\* The state a restore saves, however it ended.
LEMMA RestoredFiles ==
    ASSUME TypeOK, NEW pl \in [Paths -> StepOf], NEW p \in Paths
    PROVE  AfterRestore(pl).files[p] =
             CASE pl[p].act = "delete" -> NoEntry
               [] pl[p].act \in {"none", "skip"} \/ st.files[p] = NoEntry -> st.files[p]
               [] OTHER -> [st.files[p] EXCEPT !.rendered = pl[p].file]
BY DEF AfterRestore, TypeOK, State

LEMMA UnrestoredRecords ==
    ASSUME TypeOK, NEW pl \in [Paths -> StepOf], NEW p \in Paths, Unrestored(pl)[p] = "clean"
    PROVE  mark[p] = "clean" /\ pl[p].act = "none" /\ AfterRestore(pl).files[p] = st.files[p]
BY RestoredFiles DEF Unrestored

\* A step between applies: only the new state counts.
LEMMA IdleRecords ==
    ASSUME JobInv, ~Busy, phase' = phase, plan' = plan,
           \A p \in Whole : mark'[p] = "clean" => TrueOf(st'.files[p], disk'[p])
    PROVE  RecordInv'
<1>1. \A p \in Paths : Rightful(p, plan'[p], st'.files) /\ plan'[p].act = "none"
  BY NothingPlanned DEF JobInv
<1> QED
  BY <1>1 DEF RecordInv, Busy, Writes, Whole

LEMMA RequestRecords == ASSUME TypeOK, JobInv, RecordInv, Request PROVE RecordInv'
<1> USE DEF stateVars, jobVars, historyVars
<1>1. ASSUME NEW r \in Revisions, NEW s \in Secrets, Apply(r, s) PROVE RecordInv'
  BY <1>1, SnapshotPlanTyped, SnapshotPlanRightful, BeginRecords DEF Apply, Busy
<1>2. ASSUME NEW ps \in SUBSET Paths, Restore(ps) PROVE RecordInv'
  BY <1>2, RestorePlanTyped, RestorePlanRightful, BeginRecords DEF Restore, Busy
<1>3. ASSUME NEW r \in Revisions, NEW s \in Secrets, Survey(r, s) PROVE RecordInv'
  <2>1. \A p \in Paths : st'.files[p] # NoEntry => st'.files[p].rendered = NoHash
    BY <1>3 DEF Survey, Save
  <2> QED
    BY <1>3, <2>1, IdleRecords DEF Survey, Busy, TrueOf, Whole
<1>4. ASSUME NEW s \in Secrets, Decline(s) PROVE RecordInv'
  <2>1. st'.files = st.files
    BY <1>4 DEF Decline, Save, Made, TypeOK, State
  <2> QED
    BY <1>4, <2>1, IdleRecords DEF Decline, Busy, RecordInv
<1>5. ASSUME NEW s \in Secrets, SecretsArrive(s) PROVE RecordInv'
  BY <1>5, IdleRecords DEF SecretsArrive, Busy, RecordInv
<1>6. ASSUME NEW ps \in SUBSET Paths, RestoreDeclined(ps) PROVE RecordInv'
  <2>1. /\ st' = AfterRestore(RestorePlan(ps)) /\ mark' = Unrestored(RestorePlan(ps))
        /\ phase = "idle" /\ UNCHANGED <<disk, phase, plan>>
    BY <1>6 DEF RestoreDeclined, Save
  <2>2. \A p \in Whole : mark'[p] = "clean" => mark[p] = "clean" /\ st'.files[p] = st.files[p]
    BY <2>1, UnrestoredRecords, RestorePlanTyped DEF Whole
  <2> QED
    BY <2>1, <2>2, IdleRecords DEF Busy, RecordInv
<1> QED
  BY <1>1, <1>2, <1>3, <1>4, <1>5, <1>6 DEF Request

-----------------------------------------------------------------------------
(* The steps of an apply.                                                  *)

\* A step that writes nothing, or a keyed file: the others are as they were.
LEMMA PassRecords ==
    ASSUME RecordInv, Busy, Busy', UNCHANGED <<plan, st>>,
           \A p \in Whole : /\ mark'[p] = "clean" => mark[p] = "clean" /\ disk'[p] = disk[p]
                            /\ next'[p] = next[p]
                            /\ Writes(p) /\ p < at' => p < at,
           phase' \in {"step", "merge", "commit"} => phase \in {"step", "merge", "commit"}
    PROVE  RecordInv'
BY DEF RecordInv, Writes, Busy, Whole

LEMMA WriteRecords == ASSUME TypeOK, RecordInv, WriteStep PROVE RecordInv'
<1> USE DEF stateVars, jobVars, historyVars
<1>1. /\ at \in Paths /\ plan[at].act \in {"create", "overwrite", "delete"} /\ phase = "step"
      /\ disk' = [disk EXCEPT ![at] = plan[at].file] /\ phase' = "step" /\ at' = at + 1
      /\ next' = Recorded(at, plan[at].file) /\ UNCHANGED <<plan, st>>
      /\ mark' = [mark EXCEPT ![at] = "clean"]
  BY DEF WriteStep, Advance
<1>2. /\ disk'[at] = plan[at].file
      /\ next'[at] = IF plan[at].act = "delete" THEN NoEntry
                     ELSE [blob |-> plan[at].blob, rendered |-> plan[at].file]
      /\ \A p \in Paths \ {at} : /\ disk'[p] = disk[p] /\ mark'[p] = mark[p] /\ next'[p] = next[p]
                                 /\ p < at' => p < at
  BY <1>1 DEF TypeOK, Recorded, Paths
<1>3. plan[at].act # "delete" => plan[at].file \in File
  BY <1>1 DEF TypeOK, StepOf, NoStep
<1>4. TrueOf(next'[at], disk'[at])
  <2>1. CASE plan[at].act = "delete"
    BY <1>1, <1>2, <2>1 DEF TrueOf
  <2>2. CASE plan[at].act # "delete"
    <3>1. next'[at].rendered = plan[at].file
      BY <1>2, <2>2
    <3> QED
      BY <1>1, <1>2, <1>3, <2>2, <3>1 DEF TrueOf
  <2> QED
    BY <2>1, <2>2
<1> QED
  BY <1>1, <1>2, <1>4 DEF RecordInv, Writes, Busy, Whole

LEMMA MergeRecords ==
    ASSUME TypeOK, JobInv, RecordInv, MergeSame \/ MergeWrite PROVE RecordInv'
<1> USE DEF stateVars, jobVars, historyVars
<1>1. /\ at \in Paths /\ plan[at].act = "merge" /\ phase \in {"merge", "commit"}
      /\ \A p \in Paths \ {at} : disk'[p] = disk[p]
      /\ phase' = "step" /\ at' = at + 1 /\ UNCHANGED <<plan, st>>
      /\ \A p \in Paths \ {at} : mark'[p] = mark[p] /\ next'[p] = next[p]
  BY DEF MergeSame, MergeWrite, Advance, JobInv, TypeOK, Recorded
<1>2. at \in Keyed
  BY <1>1 DEF RecordInv, Rightful
<1>3. \A p \in Whole : p # at /\ (p < at' => p < at)
  BY <1>1, <1>2 DEF Whole, Paths
<1> QED
  BY <1>1, <1>3, PassRecords DEF Busy, Whole

LEMMA UndoRecords == ASSUME TypeOK, RecordInv, UndoStep PROVE RecordInv'
<1> USE DEF stateVars, jobVars, historyVars
<1>1. at - 1 \in Paths
  BY ConstantsAssumption DEF UndoStep, TypeOK, Paths
<1>2. \A p \in Paths : mark'[p] = "clean" => mark[p] = "clean" /\ disk'[p] = disk[p]
  BY <1>1 DEF UndoStep, TypeOK
<1> QED
  BY <1>2 DEF UndoStep, RecordInv, Writes, Busy, Whole

\* The state that is saved at the end is the one that was built, or that of the restore.
LEMMA FinishRecords == ASSUME TypeOK, RecordInv, Finish PROVE RecordInv'
<1> USE DEF stateVars, jobVars, historyVars
<1>0. Rest /\ Busy /\ disk' = disk
  BY DEF Finish, Ended, Busy
<1>1. CASE ~restoring
  <2>1. st'.files = next /\ mark' = mark
    BY <1>1 DEF Finish, Save, AfterApply, Made, TypeOK, State
  <2> QED
    BY <1>0, <2>1, RestRecords DEF RecordInv
<1>2. CASE restoring /\ Outcome # "applied"
  <2>1. st' = AfterRestore(plan) /\ mark' = Unrestored(plan) /\ plan \in [Paths -> StepOf]
    BY <1>2 DEF Finish, Save, TypeOK
  <2>2. \A p \in Whole : mark'[p] = "clean" =>
            mark[p] = "clean" /\ plan[p].act = "none" /\ st'.files[p] = st.files[p]
    BY <2>1, UnrestoredRecords DEF Whole
  <2> QED
    BY <1>0, <2>2, RestRecords DEF RecordInv, Writes
<1>3. CASE restoring /\ Outcome = "applied"
  <2>1. /\ st' = AfterRestore(plan) /\ mark' = mark /\ plan \in [Paths -> StepOf]
        /\ phase = "step" /\ at = N + 1
    BY <1>3 DEF Finish, Save, TypeOK, Outcome, Ended
  <2>2. ASSUME NEW p \in Whole, mark[p] = "clean" PROVE TrueOf(st'.files[p], disk[p])
    <3>1. p \in Paths /\ p < at
      BY <2>1, ConstantsAssumption DEF Whole, Paths
    <3>2. CASE plan[p].act = "delete"
      BY <2>1, <3>1, <3>2, RestoredFiles DEF TrueOf
    <3>3. CASE plan[p].act \in {"none", "skip"}
      <4>1. st'.files[p] = st.files[p]
        BY <2>1, <3>1, <3>3, RestoredFiles
      <4> QED
        BY <1>0, <2>2, <3>3, <4>1 DEF RecordInv, Writes
    <3>4. CASE plan[p].act \notin {"none", "skip", "delete"} /\ st.files[p] = NoEntry
      BY <2>1, <3>1, <3>4, RestoredFiles DEF TrueOf
    <3>5. CASE plan[p].act \notin {"none", "skip", "delete"} /\ st.files[p] # NoEntry
      <4>1. plan[p].file \in File
        BY <2>1, <3>1, <3>5 DEF StepOf, NoStep
      <4>2. disk[p] = plan[p].file
        BY <2>1, <2>2, <3>1, <3>5 DEF RecordInv, Writes
      <4>3. st'.files[p].rendered = plan[p].file
        <5>1. st'.files[p] = [st.files[p] EXCEPT !.rendered = plan[p].file]
          BY <2>1, <3>1, <3>5, RestoredFiles
        <5>2. st.files[p] \in FileState
          BY <3>1, <3>5 DEF TypeOK, State
        <5> QED
          BY <5>1, <5>2 DEF FileState
      <4> QED
        BY <4>1, <4>2, <4>3 DEF TrueOf
    <3> QED
      BY <3>2, <3>3, <3>4, <3>5
  <2> QED
    BY <1>0, <2>1, <2>2, RestRecords
<1> QED
  BY <1>1, <1>2, <1>3

\* What was half done is marked torn, and so is every entry that a lost state takes along.
LEMMA CrashRecords == ASSUME TypeOK, JobInv, RecordInv, Crash PROVE RecordInv'
<1>1. ASSUME NEW p \in Whole, mark'[p] = "clean" PROVE TrueOf(st'.files[p], disk'[p])
  <2>1. mark[p] = "clean" /\ ~Writes(p) /\ st'.files[p] = st.files[p] /\ disk' = disk
    BY <1>1 DEF Crash, Whole
  <2> QED
    BY <1>1, <2>1 DEF RecordInv
<1> QED
  BY <1>1, RestRecords DEF Crash

LEMMA EditRecords == ASSUME TypeOK, RecordInv, NEW q \in Paths, Edit(q) PROVE RecordInv'
<1> USE DEF stateVars, jobVars, historyVars
<1>1. \A p \in Paths : mark'[p] = "clean" => mark[p] = "clean" /\ disk'[p] = disk[p]
  BY DEF Edit, TypeOK
<1> QED
  BY <1>1 DEF Edit, RecordInv, Writes, Busy, Whole

LEMMA RecordsKept == TypeOK /\ JobInv /\ RecordInv /\ [Next]_vars => RecordInv'
<1> SUFFICES ASSUME TypeOK, JobInv, RecordInv, [Next]_vars PROVE RecordInv'
  OBVIOUS
<1> USE DEF stateVars, jobVars, historyVars
<1>1. CASE PassStep
  <2>1. \A p \in Whole : Writes(p) /\ p < at' => p < at
    BY <1>1 DEF PassStep, Whole, Paths
  <2> QED
    BY <1>1, <2>1, PassRecords DEF PassStep, Busy
<1>2. CASE MergeRead \/ MergeCheck \/ MergeAgain
  BY <1>2, PassRecords DEF MergeRead, MergeCheck, MergeAgain, Busy
<1>3. CASE MergeRefuses \/ MergeGivesUp \/ StepFails \/ UndoFails
  BY <1>3, PassRecords DEF MergeRefuses, MergeGivesUp, StepFails, UndoFails, ToRollback, Busy
<1>4. CASE JobStep
  BY <1>1, <1>2, <1>3, <1>4, WriteRecords, MergeRecords, UndoRecords, FinishRecords DEF JobStep
<1>5. ASSUME NEW on \in BOOLEAN, PauseReads(on) PROVE RecordInv'
  BY <1>5 DEF PauseReads, RecordInv, Writes, Busy
<1>6. CASE PauseWrites \/ UNCHANGED vars
  BY <1>6 DEF PauseWrites, vars, RecordInv, Writes, Busy
<1> QED
  BY <1>4, <1>5, <1>6, RequestRecords, EditRecords, CrashRecords DEF Next

LEMMA RecordsInvariant == Spec => []RecordInv
<1>1. Spec => [](TypeOK /\ JobInv)
  BY TypesAndSplit
<1> QED
  BY <1>1, InitRecords, RecordsKept, PTL DEF Spec

\* watcher.Scan after any history of applies, restores, surveys, rollbacks, crashes and lost
\* states: a file managed as a whole that the agent wrote last is never reported as drift.
THEOREM NoAlarmIsFalse == Spec => []NoFalseDrift
<1>1. ASSUME RecordInv PROVE NoFalseDrift
  <2> SUFFICES ASSUME phase = "idle", NEW p \in Whole, Settled(p) PROVE ~Drifted(p)
    BY DEF NoFalseDrift, Whole
  <2>1. st.files[p] # NoEntry /\ st.files[p].rendered # NoHash /\ mark[p] = "clean"
    BY DEF Settled
  <2>2. disk[p] = st.files[p].rendered /\ disk[p] \in File
    BY <1>1, <2>1 DEF RecordInv, Busy, TrueOf
  <2>3. disk[p] # Absent /\ disk[p] # Garbled
    BY <2>2, ConstantsAssumption
  <2> QED
    BY <2>1, <2>2, <2>3 DEF Drifted, BaseHash, CompareHash, Whole
<1> QED
  BY <1>1, RecordsInvariant, PTL

\* applyPending: when an apply is reported as a success, every file managed as a whole that
\* nobody else wrote holds what the revision says, also where the plan skipped it.
THEOREM SuccessIsTrue == Spec => AckIsTrue
<1>1. ASSUME TypeOK, RecordInv, [Next]_vars, ack' = "applied", ack # "applied",
             NEW p \in Whole, mark[p] = "clean", plan[p].act # "none"
      PROVE  disk[p] = plan[p].file
  <2>1. Finish
    BY <1>1 DEF Next, Request, JobStep, stateVars, vars, Apply, Restore, Begin, Decline,
       SecretsArrive, Survey, RestoreDeclined, Save, PassStep, WriteStep, MergeRead, MergeSame,
       MergeCheck, MergeAgain, MergeWrite, MergeRefuses, MergeGivesUp, StepFails, UndoStep,
       UndoFails, Advance, ToRollback, Edit, PauseReads, PauseWrites, Crash
  <2>2. phase = "step" /\ at = N + 1 /\ Busy /\ p \in Paths
    BY <1>1, <2>1 DEF Finish, Outcome, Ended, Busy, Whole
  <2>3. CASE Writes(p)
    <3>1. p < at
      BY <2>2, ConstantsAssumption DEF Paths
    <3> QED
      BY <1>1, <2>2, <2>3, <3>1 DEF RecordInv
  <2>4. CASE ~Writes(p)
    <3>1. plan[p].act = "skip"
      BY <1>1, <2>4 DEF Writes
    <3>2. next[p] = st.files[p] /\ TrueOf(next[p], disk[p]) /\ Rightful(p, plan[p], st.files)
      BY <1>1, <2>2, <2>4 DEF RecordInv
    <3> QED
      BY <3>1, <3>2, ConstantsAssumption DEF TrueOf, Rightful
  <2> QED
    BY <2>3, <2>4
<1>2. Spec => [](TypeOK /\ JobInv)
  BY TypesAndSplit
<1>3. TypeOK /\ RecordInv /\ [Next]_vars =>
         [ack' = "applied" /\ ack # "applied" =>
            \A p \in Paths \ Keyed :
                mark[p] = "clean" /\ plan[p].act # "none" => disk[p] = plan[p].file]_vars
  BY <1>1 DEF Whole
<1> QED
  BY <1>2, <1>3, RecordsInvariant, PTL DEF Spec, AckIsTrue

-----------------------------------------------------------------------------
(* A merge.                                                                *)

\* What is about to be written was made of what is on disk, unless somebody wrote meanwhile.
CommitInv == phase = "commit" /\ ~raced => disk[at] = seen

LEMMA CommitKept == TypeOK /\ JobInv /\ CommitInv /\ [Next]_vars => CommitInv'
<1> SUFFICES ASSUME TypeOK, JobInv, CommitInv, [Next]_vars, phase' = "commit", ~raced'
             PROVE  disk'[at'] = seen'
  BY DEF CommitInv
<1> USE DEF stateVars, jobVars, historyVars
<1>1. CASE MergeCheck
  BY <1>1 DEF MergeCheck
<1>2. ASSUME NEW p \in Paths, Edit(p) PROVE disk'[at'] = seen'
  <2>1. phase = "commit" /\ ~raced /\ p # at /\ at \in Paths
    BY <1>2 DEF Edit, JobInv, TypeOK
  <2> QED
    BY <1>2, <2>1 DEF Edit, CommitInv, TypeOK
<1>3. ASSUME NEW on \in BOOLEAN, PauseReads(on) PROVE disk'[at'] = seen'
  BY <1>3 DEF PauseReads, CommitInv
<1>4. CASE PauseWrites \/ UNCHANGED vars
  BY <1>4 DEF PauseWrites, vars, CommitInv
<1>5. CASE Request \/ Crash \/ (JobStep /\ ~MergeCheck)
  BY <1>5 DEF Request, Apply, Survey, Decline, SecretsArrive, Restore, RestoreDeclined, Begin,
     Crash, Rest, JobStep, PassStep, WriteStep, MergeRead, MergeSame, MergeAgain, MergeWrite,
     MergeRefuses, MergeGivesUp, StepFails, UndoStep, UndoFails, Finish, Advance, ToRollback
<1> QED
  BY <1>1, <1>2, <1>3, <1>4, <1>5 DEF Next

\* merge.go against other programs that write the keyed file: the keys it does not manage stay,
\* and a file that is not JSON is not overwritten, unless somebody wrote after the last check.
THEOREM ForeignKeysStay == Spec => MergeKeepsForeignKeys
<1>1. ASSUME TypeOK, JobInv, CommitInv, MergeWrite, ~raced, disk[at] # Absent
      PROVE  disk[at] \in File /\ disk'[at].rest = disk[at].rest
  <2>1. at \in Paths /\ plan[at].act = "merge" /\ plan[at] \in StepOf /\ disk[at] = seen
    BY <1>1 DEF MergeWrite, JobInv, CommitInv, TypeOK
  <2>2. seen \in File /\ plan[at].file \in File
    BY <1>1, <2>1 DEF TypeOK, StepOf, NoStep
  <2>3. disk'[at] = [plan[at].file EXCEPT !.rest = seen.rest]
    BY <1>1, <2>1 DEF MergeWrite, Merged, TypeOK
  <2> QED
    BY <2>1, <2>2, <2>3 DEF File
<1>2. TypeOK /\ JobInv /\ CommitInv =>
         (MergeWrite => \/ raced
                        \/ disk[at] = Absent
                        \/ disk[at] \in File /\ disk'[at].rest = disk[at].rest)
  BY <1>1
<1>3. Init => CommitInv
  BY DEF Init, CommitInv
<1>4. Spec => [](TypeOK /\ JobInv)
  BY TypesAndSplit
<1>5. TypeOK /\ JobInv /\ CommitInv =>
         [MergeWrite => \/ raced
                        \/ disk[at] = Absent
                        \/ disk[at] \in File /\ disk'[at].rest = disk[at].rest]_vars
  BY <1>2
<1> QED
  BY <1>3, <1>4, <1>5, CommitKept, PTL DEF Spec, MergeKeepsForeignKeys

=============================================================================
