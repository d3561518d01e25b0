-------------------------- MODULE ConfigSetsProofs --------------------------
(***************************************************************************)
(* Proofs about config sets, whatever calls run beside each other: types,  *)
(* that the head advances and carries its provider, that adopting and      *)
(* rebinding change nothing else, that contents and providers in use are   *)
(* kept, and that what was adopted stays.                                  *)
(***************************************************************************)
EXTENDS ConfigSets, SequenceTheorems, TLAPS

USE ConfigSetsAssumption

-----------------------------------------------------------------------------
(* What a step does to the call that takes it.                             *)

OthersSame(c) == \A d \in Calls \ {c} : call'[d] = call[d]

\* The fields of a call that a step may change; it keeps its op and its paths.
To(c, at, was, files, binding, rev, keep) ==
    /\ call' \in [Calls -> CallRecord] /\ OthersSame(c)
    /\ call'[c].at = at /\ call'[c].was = was /\ call'[c].files = files
    /\ call'[c].binding = binding /\ call'[c].rev = rev /\ call'[c].keep = keep
    /\ call'[c].op = call[c].op /\ call'[c].paths = call[c].paths

Moved(c, at) == To(c, at, call[c].was, call[c].files, call[c].binding, call[c].rev, call[c].keep)
Gone(c) == call' \in [Calls -> CallRecord] /\ OthersSame(c) /\ call'[c] = NoCall

LEMMA NoCallTyped ==
    /\ NoCall \in CallRecord /\ NoCall.op = "none" /\ NoCall.at = "none" /\ NoCall.was = EmptySet
    /\ NoCall.files = NoFiles /\ NoCall.rev = 0 /\ NoCall.binding = None /\ NoCall.paths = {}
    /\ NoFiles \in FileLists /\ EmptySet.head = 0 /\ EmptySet.provider = None
    /\ EmptySet \in SetRecord
BY DEF NoCall, CallRecord, EmptySet, SetRecord, NoFiles, FileLists, Bindings, Ops, Steps

LEMMA CallTyped ==
    ASSUME NEW r \in CallRecord
    PROVE  /\ r.op \in Ops /\ r.at \in Steps /\ r.was \in SetRecord /\ r.files \in FileLists
           /\ r.binding \in Bindings /\ r.paths \in SUBSET Paths /\ r.rev \in Nat
           /\ r.keep \in SUBSET Contents
           /\ r.was.head \in Nat /\ r.was.provider \in Bindings /\ r.was.binding \in Bindings
           /\ r.was.draft \in FileLists
BY DEF CallRecord, SetRecord

LEMMA CallSet ==
    ASSUME call \in [Calls -> CallRecord], NEW c \in Calls, NEW r \in CallRecord,
           call' = [call EXCEPT ![c] = r]
    PROVE  call' \in [Calls -> CallRecord] /\ OthersSame(c) /\ call'[c] = r
BY DEF OthersSame

LEMMA GotoMoves ==
    ASSUME call \in [Calls -> CallRecord], NEW c \in Calls, NEW step \in Steps, Goto(c, step)
    PROVE  Moved(c, step)
<1> DEFINE r == [call[c] EXCEPT !.at = step]
<1>1. r \in CallRecord /\ call' = [call EXCEPT ![c] = r]
  BY DEF Goto, CallRecord
<1>2. /\ r.at = step /\ r.was = call[c].was /\ r.files = call[c].files /\ r.binding = call[c].binding
      /\ r.rev = call[c].rev /\ r.keep = call[c].keep /\ r.op = call[c].op /\ r.paths = call[c].paths
  BY DEF CallRecord
<1> HIDE DEF r
<1> QED
  BY <1>1, <1>2, CallSet DEF Moved, To

LEMMA EndGone ==
    ASSUME call \in [Calls -> CallRecord], NEW c \in Calls, End(c) PROVE Gone(c)
BY NoCallTyped, CallSet DEF End, Gone

LEMMA SetTyped ==
    ASSUME TypeOK
    PROVE  /\ set \in SetRecord /\ set.head \in Nat /\ set.draft \in FileLists
           /\ set.binding \in Bindings /\ set.provider \in Bindings
           /\ Len(revs) \in Nat /\ revs \in Seq(Revision) /\ set.head <= Len(revs)
           /\ call \in [Calls -> CallRecord] /\ Paths = Paths
BY DEF TypeOK, SetRecord

LEMMA RevTyped ==
    ASSUME TypeOK, NEW n \in 1 .. Len(revs)
    PROVE  revs[n] \in Revision /\ revs[n].files \in FileLists /\ revs[n].binding \in Bindings
<1>1. revs[n] \in Revision
  BY SetTyped, ElementOfSeq
<1> QED
  BY <1>1 DEF Revision

LEMMA AdoptingTyped ==
    ASSUME NEW f \in FileLists, NEW g \in FileLists, NEW P
    PROVE  /\ Adopting(f, g, P) \in FileLists
           /\ \A p \in Paths : Adopting(f, g, P)[p] = IF p \in P THEN g[p] ELSE f[p]
BY DEF Adopting, FileLists

-----------------------------------------------------------------------------
(* What begins.                                                            *)

InUse == InRevisions \cup InDrafts \cup ContentsOf(drift)
FilesPut(l) == {l.files[p] : p \in l.paths}

\* A call as it begins.
Begun(l) ==
    /\ l \in CallRecord /\ l.rev = 0 /\ l.was \in {set, EmptySet}
    /\ \/ l.op = "publish" /\ l.at = "binding" /\ ContentsOf(l.files) \subseteq InUse
       \/ l.op = "rollback" /\ l.at = "open" /\ ContentsOf(l.files) \subseteq InUse
       \/ /\ l.op = "adopt" /\ l.at = "binding" /\ l.was = set /\ set.head # 0
          /\ ContentsOf(l.files) \subseteq InUse
          /\ \A p \in Paths \ l.paths : l.files[p] = revs[set.head].files[p]
       \/ /\ l.op = "rebind" /\ l.at = "bind" /\ l.was = set /\ set.head # 0
          /\ ContentsOf(l.files) \subseteq InUse /\ l.paths = {}
          /\ \A p \in Paths : l.files[p] = revs[set.head].files[p]
       \/ /\ l.op = "edit" /\ l.was = set /\ \A p \in Paths \ l.paths : l.files[p] = set.draft[p]
          /\ \/ l.at = "savedraft" /\ ContentsOf(l.files) \subseteq InUse
             \/ /\ l.at = "put" /\ None \notin FilesPut(l)
                /\ ContentsOf(l.files) \subseteq InUse \cup FilesPut(l)
       \/ /\ l.op = "report" /\ l.at = "put" /\ None \notin FilesPut(l)
          /\ ContentsOf(l.files) \subseteq FilesPut(l)
       \/ l.op = "bind" /\ l.at = "bind" /\ l.files = NoFiles
       \/ l.op = "clone" /\ l.at = "clone" /\ ContentsOf(l.files) \subseteq InUse
       \/ l.op = "unprovide" /\ l.at = "unprovide" /\ l.files = NoFiles /\ ~BoundBy(l.binding)
       \/ l.op = "purge" /\ l.at = "revisions" /\ l.files = NoFiles

Begins(c, l) ==
    /\ Begin(c, l) /\ Begun(l) /\ UNCHANGED <<set, revs, blobs, drift, provs, told, adopted>>
    /\ other' = other \/ (other' = NoFiles /\ l.op = "purge")

LEMMA RevisionsInUse == ASSUME NEW n \in 1 .. Len(revs) PROVE ContentsOf(revs[n].files) \subseteq InUse
BY DEF InUse, InRevisions

LEMMA NoContents == ContentsOf(NoFiles) = {}
BY DEF ContentsOf, NoFiles

LEMMA StartsPublish == ASSUME TypeOK, NEW c \in Calls, StartPublish(c) PROVE \E l : Begins(c, l)
<1> DEFINE l == [NoCall EXCEPT !.op = "publish", !.at = "binding", !.files = set.draft]
<1>1. Begin(c, l) /\ UNCHANGED <<set, revs, other, blobs, drift, provs, told, adopted>>
  BY DEF StartPublish
<1>2. /\ l \in CallRecord /\ l.rev = 0 /\ l.op = "publish" /\ l.at = "binding" /\ l.was = EmptySet
      /\ l.files = set.draft
  BY NoCallTyped, SetTyped DEF CallRecord, Ops, Steps
<1>3. ContentsOf(set.draft) \subseteq InUse
  BY DEF InUse, InDrafts
<1> HIDE DEF l
<1>4. Begun(l)
  BY <1>2, <1>3 DEF Begun
<1> QED
  BY <1>1, <1>4 DEF Begins

LEMMA StartsClone == ASSUME TypeOK, NEW c \in Calls, StartClone(c) PROVE \E l : Begins(c, l)
<1> DEFINE l == [NoCall EXCEPT !.op = "clone", !.at = "clone", !.files = set.draft]
<1>1. Begin(c, l) /\ UNCHANGED <<set, revs, other, blobs, drift, provs, told, adopted>>
  BY DEF StartClone
<1>2. /\ l \in CallRecord /\ l.rev = 0 /\ l.op = "clone" /\ l.at = "clone" /\ l.was = EmptySet
      /\ l.files = set.draft
  BY NoCallTyped, SetTyped DEF CallRecord, Ops, Steps
<1>3. ContentsOf(set.draft) \subseteq InUse
  BY DEF InUse, InDrafts
<1> HIDE DEF l
<1>4. Begun(l)
  BY <1>2, <1>3 DEF Begun
<1> QED
  BY <1>1, <1>4 DEF Begins

LEMMA StartsPurge == ASSUME TypeOK, NEW c \in Calls, StartPurge(c) PROVE \E l : Begins(c, l)
<1> DEFINE l == [NoCall EXCEPT !.op = "purge", !.at = "revisions"]
<1>1. Begin(c, l) /\ other' = NoFiles /\ UNCHANGED <<set, revs, blobs, drift, provs, told, adopted>>
  BY DEF StartPurge
<1>2. /\ l \in CallRecord /\ l.rev = 0 /\ l.op = "purge" /\ l.at = "revisions" /\ l.was = EmptySet
      /\ l.files = NoFiles
  BY NoCallTyped DEF CallRecord, Ops, Steps
<1> HIDE DEF l
<1>4. Begun(l)
  BY <1>2 DEF Begun
<1> QED
  BY <1>1, <1>2, <1>4 DEF Begins

LEMMA StartsRollback ==
    ASSUME TypeOK, NEW c \in Calls, NEW n \in 1 .. Len(revs), StartRollback(c, n)
    PROVE  \E l : Begins(c, l)
<1> DEFINE l == [NoCall EXCEPT !.op = "rollback", !.at = "open", !.files = revs[n].files,
                               !.binding = revs[n].binding]
<1>1. Begin(c, l) /\ UNCHANGED <<set, revs, other, blobs, drift, provs, told, adopted>>
  BY DEF StartRollback
<1>2. /\ l \in CallRecord /\ l.rev = 0 /\ l.op = "rollback" /\ l.at = "open" /\ l.was = EmptySet
      /\ l.files = revs[n].files
  BY NoCallTyped, RevTyped DEF CallRecord, Ops, Steps
<1>3. ContentsOf(revs[n].files) \subseteq InUse
  BY RevisionsInUse
<1> HIDE DEF l
<1>4. Begun(l)
  BY <1>2, <1>3 DEF Begun
<1> QED
  BY <1>1, <1>4 DEF Begins

LEMMA StartsAdopt ==
    ASSUME TypeOK, NEW c \in Calls, NEW P \in SUBSET Paths, StartAdopt(c, P)
    PROVE  \E l : Begins(c, l)
<1> DEFINE files == Adopting(revs[set.head].files, drift, P)
           l == [NoCall EXCEPT !.op = "adopt", !.at = "binding", !.paths = P, !.was = set,
                               !.files = files]
<1>1. /\ Begin(c, l) /\ UNCHANGED <<set, revs, other, blobs, drift, provs, told, adopted>>
      /\ set.head # 0 /\ \A p \in P : drift[p] # None
  BY DEF StartAdopt
<1>2. set.head \in 1 .. Len(revs)
  BY SetTyped, <1>1
<1>3. /\ revs[set.head].files \in FileLists /\ drift \in FileLists
  BY <1>2, RevTyped DEF TypeOK
<1>4. /\ files \in FileLists
      /\ \A p \in Paths : files[p] = IF p \in P THEN drift[p] ELSE revs[set.head].files[p]
  BY <1>3, AdoptingTyped
<1>5. ContentsOf(files) \subseteq InUse
  <2>1. ContentsOf(files) \subseteq ContentsOf(revs[set.head].files) \cup ContentsOf(drift)
    BY <1>4 DEF ContentsOf
  <2> QED
    BY <2>1, <1>2, RevisionsInUse DEF InUse
<1> HIDE DEF files
<1>6. /\ l \in CallRecord /\ l.rev = 0 /\ l.op = "adopt" /\ l.at = "binding" /\ l.was = set
      /\ l.files = files /\ l.paths = P
  BY <1>4, NoCallTyped, SetTyped DEF CallRecord, Ops, Steps
<1> HIDE DEF l
<1>7. Begun(l)
  BY <1>1, <1>4, <1>5, <1>6 DEF Begun
<1> QED
  BY <1>1, <1>7 DEF Begins

LEMMA StartsRebind ==
    ASSUME TypeOK, NEW c \in Calls, NEW v \in Providers, StartRebind(c, v)
    PROVE  \E l : Begins(c, l)
<1> DEFINE l == [NoCall EXCEPT !.op = "rebind", !.at = "bind", !.was = set, !.binding = v,
                               !.files = revs[set.head].files]
<1>1. /\ Begin(c, l) /\ UNCHANGED <<set, revs, other, blobs, drift, provs, told, adopted>>
      /\ set.head # 0
  BY DEF StartRebind
<1>2. set.head \in 1 .. Len(revs)
  BY SetTyped, <1>1
<1>3. revs[set.head].files \in FileLists /\ ContentsOf(revs[set.head].files) \subseteq InUse
  BY <1>2, RevTyped, RevisionsInUse
<1>4. /\ l \in CallRecord /\ l.rev = 0 /\ l.op = "rebind" /\ l.at = "bind" /\ l.was = set
      /\ l.files = revs[set.head].files /\ l.paths = {}
  BY <1>3, NoCallTyped, SetTyped DEF CallRecord, Ops, Steps, Bindings
<1> HIDE DEF l
<1>5. Begun(l)
  BY <1>1, <1>3, <1>4 DEF Begun
<1> QED
  BY <1>1, <1>5 DEF Begins

LEMMA StartsDelete ==
    ASSUME TypeOK, NEW c \in Calls, NEW v \in Providers, StartDelete(c, v)
    PROVE  \E l : Begins(c, l)
<1> DEFINE l == [NoCall EXCEPT !.op = "unprovide", !.at = "unprovide", !.binding = v]
<1>1. /\ Begin(c, l) /\ UNCHANGED <<set, revs, other, blobs, drift, provs, told, adopted>>
      /\ ~BoundBy(v)
  BY DEF StartDelete
<1>2. /\ l \in CallRecord /\ l.rev = 0 /\ l.op = "unprovide" /\ l.at = "unprovide"
      /\ l.was = EmptySet /\ l.files = NoFiles /\ l.binding = v
  BY NoCallTyped DEF CallRecord, Ops, Steps, Bindings
<1> HIDE DEF l
<1>3. Begun(l)
  BY <1>1, <1>2 DEF Begun
<1> QED
  BY <1>1, <1>3 DEF Begins

LEMMA StartsBind ==
    ASSUME TypeOK, NEW c \in Calls, NEW v \in provs \cup {None}, StartBind(c, v)
    PROVE  \E l : Begins(c, l)
<1> DEFINE l == [NoCall EXCEPT !.op = "bind", !.at = "bind", !.binding = v]
<1>1. Begin(c, l) /\ UNCHANGED <<set, revs, other, blobs, drift, provs, told, adopted>>
  BY DEF StartBind
<1>2. v \in Bindings
  BY DEF TypeOK, Bindings
<1>3. /\ l \in CallRecord /\ l.rev = 0 /\ l.op = "bind" /\ l.at = "bind"
      /\ l.was = EmptySet /\ l.files = NoFiles
  BY <1>2, NoCallTyped DEF CallRecord, Ops, Steps
<1> HIDE DEF l
<1>4. Begun(l)
  BY <1>3 DEF Begun
<1> QED
  BY <1>1, <1>4 DEF Begins

LEMMA StartsEdit ==
    ASSUME TypeOK, NEW c \in Calls, NEW p \in Paths, NEW b \in Contents \cup {None},
           StartEdit(c, p, b)
    PROVE  \E l : Begins(c, l)
<1> DEFINE files == [set.draft EXCEPT ![p] = b]
           at == IF b = None THEN "savedraft" ELSE "put"
           l == [NoCall EXCEPT !.op = "edit", !.was = set, !.paths = {p}, !.files = files, !.at = at]
<1>1. Begin(c, l) /\ UNCHANGED <<set, revs, other, blobs, drift, provs, told, adopted>>
  BY DEF StartEdit
<1>2. /\ files \in FileLists /\ files[p] = b /\ \A q \in Paths \ {p} : files[q] = set.draft[q]
  BY SetTyped DEF FileLists
<1>3. ContentsOf(files) \subseteq InUse \cup ({b} \ {None})
  <2>1. ContentsOf(files) \subseteq ContentsOf(set.draft) \cup ({b} \ {None})
    BY <1>2 DEF ContentsOf
  <2> QED
    BY <2>1 DEF InUse, InDrafts
<1>4. at \in Steps /\ at = IF b = None THEN "savedraft" ELSE "put"
  BY DEF Steps
<1> HIDE DEF files, at
<1>5. /\ l \in CallRecord /\ l.rev = 0 /\ l.op = "edit" /\ l.at = at /\ l.was = set
      /\ l.files = files /\ l.paths = {p}
  BY <1>2, <1>4, NoCallTyped, SetTyped DEF CallRecord, Ops
<1> HIDE DEF l
<1>6. FilesPut(l) = {b}
  BY <1>2, <1>5 DEF FilesPut
<1>7. Begun(l)
  BY <1>2, <1>3, <1>4, <1>5, <1>6 DEF Begun
<1> QED
  BY <1>1, <1>7 DEF Begins

LEMMA StartsReport ==
    ASSUME TypeOK, NEW c \in Calls, NEW p \in Paths, NEW b \in Contents, StartReport(c, p, b)
    PROVE  \E l : Begins(c, l)
<1> DEFINE files == [NoFiles EXCEPT ![p] = b]
           l == [NoCall EXCEPT !.op = "report", !.at = "put", !.paths = {p}, !.files = files]
<1>1. Begin(c, l) /\ UNCHANGED <<set, revs, other, blobs, drift, provs, told, adopted>>
  BY DEF StartReport
<1>2. /\ files \in FileLists /\ files[p] = b /\ \A q \in Paths \ {p} : files[q] = None
  BY DEF FileLists, NoFiles
<1>3. ContentsOf(files) \subseteq {b}
  BY <1>2 DEF ContentsOf
<1> HIDE DEF files
<1>4. /\ l \in CallRecord /\ l.rev = 0 /\ l.op = "report" /\ l.at = "put" /\ l.was = EmptySet
      /\ l.files = files /\ l.paths = {p}
  BY <1>2, NoCallTyped DEF CallRecord, Ops, Steps
<1> HIDE DEF l
<1>5. FilesPut(l) = {b}
  BY <1>2, <1>4 DEF FilesPut
<1>6. Begun(l)
  BY <1>3, <1>4, <1>5 DEF Begun
<1> QED
  BY <1>1, <1>6 DEF Begins

LEMMA Starts == ASSUME TypeOK, NEW c \in Calls, Start(c) PROVE \E l : Begins(c, l)
BY StartsPublish, StartsClone, StartsPurge, StartsRollback, StartsAdopt, StartsRebind, StartsDelete,
   StartsBind, StartsEdit, StartsReport DEF Start

-----------------------------------------------------------------------------
(* What goes on: the call that takes the step afterwards.                  *)

\* Where a call of each kind can be.
Place(l) ==
    \/ l.op = "none" /\ l = NoCall
    \/ l.op = "publish" /\ l.at \in {"binding", "open", "save", "head", "notify"}
    \/ l.op = "rollback" /\ l.at \in {"open", "save", "head", "draft", "savedraft", "bind",
                                      "savebinding", "notify"}
    \/ l.op = "edit" /\ l.at \in {"put", "savedraft"}
    \/ l.op = "bind" /\ l.at \in {"bind", "savebinding"}
    \/ l.op = "adopt" /\ l.at \in {"binding", "open", "save", "head", "draft", "savedraft",
                                   "mark", "notify"}
    \/ l.op = "rebind" /\ l.at \in {"bind", "savebinding", "open", "save", "head", "notify"}
    \/ l.op = "unprovide" /\ l.at = "unprovide"
    \/ l.op = "purge" /\ l.at \in {"revisions", "drafts", "sweep"}
    \/ l.op = "report" /\ l.at \in {"put", "event"}
    \/ l.op = "clone" /\ l.at = "clone"

\* What the types of the next state depend on.
CallInv(c) ==
    /\ Place(call[c])
    /\ At(c, "put") => FilesPut(call[c]) \subseteq Contents
    /\ At(c, "head") => call[c].rev # 0
    /\ call[c].op = "adopt" => set.head # 0

PlaceInv == \A c \in Calls : CallInv(c)
Typed == TypeOK /\ PlaceInv

\* The step of a call: the others stay, and its own record keeps its type and its place.
Takes(c) ==
    /\ call' \in [Calls -> CallRecord] /\ OthersSame(c)
    /\ Place(call'[c])

LEMMA ReadBindingTo ==
    ASSUME Typed, NEW c \in Calls, ReadBinding(c)
    PROVE  \E b \in Bindings :
              /\ To(c, "open", call[c].was, call[c].files, b, call[c].rev, call[c].keep)
              /\ b = IF call[c].op = "publish" THEN set.binding ELSE revs[set.head].binding
<1> DEFINE b == IF call[c].op = "publish" THEN set.binding ELSE revs[set.head].binding
           r == [call[c] EXCEPT !.binding = b, !.at = "open"]
<1>1. call[c] \in CallRecord /\ At(c, "binding") /\ CallInv(c)
  BY SetTyped DEF Typed, PlaceInv, ReadBinding
<1>2. b \in Bindings
  <2>1. CASE call[c].op = "publish"
    BY <2>1, SetTyped DEF Typed
  <2>2. CASE call[c].op # "publish"
    <3>1. set.head \in 1 .. Len(revs)
      BY <1>1, <2>2, SetTyped DEF Typed, CallInv, Place, At, NoCall
    <3> QED
      BY <3>1, <2>2, RevTyped DEF Typed
  <2> QED
    BY <2>1, <2>2
<1> HIDE DEF b
<1>3. r \in CallRecord /\ call' = [call EXCEPT ![c] = r]
  BY <1>1, <1>2 DEF ReadBinding, b, CallRecord, Steps
<1>4. /\ r.at = "open" /\ r.was = call[c].was /\ r.files = call[c].files /\ r.binding = b
      /\ r.rev = call[c].rev /\ r.keep = call[c].keep /\ r.op = call[c].op
      /\ r.paths = call[c].paths
  BY <1>1 DEF CallRecord
<1> HIDE DEF r
<1>5. To(c, "open", call[c].was, call[c].files, b, call[c].rev, call[c].keep)
  BY <1>3, <1>4, CallSet, SetTyped DEF To, Typed
<1> QED
  BY <1>2, <1>5 DEF b

LEMMA OpenSetTo ==
    ASSUME Typed, NEW c \in Calls, OpenSet(c)
    PROVE  To(c, "save", set, call[c].files, call[c].binding, call[c].rev, call[c].keep)
<1> DEFINE r == [call[c] EXCEPT !.was = set, !.at = "save"]
<1>1. call[c] \in CallRecord /\ set \in SetRecord
  BY SetTyped DEF Typed
<1>3. r \in CallRecord /\ call' = [call EXCEPT ![c] = r]
  BY <1>1 DEF OpenSet, CallRecord, Steps
<1>4. /\ r.at = "save" /\ r.was = set /\ r.files = call[c].files /\ r.binding = call[c].binding
      /\ r.rev = call[c].rev /\ r.keep = call[c].keep /\ r.op = call[c].op
      /\ r.paths = call[c].paths
  BY <1>1 DEF CallRecord
<1> HIDE DEF r
<1> QED
  BY <1>3, <1>4, CallSet, SetTyped DEF To, Typed

LEMMA SaveRevisionTo ==
    ASSUME Typed, NEW c \in Calls, SaveRevision(c)
    PROVE  To(c, "head", call[c].was, call[c].files, call[c].binding, Len(revs) + 1, call[c].keep)
<1> DEFINE n == Len(revs) + 1
           r == [call[c] EXCEPT !.rev = n, !.at = "head"]
<1>1. call[c] \in CallRecord /\ n \in Nat
  BY SetTyped DEF Typed
<1>2. call' = [call EXCEPT ![c].rev = n, ![c].at = "head"]
  BY DEF SaveRevision
<1> HIDE DEF n
<1>3. r \in CallRecord /\ call' = [call EXCEPT ![c] = r]
  BY <1>1, <1>2 DEF CallRecord, Steps
<1>4. /\ r.at = "head" /\ r.was = call[c].was /\ r.files = call[c].files
      /\ r.binding = call[c].binding
      /\ r.rev = n /\ r.keep = call[c].keep /\ r.op = call[c].op
      /\ r.paths = call[c].paths
  BY <1>1 DEF CallRecord
<1> HIDE DEF r
<1> QED
  BY <1>3, <1>4, CallSet, SetTyped DEF To, Typed, n

LEMMA SetHeadTo ==
    ASSUME Typed, NEW c \in Calls, SetHead(c) PROVE Moved(c, AfterHead(call[c].op))
<1>1. AfterHead(call[c].op) \in Steps
  BY DEF AfterHead, Steps
<1> QED
  BY <1>1, GotoMoves, SetTyped DEF SetHead, Typed

LEMMA ReadDraftTo ==
    ASSUME Typed, NEW c \in Calls, ReadDraft(c)
    PROVE  \E f \in FileLists :
              /\ To(c, "savedraft", set, f, call[c].binding, call[c].rev, call[c].keep)
              /\ call[c].op = "rollback" => f = call[c].files
              /\ call[c].op # "rollback" =>
                    \A p \in Paths : f[p] = IF p \in call[c].paths THEN call[c].files[p]
                                            ELSE set.draft[p]
<1> DEFINE f == IF call[c].op = "rollback" THEN call[c].files
                ELSE Adopting(set.draft, call[c].files, call[c].paths)
           r == [call[c] EXCEPT !.was = set, !.at = "savedraft", !.files = f]
<1>1. call[c] \in CallRecord /\ set \in SetRecord /\ set.draft \in FileLists
  BY SetTyped DEF Typed
<1>2. call[c].files \in FileLists /\ call[c].op \in Ops
  BY <1>1, CallTyped
<1>3. /\ f \in FileLists
      /\ call[c].op = "rollback" => f = call[c].files
      /\ call[c].op # "rollback" =>
            \A p \in Paths : f[p] = IF p \in call[c].paths THEN call[c].files[p] ELSE set.draft[p]
  BY <1>1, <1>2, AdoptingTyped
<1>4. call' = [call EXCEPT ![c].was = set, ![c].at = "savedraft", ![c].files = f]
  BY <1>1 DEF ReadDraft
<1> HIDE DEF f
<1>5. r \in CallRecord /\ call' = [call EXCEPT ![c] = r]
  BY <1>1, <1>3, <1>4 DEF CallRecord, Steps
<1>6. /\ r.at = "savedraft" /\ r.was = set /\ r.files = f /\ r.binding = call[c].binding
      /\ r.rev = call[c].rev /\ r.keep = call[c].keep /\ r.op = call[c].op
      /\ r.paths = call[c].paths
  BY <1>1 DEF CallRecord
<1> HIDE DEF r
<1>7. To(c, "savedraft", set, f, call[c].binding, call[c].rev, call[c].keep)
  BY <1>5, <1>6, CallSet, SetTyped DEF To, Typed
<1> QED
  BY <1>3, <1>7

LEMMA CheckBindingTo ==
    ASSUME Typed, NEW c \in Calls, CheckBinding(c)
    PROVE  \E w \in SetRecord :
              /\ To(c, "savebinding", w, call[c].files, call[c].binding, call[c].rev, call[c].keep)
              /\ w.head = call[c].was.head /\ w.provider = call[c].was.provider
              /\ w.draft = call[c].was.draft /\ w.binding = set.binding
<1> DEFINE w == [call[c].was EXCEPT !.binding = set.binding]
           r == [call[c] EXCEPT !.was = w, !.at = "savebinding"]
<1>1. call[c] \in CallRecord /\ call[c].was \in SetRecord /\ set.binding \in Bindings
  BY SetTyped, CallTyped DEF Typed
<1>2. /\ w \in SetRecord /\ w.head = call[c].was.head /\ w.provider = call[c].was.provider
      /\ w.draft = call[c].was.draft /\ w.binding = set.binding
  BY <1>1 DEF SetRecord
<1>4. call' = [call EXCEPT ![c] = r]
  BY <1>1 DEF CheckBinding, CallRecord, SetRecord
<1> HIDE DEF w
<1>5. r \in CallRecord
  BY <1>1, <1>2 DEF CallRecord, Steps
<1>6. /\ r.at = "savebinding" /\ r.was = w /\ r.files = call[c].files
      /\ r.binding = call[c].binding /\ r.rev = call[c].rev /\ r.keep = call[c].keep
      /\ r.op = call[c].op /\ r.paths = call[c].paths
  BY <1>1 DEF CallRecord
<1> HIDE DEF r
<1>7. To(c, "savebinding", w, call[c].files, call[c].binding, call[c].rev, call[c].keep)
  BY <1>4, <1>5, <1>6, CallSet, SetTyped DEF To, Typed
<1> QED
  BY <1>2, <1>7

-----------------------------------------------------------------------------
(* Types.                                                                  *)

Mishaps == {"overlap", "crossed", "clobbered", "stale", "unprovided", "crashed"}

\* The call that takes a step, as it is afterwards.
Sound(l) ==
    /\ l.rev <= Len(revs) /\ l.was.head <= Len(revs)
    /\ Place(l)
    /\ l.at = "put" => FilesPut(l) \subseteq Contents
    /\ l.at = "head" => l.rev # 0
    /\ l.op = "adopt" => set.head # 0

\* The variables other than the calls.
RecordsTyped ==
    /\ set \in SetRecord /\ revs \in Seq(Revision) /\ set.head <= Len(revs)
    /\ other \in FileLists /\ blobs \subseteq Contents /\ drift \in FileLists
    /\ provs \subseteq Providers
    /\ told \in 0 .. Len(revs) /\ adopted \in FileLists
    /\ mishaps \subseteq Mishaps

LEMMA TypedIs ==
    Typed <=> /\ RecordsTyped /\ call \in [Calls -> CallRecord]
              /\ \A c \in Calls : Sound(call[c])
BY DEF Typed, TypeOK, RecordsTyped, PlaceInv, CallInv, Sound, At, Mishaps

LEMMA TypedNext ==
    ASSUME RecordsTyped', call' \in [Calls -> CallRecord], \A c \in Calls : Sound(call[c])'
    PROVE  Typed'
BY DEF Typed, TypeOK, RecordsTyped, PlaceInv, CallInv, Sound, At, Mishaps

LEMMA OneStep ==
    ASSUME Typed, NEW c \in Calls, OthersSame(c), call' \in [Calls -> CallRecord], RecordsTyped',
           Len(revs) <= Len(revs'), set.head # 0 => set'.head # 0, Sound(call[c])'
    PROVE  Typed'
<1>1. ASSUME NEW d \in Calls \ {c} PROVE Sound(call[d])'
  <2>1. call'[d] = call[d] /\ Sound(call[d]) /\ call[d] \in CallRecord
    BY TypedIs DEF OthersSame
  <2>2. /\ call[d].rev \in Nat /\ call[d].was.head \in Nat /\ Len(revs) \in Nat /\ Len(revs') \in Nat
    BY <2>1, CallTyped, TypedIs DEF RecordsTyped
  <2> QED
    BY <2>1, <2>2 DEF Sound, FilesPut, Place, NoCall
<1> QED
  BY <1>1, TypedNext

\* What a step leaves alone keeps its type.
LEMMA SameRecords ==
    ASSUME Typed, UNCHANGED <<set, revs, other, blobs, drift, provs, told, adopted>>,
           mishaps' \subseteq Mishaps
    PROVE  RecordsTyped' /\ Len(revs) <= Len(revs') /\ set' = set /\ revs' = revs
BY TypedIs DEF RecordsTyped

LEMMA NoCallSound == Typed => Sound(NoCall)
BY TypedIs, NoCallTyped DEF RecordsTyped, Sound, Place

LEMMA NoCallSoundNext == RecordsTyped' => Sound(NoCall)'
BY NoCallTyped DEF RecordsTyped, Sound, Place, NoCall, EmptySet, FilesPut

LEMMA Overlapping ==
    ASSUME Typed, NEW c, NEW l, Begin(c, l) PROVE mishaps' \subseteq Mishaps
BY TypedIs DEF Begin, RecordsTyped, Mishaps

LEMMA BeginsTyped ==
    ASSUME Typed, NEW c \in Calls, NEW l, Begins(c, l) PROVE Typed'
<1>1. /\ call' \in [Calls -> CallRecord] /\ OthersSame(c) /\ call'[c] = l /\ l \in CallRecord
  BY CallSet, TypedIs DEF Begins, Begin, Begun
<1>2. RecordsTyped' /\ Len(revs) <= Len(revs') /\ set' = set /\ revs' = revs
  <2>1. other' \in FileLists
    BY TypedIs, NoCallTyped DEF Begins, RecordsTyped
  <2> QED
    BY <2>1, Overlapping, TypedIs DEF Begins, RecordsTyped
<1>3. Sound(call[c])'
  <2>1. /\ l.rev <= Len(revs) /\ l.was.head <= Len(revs)
    BY TypedIs, NoCallTyped DEF Begins, Begun, RecordsTyped
  <2>2. Place(l) /\ l.at # "head" /\ (l.op = "adopt" => set.head # 0)
    BY DEF Begins, Begun, Place
  <2>3. l.at = "put" => FilesPut(l) \subseteq Contents
    <3>1. ASSUME l.at = "put" PROVE None \notin FilesPut(l)
      BY <3>1 DEF Begins, Begun
    <3>2. FilesPut(l) \subseteq Contents \cup {None}
      BY <1>1, CallTyped DEF FilesPut, FileLists
    <3> QED
      BY <3>1, <3>2
  <2> QED
    BY <1>1, <1>2, <2>1, <2>2, <2>3 DEF Sound, FilesPut, Place, NoCall
<1> QED
  BY <1>1, <1>2, <1>3, OneStep

\* Facts about the call that takes a step.
LEMMA CallFacts ==
    ASSUME Typed, NEW c \in Calls
    PROVE  /\ call[c] \in CallRecord /\ Sound(call[c])
           /\ call[c].op \in Ops /\ call[c].at \in Steps /\ call[c].was \in SetRecord
           /\ call[c].files \in FileLists /\ call[c].binding \in Bindings
           /\ call[c].paths \in SUBSET Paths /\ call[c].rev \in Nat
           /\ call[c].keep \in SUBSET Contents /\ call[c].was.head \in Nat
           /\ Len(revs) \in Nat /\ set \in SetRecord /\ set.head \in Nat /\ set.head <= Len(revs)
           /\ mishaps \subseteq Mishaps /\ revs \in Seq(Revision)
BY TypedIs, CallTyped, SetTyped DEF Typed, RecordsTyped

LEMMA ReadBindingTyped == ASSUME Typed, NEW c \in Calls, ReadBinding(c) PROVE Typed'
<1>1. PICK b \in Bindings : To(c, "open", call[c].was, call[c].files, b, call[c].rev, call[c].keep)
  BY ReadBindingTo
<1>2. RecordsTyped' /\ Len(revs) <= Len(revs') /\ set' = set /\ revs' = revs
  BY SameRecords, CallFacts DEF ReadBinding
<1>3. Sound(call[c])'
  BY <1>1, <1>2, CallFacts DEF Sound, To, ReadBinding, At, Place, NoCall
<1> QED
  BY <1>1, <1>2, <1>3, OneStep DEF To

LEMMA PutTyped == ASSUME Typed, NEW c \in Calls, Put(c) PROVE Typed'
<1> DEFINE at == IF call[c].op = "report" THEN "event" ELSE "savedraft"
<1>1. Moved(c, at)
  BY GotoMoves, TypedIs DEF Put, Steps
<1>2. RecordsTyped' /\ Len(revs) <= Len(revs') /\ set' = set /\ revs' = revs
  BY TypedIs, CallFacts DEF Put, RecordsTyped, Sound, FilesPut, At
<1>3. Sound(call[c])'
  BY <1>1, <1>2, CallFacts DEF Sound, Moved, To, Put, At, Place, NoCall
<1> QED
  BY <1>1, <1>2, <1>3, OneStep DEF Moved, To

LEMMA OpenSetTyped == ASSUME Typed, NEW c \in Calls, OpenSet(c) PROVE Typed'
<1>1. To(c, "save", set, call[c].files, call[c].binding, call[c].rev, call[c].keep)
  BY OpenSetTo
<1>2. RecordsTyped' /\ Len(revs) <= Len(revs') /\ set' = set /\ revs' = revs
  BY SameRecords, CallFacts DEF OpenSet, Mishaps
<1>3. Sound(call[c])'
  BY <1>1, <1>2, CallFacts DEF Sound, To, OpenSet, At, Place, NoCall
<1> QED
  BY <1>1, <1>2, <1>3, OneStep DEF To

LEMMA SaveRevisionTyped == ASSUME Typed, NEW c \in Calls, SaveRevision(c) PROVE Typed'
<1>1. To(c, "head", call[c].was, call[c].files, call[c].binding, Len(revs) + 1, call[c].keep)
  BY SaveRevisionTo
<1> DEFINE r == [files |-> call[c].files, binding |-> call[c].binding]
<1>2. r \in Revision /\ revs' = Append(revs, r)
  BY CallFacts DEF SaveRevision, Revision
<1> HIDE DEF r
<1>3. revs' \in Seq(Revision) /\ Len(revs') = Len(revs) + 1
  BY <1>2, CallFacts, AppendProperties
<1>4. RecordsTyped' /\ Len(revs) <= Len(revs') /\ set' = set
  BY <1>3, TypedIs, CallFacts DEF SaveRevision, RecordsTyped
<1>5. Sound(call[c])'
  BY <1>1, <1>3, <1>4, CallFacts DEF Sound, To, SaveRevision, At, Place, NoCall
<1> QED
  BY <1>1, <1>4, <1>5, OneStep DEF To

LEMMA HeadedIs ==
    ASSUME Typed, NEW c \in Calls, SetHead(c)
    PROVE  /\ set' \in SetRecord /\ set'.head = call[c].rev /\ set'.draft = set.draft
           /\ set'.binding = set.binding
           /\ set'.provider = IF call[c].binding = call[c].was.provider THEN set.provider
                              ELSE call[c].binding
<1>1. call[c].rev \in Nat /\ call[c].binding \in Bindings /\ set \in SetRecord
  BY CallFacts
<1> QED
  BY <1>1 DEF SetHead, Headed, Written, SetRecord

LEMMA SetHeadTyped == ASSUME Typed, NEW c \in Calls, SetHead(c) PROVE Typed'
<1>1. Moved(c, AfterHead(call[c].op))
  BY SetHeadTo
<1>2. adopted' \in FileLists
  BY TypedIs, CallFacts, AdoptingTyped, NoCallTyped DEF SetHead, RecordsTyped
<1>3. mishaps' \subseteq Mishaps
  BY CallFacts DEF SetHead, Mishaps
<1>4. call[c].rev <= Len(revs) /\ call[c].rev # 0
  BY CallFacts DEF Sound, SetHead, At
<1>5. RecordsTyped' /\ Len(revs) <= Len(revs') /\ revs' = revs
  BY <1>2, <1>3, <1>4, HeadedIs, TypedIs, CallFacts DEF SetHead, RecordsTyped
<1>6. Sound(call[c])'
  BY <1>1, <1>4, <1>5, HeadedIs, CallFacts DEF Sound, Moved, To, SetHead, At, Place, NoCall, AfterHead
<1> QED
  BY <1>1, <1>4, <1>5, <1>6, HeadedIs, OneStep DEF Moved, To

LEMMA ReadDraftTyped == ASSUME Typed, NEW c \in Calls, ReadDraft(c) PROVE Typed'
<1>1. PICK f \in FileLists : To(c, "savedraft", set, f, call[c].binding, call[c].rev, call[c].keep)
  BY ReadDraftTo
<1>2. RecordsTyped' /\ Len(revs) <= Len(revs') /\ set' = set /\ revs' = revs
  BY SameRecords, CallFacts DEF ReadDraft
<1>3. Sound(call[c])'
  BY <1>1, <1>2, CallFacts DEF Sound, To, ReadDraft, At, Place, NoCall
<1> QED
  BY <1>1, <1>2, <1>3, OneStep DEF To

\* Where SaveDraft and SaveBinding lead.
LEMMA SaveDraftTo ==
    ASSUME Typed, NEW c \in Calls, SaveDraft(c)
    PROVE  IF call[c].op = "edit" THEN Gone(c)
           ELSE Moved(c, IF call[c].op = "rollback" THEN "bind" ELSE "mark")
BY EndGone, GotoMoves, TypedIs DEF SaveDraft, Steps

LEMMA SaveBindingTo ==
    ASSUME Typed, NEW c \in Calls, SaveBinding(c)
    PROVE  IF call[c].op = "bind" THEN Gone(c)
           ELSE Moved(c, IF call[c].op = "rollback" THEN "notify" ELSE "open")
BY EndGone, GotoMoves, TypedIs DEF SaveBinding, Steps

LEMMA DraftIs ==
    ASSUME Typed, NEW c \in Calls, SaveDraft(c)
    PROVE  /\ set' \in SetRecord /\ set'.head = set.head /\ set'.provider = set.provider
           /\ set'.binding = set.binding
           /\ set'.draft = IF call[c].files = call[c].was.draft THEN set.draft ELSE call[c].files
<1>1. call[c].files \in FileLists /\ set \in SetRecord
  BY CallFacts
<1> QED
  BY <1>1 DEF SaveDraft, Written, SetRecord

LEMMA BindingIs ==
    ASSUME Typed, NEW c \in Calls, SaveBinding(c)
    PROVE  /\ set' \in SetRecord /\ set'.head = set.head /\ set'.provider = set.provider
           /\ set'.draft = set.draft
           /\ set'.binding = IF call[c].binding = call[c].was.binding THEN set.binding
                             ELSE call[c].binding
<1>1. call[c].binding \in Bindings /\ set \in SetRecord
  BY CallFacts
<1> QED
  BY <1>1 DEF SaveBinding, Written, SetRecord

LEMMA SaveDraftTyped == ASSUME Typed, NEW c \in Calls, SaveDraft(c) PROVE Typed'
<1>1. adopted' \in FileLists
  BY TypedIs, CallFacts, AdoptingTyped, NoCallTyped DEF SaveDraft, RecordsTyped
<1>2. mishaps' \subseteq Mishaps
  BY CallFacts DEF SaveDraft, Mishaps
<1>3. RecordsTyped' /\ Len(revs) <= Len(revs') /\ revs' = revs
  BY <1>1, <1>2, DraftIs, TypedIs, CallFacts DEF SaveDraft, RecordsTyped
<1>4. Sound(call[c])' /\ OthersSame(c) /\ call' \in [Calls -> CallRecord]
  <2>1. CASE call[c].op = "edit"
    BY <1>3, <2>1, SaveDraftTo, NoCallSoundNext DEF Gone
  <2>2. CASE call[c].op # "edit"
    BY <1>3, <2>2, SaveDraftTo, DraftIs, CallFacts DEF Sound, Moved, To, SaveDraft, At, Place, NoCall
  <2> QED
    BY <2>1, <2>2
<1> QED
  BY <1>3, <1>4, DraftIs, OneStep

LEMMA SaveBindingTyped == ASSUME Typed, NEW c \in Calls, SaveBinding(c) PROVE Typed'
<1>3. RecordsTyped' /\ Len(revs) <= Len(revs') /\ revs' = revs
  BY BindingIs, TypedIs, CallFacts DEF SaveBinding, RecordsTyped
<1>4. Sound(call[c])' /\ OthersSame(c) /\ call' \in [Calls -> CallRecord]
  <2>1. CASE call[c].op = "bind"
    BY <1>3, <2>1, SaveBindingTo, NoCallSoundNext DEF Gone
  <2>2. CASE call[c].op # "bind"
    BY <1>3, <2>2, SaveBindingTo, BindingIs, CallFacts
    DEF Sound, Moved, To, SaveBinding, At, Place, NoCall
  <2> QED
    BY <2>1, <2>2
<1> QED
  BY <1>3, <1>4, BindingIs, OneStep

LEMMA CheckBindingTyped == ASSUME Typed, NEW c \in Calls, CheckBinding(c) PROVE Typed'
<1>1. PICK w \in SetRecord :
        /\ To(c, "savebinding", w, call[c].files, call[c].binding, call[c].rev, call[c].keep)
        /\ w.head = call[c].was.head
  BY CheckBindingTo
<1>2. RecordsTyped' /\ Len(revs) <= Len(revs') /\ set' = set /\ revs' = revs
  BY SameRecords, CallFacts DEF CheckBinding
<1>3. Sound(call[c])'
  BY <1>1, <1>2, CallFacts DEF Sound, To, CheckBinding, At, Place, NoCall
<1> QED
  BY <1>1, <1>2, <1>3, OneStep DEF To

\* The steps that end a call, and do nothing or one thing besides.
Ending(c) ==
    \/ RefuseFiles(c) \/ RefuseBinding(c) \/ Notify(c) \/ SaveEvent(c) \/ SaveClone(c)
    \/ Delete(c) \/ Sweep(c)

LEMMA EndingGone ==
    ASSUME Typed, NEW c \in Calls, Ending(c)
    PROVE  Gone(c) /\ UNCHANGED <<set, revs, adopted, mishaps>>
BY EndGone, TypedIs
DEF Ending, RefuseFiles, RefuseBinding, Notify, SaveEvent, SaveClone, Delete, Sweep

LEMMA EndingTyped == ASSUME Typed, NEW c \in Calls, Ending(c) PROVE Typed'
<1>1. drift' \in FileLists
  <2>1. drift \in FileLists /\ call[c].files \in FileLists
    BY TypedIs, CallFacts DEF RecordsTyped
  <2> QED
    BY <2>1, AdoptingTyped
    DEF Ending, RefuseFiles, RefuseBinding, Notify, SaveEvent, SaveClone, Delete, Sweep
<1>2. other' \in FileLists /\ blobs' \subseteq Contents /\ provs' \subseteq Providers
  BY TypedIs, CallFacts
  DEF Ending, RefuseFiles, RefuseBinding, Notify, SaveEvent, SaveClone, Delete, Sweep, RecordsTyped
<1>3. told' \in 0 .. Len(revs)
  BY TypedIs, CallFacts
  DEF Ending, RefuseFiles, RefuseBinding, Notify, SaveEvent, SaveClone, Delete, Sweep, RecordsTyped
<1>4. RecordsTyped' /\ Len(revs) <= Len(revs') /\ set' = set
  BY <1>1, <1>2, <1>3, EndingGone, TypedIs, CallFacts DEF RecordsTyped
<1> QED
  BY <1>4, EndingGone, NoCallSoundNext, OneStep DEF Gone

LEMMA MarkTyped == ASSUME Typed, NEW c \in Calls, Mark(c) PROVE Typed'
<1>1. Moved(c, "notify")
  BY GotoMoves, TypedIs DEF Mark, Steps
<1>2. drift' \in FileLists
  BY TypedIs DEF Mark, RecordsTyped, FileLists
<1>3. RecordsTyped' /\ Len(revs) <= Len(revs') /\ set' = set /\ revs' = revs
  BY <1>2, TypedIs, CallFacts DEF Mark, RecordsTyped
<1>4. Sound(call[c])'
  BY <1>1, <1>3, CallFacts DEF Sound, Moved, To, Mark, At, Place, NoCall
<1> QED
  BY <1>1, <1>3, <1>4, OneStep DEF Moved, To

LEMMA ContentsTyped == ASSUME NEW f \in FileLists PROVE ContentsOf(f) \subseteq Contents
BY DEF ContentsOf, FileLists

LEMMA InUseTyped ==
    Typed => InRevisions \subseteq Contents /\ InDrafts \subseteq Contents
             /\ ContentsOf(drift) \subseteq Contents
BY TypedIs, SetTyped, RevTyped, ContentsTyped DEF Typed, RecordsTyped, InRevisions, InDrafts

LEMMA CollectTo ==
    ASSUME Typed, NEW c \in Calls
    PROVE  /\ CollectRevisions(c) =>
                To(c, "drafts", call[c].was, call[c].files, call[c].binding, call[c].rev, InRevisions)
           /\ CollectDrafts(c) =>
                To(c, "sweep", call[c].was, call[c].files, call[c].binding, call[c].rev,
                   call[c].keep \cup InDrafts \cup ContentsOf(drift))
<1>1. ASSUME NEW at \in Steps, NEW keep \in SUBSET Contents,
             call' = [call EXCEPT ![c].keep = keep, ![c].at = at]
      PROVE  To(c, at, call[c].was, call[c].files, call[c].binding, call[c].rev, keep)
  <2> DEFINE r == [call[c] EXCEPT !.keep = keep, !.at = at]
  <2>1. r \in CallRecord /\ call' = [call EXCEPT ![c] = r]
    BY <1>1, CallFacts DEF CallRecord
  <2>2. /\ r.at = at /\ r.was = call[c].was /\ r.files = call[c].files /\ r.binding = call[c].binding
        /\ r.rev = call[c].rev /\ r.keep = keep /\ r.op = call[c].op
        /\ r.paths = call[c].paths
    BY CallFacts DEF CallRecord
  <2> HIDE DEF r
  <2> QED
    BY <2>1, <2>2, CallSet, TypedIs DEF To
<1>2. ASSUME CollectRevisions(c)
      PROVE  To(c, "drafts", call[c].was, call[c].files, call[c].binding, call[c].rev, InRevisions)
  BY <1>1, <1>2, InUseTyped DEF CollectRevisions, Steps
<1>3. ASSUME CollectDrafts(c)
      PROVE  To(c, "sweep", call[c].was, call[c].files, call[c].binding, call[c].rev,
                call[c].keep \cup InDrafts \cup ContentsOf(drift))
  <2> DEFINE keep == call[c].keep \cup InDrafts \cup ContentsOf(drift)
  <2>1. keep \in SUBSET Contents
    BY InUseTyped, CallFacts
  <2>2. call' = [call EXCEPT ![c].keep = keep, ![c].at = "sweep"]
    BY <1>3, CallFacts DEF CollectDrafts
  <2> HIDE DEF keep
  <2>3. To(c, "sweep", call[c].was, call[c].files, call[c].binding, call[c].rev, keep)
    BY <2>1, <2>2, <1>1 DEF Steps
  <2> QED
    BY <2>3 DEF keep
<1> QED
  BY <1>2, <1>3

LEMMA CollectTyped ==
    ASSUME Typed, NEW c \in Calls, CollectRevisions(c) \/ CollectDrafts(c) PROVE Typed'
<1>1. PICK at \in {"drafts", "sweep"} :
        \E keep : To(c, at, call[c].was, call[c].files, call[c].binding, call[c].rev, keep)
  BY CollectTo
<1>2. RecordsTyped' /\ Len(revs) <= Len(revs') /\ set' = set /\ revs' = revs
  BY SameRecords, CallFacts DEF CollectRevisions, CollectDrafts
<1>3. call[c].op = "purge"
  BY CallFacts DEF CollectRevisions, CollectDrafts, At, Sound, Place, NoCall
<1>4. Sound(call[c])'
  BY <1>1, <1>2, <1>3, CallFacts DEF Sound, To, Place, NoCall
<1> QED
  BY <1>1, <1>2, <1>4, OneStep DEF To

LEMMA CrashTyped == ASSUME Typed, Crash PROVE Typed'
<1>1. call' = [c \in Calls |-> NoCall] /\ call' \in [Calls -> CallRecord]
  BY NoCallTyped DEF Crash
<1>2. RecordsTyped'
  BY SameRecords, TypedIs DEF Crash, RecordsTyped, Mishaps
<1>3. \A c \in Calls : Sound(call[c])'
  BY <1>1, <1>2, NoCallSoundNext DEF Sound, FilesPut, Place
<1> QED
  BY <1>1, <1>2, <1>3, TypedNext

LEMMA TypedInit == Init => Typed
<1> SUFFICES ASSUME Init PROVE Typed
  OBVIOUS
<1>1. RecordsTyped
  BY NoCallTyped, ContentsTyped DEF Init, RecordsTyped, Mishaps
<1>2. call \in [Calls -> CallRecord] /\ \A c \in Calls : call[c] = NoCall
  BY NoCallTyped DEF Init
<1> QED
  BY <1>1, <1>2, TypedIs, NoCallTyped DEF Sound, Place, RecordsTyped, EmptySet

LEMMA TypedProceeds == ASSUME Typed, NEW c \in Calls, Proceed(c) PROVE Typed'
BY ReadBindingTyped, PutTyped, OpenSetTyped, SaveRevisionTyped, SetHeadTyped, ReadDraftTyped,
   SaveDraftTyped, CheckBindingTyped, SaveBindingTyped, MarkTyped, EndingTyped, CollectTyped
DEF Proceed, Ending

LEMMA TypedStep == Typed /\ [Next]_vars => Typed'
<1> SUFFICES ASSUME Typed, [Next]_vars PROVE Typed'
  OBVIOUS
<1>1. ASSUME NEW c \in Calls, Start(c) PROVE Typed'
  <2>1. PICK l : Begins(c, l)
    BY <1>1, Starts DEF Typed
  <2> QED
    BY <2>1, BeginsTyped
<1>2. ASSUME UNCHANGED vars PROVE Typed'
  BY <1>2 DEF vars, Typed, TypeOK, PlaceInv, CallInv, At, FilesPut, Place, NoCall
<1> QED
  BY <1>1, <1>2, TypedProceeds, CrashTyped DEF Next

\* Every value has its type, and every call is where a call of its kind can be.
THEOREM TypeCorrect == Spec => []TypeOK
<1>1. Typed => TypeOK
  BY DEF Typed
<1> QED
  BY <1>1, TypedInit, TypedStep, PTL DEF Spec

-----------------------------------------------------------------------------
(* The head: it advances, and head_provider is what it is bound to.        *)

\* A call about to save its head: its revision is newer than what it read, and
\* has been nobody's head so far.
RevInv(c) ==
    At(c, "head") =>
        /\ revs[call[c].rev].files = call[c].files
        /\ revs[call[c].rev].binding = call[c].binding
        /\ call[c].was.head < call[c].rev
        /\ call[c].rev # set.head
        /\ \A d \in Calls : call[d].was.head # call[c].rev
        /\ \A d \in Calls \ {c} : At(d, "head") => call[d].rev # call[c].rev

\* Who has read the head that still is one has read its provider with it.
WasInv(c) ==
    (At(c, "save") \/ At(c, "head")) /\ call[c].was.head = set.head =>
        call[c].was.provider = set.provider

HeadInv ==
    /\ Typed
    /\ \A c \in Calls : RevInv(c) /\ WasInv(c)
    /\ HeadProviderAgrees

LEMMA HeadInit == Init => HeadInv
<1> SUFFICES ASSUME Init PROVE HeadInv
  OBVIOUS
<1>1. \A c \in Calls : call[c] = NoCall
  BY DEF Init
<1>2. set.head = 0 /\ set.provider = None
  BY NoCallTyped DEF Init
<1> QED
  BY <1>1, <1>2, TypedInit, NoCallTyped DEF HeadInv, RevInv, WasInv, HeadProviderAgrees, At

\* The steps that leave head and revisions alone, and read at most the record anew.
SameHead ==
    /\ set'.head = set.head /\ set'.provider = set.provider /\ revs' = revs
    /\ mishaps \subseteq mishaps'
Wanders(c) ==
    /\ call'[c].at \in {"save", "head"} => call'[c] = call[c]
    /\ call'[c].was.head \in {call[c].was.head, set.head, 0}

LEMMA OtherWanders ==
    ASSUME Typed, NEW c \in Calls, OthersSame(c), Wanders(c) PROVE \A d \in Calls : Wanders(d)
BY DEF OthersSame, Wanders

LEMMA QuietHead ==
    ASSUME HeadInv, Typed', SameHead, \A d \in Calls : Wanders(d) PROVE HeadInv'
<1>1. ASSUME NEW c \in Calls PROVE RevInv(c)'
  <2> SUFFICES ASSUME At(c, "head")' PROVE RevInv(c)'
    BY DEF RevInv
  <2>1. call'[c] = call[c] /\ At(c, "head") /\ RevInv(c)
    BY DEF At, Wanders, HeadInv
  <2>2. call[c].rev # 0
    BY <2>1, CallFacts DEF HeadInv, Sound, At
  <2>3. \A d \in Calls : call'[d].was.head # call[c].rev
    BY <2>1, <2>2 DEF Wanders, RevInv
  <2>4. \A d \in Calls \ {c} : At(d, "head")' => call'[d].rev # call[c].rev
    BY <2>1 DEF Wanders, RevInv, At
  <2> QED
    BY <2>1, <2>3, <2>4 DEF RevInv, SameHead
<1>2. ASSUME NEW c \in Calls PROVE WasInv(c)'
  BY DEF WasInv, HeadInv, SameHead, Wanders, At
<1>3. HeadProviderAgrees'
  BY DEF HeadProviderAgrees, HeadInv, SameHead, Without
<1> QED
  BY <1>1, <1>2, <1>3 DEF HeadInv

LEMMA GoneWanders == ASSUME NEW c \in Calls, Gone(c) PROVE Wanders(c)
BY NoCallTyped DEF Gone, Wanders

LEMMA ToWanders ==
    ASSUME NEW c \in Calls, NEW at, NEW was, NEW f, NEW b, NEW n, NEW k,
           To(c, at, was, f, b, n, k), at \notin {"save", "head"},
           was.head \in {call[c].was.head, set.head, 0}
    PROVE  Wanders(c) /\ OthersSame(c)
BY DEF To, Wanders

LEMMA BeginHead == ASSUME HeadInv, NEW c \in Calls, NEW l, Begins(c, l) PROVE HeadInv'
<1>1. call'[c] = l /\ OthersSame(c)
  BY CallSet, TypedIs DEF Begins, Begin, Begun, HeadInv
<1>2. Wanders(c)
  BY <1>1, NoCallTyped DEF Begins, Begun, Wanders
<1>3. SameHead
  BY DEF Begins, Begin, SameHead
<1> QED
  BY <1>1, <1>2, <1>3, OtherWanders, QuietHead, BeginsTyped DEF HeadInv

\* The steps that only move within a call.
Moving(c) ==
    ReadBinding(c) \/ Put(c) \/ ReadDraft(c) \/ CheckBinding(c) \/ Mark(c)
    \/ CollectRevisions(c) \/ CollectDrafts(c)

LEMMA MovingWanders ==
    ASSUME Typed, NEW c \in Calls, Moving(c) PROVE Wanders(c) /\ OthersSame(c)
<1>1. CASE ReadBinding(c)
  BY <1>1, ReadBindingTo, ToWanders
<1>2. CASE Put(c)
  <2>1. Moved(c, IF call[c].op = "report" THEN "event" ELSE "savedraft")
    BY <1>2, GotoMoves, TypedIs DEF Put, Steps
  <2> QED
    BY <2>1, ToWanders DEF Moved
<1>3. CASE ReadDraft(c)
  BY <1>3, ReadDraftTo, ToWanders
<1>4. CASE CheckBinding(c)
  BY <1>4, CheckBindingTo, ToWanders
<1>5. CASE Mark(c)
  <2>1. Moved(c, "notify")
    BY <1>5, GotoMoves, TypedIs DEF Mark, Steps
  <2> QED
    BY <2>1, ToWanders DEF Moved
<1>6. CASE CollectRevisions(c)
  <2>1. To(c, "drafts", call[c].was, call[c].files, call[c].binding, call[c].rev, InRevisions)
    BY <1>6, CollectTo
  <2> QED
    BY <2>1, ToWanders
<1>7. CASE CollectDrafts(c)
  <2> DEFINE keep == call[c].keep \cup InDrafts \cup ContentsOf(drift)
  <2>1. To(c, "sweep", call[c].was, call[c].files, call[c].binding, call[c].rev, keep)
    BY <1>7, CollectTo
  <2> HIDE DEF keep
  <2> QED
    BY <2>1, ToWanders
<1> QED
  BY <1>1, <1>2, <1>3, <1>4, <1>5, <1>6, <1>7 DEF Moving

LEMMA MovingSameHead == ASSUME NEW c \in Calls, Moving(c) PROVE SameHead /\ set' = set
BY DEF Moving, SameHead, ReadBinding, Put, ReadDraft, CheckBinding, Mark, CollectRevisions,
       CollectDrafts

LEMMA SavingWanders ==
    ASSUME Typed, NEW c \in Calls, SaveDraft(c) \/ SaveBinding(c)
    PROVE  Wanders(c) /\ OthersSame(c) /\ SameHead
<1>1. CASE SaveDraft(c)
  <2>1. Wanders(c) /\ OthersSame(c)
    <3>1. CASE call[c].op = "edit"
      BY <1>1, <3>1, SaveDraftTo, GoneWanders DEF Gone
    <3>2. CASE call[c].op # "edit"
      BY <1>1, <3>2, SaveDraftTo, ToWanders DEF Moved
    <3> QED
      BY <3>1, <3>2
  <2> QED
    BY <1>1, <2>1, DraftIs DEF SameHead, SaveDraft
<1>2. CASE SaveBinding(c)
  <2>1. Wanders(c) /\ OthersSame(c)
    <3>1. CASE call[c].op = "bind"
      BY <1>2, <3>1, SaveBindingTo, GoneWanders DEF Gone
    <3>2. CASE call[c].op # "bind"
      BY <1>2, <3>2, SaveBindingTo, ToWanders DEF Moved
    <3> QED
      BY <3>1, <3>2
  <2> QED
    BY <1>2, <2>1, BindingIs DEF SameHead, SaveBinding
<1> QED
  BY <1>1, <1>2

LEMMA EndingHead == ASSUME HeadInv, NEW c \in Calls, Ending(c) PROVE HeadInv'
<1>1. Wanders(c) /\ OthersSame(c) /\ SameHead
  BY EndingGone, GoneWanders DEF HeadInv, Gone, SameHead
<1> QED
  BY <1>1, OtherWanders, QuietHead, EndingTyped DEF HeadInv

LEMMA MovingTyped == ASSUME Typed, NEW c \in Calls, Moving(c) PROVE Typed'
BY TypedProceeds DEF Moving, Proceed

LEMMA MovingHead == ASSUME HeadInv, NEW c \in Calls, Moving(c) PROVE HeadInv'
BY MovingWanders, MovingSameHead, OtherWanders, QuietHead, MovingTyped DEF HeadInv

LEMMA SavingHead == ASSUME HeadInv, NEW c \in Calls, SaveDraft(c) \/ SaveBinding(c) PROVE HeadInv'
BY SavingWanders, OtherWanders, QuietHead, SaveDraftTyped, SaveBindingTyped DEF HeadInv

LEMMA CrashHead == ASSUME HeadInv, Crash PROVE HeadInv'
<1>1. \A d \in Calls : Wanders(d)
  BY NoCallTyped DEF Crash, Wanders
<1>2. SameHead
  BY DEF Crash, SameHead
<1> QED
  BY <1>1, <1>2, QuietHead, CrashTyped DEF HeadInv

LEMMA OpenSetHead == ASSUME HeadInv, NEW c \in Calls, OpenSet(c) PROVE HeadInv'
<1>1. To(c, "save", set, call[c].files, call[c].binding, call[c].rev, call[c].keep) /\ Typed'
  BY OpenSetTo, OpenSetTyped DEF HeadInv
<1>2. UNCHANGED <<set, revs>> /\ mishaps \subseteq mishaps'
  BY DEF OpenSet
<1>3. ASSUME NEW d \in Calls PROVE RevInv(d)'
  <2> SUFFICES ASSUME At(d, "head")' PROVE RevInv(d)'
    BY DEF RevInv
  <2>1. d # c /\ call'[d] = call[d] /\ RevInv(d) /\ At(d, "head")
    BY <1>1 DEF At, To, OthersSame, HeadInv
  <2> QED
    BY <1>1, <1>2, <2>1 DEF RevInv, To, OthersSame, At
<1>4. ASSUME NEW d \in Calls PROVE WasInv(d)'
  BY <1>1, <1>2 DEF WasInv, HeadInv, To, OthersSame, At
<1>5. HeadProviderAgrees'
  BY <1>2 DEF HeadProviderAgrees, HeadInv, Without
<1> QED
  BY <1>1, <1>3, <1>4, <1>5 DEF HeadInv

LEMMA Appended ==
    ASSUME Typed, NEW c \in Calls, SaveRevision(c)
    PROVE  /\ Len(revs') = Len(revs) + 1
           /\ revs'[Len(revs) + 1] = [files |-> call[c].files, binding |-> call[c].binding]
           /\ \A n \in 1 .. Len(revs) : revs'[n] = revs[n]
           /\ UNCHANGED <<set, other, blobs, drift, provs, told, adopted, mishaps>>
<1> DEFINE r == [files |-> call[c].files, binding |-> call[c].binding]
<1>1. r \in Revision /\ revs' = Append(revs, r) /\ revs \in Seq(Revision)
  BY CallFacts DEF SaveRevision, Revision
<1> HIDE DEF r
<1>2. /\ Len(revs') = Len(revs) + 1 /\ revs'[Len(revs) + 1] = r
      /\ \A n \in 1 .. Len(revs) : revs'[n] = revs[n]
  BY <1>1, AppendProperties
<1> QED
  BY <1>2 DEF SaveRevision, r

LEMMA SaveRevisionHead == ASSUME HeadInv, NEW c \in Calls, SaveRevision(c) PROVE HeadInv'
<1>0. Typed
  BY DEF HeadInv
<1>1. /\ To(c, "head", call[c].was, call[c].files, call[c].binding, Len(revs) + 1, call[c].keep)
      /\ Typed'
  BY <1>0, SaveRevisionTo, SaveRevisionTyped
<1>2. \A d \in Calls : /\ call[d].rev \in Nat /\ call[d].rev <= Len(revs)
                       /\ call[d].was.head \in Nat /\ call[d].was.head <= Len(revs)
                       /\ call'[d].was = call[d].was
  BY <1>0, <1>1, CallFacts DEF Sound, To, OthersSame
<1>3. set' = set /\ mishaps' = mishaps /\ set.head \in Nat /\ set.head <= Len(revs) /\ Len(revs) \in Nat
  BY <1>0, Appended, CallFacts
<1>4. ASSUME NEW d \in Calls PROVE RevInv(d)'
  <2> SUFFICES ASSUME At(d, "head")' PROVE RevInv(d)'
    BY DEF RevInv
  <2>1. CASE d = c
    <3>1. call'[c].rev = Len(revs) + 1 /\ call'[c].files = call[c].files
          /\ call'[c].binding = call[c].binding
      BY <1>1 DEF To
    <3>2. \A e \in Calls \ {c} : call'[e].rev = call[e].rev
      BY <1>1 DEF To, OthersSame
    <3>3. revs'[Len(revs) + 1] = [files |-> call[c].files, binding |-> call[c].binding]
      BY <1>0, Appended
    <3>4. /\ Len(revs) + 1 # set.head /\ call[c].was.head < Len(revs) + 1
          /\ \A e \in Calls : call[e].was.head # Len(revs) + 1
          /\ \A e \in Calls : call[e].rev # Len(revs) + 1
      BY <1>2, <1>3
    <3> QED
      BY <1>2, <1>3, <2>1, <3>1, <3>2, <3>3, <3>4 DEF RevInv
  <2>2. CASE d # c
    <3>1. call'[d] = call[d] /\ RevInv(d) /\ At(d, "head") /\ call[d].rev # 0
      BY <1>0, <1>1, <2>2, CallFacts DEF At, To, OthersSame, HeadInv, Sound
    <3>2. revs'[call[d].rev] = revs[call[d].rev]
      <4>1. call[d].rev \in 1 .. Len(revs)
        BY <1>2, <1>3, <3>1
      <4> QED
        BY <1>0, <4>1, Appended
    <3>3. \A e \in Calls \ {d} : At(e, "head")' => call'[e].rev # call[d].rev
      <4> SUFFICES ASSUME NEW e \in Calls \ {d}, At(e, "head")' PROVE call'[e].rev # call[d].rev
        OBVIOUS
      <4>1. CASE e = c
        BY <1>1, <1>2, <1>3, <4>1 DEF To
      <4>2. CASE e # c
        BY <1>1, <3>1, <4>2 DEF To, OthersSame, RevInv, At
      <4> QED
        BY <4>1, <4>2
    <3> QED
      BY <1>2, <1>3, <3>1, <3>2, <3>3 DEF RevInv
  <2> QED
    BY <2>1, <2>2
<1>5. ASSUME NEW d \in Calls PROVE WasInv(d)'
  <2>1. CASE d = c
    BY <1>1, <1>3, <2>1 DEF WasInv, HeadInv, To, At, SaveRevision
  <2>2. CASE d # c
    BY <1>1, <1>3, <2>2 DEF WasInv, HeadInv, To, OthersSame, At
  <2> QED
    BY <2>1, <2>2
<1>6. HeadProviderAgrees'
  <2>1. set.head # 0 => revs'[set.head] = revs[set.head]
    <3>1. set.head # 0 => set.head \in 1 .. Len(revs)
      BY <1>3
    <3> QED
      BY <1>0, <3>1, Appended
  <2> QED
    BY <1>3, <2>1 DEF HeadProviderAgrees, HeadInv, Without
<1> QED
  BY <1>1, <1>4, <1>5, <1>6 DEF HeadInv

LEMMA SetHeadHead == ASSUME HeadInv, NEW c \in Calls, SetHead(c) PROVE HeadInv'
<1>0. Typed /\ RevInv(c) /\ WasInv(c) /\ At(c, "head")
  BY DEF HeadInv, SetHead
<1>1. Moved(c, AfterHead(call[c].op)) /\ Typed' /\ AfterHead(call[c].op) \notin {"head", "save"}
  BY <1>0, SetHeadTo, SetHeadTyped DEF AfterHead
<1>2. /\ set'.head = call[c].rev /\ revs' = revs
      /\ set'.provider = IF call[c].binding = call[c].was.provider THEN set.provider
                         ELSE call[c].binding
  BY <1>0, HeadedIs DEF SetHead
<1>3. \A d \in Calls : call'[d].was = call[d].was
  BY <1>1 DEF Moved, To, OthersSame
<1>4. ASSUME NEW d \in Calls PROVE RevInv(d)'
  <2> SUFFICES ASSUME At(d, "head")' PROVE RevInv(d)'
    BY DEF RevInv
  <2>1. d # c /\ call'[d] = call[d] /\ RevInv(d) /\ At(d, "head")
    BY <1>1 DEF At, Moved, To, OthersSame, HeadInv
  <2>2. \A e \in Calls \ {d} : At(e, "head")' => call'[e].rev # call[d].rev
    BY <1>1, <2>1 DEF At, Moved, To, OthersSame, RevInv
  <2> QED
    BY <1>0, <1>2, <1>3, <2>1, <2>2 DEF RevInv
<1>5. ASSUME NEW d \in Calls PROVE WasInv(d)'
  BY <1>0, <1>2, <1>3 DEF WasInv, RevInv
<1>6. HeadProviderAgrees'
  <2> SUFFICES ASSUME "crossed" \notin mishaps'
               PROVE  set'.provider = revs[call[c].rev].binding
    BY <1>0, <1>2, CallFacts DEF HeadProviderAgrees, Without, Sound, At
  <2>1. call[c].was.head = set.head
    BY DEF SetHead
  <2>2. call[c].was.provider = set.provider
    BY <1>0, <2>1 DEF WasInv
  <2> QED
    BY <1>0, <1>2, <2>2 DEF RevInv
<1> QED
  BY <1>1, <1>4, <1>5, <1>6 DEF HeadInv

LEMMA HeadStep == HeadInv /\ [Next]_vars => HeadInv'
<1> SUFFICES ASSUME HeadInv, [Next]_vars PROVE HeadInv'
  OBVIOUS
<1>1. ASSUME NEW c \in Calls, Start(c) PROVE HeadInv'
  <2>1. PICK l : Begins(c, l)
    BY <1>1, Starts DEF Typed, HeadInv
  <2> QED
    BY <2>1, BeginHead
<1>2. ASSUME NEW c \in Calls, Proceed(c) PROVE HeadInv'
  BY <1>2, MovingHead, SavingHead, EndingHead, OpenSetHead, SaveRevisionHead, SetHeadHead
  DEF Proceed, Moving, Ending
<1>3. ASSUME UNCHANGED vars PROVE HeadInv'
  <2>1. Typed'
    BY <1>3, TypedStep DEF HeadInv
  <2> QED
    BY <1>3, <2>1 DEF vars, HeadInv, RevInv, WasInv, HeadProviderAgrees, Without, At
<1> QED
  BY <1>1, <1>2, <1>3, CrashHead DEF Next

LEMMA HeadInvariant == Spec => []HeadInv
BY HeadInit, HeadStep, PTL DEF Spec

\* revisions/service.go against concurrent publications: what guards a provider from deletion is
\* what the head is bound to, unless two heads were saved across each other.
THEOREM HeadProviderIsBound == Spec => []HeadProviderAgrees
<1>1. HeadInv => HeadProviderAgrees
  BY DEF HeadInv
<1> QED
  BY <1>1, HeadInvariant, PTL

\* Only a publication that crosses another moves the head back.
LEMMA HeadStays ==
    ASSUME HeadInv, NEW c \in Calls, Start(c) \/ (Proceed(c) /\ ~SetHead(c))
    PROVE  set'.head = set.head
<1>1. CASE Start(c)
  <2>1. PICK l : Begins(c, l)
    BY <1>1, Starts DEF Typed, HeadInv
  <2> QED
    BY <2>1 DEF Begins
<1>2. CASE Proceed(c) /\ ~SetHead(c)
  BY <1>2, MovingSameHead, SavingWanders, EndingGone DEF Proceed, Moving, Ending, SameHead, HeadInv,
     OpenSet, SaveRevision
<1> QED
  BY <1>1, <1>2

\* The number a publication takes is above the head it has read, so the head goes back only when
\* somebody else moved it in between.
THEOREM HeadOnlyAdvances == Spec => HeadAdvances
<1>1. ASSUME HeadInv, [Next]_vars PROVE set'.head < set.head => "crossed" \in mishaps'
  <2>1. set.head \in Nat
    BY <1>1, SetTyped DEF HeadInv, Typed
  <2>2. ASSUME NEW c \in Calls, SetHead(c) PROVE set'.head < set.head => "crossed" \in mishaps'
    <3>1. /\ call[c].rev \in Nat /\ call[c].was.head \in Nat /\ call[c].was.head < call[c].rev
          /\ set'.head = call[c].rev
      BY <1>1, <2>2, CallFacts, HeadedIs DEF HeadInv, RevInv, SetHead
    <3>2. call[c].was.head # set.head => "crossed" \in mishaps'
      BY <2>2 DEF SetHead
    <3> QED
      BY <2>1, <3>1, <3>2
  <2>3. ASSUME Crash \/ UNCHANGED vars PROVE set'.head = set.head
    BY <2>3 DEF Crash, vars
  <2> QED
    BY <1>1, <2>1, <2>2, <2>3, HeadStays DEF Next
<1> QED
  BY <1>1, HeadInvariant, PTL DEF Spec, HeadAdvances

-----------------------------------------------------------------------------
(* Adopting and rebinding change what they are for.                        *)

\* What every step leaves as it is: old revisions, mishaps, and a head that has been left
\* does not come back.
Frame ==
    /\ \A n \in 1 .. Len(revs) : revs'[n] = revs[n]
    /\ mishaps \subseteq mishaps'
    /\ set'.head = set.head \/ \A d \in Calls : set'.head # call[d].was.head

LEMMA ProceedsFrame == ASSUME HeadInv, NEW c \in Calls, Proceed(c) PROVE Frame
<1>1. CASE SetHead(c)
  BY <1>1, HeadedIs DEF HeadInv, RevInv, SetHead, Frame
<1>2. CASE ~SetHead(c)
  <2>1. set'.head = set.head
    BY <1>2, HeadStays
  <2>2. CASE SaveRevision(c)
    BY <2>1, <2>2, Appended DEF HeadInv, Frame
  <2>3. CASE ~SaveRevision(c)
    BY <1>2, <2>1, <2>3, MovingSameHead, SavingWanders, EndingGone
    DEF Proceed, Moving, Ending, SameHead, HeadInv, OpenSet, Frame
  <2> QED
    BY <2>2, <2>3
<1> QED
  BY <1>1, <1>2

\* The files of a call outside the paths it adopts are those of the head it has read.
Borrowed(l) ==
    /\ l.was.head # 0
    /\ \A p \in Paths \ l.paths : l.files[p] = revs[l.was.head].files[p]

UntouchedInv(c) ==
    /\ call[c].op \in {"adopt", "rebind"}
         /\ call[c].at \in {"binding", "bind", "savebinding", "open"} => Borrowed(call[c])
    /\ call[c].op = "adopt" /\ call[c].at = "open" /\ call[c].was.head = set.head =>
           call[c].binding = revs[set.head].binding
    /\ call[c].op \in {"adopt", "rebind"} /\ call[c].at \in {"save", "head"}
         /\ "stale" \notin mishaps =>
           /\ Borrowed(call[c])
           /\ call[c].op = "adopt" => call[c].binding = revs[call[c].was.head].binding

LEMMA StillUntouched ==
    ASSUME Typed, NEW d \in Calls, Frame, call'[d] = call[d], UntouchedInv(d)
    PROVE  UntouchedInv(d)'
<1>1. call[d].was.head \in Nat /\ call[d].was.head <= Len(revs) /\ Len(revs) \in Nat
  BY CallFacts DEF Sound
<1>2. Borrowed(call[d]) => Borrowed(call[d])'
  BY <1>1 DEF Borrowed, Frame
<1>3. call[d].was.head # 0 => revs'[call[d].was.head] = revs[call[d].was.head]
  BY <1>1 DEF Frame
<1> QED
  BY <1>2, <1>3 DEF UntouchedInv, Frame, Borrowed

LEMMA BeginUntouched ==
    ASSUME Typed, NEW c \in Calls, NEW l, Begins(c, l) PROVE UntouchedInv(c)'
<1>1. call'[c] = l /\ UNCHANGED <<set, revs>>
  BY CallSet, TypedIs DEF Begins, Begin, Begun
<1> QED
  BY <1>1 DEF Begins, Begun, UntouchedInv, Borrowed

LEMMA ProceedUntouched ==
    ASSUME HeadInv, NEW c \in Calls, Proceed(c), UntouchedInv(c) PROVE UntouchedInv(c)'
<1>0. Typed
  BY DEF HeadInv
<1>a. call[c].was.head \in Nat /\ call[c].was.head <= Len(revs) /\ Len(revs) \in Nat
  BY <1>0, CallFacts DEF Sound
<1>b. Frame
  BY ProceedsFrame
<1>1. CASE ReadBinding(c)
  <2>1. PICK b \in Bindings :
          /\ To(c, "open", call[c].was, call[c].files, b, call[c].rev, call[c].keep)
          /\ b = IF call[c].op = "publish" THEN set.binding ELSE revs[set.head].binding
    BY <1>0, <1>1, ReadBindingTo
  <2>2. set' = set /\ revs' = revs
    BY <1>1 DEF ReadBinding
  <2> QED
    BY <1>1, <2>1, <2>2 DEF UntouchedInv, Borrowed, To, ReadBinding, At
<1>2. CASE OpenSet(c)
  <2>1. To(c, "save", set, call[c].files, call[c].binding, call[c].rev, call[c].keep)
    BY <1>0, <1>2, OpenSetTo
  <2>2. set' = set /\ revs' = revs /\ At(c, "open")
        /\ (call[c].op \in {"adopt", "rebind"} /\ call[c].was.head # set.head => "stale" \in mishaps')
    BY <1>2 DEF OpenSet
  <2> QED
    BY <2>1, <2>2 DEF UntouchedInv, Borrowed, To, At
<1>3. CASE SaveRevision(c)
  <2>1. To(c, "head", call[c].was, call[c].files, call[c].binding, Len(revs) + 1, call[c].keep)
    BY <1>0, <1>3, SaveRevisionTo
  <2>2. At(c, "save")
    BY <1>3 DEF SaveRevision
  <2> QED
    BY <1>a, <1>b, <2>1, <2>2 DEF UntouchedInv, Borrowed, To, At, Frame
<1>4. CASE SetHead(c)
  BY <1>0, <1>4, SetHeadTo DEF UntouchedInv, Moved, To, AfterHead
<1>5. CASE CheckBinding(c)
  <2>1. PICK w \in SetRecord :
          /\ To(c, "savebinding", w, call[c].files, call[c].binding, call[c].rev, call[c].keep)
          /\ w.head = call[c].was.head
    BY <1>0, <1>5, CheckBindingTo
  <2>2. set' = set /\ revs' = revs /\ At(c, "bind")
    BY <1>5 DEF CheckBinding
  <2> QED
    BY <2>1, <2>2 DEF UntouchedInv, Borrowed, To, At
<1>6. CASE SaveBinding(c)
  <2>1. CASE call[c].op = "bind"
    BY <1>0, <1>6, <2>1, SaveBindingTo, NoCallTyped DEF Gone, UntouchedInv
  <2>2. CASE call[c].op = "rollback"
    BY <1>0, <1>6, <2>2, SaveBindingTo DEF Moved, To, UntouchedInv
  <2>3. CASE call[c].op \notin {"bind", "rollback"}
    <3>1. Moved(c, "open") /\ revs' = revs /\ At(c, "savebinding")
      BY <1>0, <1>6, <2>3, SaveBindingTo DEF SaveBinding
    <3>2. call[c].op = "rebind"
      BY <1>0, <2>3, <3>1, CallFacts DEF Sound, Place, At, NoCall
    <3> QED
      BY <3>1, <3>2 DEF UntouchedInv, Borrowed, Moved, To, At
  <2> QED
    BY <2>1, <2>2, <2>3
<1>7. CASE SaveDraft(c)
  BY <1>0, <1>7, SaveDraftTo, CallFacts, NoCallTyped DEF Moved, To, Gone, UntouchedInv, SaveDraft,
     Sound, Place, At, NoCall
<1>8. CASE ReadDraft(c)
  <2>1. PICK f : To(c, "savedraft", set, f, call[c].binding, call[c].rev, call[c].keep)
    BY <1>0, <1>8, ReadDraftTo
  <2>2. call[c].op \notin {"rebind"}
    BY <1>0, <1>8, CallFacts DEF ReadDraft, Sound, Place, At, NoCall
  <2> QED
    BY <2>1, <2>2 DEF UntouchedInv, To
<1>9. CASE Put(c) \/ Mark(c)
  <2>1. Moved(c, "savedraft") \/ Moved(c, "event") \/ Moved(c, "notify")
    BY <1>0, <1>9, GotoMoves, TypedIs DEF Put, Mark, Steps
  <2> QED
    BY <2>1 DEF UntouchedInv, Moved, To
<1>10. CASE CollectRevisions(c) \/ CollectDrafts(c)
  <2>1. call[c].op = "purge"
    BY <1>0, <1>10, CallFacts DEF CollectRevisions, CollectDrafts, At, Sound, Place, NoCall
  <2>2. call'[c].op = call[c].op
    BY <1>0, <1>10, CollectTo DEF To
  <2> QED
    BY <2>1, <2>2 DEF UntouchedInv
<1>11. CASE Ending(c)
  BY <1>0, <1>11, EndingGone, NoCallTyped DEF Gone, UntouchedInv
<1> QED
  BY <1>1, <1>2, <1>3, <1>4, <1>5, <1>6, <1>7, <1>8, <1>9, <1>10, <1>11 DEF Proceed, Ending

LEMMA ProceedSame ==
    ASSUME Typed, NEW c \in Calls, Proceed(c) PROVE OthersSame(c)
<1>1. CASE Moving(c)
  BY <1>1, MovingWanders
<1>2. CASE SaveDraft(c) \/ SaveBinding(c)
  BY <1>2, SavingWanders
<1>3. CASE Ending(c)
  BY <1>3, EndingGone DEF Gone
<1>4. CASE OpenSet(c)
  BY <1>4, OpenSetTo DEF To
<1>5. CASE SaveRevision(c)
  BY <1>5, SaveRevisionTo DEF To
<1>6. CASE SetHead(c)
  BY <1>6, SetHeadTo DEF Moved, To
<1> QED
  BY <1>1, <1>2, <1>3, <1>4, <1>5, <1>6 DEF Proceed, Moving, Ending

AllUntouched == HeadInv /\ \A c \in Calls : UntouchedInv(c)

LEMMA UntouchedInit == Init => AllUntouched
BY HeadInit, NoCallTyped DEF AllUntouched, UntouchedInv, Init

LEMMA UntouchedStep == AllUntouched /\ [Next]_vars => AllUntouched'
<1> SUFFICES ASSUME AllUntouched, [Next]_vars PROVE \A d \in Calls : UntouchedInv(d)'
  BY HeadStep DEF AllUntouched
<1>0. HeadInv /\ Typed /\ \A d \in Calls : UntouchedInv(d)
  BY DEF AllUntouched, HeadInv
<1>1. ASSUME NEW c \in Calls, Start(c) PROVE \A d \in Calls : UntouchedInv(d)'
  <2>1. PICK l : Begins(c, l)
    BY <1>0, <1>1, Starts DEF Typed
  <2>2. OthersSame(c) /\ Frame
    BY <1>0, <2>1, CallSet, TypedIs DEF Begins, Begin, Begun, Frame
  <2> QED
    BY <1>0, <2>1, <2>2, BeginUntouched, StillUntouched DEF OthersSame
<1>2. ASSUME NEW c \in Calls, Proceed(c) PROVE \A d \in Calls : UntouchedInv(d)'
  BY <1>0, <1>2, ProceedSame, ProceedsFrame, ProceedUntouched, StillUntouched DEF OthersSame
<1>3. ASSUME Crash PROVE \A d \in Calls : UntouchedInv(d)'
  BY <1>3, NoCallTyped DEF Crash, UntouchedInv
<1>4. ASSUME UNCHANGED vars PROVE \A d \in Calls : UntouchedInv(d)'
  BY <1>0, <1>4, StillUntouched DEF vars, Frame
<1> QED
  BY <1>1, <1>2, <1>3, <1>4 DEF Next

LEMMA UntouchedInvariant == Spec => []AllUntouched
BY UntouchedInit, UntouchedStep, PTL DEF Spec

\* drift/adopt.go and drift/binding.go: what they publish is made from the head, so neither another
\* file nor the binding changes with an adoption, and no file with a new binding, unless the head
\* moved in between.
THEOREM AdoptingTouchesItsPaths == Spec => OthersUntouched
<1> DEFINE Good(c) ==
              /\ \A p \in Paths \ call[c].paths :
                    revs[set'.head].files[p] = revs[set.head].files[p]
              /\ call[c].op = "adopt" => revs[set'.head].binding = revs[set.head].binding
<1>1. ASSUME AllUntouched, [Next]_vars, NEW c \in Calls, At(c, "head"), call'[c] # call[c],
             call[c].op \in {"adopt", "rebind"}, mishaps' \cap {"crossed", "stale"} = {}
      PROVE  Good(c)
  <2>0. HeadInv /\ Typed /\ UntouchedInv(c) /\ RevInv(c)
    BY <1>1 DEF AllUntouched, HeadInv
  <2>1. CASE SetHead(c)
    <3>1. call[c].was.head = set.head /\ "stale" \notin mishaps
      BY <1>1, <2>1 DEF SetHead
    <3>2. set'.head = call[c].rev /\ revs' = revs
      BY <2>0, <2>1, HeadedIs DEF SetHead
    <3> QED
      BY <1>1, <2>0, <3>1, <3>2 DEF UntouchedInv, Borrowed, RevInv, At
  <2>2. CASE Crash
    BY <2>2 DEF Crash
  <2>3. CASE UNCHANGED vars
    BY <1>1, <2>3 DEF vars
  <2>4. ASSUME NEW d \in Calls, Start(d) PROVE FALSE
    <3>1. PICK l : Begins(d, l)
      BY <2>0, <2>4, Starts DEF Typed
    <3>2. OthersSame(d) /\ call[d] = NoCall
      BY <2>0, <3>1, CallSet, TypedIs DEF Begins, Begin, Begun
    <3> QED
      BY <1>1, <3>2, NoCallTyped DEF OthersSame, At
  <2>5. ASSUME NEW d \in Calls, Proceed(d) PROVE SetHead(c)
    <3>1. d = c
      BY <1>1, <2>0, <2>5, ProceedSame DEF OthersSame
    <3> QED
      BY <1>1, <2>5, <3>1
      DEF Proceed, At, ReadBinding, Put, OpenSet, RefuseFiles, SaveRevision, ReadDraft, SaveDraft,
          CheckBinding, RefuseBinding, SaveBinding, Mark, Notify, SaveEvent, SaveClone, Delete,
          CollectRevisions, CollectDrafts, Sweep
  <2> QED
    BY <1>1, <2>1, <2>2, <2>3, <2>4, <2>5 DEF Next
<1>2. AllUntouched /\ [Next]_vars =>
        \A c \in Calls :
          At(c, "head") /\ call'[c] # call[c] /\ call[c].op \in {"adopt", "rebind"}
            /\ mishaps' \cap {"crossed", "stale"} = {} => Good(c)
  BY <1>1
<1> QED
  BY <1>2, UntouchedInvariant, PTL DEF Spec, OthersUntouched

-----------------------------------------------------------------------------
(* The contents in use.                                                    *)

\* A deletion and a collection run alone.
AloneInv == \A c \in Calls : call[c].op \in Exclusive => \A d \in Calls \ {c} : call[d] = NoCall

\* What a call works with is stored, but for what it is about to store.
Missing(l) == IF l.at = "put" THEN FilesPut(l) ELSE {}
FilesInv(c) == ContentsOf(call[c].files) \subseteq blobs \cup Missing(call[c])

\* What a collection has found so far, and a deletion has looked up, still holds.
FoundInv(c) ==
    /\ At(c, "drafts") => InRevisions \subseteq call[c].keep
    /\ At(c, "sweep") => InUse \subseteq call[c].keep
    /\ At(c, "unprovide") => ~BoundBy(call[c].binding)

Stored ==
    /\ InUse \subseteq blobs
    /\ AloneInv
    /\ \A c \in Calls : FilesInv(c) /\ FoundInv(c)

StoredInv == Typed /\ ("overlap" \notin mishaps => Stored)

LEMMA StoredInit == Init => StoredInv
<1> SUFFICES ASSUME Init PROVE Stored
  BY TypedInit DEF StoredInv
<1>1. InUse \subseteq blobs
  BY NoContents, NoCallTyped DEF Init, InUse, InRevisions, InDrafts, EmptySet
<1> QED
  BY <1>1, NoContents, NoCallTyped DEF Init, Stored, AloneInv, FilesInv, FoundInv, Exclusive, At

\* The call that goes on is not alone with anybody's collection or deletion.
LEMMA NobodyExclusive ==
    ASSUME AloneInv, NEW c \in Calls, Proceed(c)
    PROVE  \A d \in Calls \ {c} : call[d].op \notin Exclusive
<1>1. call[c] # NoCall
  BY NoCallTyped
  DEF Proceed, At, ReadBinding, Put, OpenSet, RefuseFiles, SaveRevision, SetHead, ReadDraft,
      SaveDraft, CheckBinding, RefuseBinding, SaveBinding, Mark, Notify, SaveEvent, SaveClone,
      Delete, CollectRevisions, CollectDrafts, Sweep
<1> QED
  BY <1>1 DEF AloneInv

LEMMA MishapsStay == ASSUME NEW c \in Calls, Start(c) \/ Proceed(c) PROVE mishaps \subseteq mishaps'
BY DEF Start, StartPublish, StartClone, StartPurge, StartRollback, StartAdopt, StartRebind,
   StartDelete, StartBind, StartEdit, StartReport, Begin,
   Proceed, ReadBinding, Put, OpenSet, RefuseFiles, SaveRevision, SetHead, ReadDraft,
   SaveDraft, CheckBinding, RefuseBinding, SaveBinding, Mark, Notify, SaveEvent, SaveClone,
   Delete, CollectRevisions, CollectDrafts, Sweep

LEMMA BeginStored ==
    ASSUME Typed, Stored, NEW c \in Calls, NEW l, Begins(c, l), "overlap" \notin mishaps'
    PROVE  Stored'
<1>1. /\ call'[c] = l /\ OthersSame(c) /\ call[c] = NoCall /\ l \in CallRecord
      /\ UNCHANGED <<set, revs, blobs, drift>> /\ (other' = other \/ other' = NoFiles)
  BY CallSet, TypedIs DEF Begins, Begin, Begun
<1>2. /\ l.op \in Exclusive => \A d \in Calls : call[d] = NoCall
      /\ \A d \in Calls : call[d] # NoCall => call[d].op \notin Exclusive
  BY DEF Begins, Begin, Running
<1>3. InUse' \subseteq InUse
  BY <1>1, NoContents DEF InUse, InRevisions, InDrafts, ContentsOf
<1>4. AloneInv'
  BY <1>1, <1>2, NoCallTyped DEF AloneInv, OthersSame, Exclusive
<1>5. \A d \in Calls \ {c} : FilesInv(d)'
  BY <1>1 DEF Stored, FilesInv, OthersSame, Missing, FilesPut, ContentsOf
<1>6. FilesInv(c)'
  BY <1>1, NoContents DEF Stored, FilesInv, Missing, FilesPut, ContentsOf, Begins, Begun
<1>7. \A d \in Calls \ {c} : FoundInv(d)'
  <2> SUFFICES ASSUME NEW d \in Calls \ {c}, call[d] # NoCall PROVE FoundInv(d)'
    BY <1>1, NoCallTyped DEF FoundInv, OthersSame, At
  <2>1. call[d].op \notin Exclusive /\ Place(call[d]) /\ call'[d] = call[d]
    BY <1>1, <1>2, CallFacts DEF OthersSame, Sound
  <2> QED
    BY <2>1, NoCallTyped DEF FoundInv, At, Place, Exclusive
<1>8. FoundInv(c)'
  BY <1>1 DEF FoundInv, At, Begins, Begun, BoundBy
<1> QED
  BY <1>1, <1>3, <1>4, <1>5, <1>6, <1>7, <1>8 DEF Stored

\* The rest of a step follows from what becomes of its own call and of the contents.
LEMMA ProceedStored ==
    ASSUME Typed, Stored, NEW c \in Calls, Proceed(c), call' \in [Calls -> CallRecord],
           call'[c].op \in {call[c].op, "none"},
           blobs \subseteq blobs' \/ call[c].op = "purge",
           InUse' \subseteq blobs', FilesInv(c)', FoundInv(c)'
    PROVE  Stored'
<1>1. OthersSame(c)
  BY ProceedSame
<1>2. \A d \in Calls \ {c} : call'[d] = call[d] /\ call[d].op \notin Exclusive
  BY <1>1, NobodyExclusive DEF Stored, OthersSame
<1>3. AloneInv'
  <2> SUFFICES ASSUME call'[c].op \in Exclusive PROVE \A d \in Calls \ {c} : call'[d] = NoCall
    BY <1>2 DEF AloneInv
  <2> QED
    BY <1>2 DEF Stored, AloneInv, Exclusive
<1>4. ASSUME NEW d \in Calls \ {c} PROVE FilesInv(d)'
  <2>1. CASE blobs \subseteq blobs'
    BY <1>2, <2>1 DEF Stored, FilesInv, Missing, FilesPut, ContentsOf
  <2>2. CASE call[c].op = "purge"
    <3>1. call[d] = NoCall /\ call'[d] = NoCall
      BY <1>2, <2>2 DEF Stored, AloneInv, Exclusive
    <3> QED
      BY <3>1, NoCallTyped, NoContents DEF FilesInv, ContentsOf, NoFiles
  <2> QED
    BY <2>1, <2>2
<1>5. ASSUME NEW d \in Calls \ {c} PROVE FoundInv(d)'
  <2>1. call[d].op \notin Exclusive /\ Place(call[d]) /\ call'[d] = call[d]
    BY <1>2, CallFacts DEF Sound
  <2> QED
    BY <2>1, NoCallTyped DEF FoundInv, At, Place, Exclusive
<1> QED
  BY <1>3, <1>4, <1>5 DEF Stored

LEMMA ToFacts ==
    ASSUME NEW c \in Calls, NEW at, NEW was, NEW f, NEW b, NEW n, NEW k,
           To(c, at, was, f, b, n, k)
    PROVE  /\ call' \in [Calls -> CallRecord] /\ call'[c].op = call[c].op /\ call'[c].at = at
           /\ call'[c].files = f /\ call'[c].keep = k /\ call'[c].binding = b
           /\ call'[c].paths = call[c].paths /\ call'[c].was = was /\ call'[c].rev = n
BY DEF To

\* The steps that neither store contents nor refer to more of them.
LEMMA PlainStored ==
    ASSUME Typed, Stored, NEW c \in Calls, Proceed(c),
           NEW at, NEW was, NEW b, NEW n, NEW k, To(c, at, was, call[c].files, b, n, k),
           ~At(c, "put"), at \notin {"put", "drafts", "sweep", "unprovide"},
           UNCHANGED <<set, revs, other, blobs, drift>>
    PROVE  Stored'
<1>1. /\ call' \in [Calls -> CallRecord] /\ call'[c].op = call[c].op /\ call'[c].at = at
      /\ call'[c].files = call[c].files
  BY ToFacts
<1>2. InUse' \subseteq blobs'
  BY DEF Stored, InUse, InRevisions, InDrafts, ContentsOf
<1>3. FilesInv(c)' /\ FoundInv(c)'
  BY <1>1 DEF Stored, FilesInv, FoundInv, Missing, At, ContentsOf
<1> QED
  BY <1>1, <1>2, <1>3, ProceedStored

LEMMA GoneStored ==
    ASSUME Typed, Stored, NEW c \in Calls, Proceed(c), Gone(c),
           blobs \subseteq blobs' \/ call[c].op = "purge", InUse' \subseteq blobs'
    PROVE  Stored'
<1>1. call' \in [Calls -> CallRecord] /\ call'[c] = NoCall
  BY DEF Gone
<1>2. FilesInv(c)' /\ FoundInv(c)'
  BY <1>1, NoCallTyped, NoContents DEF FilesInv, FoundInv, At, ContentsOf, NoFiles
<1> QED
  BY <1>1, <1>2, NoCallTyped, ProceedStored

LEMMA PutStored == ASSUME Typed, Stored, NEW c \in Calls, Put(c) PROVE Stored'
<1> DEFINE at == IF call[c].op = "report" THEN "event" ELSE "savedraft"
<1>1. Moved(c, at) /\ At(c, "put") /\ blobs' = blobs \cup FilesPut(call[c]) /\ Proceed(c)
      /\ UNCHANGED <<set, revs, other, drift>>
  BY GotoMoves, TypedIs DEF Put, Steps, FilesPut, Proceed
<1>2. InUse' \subseteq blobs'
  BY <1>1 DEF Stored, InUse, InRevisions, InDrafts, ContentsOf
<1>3. /\ call' \in [Calls -> CallRecord] /\ call'[c].op = call[c].op /\ call'[c].at = at
      /\ call'[c].files = call[c].files
  BY <1>1 DEF Moved, To
<1>4. FilesInv(c)' /\ FoundInv(c)'
  BY <1>1, <1>3 DEF Stored, FilesInv, FoundInv, Missing, At, ContentsOf
<1> QED
  BY <1>1, <1>2, <1>3, <1>4, ProceedStored

LEMMA SaveRevisionStored == ASSUME Typed, Stored, NEW c \in Calls, SaveRevision(c) PROVE Stored'
<1>1. /\ To(c, "head", call[c].was, call[c].files, call[c].binding, Len(revs) + 1, call[c].keep)
      /\ At(c, "save") /\ Proceed(c) /\ UNCHANGED <<set, other, blobs, drift>>
  BY SaveRevisionTo DEF SaveRevision, Proceed
<1>2. /\ Len(revs') = Len(revs) + 1 /\ Len(revs) \in Nat
      /\ revs'[Len(revs) + 1].files = call[c].files
      /\ \A n \in 1 .. Len(revs) : revs'[n] = revs[n]
  <2>1. revs'[Len(revs) + 1] = [files |-> call[c].files, binding |-> call[c].binding]
    BY Appended
  <2>2. revs'[Len(revs) + 1].files = call[c].files
    BY <2>1
  <2>3. Len(revs) \in Nat
    BY CallFacts
  <2> QED
    BY <2>2, <2>3, Appended
<1>3. ContentsOf(call[c].files) \subseteq blobs
  BY <1>1 DEF Stored, FilesInv, Missing, At
<1>4. InRevisions' \subseteq blobs
  <2> SUFFICES ASSUME NEW n \in 1 .. Len(revs') PROVE ContentsOf(revs'[n].files) \subseteq blobs
    BY DEF InRevisions, ContentsOf
  <2>1. CASE n = Len(revs) + 1
    BY <1>2, <1>3, <2>1
  <2>2. CASE n # Len(revs) + 1
    <3>1. n \in 1 .. Len(revs)
      BY <1>2, <2>2
    <3> QED
      BY <1>2, <3>1, RevisionsInUse DEF Stored
  <2> QED
    BY <2>1, <2>2
<1>5. InUse' \subseteq blobs'
  BY <1>1, <1>4 DEF Stored, InUse, InDrafts, ContentsOf
<1>6. /\ call' \in [Calls -> CallRecord] /\ call'[c].op = call[c].op /\ call'[c].at = "head"
      /\ call'[c].files = call[c].files
  BY <1>1, ToFacts
<1>7. FilesInv(c)' /\ FoundInv(c)'
  BY <1>1, <1>3, <1>6 DEF FilesInv, FoundInv, Missing, At, ContentsOf
<1> QED
  BY <1>1, <1>5, <1>6, <1>7, ProceedStored

LEMMA SetHeadStored == ASSUME Typed, Stored, NEW c \in Calls, SetHead(c) PROVE Stored'
<1>1. Moved(c, AfterHead(call[c].op)) /\ AfterHead(call[c].op) \in {"draft", "notify"}
  BY SetHeadTo DEF AfterHead
<1>2. /\ set'.draft = set.draft /\ UNCHANGED <<revs, other, blobs, drift>> /\ Proceed(c)
      /\ At(c, "head")
  BY HeadedIs DEF SetHead, Proceed
<1>3. InUse' \subseteq blobs'
  BY <1>2 DEF Stored, InUse, InRevisions, InDrafts, ContentsOf
<1>4. /\ call' \in [Calls -> CallRecord] /\ call'[c].op = call[c].op
      /\ call'[c].at \in {"draft", "notify"} /\ call'[c].files = call[c].files
  BY <1>1 DEF Moved, To
<1>5. FilesInv(c)' /\ FoundInv(c)'
  BY <1>2, <1>4 DEF Stored, FilesInv, FoundInv, Missing, At, ContentsOf
<1> QED
  BY <1>2, <1>3, <1>4, <1>5, ProceedStored

LEMMA ReadDraftStored == ASSUME Typed, Stored, NEW c \in Calls, ReadDraft(c) PROVE Stored'
<1>1. PICK f \in FileLists :
        /\ To(c, "savedraft", set, f, call[c].binding, call[c].rev, call[c].keep)
        /\ call[c].op = "rollback" => f = call[c].files
        /\ call[c].op # "rollback" =>
              \A p \in Paths : f[p] = IF p \in call[c].paths THEN call[c].files[p]
                                      ELSE set.draft[p]
  BY ReadDraftTo
<1>2. UNCHANGED <<set, revs, other, blobs, drift>> /\ Proceed(c) /\ At(c, "draft")
  BY DEF ReadDraft, Proceed
<1>3. InUse' \subseteq blobs'
  BY <1>2 DEF Stored, InUse, InRevisions, InDrafts, ContentsOf
<1>4. ContentsOf(call[c].files) \subseteq blobs /\ ContentsOf(set.draft) \subseteq blobs
  BY <1>2 DEF Stored, FilesInv, Missing, At, InUse, InDrafts
<1>5. ContentsOf(f) \subseteq blobs
  BY <1>1, <1>4 DEF ContentsOf
<1>6. /\ call' \in [Calls -> CallRecord] /\ call'[c].op = call[c].op
      /\ call'[c].at = "savedraft" /\ call'[c].files = f
  BY <1>1, ToFacts
<1>7. FilesInv(c)' /\ FoundInv(c)'
  BY <1>2, <1>5, <1>6 DEF FilesInv, FoundInv, Missing, At, ContentsOf
<1> QED
  BY <1>2, <1>3, <1>6, <1>7, ProceedStored

LEMMA SaveDraftStored == ASSUME Typed, Stored, NEW c \in Calls, SaveDraft(c) PROVE Stored'
<1>1. UNCHANGED <<revs, other, blobs, drift>> /\ Proceed(c) /\ At(c, "savedraft")
  BY DEF SaveDraft, Proceed
<1>2. ContentsOf(call[c].files) \subseteq blobs
  BY <1>1 DEF Stored, FilesInv, Missing, At
<1>3. ContentsOf(set'.draft) \subseteq blobs
  BY <1>2, DraftIs DEF Stored, InUse, InDrafts
<1>4. InUse' \subseteq blobs'
  BY <1>1, <1>3 DEF Stored, InUse, InRevisions, InDrafts, ContentsOf
<1>5. CASE call[c].op = "edit"
  BY <1>1, <1>4, <1>5, SaveDraftTo, GoneStored
<1>6. CASE call[c].op # "edit"
  <2>1. /\ call' \in [Calls -> CallRecord] /\ call'[c].op = call[c].op
        /\ call'[c].at \in {"bind", "mark"} /\ call'[c].files = call[c].files
    BY <1>6, SaveDraftTo DEF Moved, To
  <2>2. FilesInv(c)' /\ FoundInv(c)'
    BY <1>1, <1>2, <2>1 DEF FilesInv, FoundInv, Missing, At, ContentsOf
  <2> QED
    BY <1>1, <1>4, <2>1, <2>2, ProceedStored
<1> QED
  BY <1>5, <1>6

LEMMA SaveBindingStored == ASSUME Typed, Stored, NEW c \in Calls, SaveBinding(c) PROVE Stored'
<1>1. /\ UNCHANGED <<revs, other, blobs, drift>> /\ Proceed(c) /\ At(c, "savebinding")
      /\ set'.draft = set.draft
  BY BindingIs DEF SaveBinding, Proceed
<1>2. InUse' \subseteq blobs'
  BY <1>1 DEF Stored, InUse, InRevisions, InDrafts, ContentsOf
<1>3. CASE call[c].op = "bind"
  BY <1>1, <1>2, <1>3, SaveBindingTo, GoneStored
<1>4. CASE call[c].op # "bind"
  <2>1. /\ call' \in [Calls -> CallRecord] /\ call'[c].op = call[c].op
        /\ call'[c].at \in {"notify", "open"} /\ call'[c].files = call[c].files
    BY <1>4, SaveBindingTo DEF Moved, To
  <2>2. FilesInv(c)' /\ FoundInv(c)'
    BY <1>1, <2>1 DEF Stored, FilesInv, FoundInv, Missing, At, ContentsOf
  <2> QED
    BY <1>1, <1>2, <2>1, <2>2, ProceedStored
<1> QED
  BY <1>3, <1>4

LEMMA CollectStored ==
    ASSUME Typed, Stored, NEW c \in Calls, CollectRevisions(c) \/ CollectDrafts(c) PROVE Stored'
<1>1. UNCHANGED <<set, revs, other, blobs, drift>> /\ Proceed(c) /\ ~At(c, "put")
  BY DEF CollectRevisions, CollectDrafts, Proceed, At
<1>2. InUse' \subseteq blobs' /\ InUse' = InUse /\ InRevisions' = InRevisions
  BY <1>1 DEF Stored, InUse, InRevisions, InDrafts, ContentsOf
<1>3. CASE CollectRevisions(c)
  <2>1. To(c, "drafts", call[c].was, call[c].files, call[c].binding, call[c].rev, InRevisions)
    BY <1>3, CollectTo
  <2>2. /\ call' \in [Calls -> CallRecord] /\ call'[c].op = call[c].op
        /\ call'[c].at = "drafts" /\ call'[c].files = call[c].files /\ call'[c].keep = InRevisions
    BY <2>1, ToFacts
  <2>3. FilesInv(c)' /\ FoundInv(c)'
    BY <1>1, <1>2, <2>2 DEF Stored, FilesInv, FoundInv, Missing, At, ContentsOf
  <2> QED
    BY <1>1, <1>2, <2>2, <2>3, ProceedStored
<1>4. CASE CollectDrafts(c)
  <2> DEFINE keep == call[c].keep \cup InDrafts \cup ContentsOf(drift)
  <2>1. To(c, "sweep", call[c].was, call[c].files, call[c].binding, call[c].rev, keep)
    BY <1>4, CollectTo
  <2>2. InUse \subseteq keep
    BY <1>4 DEF Stored, FoundInv, CollectDrafts, InUse
  <2> HIDE DEF keep
  <2>3. /\ call' \in [Calls -> CallRecord] /\ call'[c].op = call[c].op
        /\ call'[c].at = "sweep" /\ call'[c].files = call[c].files /\ call'[c].keep = keep
    BY <2>1, ToFacts
  <2>4. FilesInv(c)' /\ FoundInv(c)'
    BY <1>1, <1>2, <2>2, <2>3 DEF Stored, FilesInv, FoundInv, Missing, At, ContentsOf
  <2> QED
    BY <1>1, <1>2, <2>3, <2>4, ProceedStored
<1> QED
  BY <1>3, <1>4

LEMMA MarkStored == ASSUME Typed, Stored, NEW c \in Calls, Mark(c) PROVE Stored'
<1>1. /\ Moved(c, "notify") /\ UNCHANGED <<set, revs, other, blobs>> /\ Proceed(c) /\ At(c, "mark")
      /\ drift' = [p \in Paths |-> IF p \in call[c].paths THEN None ELSE drift[p]]
  BY GotoMoves, TypedIs DEF Mark, Steps, Proceed
<1>2. ContentsOf(drift') \subseteq ContentsOf(drift)
  BY <1>1 DEF ContentsOf
<1>3. InUse' \subseteq blobs'
  BY <1>1, <1>2 DEF Stored, InUse, InRevisions, InDrafts, ContentsOf
<1>4. /\ call' \in [Calls -> CallRecord] /\ call'[c].op = call[c].op
      /\ call'[c].at = "notify" /\ call'[c].files = call[c].files
  BY <1>1 DEF Moved, To
<1>5. FilesInv(c)' /\ FoundInv(c)'
  BY <1>1, <1>4 DEF Stored, FilesInv, FoundInv, Missing, At, ContentsOf
<1> QED
  BY <1>1, <1>3, <1>4, <1>5, ProceedStored

LEMMA EndingStored == ASSUME Typed, Stored, NEW c \in Calls, Ending(c) PROVE Stored'
<1>0. Gone(c) /\ UNCHANGED <<set, revs>> /\ Proceed(c)
  BY EndingGone DEF Ending, Proceed
<1>1. CASE SaveEvent(c)
  <2>1. ContentsOf(call[c].files) \subseteq blobs
    BY <1>1 DEF Stored, FilesInv, Missing, SaveEvent, At
  <2>2. drift' = Adopting(drift, call[c].files, call[c].paths) /\ UNCHANGED <<other, blobs>>
    BY <1>1 DEF SaveEvent
  <2>3. ContentsOf(drift') \subseteq blobs
    BY <2>1, <2>2 DEF Stored, InUse, ContentsOf, Adopting
  <2>4. InUse' \subseteq blobs'
    BY <1>0, <2>2, <2>3 DEF Stored, InUse, InRevisions, InDrafts, ContentsOf
  <2> QED
    BY <1>0, <2>2, <2>4, GoneStored
<1>2. CASE SaveClone(c)
  <2>1. ContentsOf(call[c].files) \subseteq blobs
    BY <1>2 DEF Stored, FilesInv, Missing, SaveClone, At
  <2>2. other' = call[c].files /\ UNCHANGED <<drift, blobs>>
    BY <1>2 DEF SaveClone
  <2>3. InUse' \subseteq blobs'
    BY <1>0, <2>1, <2>2 DEF Stored, InUse, InRevisions, InDrafts, ContentsOf
  <2> QED
    BY <1>0, <2>2, <2>3, GoneStored
<1>3. CASE Sweep(c)
  <2>1. call[c].op = "purge"
    BY <1>3, CallFacts DEF Sweep, At, Sound, Place, NoCall
  <2>2. InUse \subseteq blobs' /\ UNCHANGED <<drift, other>>
    BY <1>3 DEF Stored, FoundInv, Sweep
  <2>3. InUse' \subseteq blobs'
    BY <1>0, <2>2 DEF InUse, InRevisions, InDrafts, ContentsOf
  <2> QED
    BY <1>0, <2>1, <2>3, GoneStored
<1>4. CASE RefuseFiles(c) \/ RefuseBinding(c) \/ Notify(c) \/ Delete(c)
  <2>1. UNCHANGED <<other, blobs, drift>>
    BY <1>4 DEF RefuseFiles, RefuseBinding, Notify, Delete
  <2>2. InUse' \subseteq blobs'
    BY <1>0, <2>1 DEF Stored, InUse, InRevisions, InDrafts, ContentsOf
  <2> QED
    BY <1>0, <2>1, <2>2, GoneStored
<1> QED
  BY <1>1, <1>2, <1>3, <1>4 DEF Ending

LEMMA OtherStored ==
    ASSUME Typed, Stored, NEW c \in Calls, ReadBinding(c) \/ OpenSet(c) \/ CheckBinding(c)
    PROVE  Stored'
<1>1. UNCHANGED <<set, revs, other, blobs, drift>> /\ Proceed(c) /\ ~At(c, "put")
  BY DEF ReadBinding, OpenSet, CheckBinding, Proceed, At
<1>2. CASE ReadBinding(c)
  <2>1. PICK b \in Bindings :
           To(c, "open", call[c].was, call[c].files, b, call[c].rev, call[c].keep)
    BY <1>2, ReadBindingTo
  <2> QED
    BY <1>1, <2>1, PlainStored
<1>3. CASE OpenSet(c)
  <2>1. To(c, "save", set, call[c].files, call[c].binding, call[c].rev, call[c].keep)
    BY <1>3, OpenSetTo
  <2> QED
    BY <1>1, <2>1, PlainStored
<1>4. CASE CheckBinding(c)
  <2>1. PICK w \in SetRecord :
           To(c, "savebinding", w, call[c].files, call[c].binding, call[c].rev, call[c].keep)
    BY <1>4, CheckBindingTo
  <2> QED
    BY <1>1, <2>1, PlainStored
<1> QED
  BY <1>2, <1>3, <1>4

LEMMA CrashStored == ASSUME Typed, Stored, Crash PROVE Stored'
<1>1. (\A c \in Calls : call'[c] = NoCall) /\ UNCHANGED <<set, revs, other, blobs, drift>>
  BY DEF Crash
<1>2. InUse' \subseteq blobs'
  BY <1>1 DEF Stored, InUse, InRevisions, InDrafts, ContentsOf
<1> QED
  BY <1>1, <1>2, NoCallTyped, NoContents
  DEF Stored, AloneInv, FilesInv, FoundInv, At, Exclusive, ContentsOf, NoFiles

LEMMA StoredStep == StoredInv /\ [Next]_vars => StoredInv'
<1> SUFFICES ASSUME StoredInv, [Next]_vars, "overlap" \notin mishaps' PROVE Stored'
  BY TypedStep DEF StoredInv
<1>0. Typed
  BY DEF StoredInv
<1>1. ASSUME NEW c \in Calls, Start(c) PROVE Stored'
  <2>1. PICK l : Begins(c, l)
    BY <1>0, <1>1, Starts DEF Typed
  <2>2. Stored
    BY <1>1, MishapsStay DEF StoredInv
  <2> QED
    BY <1>0, <2>1, <2>2, BeginStored
<1>2. ASSUME NEW c \in Calls, Proceed(c) PROVE Stored'
  <2>1. Stored
    BY <1>2, MishapsStay DEF StoredInv
  <2> QED
    BY <1>0, <1>2, <2>1, OtherStored, PutStored, SaveRevisionStored, SetHeadStored, ReadDraftStored,
       SaveDraftStored, SaveBindingStored, CollectStored, MarkStored, EndingStored
    DEF Proceed, Ending
<1>3. CASE Crash
  <2>1. Stored
    BY <1>3 DEF StoredInv, Crash
  <2> QED
    BY <1>0, <1>3, <2>1, CrashStored
<1>4. CASE UNCHANGED vars
  BY <1>4 DEF vars, StoredInv, Stored, AloneInv, FilesInv, FoundInv, Missing, FilesPut, InUse,
     InRevisions, InDrafts, ContentsOf, At, BoundBy
<1> QED
  BY <1>1, <1>2, <1>3, <1>4 DEF Next

LEMMA StoredInvariant == Spec => []StoredInv
BY StoredInit, StoredStep, PTL DEF Spec

\* blobs/blobs.go against everything that stores or refers to a content: a collection that runs
\* alone takes nothing that is in use, and what refers to a content stored it before.
THEOREM InUseIsKept == Spec => []ContentsKept
<1>1. StoredInv => ContentsKept
  BY DEF StoredInv, Stored, ContentsKept, Without, InUse
<1> QED
  BY <1>1, StoredInvariant, PTL

-----------------------------------------------------------------------------
(* Providers: what is bound, or about to be, exists.                       *)

Provided == provs \cup {None}

\* The steps at which the binding of a call has been looked up and is not yet in the record.
LookedUp == {"save", "head", "savebinding"}

Bound ==
    /\ set.binding \in Provided /\ set.provider \in Provided
    /\ \A c \in Calls : call[c].at \in LookedUp => call[c].binding \in Provided

BoundInv == StoredInv /\ (Without({"overlap", "unprovided"}) => Bound)

LEMMA BoundInit == Init => BoundInv
<1> SUFFICES ASSUME Init PROVE Bound
  BY StoredInit DEF BoundInv
<1> QED
  BY NoCallTyped DEF Init, Bound, Provided, LookedUp, EmptySet

\* The rest of a step follows from its own call and the record.
LEMMA KeepsBound ==
    ASSUME Bound, NEW c \in Calls, OthersSame(c), provs' = provs,
           set'.binding \in Provided, set'.provider \in Provided,
           call'[c].at \in LookedUp => call'[c].binding \in Provided
    PROVE  Bound'
BY DEF Bound, OthersSame, Provided

LEMMA BeginBound ==
    ASSUME Typed, Bound, NEW c \in Calls, NEW l, Begins(c, l) PROVE Bound'
<1>1. call'[c] = l /\ OthersSame(c)
  BY CallSet, TypedIs DEF Begins, Begin, Begun
<1>2. l.at \notin LookedUp
  BY DEF Begins, Begun, LookedUp
<1>3. provs' = provs /\ set' = set
  BY DEF Begins
<1> QED
  BY <1>1, <1>2, <1>3, KeepsBound DEF Bound

LEMMA MovingBound ==
    ASSUME Typed, Bound, NEW c \in Calls, Moving(c) PROVE Bound'
<1>1. OthersSame(c) /\ set' = set /\ provs' = provs
  BY MovingWanders, MovingSameHead
  DEF Moving, ReadBinding, Put, ReadDraft, CheckBinding, Mark, CollectRevisions, CollectDrafts
<1>2. call'[c].at \in LookedUp => call'[c].binding \in Provided
  <2>1. CASE ReadBinding(c)
    BY <2>1, ReadBindingTo DEF To, LookedUp
  <2>2. CASE Put(c)
    <3>1. Moved(c, IF call[c].op = "report" THEN "event" ELSE "savedraft")
      BY <2>2, GotoMoves, TypedIs DEF Put, Steps
    <3> QED
      BY <3>1 DEF Moved, To, LookedUp
  <2>3. CASE ReadDraft(c)
    BY <2>3, ReadDraftTo DEF To, LookedUp
  <2>4. CASE CheckBinding(c)
    <3>1. call[c].binding \in Provided
      BY <2>4 DEF CheckBinding, Provided
    <3>2. PICK w \in SetRecord :
             To(c, "savebinding", w, call[c].files, call[c].binding, call[c].rev, call[c].keep)
      BY <2>4, CheckBindingTo
    <3> QED
      BY <3>1, <3>2 DEF To
  <2>5. CASE Mark(c)
    <3>1. Moved(c, "notify")
      BY <2>5, GotoMoves, TypedIs DEF Mark, Steps
    <3> QED
      BY <3>1 DEF Moved, To, LookedUp
  <2>6. CASE CollectRevisions(c) \/ CollectDrafts(c)
    BY <2>6, CollectTo DEF To, LookedUp
  <2> QED
    BY <2>1, <2>2, <2>3, <2>4, <2>5, <2>6 DEF Moving
<1> QED
  BY <1>1, <1>2, KeepsBound DEF Bound

LEMMA PublishBound ==
    ASSUME Typed, Bound, NEW c \in Calls, OpenSet(c) \/ SaveRevision(c) \/ SetHead(c),
           "unprovided" \notin mishaps'
    PROVE  Bound'
<1>1. CASE OpenSet(c)
  <2>1. To(c, "save", set, call[c].files, call[c].binding, call[c].rev, call[c].keep)
    BY <1>1, OpenSetTo
  <2>2. call[c].binding \in Provided /\ set' = set /\ provs' = provs
    BY <1>1 DEF OpenSet, Provided
  <2> QED
    BY <2>1, <2>2, KeepsBound DEF Bound, To
<1>2. CASE SaveRevision(c)
  <2>1. To(c, "head", call[c].was, call[c].files, call[c].binding, Len(revs) + 1, call[c].keep)
    BY <1>2, SaveRevisionTo
  <2>2. call[c].binding \in Provided /\ set' = set /\ provs' = provs
    BY <1>2 DEF SaveRevision, Bound, At, LookedUp
  <2> QED
    BY <2>1, <2>2, KeepsBound DEF Bound, To
<1>3. CASE SetHead(c)
  <2>1. Moved(c, AfterHead(call[c].op)) /\ AfterHead(call[c].op) \notin LookedUp
    BY <1>3, SetHeadTo DEF AfterHead, LookedUp
  <2>2. call[c].binding \in Provided /\ provs' = provs
    BY <1>3 DEF SetHead, Bound, At, LookedUp
  <2>3. set'.binding \in Provided /\ set'.provider \in Provided
    BY <1>3, <2>2, HeadedIs DEF Bound
  <2> QED
    BY <2>1, <2>2, <2>3, KeepsBound DEF Moved, To
<1> QED
  BY <1>1, <1>2, <1>3

LEMMA SavingBound ==
    ASSUME Typed, Bound, NEW c \in Calls, SaveDraft(c) \/ SaveBinding(c) PROVE Bound'
<1>1. OthersSame(c) /\ provs' = provs
  BY SavingWanders DEF SaveDraft, SaveBinding
<1>2. call'[c].at \notin LookedUp
  BY SaveDraftTo, SaveBindingTo, NoCallTyped DEF Gone, Moved, To, LookedUp
<1>3. set'.provider \in Provided
  BY DraftIs, BindingIs DEF Bound
<1>4. set'.binding \in Provided
  <2>1. CASE SaveDraft(c)
    BY <2>1, DraftIs DEF Bound
  <2>2. CASE SaveBinding(c)
    BY <2>2, BindingIs DEF Bound, SaveBinding, At, LookedUp
  <2> QED
    BY <2>1, <2>2
<1> QED
  BY <1>1, <1>2, <1>3, <1>4, KeepsBound

\* A deletion runs alone, and has looked up that its provider is bound nowhere.
LEMMA EndingBound ==
    ASSUME Typed, Stored, Bound, NEW c \in Calls, Ending(c) PROVE Bound'
<1>1. Gone(c) /\ set' = set
  BY EndingGone
<1>2. CASE Delete(c)
  <2>1. call[c].op = "unprovide"
    BY <1>2, CallFacts DEF Delete, At, Sound, Place, NoCall
  <2>2. \A d \in Calls : call'[d] = NoCall
    BY <1>1, <2>1 DEF Stored, AloneInv, Exclusive, Gone, OthersSame
  <2>3. provs' = provs \ {call[c].binding} /\ call[c].binding \notin {set.provider, set.binding}
    BY <1>2 DEF Delete, Stored, FoundInv, BoundBy
  <2> QED
    BY <1>1, <2>2, <2>3, NoCallTyped DEF Bound, Provided, LookedUp
<1>3. CASE ~Delete(c)
  <2>1. provs' = provs
    BY <1>3 DEF Ending, RefuseFiles, RefuseBinding, Notify, SaveEvent, SaveClone, Sweep
  <2> QED
    BY <1>1, <2>1, NoCallTyped, KeepsBound DEF Gone, Bound, LookedUp
<1> QED
  BY <1>2, <1>3

LEMMA BoundStep == BoundInv /\ [Next]_vars => BoundInv'
<1> SUFFICES ASSUME BoundInv, [Next]_vars, "overlap" \notin mishaps', "unprovided" \notin mishaps'
             PROVE  Bound'
  BY StoredStep DEF BoundInv, Without
<1>0. Typed
  BY DEF BoundInv, StoredInv
<1>1. ASSUME NEW c \in Calls, Start(c) PROVE Bound'
  <2>1. PICK l : Begins(c, l)
    BY <1>0, <1>1, Starts DEF Typed
  <2>2. Bound
    BY <1>1, MishapsStay DEF BoundInv, Without
  <2> QED
    BY <1>0, <2>1, <2>2, BeginBound
<1>2. ASSUME NEW c \in Calls, Proceed(c) PROVE Bound'
  <2>1. Bound /\ Stored
    BY <1>2, MishapsStay DEF BoundInv, StoredInv, Without
  <2> QED
    BY <1>0, <1>2, <2>1, MovingBound, PublishBound, SavingBound, EndingBound
    DEF Proceed, Moving, Ending
<1>3. CASE Crash
  BY <1>3, NoCallTyped DEF Crash, BoundInv, Without, Bound, Provided, LookedUp
<1>4. CASE UNCHANGED vars
  BY <1>4 DEF vars, BoundInv, Without, Bound, Provided
<1> QED
  BY <1>1, <1>2, <1>3, <1>4 DEF Next

LEMMA BoundInvariant == Spec => []BoundInv
BY BoundInit, BoundStep, PTL DEF Spec

\* providers/store.go against bindings and publications: a provider that the head or the draft
\* is bound to is there, unless its deletion ran beside another call, two heads were saved across
\* each other, or a rollback brought back a binding that had been deleted.
THEOREM BoundIsKept == Spec => []BoundExists
<1>1. BoundInv /\ HeadProviderAgrees => BoundExists
  BY DEF BoundInv, HeadProviderAgrees, BoundExists, Without, Bound, Provided
<1> QED
  BY <1>1, BoundInvariant, HeadProviderIsBound, PTL

-----------------------------------------------------------------------------
(* What was adopted stays.                                                 *)

Drafting == {"draft", "savedraft"}

\* A call that changes the draft: an adoption and a rollback bring what they have published, and
\* an adoption and an edit change their paths of the draft they have read.
DraftInv(c) ==
    /\ call[c].op \in {"adopt", "rollback"} /\ call[c].at \in Drafting =>
         /\ call[c].rev # 0
         /\ \A p \in Paths : call[c].op = "rollback" \/ p \in call[c].paths =>
                revs[call[c].rev].files[p] = call[c].files[p]
    /\ \/ call[c].op = "edit" /\ call[c].at \in {"put", "savedraft"}
       \/ call[c].op = "adopt" /\ call[c].at = "savedraft"
       => \A p \in Paths \ call[c].paths : call[c].files[p] = call[c].was.draft[p]
    /\ call[c].op = "rebind" => call[c].paths = {}

\* An adoption of this path is published and not yet in the draft.
Behind(p) == \E c \in Calls : call[c].op = "adopt" /\ call[c].at \in Drafting /\ p \in call[c].paths

Agreed ==
    \A p \in Paths : adopted[p] # None =>
        /\ set.head # 0 /\ revs[set.head].files[p] = adopted[p]
        /\ Behind(p) \/ set.draft[p] = adopted[p]

Accidents == {"crossed", "clobbered", "stale", "crashed"}

AdoptedInv ==
    /\ AllUntouched
    /\ \A c \in Calls : DraftInv(c)
    /\ Without(Accidents) => Agreed

LEMMA AdoptedInit == Init => AdoptedInv
<1> SUFFICES ASSUME Init PROVE (\A c \in Calls : DraftInv(c)) /\ Agreed
  BY UntouchedInit DEF AdoptedInv
<1>1. \A c \in Calls : DraftInv(c)
  BY NoCallTyped DEF Init, DraftInv, Drafting
<1>2. \A p \in Paths : adopted[p] = None
  BY DEF Init, NoFiles
<1> QED
  BY <1>1, <1>2 DEF Agreed

LEMMA StillDraft ==
    ASSUME Typed, NEW d \in Calls, Frame, call'[d] = call[d], DraftInv(d) PROVE DraftInv(d)'
<1>1. call[d].rev \in Nat /\ call[d].rev <= Len(revs) /\ Len(revs) \in Nat
  BY CallFacts DEF Sound
<1>2. call[d].rev # 0 => revs'[call[d].rev] = revs[call[d].rev]
  BY <1>1 DEF Frame
<1> QED
  BY <1>2 DEF DraftInv

LEMMA BeginDraft ==
    ASSUME Typed, NEW c \in Calls, NEW l, Begins(c, l) PROVE DraftInv(c)'
<1>1. call'[c] = l
  BY CallSet, TypedIs DEF Begins, Begin, Begun
<1> QED
  BY <1>1 DEF Begins, Begun, DraftInv, Drafting

\* The other steps leave the call where it does not touch the draft.
Leaves(c) ==
    /\ call'[c].at \notin {"put", "draft", "savedraft"}
    /\ call'[c] = NoCall \/ (call'[c].op = call[c].op /\ call'[c].paths = call[c].paths)

LEMMA ToLeaves ==
    ASSUME NEW c \in Calls, NEW at, NEW was, NEW f, NEW b, NEW n, NEW k,
           To(c, at, was, f, b, n, k), at \notin {"put", "draft", "savedraft"}
    PROVE  Leaves(c)
BY DEF To, Leaves

LEMMA GoneLeaves == ASSUME NEW c \in Calls, Gone(c) PROVE Leaves(c)
BY NoCallTyped DEF Gone, Leaves

LEMMA ProceedLeaves ==
    ASSUME Typed, NEW c \in Calls, Proceed(c), ~SetHead(c), ~ReadDraft(c), ~Put(c) PROVE Leaves(c)
<1>1. CASE ReadBinding(c)
  BY <1>1, ReadBindingTo, ToLeaves
<1>2. CASE CheckBinding(c)
  BY <1>2, CheckBindingTo, ToLeaves
<1>3. CASE Mark(c)
  <2>1. Moved(c, "notify")
    BY <1>3, GotoMoves, TypedIs DEF Mark, Steps
  <2> QED
    BY <2>1, ToLeaves DEF Moved
<1>4. CASE CollectRevisions(c) \/ CollectDrafts(c)
  BY <1>4, CollectTo DEF To, Leaves
<1>5. CASE SaveDraft(c)
  BY <1>5, SaveDraftTo, GoneLeaves DEF Moved, To, Leaves
<1>6. CASE SaveBinding(c)
  BY <1>6, SaveBindingTo, GoneLeaves DEF Moved, To, Leaves
<1>7. CASE OpenSet(c)
  BY <1>7, OpenSetTo, ToLeaves
<1>8. CASE SaveRevision(c)
  BY <1>8, SaveRevisionTo, ToLeaves
<1>9. CASE Ending(c)
  BY <1>9, EndingGone, GoneLeaves
<1> QED
  BY <1>1, <1>2, <1>3, <1>4, <1>5, <1>6, <1>7, <1>8, <1>9 DEF Proceed, Ending

LEMMA ProceedDraft ==
    ASSUME HeadInv, NEW c \in Calls, Proceed(c), DraftInv(c) PROVE DraftInv(c)'
<1>0. Typed
  BY DEF HeadInv
<1>1. CASE SetHead(c)
  <2>1. Moved(c, AfterHead(call[c].op)) /\ At(c, "head") /\ revs' = revs
    BY <1>0, <1>1, SetHeadTo DEF SetHead
  <2>2. call[c].rev # 0 /\ revs[call[c].rev].files = call[c].files
    BY <1>0, <2>1, CallFacts DEF Sound, At, HeadInv, RevInv
  <2> QED
    BY <2>1, <2>2 DEF DraftInv, Moved, To, AfterHead, Drafting
<1>2. CASE ReadDraft(c)
  <2>1. PICK f \in FileLists :
          /\ To(c, "savedraft", set, f, call[c].binding, call[c].rev, call[c].keep)
          /\ call[c].op = "rollback" => f = call[c].files
          /\ call[c].op # "rollback" =>
                \A p \in Paths : f[p] = IF p \in call[c].paths THEN call[c].files[p] ELSE set.draft[p]
    BY <1>0, <1>2, ReadDraftTo
  <2>2. revs' = revs /\ call[c].at = "draft"
    BY <1>2 DEF ReadDraft, At
  <2>3. call[c].op \in {"adopt", "rollback"}
    BY <1>0, <2>2, CallFacts DEF Sound, Place, NoCall
  <2> QED
    BY <2>1, <2>2, <2>3 DEF DraftInv, To, Drafting
<1>3. CASE Put(c)
  <2>1. Moved(c, IF call[c].op = "report" THEN "event" ELSE "savedraft") /\ call[c].at = "put"
    BY <1>0, <1>3, GotoMoves, TypedIs DEF Put, Steps, At
  <2>2. call[c].op \in {"edit", "report"}
    BY <1>0, <2>1, CallFacts DEF Sound, Place, NoCall
  <2> QED
    BY <2>1, <2>2 DEF DraftInv, Moved, To, Drafting
<1>4. CASE ~SetHead(c) /\ ~ReadDraft(c) /\ ~Put(c)
  BY <1>0, <1>4, ProceedLeaves, NoCallTyped DEF Leaves, DraftInv, Drafting
<1> QED
  BY <1>1, <1>2, <1>3, <1>4

\* Steps that change neither the draft nor the head nor what was adopted.
LEMMA QuietAgreed ==
    ASSUME Typed, Agreed, Frame, set'.head = set.head, set'.draft = set.draft, adopted' = adopted,
           \A p \in Paths : Behind(p) => Behind(p)'
    PROVE  Agreed'
<1>1. set.head # 0 => revs'[set.head] = revs[set.head]
  BY CallFacts, SetTyped DEF Frame, Typed
<1> QED
  BY <1>1 DEF Agreed

LEMMA BeginAgreed ==
    ASSUME Typed, Agreed, NEW c \in Calls, NEW l, Begins(c, l) PROVE Agreed'
<1>1. call'[c] = l /\ OthersSame(c) /\ call[c] = NoCall
  BY CallSet, TypedIs DEF Begins, Begin, Begun
<1>2. UNCHANGED <<set, revs, adopted>>
  BY DEF Begins
<1>3. \A p \in Paths : Behind(p) => Behind(p)'
  BY <1>1, NoCallTyped DEF Behind, OthersSame
<1> QED
  BY <1>2, <1>3 DEF Agreed

LEMMA ProceedAgreed ==
    ASSUME HeadInv, Agreed, NEW c \in Calls, Proceed(c), ~SetHead(c), ~SaveDraft(c) PROVE Agreed'
<1>0. Typed
  BY DEF HeadInv
<1>1. Frame /\ OthersSame(c) /\ set'.head = set.head
  BY <1>0, ProceedsFrame, ProceedSame, HeadStays
<1>2. set'.draft = set.draft /\ adopted' = adopted
  BY <1>0, BindingIs
  DEF Proceed, ReadBinding, Put, OpenSet, RefuseFiles, SaveRevision, ReadDraft, CheckBinding,
      RefuseBinding, SaveBinding, Mark, Notify, SaveEvent, SaveClone, Delete, CollectRevisions,
      CollectDrafts, Sweep
<1>3. call[c].at \in Drafting =>
         call'[c].at \in Drafting /\ call'[c].op = call[c].op /\ call'[c].paths = call[c].paths
  <2>1. CASE ReadDraft(c)
    BY <1>0, <2>1, ReadDraftTo DEF To, Drafting
  <2>2. CASE ~ReadDraft(c)
    BY <2>2 DEF Drafting, At,
       Proceed, ReadBinding, Put, OpenSet, RefuseFiles, SaveRevision, CheckBinding,
       RefuseBinding, SaveBinding, Mark, Notify, SaveEvent, SaveClone, Delete, CollectRevisions,
       CollectDrafts, Sweep
  <2> QED
    BY <2>1, <2>2
<1>4. \A p \in Paths : Behind(p) => Behind(p)'
  BY <1>1, <1>3 DEF Behind, OthersSame
<1> QED
  BY <1>0, <1>1, <1>2, <1>4, QuietAgreed

\* A publication that is not stale publishes a draft that has caught up with the adoptions, and
\* an adoption or a rebinding the files of the head it replaces.
LEMMA SetHeadAgreed ==
    ASSUME HeadInv, Agreed, NEW c \in Calls, SetHead(c), UntouchedInv(c), DraftInv(c),
           mishaps' \cap Accidents = {}
    PROVE  Agreed'
<1>0. Typed
  BY DEF HeadInv
<1>1. /\ call[c].at = "head" /\ call[c].rev # 0 /\ revs' = revs
      /\ revs[call[c].rev].files = call[c].files /\ set'.head = call[c].rev
      /\ set'.draft = set.draft /\ Moved(c, AfterHead(call[c].op))
  BY <1>0, HeadedIs, SetHeadTo, CallFacts DEF SetHead, HeadInv, RevInv, At, Sound
<1>2. /\ call[c].was.head = set.head /\ "stale" \notin mishaps
      /\ call[c].op = "publish" => call[c].files = set.draft /\ ~DraftBehind
  BY DEF SetHead, Accidents
<1>3. \A p \in Paths : Behind(p) => Behind(p)'
  BY <1>1 DEF Behind, Moved, To, OthersSame, Drafting
<1>4. call[c].op \in {"publish", "rollback", "adopt", "rebind"}
  BY <1>0, <1>1, CallFacts DEF Sound, Place, NoCall
<1> SUFFICES ASSUME NEW p \in Paths, adopted'[p] # None
             PROVE  call[c].files[p] = adopted'[p] /\ (Behind(p)' \/ set.draft[p] = adopted'[p])
  BY <1>1 DEF Agreed
<1>5. CASE call[c].op = "publish"
  <2>1. adopted' = adopted
    BY <1>5 DEF SetHead
  <2>2. ~Behind(p)
    BY <1>2, <1>5 DEF DraftBehind, Behind, Drafting
  <2> QED
    BY <1>2, <1>5, <2>1, <2>2 DEF Agreed
<1>6. CASE call[c].op = "rollback"
  BY <1>6 DEF SetHead, NoFiles
<1>7. CASE call[c].op = "adopt"
  <2>1. adopted'[p] = IF p \in call[c].paths THEN call[c].files[p] ELSE adopted[p]
    BY <1>7 DEF SetHead, Adopting
  <2>2. CASE p \in call[c].paths
    <3>1. Behind(p)'
      BY <1>1, <1>7, <2>2 DEF Behind, Moved, To, AfterHead, Drafting
    <3> QED
      BY <2>1, <2>2, <3>1
  <2>3. CASE p \notin call[c].paths
    <3>1. call[c].files[p] = revs[set.head].files[p]
      BY <1>1, <1>2, <1>7, <2>3 DEF UntouchedInv, Borrowed
    <3> QED
      BY <1>3, <2>1, <2>3, <3>1 DEF Agreed
  <2> QED
    BY <2>2, <2>3
<1>8. CASE call[c].op = "rebind"
  <2>1. adopted' = adopted
    BY <1>8 DEF SetHead
  <2>2. call[c].files[p] = revs[set.head].files[p]
    BY <1>1, <1>2, <1>8 DEF UntouchedInv, Borrowed, DraftInv
  <2> QED
    BY <1>3, <2>1, <2>2 DEF Agreed
<1> QED
  BY <1>4, <1>5, <1>6, <1>7, <1>8

\* A draft that is not clobbered keeps what others have adopted; what brings an adoption or a
\* rollback that is not stale is what the head has.
LEMMA SaveDraftAgreed ==
    ASSUME Typed, Agreed, NEW c \in Calls, SaveDraft(c), DraftInv(c), mishaps' \cap Accidents = {}
    PROVE  Agreed'
<1>1. /\ call[c].at = "savedraft" /\ revs' = revs /\ set'.head = set.head
      /\ set'.draft = call[c].files /\ call[c].was.draft = set.draft
      /\ call[c].op # "edit" => call[c].rev = set.head
      /\ adopted' = IF call[c].op = "edit" THEN Adopting(adopted, NoFiles, call[c].paths) ELSE adopted
  BY DraftIs DEF SaveDraft, At, Accidents
<1>2. call[c].op \in {"edit", "rollback", "adopt"}
  BY <1>1, CallFacts DEF Sound, Place, NoCall
<1>3. OthersSame(c)
  BY SavingWanders
<1> SUFFICES ASSUME NEW p \in Paths, adopted'[p] # None
             PROVE  /\ set.head # 0 /\ revs[set.head].files[p] = adopted'[p]
                    /\ Behind(p)' \/ call[c].files[p] = adopted'[p]
  BY <1>1 DEF Agreed
<1>4. adopted'[p] = adopted[p] /\ (call[c].op = "edit" => p \notin call[c].paths)
  BY <1>1 DEF Adopting, NoFiles
<1>5. set.head # 0 /\ revs[set.head].files[p] = adopted[p] /\ (Behind(p) \/ set.draft[p] = adopted[p])
  BY <1>4 DEF Agreed
<1>6. CASE call[c].op = "rollback" \/ (call[c].op = "adopt" /\ p \in call[c].paths)
  <2>1. call[c].files[p] = revs[set.head].files[p]
    BY <1>1, <1>6 DEF DraftInv, Drafting
  <2> QED
    BY <1>4, <1>5, <2>1
<1>7. CASE call[c].op \in {"edit", "adopt"} /\ p \notin call[c].paths
  <2>1. call[c].files[p] = set.draft[p]
    BY <1>1, <1>7 DEF DraftInv
  <2>2. Behind(p) => Behind(p)'
    BY <1>3, <1>7 DEF Behind, OthersSame
  <2> QED
    BY <1>4, <1>5, <2>1, <2>2
<1> QED
  BY <1>2, <1>4, <1>6, <1>7

LEMMA AdoptedStep == AdoptedInv /\ [Next]_vars => AdoptedInv'
<1> SUFFICES ASSUME AdoptedInv, [Next]_vars
             PROVE  (\A d \in Calls : DraftInv(d)') /\ (mishaps' \cap Accidents = {} => Agreed')
  BY UntouchedStep DEF AdoptedInv, Without
<1>0. HeadInv /\ Typed
  BY DEF AdoptedInv, AllUntouched, HeadInv
<1>1. ASSUME NEW c \in Calls, Start(c)
      PROVE  (\A d \in Calls : DraftInv(d)') /\ (mishaps' \cap Accidents = {} => Agreed')
  <2>1. PICK l : Begins(c, l)
    BY <1>0, <1>1, Starts DEF Typed
  <2>2. OthersSame(c) /\ Frame
    BY <1>0, <2>1, CallSet, TypedIs DEF Begins, Begin, Begun, Frame
  <2>3. \A d \in Calls : DraftInv(d)'
    BY <1>0, <2>1, <2>2, BeginDraft, StillDraft DEF OthersSame, AdoptedInv
  <2>4. ASSUME mishaps' \cap Accidents = {} PROVE Agreed'
    BY <1>0, <2>1, <2>2, <2>4, BeginAgreed DEF AdoptedInv, Without, Frame
  <2> QED
    BY <2>3, <2>4
<1>2. ASSUME NEW c \in Calls, Proceed(c)
      PROVE  (\A d \in Calls : DraftInv(d)') /\ (mishaps' \cap Accidents = {} => Agreed')
  <2>1. OthersSame(c) /\ Frame
    BY <1>0, <1>2, ProceedSame, ProceedsFrame
  <2>2. \A d \in Calls : DraftInv(d)'
    BY <1>0, <1>2, <2>1, ProceedDraft, StillDraft DEF OthersSame, AdoptedInv
  <2>3. ASSUME mishaps' \cap Accidents = {} PROVE Agreed'
    <3>1. Agreed /\ UntouchedInv(c) /\ DraftInv(c)
      BY <2>1, <2>3 DEF AdoptedInv, AllUntouched, Without, Frame
    <3> QED
      BY <1>0, <1>2, <2>3, <3>1, ProceedAgreed, SetHeadAgreed, SaveDraftAgreed
  <2> QED
    BY <2>2, <2>3
<1>3. CASE Crash
  BY <1>3, NoCallTyped DEF Crash, DraftInv, Drafting, Accidents
<1>4. CASE UNCHANGED vars
  BY <1>4 DEF vars, AdoptedInv, DraftInv, Agreed, Behind, Without
<1> QED
  BY <1>1, <1>2, <1>3, <1>4 DEF Next

LEMMA AdoptedInvariant == Spec => []AdoptedInv
BY AdoptedInit, AdoptedStep, PTL DEF Spec

\* drift/adopt.go against every other way to publish and to edit: no publication of an old draft
\* pushes out what was adopted, unless a record was saved across another call's or a call cut off.
THEOREM WhatWasAdoptedStays == Spec => []AdoptedStays
<1>1. AdoptedInv => AdoptedStays
  BY DEF AdoptedInv, Accidents, AdoptedStays, Agreed, Behind
<1> QED
  BY <1>1, AdoptedInvariant, PTL

=============================================================================
