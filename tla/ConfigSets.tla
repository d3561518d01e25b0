----------------------------- MODULE ConfigSets -----------------------------
(***************************************************************************)
(* A config set at the hub: its draft and the binding of the draft, its    *)
(* revisions and its head (configsets/service.go, configsets/binding.go,   *)
(* revisions/service.go), adoption and rebinding as far as they publish    *)
(* (drift/adopt.go, drift/binding.go), the contents and their collection   *)
(* (blobs/blobs.go) and the protection of providers (providers/store.go).  *)
(*                                                                         *)
(* Calls run concurrently and take no lock.  A call reads a record, works, *)
(* and saves the columns it changed, as they were when it read them:       *)
(* PocketBase compares with the record as it was read.  Every query and    *)
(* every save is one step.                                                 *)
(***************************************************************************)
EXTENDS Naturals, Sequences

CONSTANTS
    Paths,
    Contents,       \* a content and its hash are the same
    Providers,
    Calls,          \* slots for calls that run at the same time
    None            \* no content, no provider, no file

ASSUME ConfigSetsAssumption == None \notin Contents \cup Providers

VARIABLES
    set,        \* the record in config_sets: draft, draft_binding, head, head_provider
    revs,       \* the revisions in the order of seq; a revision is never changed
    other,      \* the draft of another config set; no files when there is none
    blobs,      \* the contents stored
    drift,      \* per path, the content of the open drift event
    provs,      \* the providers that exist
    call,       \* what each running call is at, with its locals
    \* history
    told,       \* head when the machines were last notified
    adopted,    \* per path, what was adopted and not decided otherwise since
    mishaps     \* what has gone wrong or overlapped

vars == <<set, revs, other, blobs, drift, provs, call, told, adopted, mishaps>>

FileLists == [Paths -> Contents \cup {None}]
Bindings == Providers \cup {None}
SetRecord == [draft : FileLists, binding : Bindings, head : Nat, provider : Bindings]
Revision == [files : FileLists, binding : Bindings]

NoFiles == [p \in Paths |-> None]
EmptySet == [draft |-> NoFiles, binding |-> None, head |-> 0, provider |-> None]
ContentsOf(files) == {files[p] : p \in Paths} \ {None}

\* A call: where it is, the record it read, and the files and binding it works with; `paths`
\* are the paths of the events it adopts, `keep` the contents it found referenced.
NoCall == [op |-> "none", at |-> "none", was |-> EmptySet, files |-> NoFiles,
           binding |-> None, paths |-> {}, rev |-> 0, keep |-> {}]

Steps == {"none", "binding", "open", "save", "head", "draft", "put", "savedraft", "bind",
          "savebinding", "mark", "notify", "unprovide", "revisions", "drafts", "sweep",
          "event", "clone"}
Ops == {"none", "publish", "rollback", "edit", "bind", "adopt", "rebind", "unprovide", "purge",
        "report", "clone"}

CallRecord == [op : Ops, at : Steps, was : SetRecord, files : FileLists, binding : Bindings,
               paths : SUBSET Paths, rev : Nat, keep : SUBSET Contents]

TypeOK ==
    /\ set \in SetRecord /\ revs \in Seq(Revision) /\ set.head <= Len(revs)
    /\ other \in FileLists /\ blobs \subseteq Contents /\ drift \in FileLists
    /\ provs \subseteq Providers
    /\ call \in [Calls -> CallRecord]
    /\ \A c \in Calls : call[c].rev <= Len(revs) /\ call[c].was.head <= Len(revs)
    /\ told \in 0 .. Len(revs) /\ adopted \in FileLists
    /\ mishaps \subseteq {"overlap", "crossed", "clobbered", "stale", "unprovided", "crashed"}

Init ==
    /\ set = EmptySet /\ revs = <<>> /\ other \in FileLists /\ blobs = ContentsOf(other)
    /\ drift = NoFiles /\ provs = Providers
    /\ call = [c \in Calls |-> NoCall]
    /\ told = 0 /\ adopted = NoFiles /\ mishaps = {}

-----------------------------------------------------------------------------
(* Beginning, going on, ending.                                            *)

Running == {c \in Calls : call[c] # NoCall}

\* Calls whose check and act must not have anything in between.
Exclusive == {"unprovide", "purge"}

\* A call begins; whether an exclusive one runs beside another is remembered.
Begin(c, l) ==
    /\ call[c] = NoCall
    /\ call' = [call EXCEPT ![c] = l]
    /\ mishaps' = IF \/ l.op \in Exclusive /\ Running # {}
                     \/ \E d \in Running : call[d].op \in Exclusive
                  THEN mishaps \cup {"overlap"} ELSE mishaps

Goto(c, step) == call' = [call EXCEPT ![c].at = step]
End(c) == call' = [call EXCEPT ![c] = NoCall]
At(c, step) == call[c].at = step

\* Save writes a column only if the call changed it.
Written(was, new, now) == IF new = was THEN now ELSE new

-----------------------------------------------------------------------------
(* The entries: what a call is, and the first thing it reads.              *)

\* Publish reads the draft, and then its binding.
StartPublish(c) ==
    /\ Begin(c, [NoCall EXCEPT !.op = "publish", !.at = "binding", !.files = set.draft])
    /\ UNCHANGED <<set, revs, other, blobs, drift, provs, told, adopted>>

\* Mutant: adopting publishes the binding of the draft.
ReadBindingOfDraft(c) ==
    /\ At(c, "binding")
    /\ call' = [call EXCEPT ![c].binding = set.binding, ![c].at = "open"]
    /\ UNCHANGED <<set, revs, other, blobs, drift, provs, told, adopted, mishaps>>

\* The binding that goes into the revision: that of the draft, or of the head if one adopts.
ReadBinding(c) ==
    /\ At(c, "binding")
    /\ call' = [call EXCEPT ![c].binding =
                    IF call[c].op = "publish" THEN set.binding ELSE revs[set.head].binding,
                            ![c].at = "open"]
    /\ UNCHANGED <<set, revs, other, blobs, drift, provs, told, adopted, mishaps>>

\* Mutant: the head goes back to the old revision.
StartRollbackMoves(c, n) ==
    /\ n \in 1 .. Len(revs)
    /\ Begin(c, [NoCall EXCEPT !.op = "rollback", !.at = "head", !.files = revs[n].files,
                               !.binding = revs[n].binding, !.rev = n, !.was = set])
    /\ UNCHANGED <<set, revs, other, blobs, drift, provs, told, adopted>>

\* Rollback starts from the files and the binding of an old revision.
StartRollback(c, n) ==
    /\ n \in 1 .. Len(revs)
    /\ Begin(c, [NoCall EXCEPT !.op = "rollback", !.at = "open", !.files = revs[n].files,
                               !.binding = revs[n].binding])
    /\ UNCHANGED <<set, revs, other, blobs, drift, provs, told, adopted>>

\* AdoptReviewed: the events, and the files of the head with the events put over them.
Adopting(files, events, P) == [p \in Paths |-> IF p \in P THEN events[p] ELSE files[p]]

StartAdopt(c, P) ==
    /\ P # {} /\ \A p \in P : drift[p] # None
    /\ set.head # 0
    /\ Begin(c, [NoCall EXCEPT !.op = "adopt", !.at = "binding", !.paths = P, !.was = set,
                               !.files = Adopting(revs[set.head].files, drift, P)])
    /\ UNCHANGED <<set, revs, other, blobs, drift, provs, told, adopted>>

\* Rebind publishes the files of the head, not the draft.
StartRebind(c, v) ==
    /\ v \in provs /\ set.head # 0
    /\ Begin(c, [NoCall EXCEPT !.op = "rebind", !.at = "bind", !.was = set, !.binding = v,
                               !.files = revs[set.head].files])
    /\ UNCHANGED <<set, revs, other, blobs, drift, provs, told, adopted>>

\* SetDraftFile and, without a content, RemoveDraftFile: both replace one entry of the list
\* they have read.
StartEdit(c, p, b) ==
    /\ b # set.draft[p]
    /\ Begin(c, [NoCall EXCEPT !.op = "edit", !.was = set, !.paths = {p},
                               !.files = [set.draft EXCEPT ![p] = b],
                               !.at = IF b = None THEN "savedraft" ELSE "put"])
    /\ UNCHANGED <<set, revs, other, blobs, drift, provs, told, adopted>>

Put(c) ==
    /\ At(c, "put")
    /\ blobs' = blobs \cup {call[c].files[p] : p \in call[c].paths}
    /\ Goto(c, IF call[c].op = "report" THEN "event" ELSE "savedraft")
    /\ UNCHANGED <<set, revs, other, drift, provs, told, adopted, mishaps>>

StartBind(c, v) ==
    /\ Begin(c, [NoCall EXCEPT !.op = "bind", !.at = "bind", !.binding = v])
    /\ UNCHANGED <<set, revs, other, blobs, drift, provs, told, adopted>>

-----------------------------------------------------------------------------
(* PublishFiles.                                                           *)

\* Reads the record, and every content for its references: one that is not there ends it.
OpenSet(c) ==
    /\ At(c, "open")
    /\ ContentsOf(call[c].files) \subseteq blobs
    /\ call' = [call EXCEPT ![c].was = set, ![c].at = "save"]
    /\ mishaps' = mishaps
         \cup (IF call[c].op \in {"adopt", "rebind"} /\ call[c].was.head # set.head
               THEN {"stale"} ELSE {})
         \cup (IF call[c].binding \notin provs \cup {None} THEN {"unprovided"} ELSE {})
    /\ UNCHANGED <<set, revs, other, blobs, drift, provs, told, adopted>>

RefuseFiles(c) ==
    /\ At(c, "open")
    /\ ~(ContentsOf(call[c].files) \subseteq blobs)
    /\ End(c)
    /\ UNCHANGED <<set, revs, other, blobs, drift, provs, told, adopted, mishaps>>

\* The next number, tried again while the unique index refuses it.
SaveRevision(c) ==
    /\ At(c, "save")
    /\ revs' = Append(revs, [files |-> call[c].files, binding |-> call[c].binding])
    /\ call' = [call EXCEPT ![c].rev = Len(revs) + 1, ![c].at = "head"]
    /\ UNCHANGED <<set, other, blobs, drift, provs, told, adopted, mishaps>>

\* Mutant: an unbound revision leaves head_provider as it was.
HeadedUnbound(c) == [set EXCEPT !.head = call[c].rev,
                                !.provider = IF call[c].binding = None THEN @ ELSE call[c].binding]

\* Head and head_provider in one save.
Headed(c) == [set EXCEPT !.head = call[c].rev,
                         !.provider = Written(call[c].was.provider, call[c].binding, @)]

\* Mutant: adopting leaves the draft alone.
AfterHeadNoDraft(op) ==
    CASE op = "rollback" -> "draft" [] op = "adopt" -> "mark" [] OTHER -> "notify"

AfterHead(op) == IF op \in {"rollback", "adopt"} THEN "draft" ELSE "notify"

\* An adoption or a rollback has published and not yet changed the draft.
DraftBehind == \E c \in Calls : call[c].op # "edit" /\ call[c].at \in {"draft", "savedraft"}

SetHead(c) ==
    /\ At(c, "head")
    /\ set' = Headed(c)
    /\ Goto(c, AfterHead(call[c].op))
    /\ adopted' = CASE call[c].op = "rollback" -> NoFiles
                    [] call[c].op = "adopt" -> Adopting(adopted, call[c].files, call[c].paths)
                    [] OTHER -> adopted
    /\ mishaps' = mishaps
         \cup (IF call[c].was.head # set.head THEN {"crossed"} ELSE {})
         \cup (IF call[c].op = "publish" /\ (call[c].files # set.draft \/ DraftBehind)
               THEN {"stale"} ELSE {})
    /\ UNCHANGED <<revs, other, blobs, drift, provs, told>>

-----------------------------------------------------------------------------
(* The draft and its binding.                                              *)

\* The list that is going to be saved: all of it after a rollback, the adopted paths after an
\* adoption (syncDraft).
ReadDraft(c) ==
    /\ At(c, "draft")
    /\ call' = [call EXCEPT
         ![c].was = set, ![c].at = "savedraft",
         ![c].files = IF call[c].op = "rollback" THEN @
                      ELSE Adopting(set.draft, call[c].files, call[c].paths)]
    /\ UNCHANGED <<set, revs, other, blobs, drift, provs, told, adopted, mishaps>>

SaveDraft(c) ==
    /\ At(c, "savedraft")
    /\ set' = [set EXCEPT !.draft = Written(call[c].was.draft, call[c].files, @)]
    /\ CASE call[c].op = "edit" -> End(c)
         [] call[c].op = "rollback" -> Goto(c, "bind")
         [] OTHER -> Goto(c, "mark")
    /\ adopted' = IF call[c].op = "edit" THEN Adopting(adopted, NoFiles, call[c].paths)
                  ELSE adopted
    /\ mishaps' = mishaps
         \cup (IF call[c].was.draft # set.draft THEN {"clobbered"} ELSE {})
         \cup (IF call[c].op # "edit" /\ call[c].rev # set.head THEN {"stale"} ELSE {})
    /\ UNCHANGED <<revs, other, blobs, drift, provs, told>>

\* SetDraftBinding reads the record and asks for the provider.
CheckBinding(c) ==
    /\ At(c, "bind")
    /\ call[c].binding \in provs \cup {None}
    /\ call' = [call EXCEPT ![c].was.binding = set.binding, ![c].at = "savebinding"]
    /\ UNCHANGED <<set, revs, other, blobs, drift, provs, told, adopted, mishaps>>

RefuseBinding(c) ==
    /\ At(c, "bind")
    /\ call[c].binding \notin provs \cup {None}
    /\ End(c)
    /\ UNCHANGED <<set, revs, other, blobs, drift, provs, told, adopted, mishaps>>

SaveBinding(c) ==
    /\ At(c, "savebinding")
    /\ set' = [set EXCEPT !.binding = Written(call[c].was.binding, call[c].binding, @)]
    /\ CASE call[c].op = "bind" -> End(c)
         [] call[c].op = "rollback" -> Goto(c, "notify")
         [] OTHER -> Goto(c, "open")
    /\ UNCHANGED <<revs, other, blobs, drift, provs, told, adopted, mishaps>>

\* The events are closed as adopted, by the records read at the beginning.
Mark(c) ==
    /\ At(c, "mark")
    /\ drift' = [p \in Paths |-> IF p \in call[c].paths THEN None ELSE drift[p]]
    /\ Goto(c, "notify")
    /\ UNCHANGED <<set, revs, other, blobs, provs, told, adopted, mishaps>>

\* NotifyConfigSet: the machines pull whatever is the head then.
Notify(c) ==
    /\ At(c, "notify")
    /\ told' = set.head
    /\ End(c)
    /\ UNCHANGED <<set, revs, other, blobs, drift, provs, adopted, mishaps>>

-----------------------------------------------------------------------------
(* Reports, another config set, providers, collection of contents.         *)

\* A drift report: the content first, then the event.
StartReport(c, p, b) ==
    /\ b # drift[p]
    /\ Begin(c, [NoCall EXCEPT !.op = "report", !.at = "put", !.paths = {p},
                               !.files = [NoFiles EXCEPT ![p] = b]])
    /\ UNCHANGED <<set, revs, other, blobs, drift, provs, told, adopted>>

SaveEvent(c) ==
    /\ At(c, "event")
    /\ drift' = Adopting(drift, call[c].files, call[c].paths)
    /\ End(c)
    /\ UNCHANGED <<set, revs, other, blobs, provs, told, adopted, mishaps>>

\* CloneConfigSet copies the draft into a config set of its own.
StartClone(c) ==
    /\ other = NoFiles /\ set.draft # NoFiles
    /\ Begin(c, [NoCall EXCEPT !.op = "clone", !.at = "clone", !.files = set.draft])
    /\ UNCHANGED <<set, revs, other, blobs, drift, provs, told, adopted>>

SaveClone(c) ==
    /\ At(c, "clone")
    /\ other' = call[c].files
    /\ End(c)
    /\ UNCHANGED <<set, revs, blobs, drift, provs, told, adopted, mishaps>>

\* Mutant: the draft does not protect its provider.
BoundByHead(v) == v = set.provider

\* A provider is deleted unless the head or the draft of a config set is bound to it.
BoundBy(v) == v \in {set.provider, set.binding}

StartDelete(c, v) ==
    /\ v \in provs /\ ~BoundBy(v)
    /\ Begin(c, [NoCall EXCEPT !.op = "unprovide", !.at = "unprovide", !.binding = v])
    /\ UNCHANGED <<set, revs, other, blobs, drift, provs, told, adopted>>

Delete(c) ==
    /\ At(c, "unprovide")
    /\ provs' = provs \ {call[c].binding}
    /\ End(c)
    /\ UNCHANGED <<set, revs, other, blobs, drift, told, adopted, mishaps>>

\* DeleteConfigSet of the other one, and then GCOrphans: what is referenced is collected query
\* by query, and every content that is not is deleted.
StartPurge(c) ==
    /\ other # NoFiles
    /\ other' = NoFiles
    /\ Begin(c, [NoCall EXCEPT !.op = "purge", !.at = "revisions"])
    /\ UNCHANGED <<set, revs, blobs, drift, provs, told, adopted>>

InRevisions == UNION {ContentsOf(revs[n].files) : n \in 1 .. Len(revs)}
InDrafts == ContentsOf(set.draft) \cup ContentsOf(other)

\* Every query sees the database as it is then.
CollectRevisions(c) ==
    /\ At(c, "revisions")
    /\ call' = [call EXCEPT ![c].keep = InRevisions, ![c].at = "drafts"]
    /\ UNCHANGED <<set, revs, other, blobs, drift, provs, told, adopted, mishaps>>

\* Mutant: drift events are not looked at.
CollectDraftsOnly(c) ==
    /\ At(c, "drafts")
    /\ call' = [call EXCEPT ![c].keep = @ \cup InDrafts, ![c].at = "sweep"]
    /\ UNCHANGED <<set, revs, other, blobs, drift, provs, told, adopted, mishaps>>

CollectDrafts(c) ==
    /\ At(c, "drafts")
    /\ call' = [call EXCEPT ![c].keep = @ \cup InDrafts \cup ContentsOf(drift), ![c].at = "sweep"]
    /\ UNCHANGED <<set, revs, other, blobs, drift, provs, told, adopted, mishaps>>

Sweep(c) ==
    /\ At(c, "sweep")
    /\ blobs' = blobs \cap call[c].keep
    /\ End(c)
    /\ UNCHANGED <<set, revs, other, drift, provs, told, adopted, mishaps>>

-----------------------------------------------------------------------------
\* The hub dies: what calls had saved stays.
Crash ==
    /\ Running # {}
    /\ call' = [c \in Calls |-> NoCall]
    /\ mishaps' = mishaps \cup {"crashed"}
    /\ UNCHANGED <<set, revs, other, blobs, drift, provs, told, adopted>>

Start(c) ==
    \/ StartPublish(c) \/ StartClone(c) \/ StartPurge(c)
    \/ \E n \in 1 .. Len(revs) : StartRollback(c, n)
    \/ \E P \in SUBSET Paths : StartAdopt(c, P)
    \/ \E v \in Providers : StartRebind(c, v) \/ StartDelete(c, v)
    \/ \E v \in provs \cup {None} : StartBind(c, v)
    \/ \E p \in Paths : (\E b \in Contents \cup {None} : StartEdit(c, p, b))
                     \/ (\E b \in Contents : StartReport(c, p, b))

Proceed(c) ==
    \/ ReadBinding(c) \/ Put(c) \/ OpenSet(c) \/ RefuseFiles(c) \/ SaveRevision(c) \/ SetHead(c)
    \/ ReadDraft(c) \/ SaveDraft(c) \/ CheckBinding(c) \/ RefuseBinding(c) \/ SaveBinding(c)
    \/ Mark(c) \/ Notify(c) \/ SaveEvent(c) \/ SaveClone(c) \/ Delete(c)
    \/ CollectRevisions(c) \/ CollectDrafts(c) \/ Sweep(c)

Next == (\E c \in Calls : Start(c) \/ Proceed(c)) \/ Crash

Spec == Init /\ [][Next]_vars

-----------------------------------------------------------------------------
(* What is expected.                                                       *)

Without(ms) == mishaps \cap ms = {}

\* The head only moves to newer revisions, whatever publishes, unless two publications cross:
\* a call saves the head although another has moved it since it read the record.
HeadAdvances == [][set'.head < set.head => "crossed" \in mishaps']_vars

\* head_provider, by which providers are protected, is the binding of the head: PublishFiles is
\* the only place that writes either.
HeadProviderAgrees ==
    Without({"crossed"}) =>
        set.provider = IF set.head = 0 THEN None ELSE revs[set.head].binding

\* Adopting changes the adopted paths of the head and nothing else, neither another file nor
\* the binding; rebinding changes no file, and pushes nothing of the draft.
OthersUntouched ==
    [][\A c \in Calls :
         At(c, "head") /\ call'[c] # call[c] /\ call[c].op \in {"adopt", "rebind"}
           /\ mishaps' \cap {"crossed", "stale"} = {} =>
             /\ \A p \in Paths \ call[c].paths :
                    revs[set'.head].files[p] = revs[set.head].files[p]
             /\ call[c].op = "adopt" => revs[set'.head].binding = revs[set.head].binding]_vars

\* What was adopted stays in the head, and is in the draft as soon as its call has ended, until
\* somebody edits that path, rolls back, or adopts again: no publication of an old draft pushes
\* it out.
AdoptedStays ==
    Without({"crossed", "clobbered", "stale", "crashed"}) =>
        \A p \in Paths : adopted[p] # None =>
            /\ revs[set.head].files[p] = adopted[p]
            /\ (\A c \in Calls : call[c].op = "adopt" => p \notin call[c].paths) =>
                   set.draft[p] = adopted[p]

\* No content that a revision, the draft or an open drift refers to is ever collected, unless
\* the collection runs beside another call.
ContentsKept ==
    Without({"overlap"}) =>
        InRevisions \cup InDrafts \cup ContentsOf(drift) \subseteq blobs

\* What the head or the draft is bound to exists, unless a rollback went back to a revision
\* whose provider had been deleted in the meantime.
BoundExists ==
    Without({"overlap", "crossed", "unprovided"}) =>
        /\ set.binding \in provs \cup {None}
        /\ set.head # 0 => revs[set.head].binding \in provs \cup {None}

\* "RollbackConfigSet goes back to the given version and notifies" (src/hub/api.go): when no call runs
\* and none was cut off, the machines have been told of the head.
HeadIsTold == Running = {} /\ Without({"crashed"}) => told = set.head

=============================================================================
