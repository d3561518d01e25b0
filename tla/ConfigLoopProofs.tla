--------------------------- MODULE ConfigLoopProofs ---------------------------
(***************************************************************************)
(* Theorems about ConfigLoop, for any config sets, contents and number of  *)
(* revisions: its types; that the revision the hub records as applied is   *)
(* one the agent has had; that a Syncer never waits for a content nobody   *)
(* will send; that a machine that lost its state gets nothing but surveys; *)
(* and that revisions do not overtake each other.                          *)
(***************************************************************************)
EXTENDS ConfigLoop, TLAPS

-----------------------------------------------------------------------------
(* Queues.                                                                 *)

\* What is sent stands behind what was sent before it.
LEMMA SendTyped ==
    ASSUME down \in Seq(ToAgent), NEW m \in ToAgent, Send(m)
    PROVE  down' \in Seq(ToAgent)
BY DEF Send

LEMMA ReplyTyped ==
    ASSUME up \in [Links -> Seq(ToHub)], NEW m \in ToHub, Reply(m)
    PROVE  up' \in [Links -> Seq(ToHub)]
<1>1. "new" \in Links
  BY DEF Links
<1>2. Append(up["new"], m) \in Seq(ToHub)
  BY <1>1
<1> QED
  BY <1>1, <1>2 DEF Reply

\* What is read was typed, and so is the rest.
LEMMA ReadTyped ==
    ASSUME up \in [Links -> Seq(ToHub)], NEW l \in Links, NEW k, Reads(l, k)
    PROVE  /\ Head(up[l]) \in ToHub /\ Head(up[l]).kind = k
           /\ Head(up[l]) = up[l][1] /\ 1 \in DOMAIN up[l]
           /\ [up EXCEPT ![l] = Tail(@)] \in [Links -> Seq(ToHub)]
<1>1. up[l] \in Seq(ToHub) /\ up[l] # <<>>
  BY DEF Reads
<1>2. Head(up[l]) \in ToHub /\ Tail(up[l]) \in Seq(ToHub)
  BY <1>1
<1>3. Head(up[l]) = up[l][1] /\ 1 \in DOMAIN up[l]
  BY <1>1
<1> QED
  BY <1>2, <1>3 DEF Reads

LEMMA HearTyped ==
    ASSUME down \in Seq(ToAgent), NEW k, Hears(k)
    PROVE  Head(down) \in ToAgent /\ Head(down).kind = k /\ Tail(down) \in Seq(ToAgent)
<1>1. down # <<>>
  BY DEF Hears
<1> QED
  BY <1>1 DEF Hears

\* A request with one hash less is a request.
LEMMA AnsweredTyped ==
    ASSUME NEW q \in Seq(ToHub), q # <<>>, Head(q).kind = "need", NEW h
    PROVE  Answered(q, h) \in Seq(ToHub)
<1>1. Head(q) \in ToHub /\ Tail(q) \in Seq(ToHub)
  OBVIOUS
<1>2. Head(q) \in [kind : {"need"}, hashes : SUBSET Blobs]
  BY <1>1 DEF ToHub
<1>3. [kind |-> "need", hashes |-> Head(q).hashes \ {h}] \in ToHub
  BY <1>2 DEF ToHub
<1>4. <<[kind |-> "need", hashes |-> Head(q).hashes \ {h}]>> \in Seq(ToHub)
  BY <1>3
<1> QED
  BY <1>1, <1>4 DEF Answered

-----------------------------------------------------------------------------
(* Types.                                                                  *)

LEMMA AckTyped ==
    ASSUME NEW s, s.rev \in OrNone(Revisions), NEW o
    PROVE  Ack(s, o) \in ToHub /\ Ack(s, o).rev = s.rev
BY DEF Ack, ToHub

LEMMA MadeTyped == ASSUME NEW s \in State PROVE Made(s) \in State /\ Made(s).rev = s.rev
BY DEF State, Made

LEMMA SaveTyped ==
    ASSUME NEW s \in State, saved \in State, had \subseteq Revisions, Save(s)
    PROVE  st' \in State /\ saved' \in State /\ had' \subseteq Revisions
BY DEF Save, State, OrNone

\* However a snapshot ends, the agent is well typed, and nothing is pending.
LEMMA ConcludeTyped ==
    ASSUME TypeOK, NEW s \in Snapshot, NEW o \in Results, Conclude(s, o)
    PROVE  /\ st' \in State /\ saved' \in State /\ had' \subseteq Revisions
           /\ up' \in [Links -> Seq(ToHub)]
           /\ pending' = NoSnapshot /\ waiting' = {}
           /\ owed' \in Nat /\ blind' \in BOOLEAN
<1>1. s.rev \in Revisions /\ s.rev \in OrNone(Revisions) /\ s.ver \in Nat
  BY DEF Snapshot, OrNone
<1>2. o \in {"applied", "rolledback", "broken", "refused", "aborted", "surveyed", "dropped"}
  BY DEF Results, Acknowledged
<1>3. st' \in State /\ saved' \in State /\ had' \subseteq Revisions
  <2>1. CASE o \in {"applied", "surveyed"}
    <3>1. [rev |-> s.rev, health |-> "ok"] \in State
      BY <1>1 DEF State
    <3>2. Save([rev |-> s.rev, health |-> "ok"])
      BY <2>1 DEF Conclude
    <3> QED
      BY <3>1, <3>2, SaveTyped DEF TypeOK
  <2>2. CASE o = "broken"
    <3>1. [st EXCEPT !.health = "degraded"] \in State
      BY DEF TypeOK, State
    <3>2. Save([st EXCEPT !.health = "degraded"])
      BY <2>2 DEF Conclude
    <3> QED
      BY <3>1, <3>2, SaveTyped DEF TypeOK
  <2>3. CASE o \in {"rolledback", "refused"}
    <3>1. Save(Made(st))
      BY <2>3 DEF Conclude
    <3> QED
      BY <3>1, MadeTyped, SaveTyped DEF TypeOK
  <2>4. CASE o \in {"aborted", "dropped"}
    BY <2>4 DEF Conclude, TypeOK
  <2> QED
    BY <1>2, <2>1, <2>2, <2>3, <2>4
<1>4. up' \in [Links -> Seq(ToHub)]
  <2>1. Ack(s, o) \in ToHub
    BY <1>1, AckTyped
  <2> QED
    BY <2>1, ReplyTyped DEF Conclude, TypeOK
<1>5. owed' \in Nat /\ blind' \in BOOLEAN
  BY <1>1 DEF Conclude, TypeOK
<1> QED
  BY <1>3, <1>4, <1>5 DEF Conclude

LEMMA InitTyped == Init => TypeOK
<1> SUFFICES ASSUME Init PROVE TypeOK
  OBVIOUS
<1>1. NoState \in State
  BY DEF NoState, State, OrNone
<1>2. head \in [Sets -> 0..MaxRev]
  BY ConstantsAssumption DEF Init
<1>3. up \in [Links -> Seq(ToHub)] /\ down \in Seq(ToAgent)
  BY DEF Init
<1>4. serving \in [Links -> Snapshot \cup {NoSnapshot, Assembling}]
  BY DEF Init
<1>5. paused \in [Sets -> BOOLEAN]
  BY DEF Init
<1>6. /\ assign = NoAssignment /\ ver = 1 /\ todo = {} /\ link = "none"
      /\ st = NoState /\ saved = NoState /\ pending = NoSnapshot
      /\ waiting = {} /\ cache = {} /\ owed = 0 /\ excuses = {}
      /\ mixed \in BOOLEAN /\ spoilt = {} /\ blind \in BOOLEAN /\ had = {}
  BY DEF Init
<1> QED
  BY <1>1, <1>2, <1>3, <1>4, <1>5, <1>6 DEF TypeOK

\* The hub serves the head of the assigned set, if it has one.
LEMMA HeadTyped ==
    ASSUME TypeOK, assign # NoAssignment, head[assign.set] > 0
    PROVE  HeadRevision \in Revisions
<1>1. assign.set \in Sets
  BY DEF TypeOK, Assignment
<1>2. head[assign.set] \in 1..MaxRev
  BY <1>1, ConstantsAssumption DEF TypeOK
<1> QED
  BY <1>1, <1>2 DEF HeadRevision, Revisions

\* A notification is heard by whoever is connected.
LEMMA NotifyTyped == ASSUME TypeOK, NEW t \in Tasks, Notify(t) PROVE TypeOK'
<1>1. [kind |-> "notify"] \in ToAgent
  BY DEF ToAgent
<1>2. down' \in Seq(ToAgent)
  BY <1>1, SendTyped DEF Notify, TypeOK
<1>3. owed' \in Nat /\ excuses' \subseteq {"early", "fault"} /\ todo' \subseteq Tasks
  BY DEF Notify, TypeOK
<1> QED
  BY <1>2, <1>3 DEF Notify, TypeOK, agentVars

\* So is what people do at the hub.
LEMMA AdminTyped == ASSUME TypeOK, Admin PROVE TypeOK'
<1> USE DEF agentVars, historyVars, hubVars
<1>1. ASSUME NEW c \in Sets, Publish(c) PROVE TypeOK'
  <2>1. head' \in [Sets -> 0..MaxRev]
    BY <1>1, ConstantsAssumption DEF Publish, TypeOK
  <2>2. todo' \subseteq Tasks
    BY <1>1 DEF Publish, TypeOK, Tasks
  <2> QED
    BY <1>1, <2>1, <2>2 DEF Publish, TypeOK
<1>2. ASSUME NEW c \in Sets, Rotate(c) PROVE TypeOK'
  <2>1. todo' \subseteq Tasks
    BY <1>2 DEF Rotate, TypeOK, Tasks
  <2> QED
    BY <1>2, <2>1 DEF Rotate, TypeOK
<1>3. ASSUME NEW c \in Sets, SetPaused(c) PROVE TypeOK'
  BY <1>3 DEF SetPaused, TypeOK
<1>4. ASSUME NEW c \in Sets, NEW m \in Modes, Assign(c, m) PROVE TypeOK'
  <2>1. assign' \in Assignment \cup {NoAssignment}
    BY <1>4 DEF Assign, TypeOK, Assignment, OrNone
  <2>2. todo' \subseteq Tasks
    BY <1>4 DEF Assign, TypeOK, Tasks
  <2>3. /\ ver' = ver + 1 /\ blind' \in BOOLEAN
        /\ UNCHANGED <<head, paused, serving, up, link, down, agentVars,
                       owed, excuses, mixed, spoilt, had>>
    BY <1>4 DEF Assign
  <2> QED
    BY <2>1, <2>2, <2>3 DEF TypeOK
<1>5. CASE ClearDegraded
  <2>1. assign' \in Assignment \cup {NoAssignment}
    BY <1>5 DEF ClearDegraded, TypeOK, Assignment, Modes
  <2>2. todo' \subseteq Tasks
    BY <1>5 DEF ClearDegraded, TypeOK, Tasks
  <2>3. ver' = ver + 1 /\ UNCHANGED <<head, paused, serving, up, link, down, agentVars,
                                     historyVars>>
    BY <1>5 DEF ClearDegraded
  <2> QED
    BY <2>1, <2>2, <2>3 DEF TypeOK
<1>6. CASE OrderRestore
  <2>1. [kind |-> "restore"] \in ToAgent
    BY DEF ToAgent
  <2>2. down' \in Seq(ToAgent)
    BY <1>6, <2>1, SendTyped DEF OrderRestore, TypeOK
  <2> QED
    BY <1>6, <2>2 DEF OrderRestore, TypeOK
<1> QED
  BY <1>1, <1>2, <1>3, <1>4, <1>5, <1>6 DEF Admin

\* A content, or the word that there is none, answers one hash of a request.
LEMMA ServeBlobTyped ==
    ASSUME TypeOK, NEW l \in Links, NEW h \in Blobs, NEW missing \in BOOLEAN,
           ServeBlob(l, h, missing)
    PROVE  TypeOK'
<1> up \in [Links -> Seq(ToHub)] /\ down \in Seq(ToAgent)
  BY DEF TypeOK
<1>1. [kind |-> "blob", hash |-> h, missing |-> missing] \in ToAgent
  BY DEF ToAgent
<1>2. down' \in Seq(ToAgent)
  BY <1>1, SendTyped DEF ServeBlob
<1>3. up[l] \in Seq(ToHub) /\ up[l] # <<>> /\ Head(up[l]).kind = "need"
  BY DEF ServeBlob, Reads
<1>4. Answered(up[l], h) \in Seq(ToHub)
  BY <1>3, AnsweredTyped
<1>5. up' = [up EXCEPT ![l] = Answered(up[l], h)]
  BY DEF ServeBlob
<1>6. up' \in [Links -> Seq(ToHub)]
  BY <1>4, <1>5
<1> QED
  BY <1>2, <1>6 DEF ServeBlob, TypeOK, hubVars, agentVars, historyVars

\* A read loop keeps the types.
LEMMA HubLoopTyped == ASSUME TypeOK, NEW l \in Links, HubLoop(l) PROVE TypeOK'
<1> USE DEF agentVars, historyVars, hubVars
<1> up \in [Links -> Seq(ToHub)] /\ down \in Seq(ToAgent)
  BY DEF TypeOK
<1>1. CASE ServePull(l)
  <2>1. up' \in [Links -> Seq(ToHub)]
    BY <1>1, ReadTyped DEF ServePull, Popped
  <2>2. assign' \in Assignment \cup {NoAssignment}
    BY <1>1 DEF ServePull, TypeOK, Assignment, Modes, OrNone
  <2>3. serving' \in [Links -> Snapshot \cup {NoSnapshot, Assembling}]
    BY <1>1 DEF ServePull, TypeOK
  <2> QED
    BY <1>1, <2>1, <2>2, <2>3 DEF ServePull, TypeOK
<1>2. CASE Assemble(l)
  <2>1. [rev |-> HeadRevision, mode |-> assign.mode, ver |-> ver] \in Snapshot
    BY <1>2, HeadTyped DEF Assemble, Snapshot, TypeOK, Assignment
  <2>2. serving' \in [Links -> Snapshot \cup {NoSnapshot, Assembling}]
    BY <1>2, <2>1 DEF Assemble, TypeOK
  <2> QED
    BY <1>2, <2>2 DEF Assemble, TypeOK
<1>3. CASE NothingToAssemble(l)
  BY <1>3 DEF NothingToAssemble, NotAssembled, TypeOK
<1>4. CASE SendSnapshot(l)
  <2>1. [kind |-> "snapshot", snap |-> serving[l]] \in ToAgent
    BY <1>4 DEF SendSnapshot, TypeOK, ToAgent
  <2>2. down' \in Seq(ToAgent)
    BY <1>4, <2>1, SendTyped DEF SendSnapshot
  <2>3. serving' \in [Links -> Snapshot \cup {NoSnapshot, Assembling}] /\ mixed' \in BOOLEAN
    BY <1>4 DEF SendSnapshot, TypeOK
  <2> QED
    BY <1>4, <2>2, <2>3 DEF SendSnapshot, TypeOK
<1>5. ASSUME NEW h \in Blobs, ServeBlob(l, h, FALSE) PROVE TypeOK'
  BY <1>5, ServeBlobTyped
<1>6. CASE ServeAck(l)
  <2>1. up' \in [Links -> Seq(ToHub)] /\ Head(up[l]) \in ToHub /\ Head(up[l]).kind = "ack"
    BY <1>6, ReadTyped DEF ServeAck, Popped
  <2>2. Head(up[l]).rev \in OrNone(Revisions)
        /\ Head(up[l]).how \in {"ok", "rolledback", "other"}
    BY <2>1 DEF ToHub
  <2>3. assign' \in Assignment \cup {NoAssignment}
    BY <1>6, <2>2 DEF ServeAck, TypeOK, Assignment
  <2> QED
    BY <1>6, <2>1, <2>3 DEF ServeAck, TypeOK
<1> QED
  BY <1>1, <1>2, <1>3, <1>4, <1>5, <1>6 DEF HubLoop

\* So does a read loop of which the assembly fails, or the connection.
LEMMA FailureTyped == ASSUME TypeOK, Failure PROVE TypeOK'
<1> USE DEF agentVars, historyVars, hubVars
<1>1. CASE Disconnect
  <2>1. <<>> \in Seq(ToHub) /\ <<>> \in Seq(ToAgent) /\ "new" \in Links
    BY DEF Links
  <2>2. up' \in [Links -> Seq(ToHub)]
    BY <1>1, <2>1 DEF Disconnect, TypeOK
  <2>3. serving' \in [Links -> Snapshot \cup {NoSnapshot, Assembling}]
    BY <1>1, <2>1 DEF Disconnect, TypeOK
  <2> QED
    BY <1>1, <2>1, <2>2, <2>3 DEF Disconnect, TypeOK
<1>2. CASE LoseStateFile
  <2>1. NoState \in State
    BY DEF NoState, State, OrNone
  <2> QED
    BY <1>2, <2>1 DEF LoseStateFile, TypeOK
<1>3. CASE BlobSpoilt
  <2>1. Tail(down) \in Seq(ToAgent)
    BY <1>3, HearTyped DEF BlobSpoilt, TypeOK
  <2>2. spoilt' \subseteq Blobs
    BY <1>3 DEF BlobSpoilt, TypeOK
  <2> QED
    BY <1>3, <2>1, <2>2 DEF BlobSpoilt, TypeOK
<1>4. ASSUME NEW l \in Links, AssembleFails(l) PROVE TypeOK'
  <2>1. assign' \in Assignment \cup {NoAssignment}
    BY <1>4 DEF AssembleFails, TypeOK, Assignment
  <2>2. NotAssembled(l)
    BY <1>4 DEF AssembleFails
  <2> QED
    BY <2>1, <2>2 DEF NotAssembled, TypeOK
<1>5. ASSUME NEW l \in Links, NEW h \in Blobs, ServeBlob(l, h, TRUE) PROVE TypeOK'
  BY <1>5, ServeBlobTyped
<1> QED
  BY <1>1, <1>2, <1>3, <1>4, <1>5 DEF Failure

\* And the agent, whatever comes of a snapshot.
LEMMA AgentLoopTyped == ASSUME TypeOK, AgentLoop PROVE TypeOK'
<1> USE DEF agentVars, historyVars, hubVars
<1> /\ up \in [Links -> Seq(ToHub)] /\ down \in Seq(ToAgent)
    /\ st \in State /\ st.rev \in OrNone(Revisions)
  BY DEF TypeOK, State
<1>1. CASE HandleNotify
  <2>1. [kind |-> "pull", have |-> st.rev] \in ToHub
    BY DEF ToHub
  <2>2. up' \in [Links -> Seq(ToHub)] /\ down' \in Seq(ToAgent)
    BY <1>1, <2>1, ReplyTyped, HearTyped DEF HandleNotify
  <2> QED
    BY <1>1, <2>2 DEF HandleNotify, TypeOK
<1>2. ASSUME NEW o \in Results, HandleSnapshot(o) PROVE TypeOK'
  <2> DEFINE s == Head(down).snap
             need == Content[s.rev[1]][s.rev[2]] \ cache
  <2>1. Head(down) \in ToAgent /\ Head(down).kind = "snapshot" /\ down' \in Seq(ToAgent)
    BY <1>2, HearTyped DEF HandleSnapshot
  <2>6. s \in Snapshot
    BY <2>1 DEF ToAgent
  <2>2. need \subseteq Blobs
    BY <2>6, ConstantsAssumption DEF Snapshot, Revisions
  <2>3. UNCHANGED <<hubVars, link, cache, excuses, mixed>> /\ spoilt' = {}
    BY <1>2 DEF HandleSnapshot
  <2>4. CASE need = {}
    <3>1. Conclude(s, o)
      BY <1>2, <2>4 DEF HandleSnapshot
    <3> HIDE DEF s
    <3>2. /\ st' \in State /\ saved' \in State /\ had' \subseteq Revisions
          /\ up' \in [Links -> Seq(ToHub)]
          /\ pending' = NoSnapshot /\ waiting' = {}
          /\ owed' \in Nat /\ blind' \in BOOLEAN
      BY <2>6, <3>1, ConcludeTyped
    <3> QED
      BY <2>1, <2>3, <3>2 DEF TypeOK
  <2>5. CASE need # {}
    <3>1. /\ pending' = s /\ waiting' = need
          /\ Reply([kind |-> "need", hashes |-> need])
          /\ UNCHANGED <<st, saved, owed, blind, had>>
      BY <1>2, <2>5 DEF HandleSnapshot
    <3> HIDE DEF s, need
    <3>2. [kind |-> "need", hashes |-> need] \in ToHub
      BY <2>2 DEF ToHub
    <3>3. up' \in [Links -> Seq(ToHub)]
      BY <3>1, <3>2, ReplyTyped
    <3>4. s # NoSnapshot
      BY <2>6, ConstantsAssumption
    <3> QED
      BY <2>1, <2>2, <2>3, <2>5, <2>6, <3>1, <3>3, <3>4 DEF TypeOK
  <2> QED
    BY <2>4, <2>5
<1>3. ASSUME NEW o \in Results, HandleBlob(o) PROVE TypeOK'
  <2> DEFINE b == Head(down)
  <2>1. b.hash \in Blobs /\ b.missing \in BOOLEAN /\ down' \in Seq(ToAgent)
    BY <1>3, HearTyped DEF HandleBlob, ToAgent
  <2>2. UNCHANGED <<hubVars, link, excuses, mixed, spoilt>>
    BY <1>3 DEF HandleBlob
  <2>3. CASE b.hash \notin waiting
    <3>1. UNCHANGED <<up, agentVars, owed, blind, had>>
      BY <1>3, <2>3 DEF HandleBlob
    <3> QED
      BY <2>1, <2>2, <3>1 DEF TypeOK
  <2>4. CASE b.hash \in waiting
    <3>1. pending \in Snapshot
      BY <2>4 DEF TypeOK
    <3>2. cache' \subseteq Blobs
      BY <1>3, <2>1, <2>4 DEF HandleBlob, TypeOK
    <3>3. ASSUME NEW r \in Results, Conclude(pending, r) PROVE TypeOK'
      <4>1. /\ st' \in State /\ saved' \in State /\ had' \subseteq Revisions
            /\ up' \in [Links -> Seq(ToHub)]
            /\ pending' = NoSnapshot /\ waiting' = {}
            /\ owed' \in Nat /\ blind' \in BOOLEAN
        BY <3>1, <3>3, ConcludeTyped
      <4> QED
        BY <2>1, <2>2, <3>2, <4>1 DEF TypeOK
    <3>4. CASE b.missing
      <4>1. BlobMissing
        BY <1>3, <2>4, <3>4 DEF HandleBlob
      <4> QED
        BY <3>3, <4>1 DEF BlobMissing, Results, Acknowledged
    <3>5. CASE ~b.missing /\ waiting = {b.hash}
      BY <1>3, <2>4, <3>3, <3>5 DEF HandleBlob
    <3>6. CASE ~b.missing /\ waiting # {b.hash}
      <4>1. /\ waiting' = waiting \ {b.hash}
            /\ UNCHANGED <<up, st, saved, pending, owed, blind, had>>
        BY <1>3, <2>4, <3>6 DEF HandleBlob
      <4>2. waiting' # {}
        BY <2>4, <3>6, <4>1
      <4> QED
        BY <2>1, <2>2, <2>4, <3>2, <4>1, <4>2 DEF TypeOK
    <3> QED
      BY <3>4, <3>5, <3>6
  <2> QED
    BY <2>3, <2>4
<1>4. ASSUME NEW o \in Acknowledged, HandleRestore(o) PROVE TypeOK'
  <2>1. down' \in Seq(ToAgent)
    BY <1>4, HearTyped DEF HandleRestore
  <2>2. UNCHANGED <<hubVars, link, pending, waiting, cache,
                    owed, excuses, mixed, spoilt, blind>>
    BY <1>4 DEF HandleRestore
  <2>3. CASE st = NoState \/ o = "aborted"
    <3>1. UNCHANGED <<up, st, saved, had>>
      BY <1>4, <2>3 DEF HandleRestore
    <3> QED
      BY <2>1, <2>2, <3>1 DEF TypeOK
  <2>4. CASE ~(st = NoState \/ o = "aborted")
    <3>1. Save(st) /\ Reply(Ack([rev |-> st.rev], o))
      BY <1>4, <2>4 DEF HandleRestore
    <3>2. st' \in State /\ saved' \in State /\ had' \subseteq Revisions
      BY <3>1, SaveTyped DEF TypeOK
    <3>3. Ack([rev |-> st.rev], o) \in ToHub
      BY AckTyped, [rev |-> st.rev].rev = st.rev
    <3>4. up' \in [Links -> Seq(ToHub)]
      BY <3>1, <3>3, ReplyTyped
    <3> QED
      BY <2>1, <2>2, <3>2, <3>4 DEF TypeOK
  <2> QED
    BY <2>3, <2>4
<1> QED
  BY <1>1, <1>2, <1>3, <1>4 DEF AgentLoop

\* Every step keeps the types.
LEMMA TypesKept == TypeOK /\ [Next]_vars => TypeOK'
<1> SUFFICES ASSUME TypeOK, [Next]_vars PROVE TypeOK'
  OBVIOUS
<1> USE DEF agentVars, historyVars, hubVars
<1>1. CASE OldLoopEnds
  <2>1. <<>> \in Seq(ToHub) /\ up \in [Links -> Seq(ToHub)]
    BY DEF TypeOK
  <2>2. up' \in [Links -> Seq(ToHub)]
    BY <1>1, <2>1 DEF OldLoopEnds
  <2> QED
    BY <1>1, <2>2 DEF OldLoopEnds, TypeOK
<1>2. CASE Connect
  <2>1. todo' \subseteq Tasks /\ blind' \in BOOLEAN
    BY <1>2 DEF Connect, TypeOK, Tasks
  <2>2. st' \in State /\ pending' = NoSnapshot /\ waiting' = {}
    BY <1>2 DEF Connect, Fresh, TypeOK
  <2> QED
    BY <1>2, <2>1, <2>2 DEF Connect, TypeOK
<1>3. CASE StoreSession
  BY <1>3 DEF StoreSession, TypeOK
<1>4. CASE UNCHANGED vars
  BY <1>4 DEF vars, TypeOK
<1> QED
  BY <1>1, <1>2, <1>3, <1>4, AdminTyped, NotifyTyped, HubLoopTyped, FailureTyped,
     AgentLoopTyped DEF Next

\* Every variable has its type, and the agent waits for contents exactly as long as a
\* snapshot is pending.
THEOREM TypeCorrect == Spec => []TypeOK
<1>1. Init => TypeOK
  BY InitTyped
<1>2. TypeOK /\ [Next]_vars => TypeOK'
  BY TypesKept
<1> QED
  BY <1>1, <1>2, PTL DEF Spec

-----------------------------------------------------------------------------
(* What the hub records as applied.                                        *)

\* Every acknowledgement of a success names a revision of H, or none.
TrueAcks(q, H) ==
    \A i \in DOMAIN q : q[i].kind = "ack" /\ q[i].how = "ok" => q[i].rev \in OrNone(H)

\* The record is as good as the acknowledgements, those as good as the state they were
\* made from, and that as good as the file it was read from.
ReachedInv ==
    /\ st.rev \in OrNone(had) /\ saved.rev \in OrNone(had)
    /\ \A l \in Links : TrueAcks(up[l], had)
    /\ assign # NoAssignment => assign.applied \in OrNone(had)

\* What was true stays true when messages are taken away, or the history grows.
LEMMA TailTrue ==
    ASSUME NEW q \in Seq(ToHub), q # <<>>, NEW H, TrueAcks(q, H)
    PROVE  TrueAcks(Tail(q), H)
<1>1. \A i \in DOMAIN Tail(q) : i + 1 \in DOMAIN q /\ Tail(q)[i] = q[i + 1]
  OBVIOUS
<1> QED
  BY <1>1 DEF TrueAcks

LEMMA MoreTrue ==
    ASSUME NEW q, NEW H, NEW G, H \subseteq G, TrueAcks(q, H)
    PROVE  TrueAcks(q, G)
BY DEF TrueAcks, OrNone

\* An answer to a request acknowledges nothing.
LEMMA AnsweredTrue ==
    ASSUME NEW q \in Seq(ToHub), q # <<>>, NEW H, TrueAcks(q, H), NEW h
    PROVE  TrueAcks(Answered(q, h), H)
<1>1. TrueAcks(Tail(q), H) /\ Tail(q) \in Seq(ToHub)
  BY TailTrue
<1> DEFINE m == [kind |-> "need", hashes |-> Head(q).hashes \ {h}]
           t == Tail(q)
<1>2. CASE Head(q).hashes = {h}
  BY <1>1, <1>2 DEF Answered
<1>3. CASE Head(q).hashes # {h}
  <2>1. Answered(q, h) = <<m>> \o t /\ m.kind # "ack"
    BY <1>3 DEF Answered
  <2> HIDE DEF m, t
  <2>2. \A i \in DOMAIN (<<m>> \o t) : (<<m>> \o t)[i] = m
                    \/ (i - 1 \in DOMAIN t /\ (<<m>> \o t)[i] = t[i - 1])
    BY <1>1 DEF t
  <2>3. TrueAcks(t, H)
    BY <1>1 DEF t
  <2> QED
    BY <2>1, <2>2, <2>3 DEF TrueAcks
<1> QED
  BY <1>2, <1>3

\* A reply that acknowledges what the agent has had keeps the queues true.
LEMMA ReplyTrue ==
    ASSUME up \in [Links -> Seq(ToHub)], NEW H, NEW m, Reply(m),
           \A l \in Links : TrueAcks(up[l], H),
           m.kind = "ack" /\ m.how = "ok" => m.rev \in OrNone(H)
    PROVE  \A l \in Links : TrueAcks(up'[l], H)
<1> DEFINE q == up["new"]
<1>1. q \in Seq(ToHub) /\ TrueAcks(q, H)
  BY DEF Links
<1>2. \A i \in DOMAIN Append(q, m) : (i \in DOMAIN q /\ Append(q, m)[i] = q[i])
                                        \/ Append(q, m)[i] = m
  BY <1>1
<1>3. TrueAcks(Append(q, m), H)
  BY <1>1, <1>2 DEF TrueAcks
<1> QED
  BY <1>3 DEF Reply

\* What is saved has been had from then on.
LEMMA SaveReached ==
    ASSUME NEW s, Save(s), saved.rev \in OrNone(had)
    PROVE  /\ st'.rev \in OrNone(had') /\ saved'.rev \in OrNone(had')
           /\ s.rev \in OrNone(had') /\ had \subseteq had'
BY DEF Save, OrNone

\* The invariant survives when messages are only taken away, and nothing else changes.
LEMMA LessToRead ==
    ASSUME ReachedInv, UNCHANGED <<st, saved, had>>,
           \A l \in Links : TrueAcks(up'[l], had),
           assign' = assign \/ (assign' # NoAssignment => assign'.applied \in OrNone(had))
    PROVE  ReachedInv'
BY DEF ReachedInv

\* A snapshot is acknowledged as applied once its revision is in the state.
LEMMA ConcludeReached ==
    ASSUME TypeOK, ReachedInv, NEW s \in Snapshot, NEW o \in Results, Conclude(s, o),
           UNCHANGED assign
    PROVE  ReachedInv'
<1>1. /\ st'.rev \in OrNone(had') /\ saved'.rev \in OrNone(had') /\ had \subseteq had'
      /\ o = "applied" => s.rev \in OrNone(had')
  <2>1. CASE o \in {"applied", "surveyed"}
    <3>1. Save([rev |-> s.rev, health |-> "ok"])
      BY <2>1 DEF Conclude
    <3>2. [rev |-> s.rev, health |-> "ok"].rev \in OrNone(had')
      BY <3>1, SaveReached DEF ReachedInv
    <3> QED
      BY <3>1, <3>2, SaveReached DEF ReachedInv
  <2>2. CASE o = "broken"
    <3>1. Save([st EXCEPT !.health = "degraded"])
      BY <2>2 DEF Conclude
    <3> QED
      BY <2>2, <3>1, SaveReached DEF ReachedInv
  <2>3. CASE o \in {"rolledback", "refused"}
    <3>1. Save(Made(st))
      BY <2>3 DEF Conclude
    <3> QED
      BY <2>3, <3>1, SaveReached DEF ReachedInv
  <2>4. CASE o \in {"aborted", "dropped"}
    BY <2>4 DEF Conclude, ReachedInv
  <2> QED
    BY <2>1, <2>2, <2>3, <2>4 DEF Results, Acknowledged
<1>2. \A l \in Links : TrueAcks(up[l], had')
  BY <1>1, MoreTrue DEF ReachedInv
<1>3. Ack(s, o).how = "ok" => Ack(s, o).rev \in OrNone(had')
  BY <1>1 DEF Ack
<1>4. \A l \in Links : TrueAcks(up'[l], had')
  BY <1>2, <1>3, ReplyTrue DEF Conclude, TypeOK
<1>5. OrNone(had) \subseteq OrNone(had')
  BY <1>1 DEF OrNone
<1> QED
  BY <1>1, <1>4, <1>5 DEF ReachedInv

LEMMA InitReached == Init => ReachedInv
BY DEF Init, ReachedInv, NoState, OrNone, TrueAcks

\* A content is served, and the request shrinks.
LEMMA ServeBlobReached ==
    ASSUME TypeOK, ReachedInv, NEW l \in Links, NEW h, NEW missing, ServeBlob(l, h, missing)
    PROVE  ReachedInv'
<1>1. up \in [Links -> Seq(ToHub)] /\ up[l] \in Seq(ToHub) /\ up[l] # <<>>
  BY DEF TypeOK, ServeBlob, Reads
<1>2. TrueAcks(Answered(up[l], h), had)
  BY <1>1, AnsweredTrue DEF ReachedInv
<1>3. up' = [up EXCEPT ![l] = Answered(up[l], h)]
  BY DEF ServeBlob
<1>4. \A n \in Links : TrueAcks(up'[n], had)
  BY <1>1, <1>2, <1>3 DEF ReachedInv
<1>5. UNCHANGED <<st, saved, had, assign>>
  BY DEF ServeBlob, hubVars, agentVars, historyVars
<1> QED
  BY <1>4, <1>5, LessToRead

\* People change no record of what was applied, except to forget it.
LEMMA AdminReached == ASSUME TypeOK, ReachedInv, Admin PROVE ReachedInv'
<1> USE DEF agentVars, historyVars, hubVars
<1>1. UNCHANGED <<st, saved, had, up>>
  BY DEF Admin, Publish, Rotate, SetPaused, Assign, ClearDegraded, OrderRestore
<1>2. assign' = assign \/ (assign' # NoAssignment => assign'.applied \in OrNone(had))
  <2>1. ASSUME NEW c \in Sets, NEW m \in Modes, Assign(c, m)
        PROVE  assign'.applied \in OrNone(had)
    BY <2>1 DEF Assign, ReachedInv, OrNone, TypeOK, Assignment
  <2>2. CASE ClearDegraded
    BY <2>2 DEF ClearDegraded, ReachedInv, TypeOK, Assignment
  <2> QED
    BY <2>1, <2>2 DEF Admin, Publish, Rotate, SetPaused, OrderRestore
<1> QED
  BY <1>1, <1>2, LessToRead DEF ReachedInv

\* A read loop records what it reads.
LEMMA HubLoopReached == ASSUME TypeOK, ReachedInv, NEW l \in Links, HubLoop(l) PROVE ReachedInv'
<1> USE DEF agentVars, historyVars, hubVars
<1> up \in [Links -> Seq(ToHub)]
  BY DEF TypeOK
<1>1. ASSUME NEW k, Reads(l, k), Popped(l)
      PROVE  \A n \in Links : TrueAcks(up'[n], had)
  BY <1>1, TailTrue DEF Reads, Popped, ReachedInv
<1>2. CASE ServePull(l)
  <2>1. assign' = assign \/ assign'.applied = NoRevision
    BY <1>2 DEF ServePull, TypeOK, Assignment
  <2> QED
    BY <1>1, <1>2, <2>1, LessToRead DEF ServePull, OrNone
<1>3. CASE Assemble(l) \/ NothingToAssemble(l) \/ SendSnapshot(l)
  <2>1. UNCHANGED <<up, assign, st, saved, had>>
    BY <1>3 DEF Assemble, NothingToAssemble, NotAssembled, SendSnapshot
  <2> QED
    BY <2>1, LessToRead DEF ReachedInv
<1>4. ASSUME NEW h \in Blobs, NEW missing, ServeBlob(l, h, missing) PROVE ReachedInv'
  BY <1>4, ServeBlobReached
<1>5. CASE ServeAck(l)
  <2>1. /\ Head(up[l]) \in ToHub /\ Head(up[l]).kind = "ack"
        /\ Head(up[l]) = up[l][1] /\ 1 \in DOMAIN up[l]
    BY <1>5, ReadTyped DEF ServeAck
  <2>2. Head(up[l]).how = "ok" => Head(up[l]).rev \in OrNone(had)
    BY <2>1 DEF ReachedInv, TrueAcks
  <2>3. Head(up[l]).how \in {"ok", "rolledback", "other"}
    BY <2>1 DEF ToHub
  <2>4. assign' = assign \/ assign'.applied \in OrNone(had)
    BY <1>5, <2>2, <2>3 DEF ServeAck, TypeOK, Assignment, ReachedInv
  <2> QED
    BY <1>1, <1>5, <2>4, LessToRead DEF ServeAck
<1> QED
  BY <1>2, <1>3, <1>4, <1>5 DEF HubLoop

\* A failure takes messages away, or the file.
LEMMA FailureReached == ASSUME TypeOK, ReachedInv, Failure PROVE ReachedInv'
<1> USE DEF agentVars, historyVars, hubVars
<1>1. CASE Disconnect
  <2>1. \A n \in Links : up'[n] = up["new"] \/ up'[n] = <<>>
    BY <1>1 DEF Disconnect
  <2>2. \A n \in Links : TrueAcks(up'[n], had)
    BY <2>1 DEF ReachedInv, TrueAcks, Links
  <2> QED
    BY <1>1, <2>2, LessToRead DEF Disconnect
<1>2. CASE LoseStateFile
  BY <1>2 DEF LoseStateFile, ReachedInv, NoState, OrNone
<1>3. CASE BlobSpoilt
  BY <1>3, LessToRead DEF BlobSpoilt, ReachedInv
<1>4. ASSUME NEW l \in Links, AssembleFails(l) PROVE ReachedInv'
  <2>1. assign' = assign \/ assign'.applied = assign.applied
    BY <1>4 DEF AssembleFails, TypeOK, Assignment
  <2> QED
    BY <1>4, <2>1, LessToRead DEF AssembleFails, NotAssembled, ReachedInv
<1>5. ASSUME NEW l \in Links, NEW h \in Blobs, ServeBlob(l, h, TRUE) PROVE ReachedInv'
  BY <1>5, ServeBlobReached
<1> QED
  BY <1>1, <1>2, <1>3, <1>4, <1>5 DEF Failure

\* The agent acknowledges what it has had.
LEMMA AgentLoopReached == ASSUME TypeOK, ReachedInv, AgentLoop PROVE ReachedInv'
<1> USE DEF agentVars, historyVars, hubVars
<1> up \in [Links -> Seq(ToHub)] /\ down \in Seq(ToAgent)
  BY DEF TypeOK
<1>1. CASE HandleNotify
  <2>1. Reply([kind |-> "pull", have |-> st.rev])
    BY <1>1 DEF HandleNotify
  <2>2. \A n \in Links : TrueAcks(up'[n], had)
    BY <2>1, ReplyTrue DEF ReachedInv
  <2> QED
    BY <1>1, <2>2, LessToRead DEF HandleNotify
<1>2. ASSUME NEW o \in Results, HandleSnapshot(o) PROVE ReachedInv'
  <2> DEFINE s == Head(down).snap
             need == Content[s.rev[1]][s.rev[2]] \ cache
  <2>1. Head(down) \in ToAgent /\ Head(down).kind = "snapshot"
    BY <1>2, HearTyped DEF HandleSnapshot
  <2>2. s \in Snapshot
    BY <2>1 DEF ToAgent
  <2>3. CASE need = {}
    <3>1. Conclude(s, o) /\ UNCHANGED assign
      BY <1>2, <2>3 DEF HandleSnapshot
    <3> QED
      BY <2>2, <3>1, ConcludeReached
  <2>4. CASE need # {}
    <3>1. Reply([kind |-> "need", hashes |-> need]) /\ UNCHANGED <<st, saved, had, assign>>
      BY <1>2, <2>4 DEF HandleSnapshot
    <3>2. \A n \in Links : TrueAcks(up'[n], had)
      <4> HIDE DEF need
      <4> QED
        BY <3>1, ReplyTrue DEF ReachedInv
    <3> QED
      BY <3>1, <3>2, LessToRead
  <2> QED
    BY <2>3, <2>4
<1>3. ASSUME NEW o \in Results, HandleBlob(o) PROVE ReachedInv'
  <2>1. \/ UNCHANGED <<up, st, saved, had, assign>>
        \/ /\ Head(down).hash \in waiting /\ UNCHANGED assign
           /\ Conclude(pending, o) \/ Conclude(pending, "aborted")
    BY <1>3 DEF HandleBlob, BlobMissing
  <2>2. CASE UNCHANGED <<up, st, saved, had, assign>>
    BY <2>2, LessToRead DEF ReachedInv
  <2>3. ASSUME Head(down).hash \in waiting, UNCHANGED assign,
               NEW r \in Results, Conclude(pending, r)
        PROVE  ReachedInv'
    <3>1. pending \in Snapshot
      BY <2>3 DEF TypeOK
    <3> QED
      BY <2>3, <3>1, ConcludeReached
  <2> QED
    BY <2>1, <2>2, <2>3 DEF Results, Acknowledged
<1>4. ASSUME NEW o \in Acknowledged, HandleRestore(o) PROVE ReachedInv'
  <2>1. CASE st = NoState \/ o = "aborted"
    BY <1>4, <2>1, LessToRead DEF HandleRestore, ReachedInv
  <2>2. CASE ~(st = NoState \/ o = "aborted")
    <3>1. Save(st) /\ Reply(Ack([rev |-> st.rev], o)) /\ UNCHANGED assign
      BY <1>4, <2>2 DEF HandleRestore
    <3>2. /\ st'.rev \in OrNone(had') /\ saved'.rev \in OrNone(had')
          /\ st.rev \in OrNone(had') /\ had \subseteq had'
      BY <3>1, SaveReached DEF ReachedInv
    <3>3. Ack([rev |-> st.rev], o).rev \in OrNone(had')
      BY <3>2 DEF Ack
    <3>4. \A n \in Links : TrueAcks(up[n], had')
      BY <3>2, MoreTrue DEF ReachedInv
    <3>5. \A n \in Links : TrueAcks(up'[n], had')
      BY <3>1, <3>3, <3>4, ReplyTrue
    <3>6. OrNone(had) \subseteq OrNone(had')
      BY <3>2 DEF OrNone
    <3> QED
      BY <3>1, <3>2, <3>5, <3>6 DEF ReachedInv
  <2> QED
    BY <2>1, <2>2
<1> QED
  BY <1>1, <1>2, <1>3, <1>4 DEF AgentLoop

\* Every step keeps it.
LEMMA ReachedKept == TypeOK /\ ReachedInv /\ [Next]_vars => ReachedInv'
<1> SUFFICES ASSUME TypeOK, ReachedInv, [Next]_vars PROVE ReachedInv'
  OBVIOUS
<1> USE DEF agentVars, historyVars, hubVars
<1>1. ASSUME NEW t \in Tasks, Notify(t) PROVE ReachedInv'
  BY <1>1, LessToRead DEF Notify, ReachedInv
<1>2. CASE OldLoopEnds
  <2>1. \A n \in Links : up'[n] = up[n] \/ up'[n] = <<>>
    BY <1>2 DEF OldLoopEnds, TypeOK
  <2>2. \A n \in Links : TrueAcks(up'[n], had)
    BY <2>1 DEF ReachedInv, TrueAcks
  <2> QED
    BY <1>2, <2>2, LessToRead DEF OldLoopEnds
<1>3. CASE Connect
  BY <1>3 DEF Connect, Fresh, ReachedInv
<1>4. CASE StoreSession
  BY <1>4, LessToRead DEF StoreSession, ReachedInv
<1>5. CASE UNCHANGED vars
  BY <1>5, LessToRead DEF vars, ReachedInv
<1> QED
  BY <1>1, <1>2, <1>3, <1>4, <1>5, AdminReached, HubLoopReached, FailureReached,
     AgentLoopReached DEF Next

\* ApplyAck stores whatever revision it is given, late, of another assignment, or of a
\* connection that is long gone; it is always one that Syncer had in its state.
THEOREM AppliedIsReached == Spec => []AppliedWasReached
<1>1. Init => TypeOK /\ ReachedInv
  BY InitTyped, InitReached
<1>2. TypeOK /\ ReachedInv /\ [Next]_vars => TypeOK' /\ ReachedInv'
  BY TypesKept, ReachedKept
<1>3. ReachedInv => AppliedWasReached
  BY DEF ReachedInv, AppliedWasReached, OrNone
<1> QED
  BY <1>1, <1>2, <1>3, PTL DEF Spec

-----------------------------------------------------------------------------
(* A Syncer never waits for a content nobody will send.                   *)
(* Requests and answers.                                                   *)

\* Requested, of the queues q to the hub and d to the agent.
Underway(h, q, d) ==
    \/ \E i \in DOMAIN q : q[i].kind = "need" /\ h \in q[i].hashes
    \/ \E i \in DOMAIN d : d[i].kind = "blob" /\ d[i].hash = h

LEMMA RequestedIsUnderway == \A h : Requested(h) = Underway(h, up["new"], down)
BY DEF Requested, Underway

\* Sending takes nothing away.
LEMMA AppendDown ==
    ASSUME NEW q, NEW d \in Seq(ToAgent), NEW m, NEW h, Underway(h, q, d)
    PROVE  Underway(h, q, Append(d, m))
<1>1. \A i \in DOMAIN d : i \in DOMAIN Append(d, m) /\ Append(d, m)[i] = d[i]
  OBVIOUS
<1> QED
  BY <1>1 DEF Underway

LEMMA AppendUp ==
    ASSUME NEW q \in Seq(ToHub), NEW d, NEW m, NEW h,
           Underway(h, q, d) \/ (m.kind = "need" /\ h \in m.hashes)
    PROVE  Underway(h, Append(q, m), d)
<1>1. \A i \in DOMAIN q : i \in DOMAIN Append(q, m) /\ Append(q, m)[i] = q[i]
  OBVIOUS
<1>2. Len(q) + 1 \in DOMAIN Append(q, m) /\ Append(q, m)[Len(q) + 1] = m
  OBVIOUS
<1> QED
  BY <1>1, <1>2 DEF Underway

\* Reading takes away what was read, and no more.
LEMMA TailDown ==
    ASSUME NEW q, NEW d \in Seq(ToAgent), d # <<>>, NEW h, Underway(h, q, d),
           ~(Head(d).kind = "blob" /\ Head(d).hash = h)
    PROVE  Underway(h, q, Tail(d))
<1>1. \A i \in DOMAIN d : (i = 1 /\ d[i] = Head(d))
                            \/ (i - 1 \in DOMAIN Tail(d) /\ Tail(d)[i - 1] = d[i])
  OBVIOUS
<1> QED
  BY <1>1 DEF Underway

LEMMA TailUp ==
    ASSUME NEW q \in Seq(ToHub), q # <<>>, NEW d, NEW h, Underway(h, q, d),
           ~(Head(q).kind = "need" /\ h \in Head(q).hashes)
    PROVE  Underway(h, Tail(q), d)
<1>1. \A i \in DOMAIN q : (i = 1 /\ q[i] = Head(q))
                            \/ (i - 1 \in DOMAIN Tail(q) /\ Tail(q)[i - 1] = q[i])
  OBVIOUS
<1> QED
  BY <1>1 DEF Underway

\* A request that was answered in part still asks for the rest.
LEMMA AnsweredUp ==
    ASSUME NEW q \in Seq(ToHub), q # <<>>, NEW d, NEW h, NEW g, g # h, Underway(g, q, d)
    PROVE  Underway(g, Answered(q, h), d)
<1> DEFINE m == [kind |-> "need", hashes |-> Head(q).hashes \ {h}]
           t == Tail(q)
<1>1. CASE Head(q).hashes = {h}
  BY <1>1, TailUp DEF Answered
<1>2. CASE Head(q).hashes # {h}
  <2>1. Answered(q, h) = <<m>> \o t /\ t \in Seq(ToHub)
    BY <1>2 DEF Answered
  <2>2. CASE Head(q).kind = "need" /\ g \in Head(q).hashes
    <3>1. m.kind = "need" /\ g \in m.hashes
      BY <2>2
    <3> HIDE DEF m, t
    <3>2. 1 \in DOMAIN (<<m>> \o t) /\ (<<m>> \o t)[1] = m
      BY <2>1
    <3> QED
      BY <2>1, <3>1, <3>2 DEF Underway
  <2>3. CASE ~(Head(q).kind = "need" /\ g \in Head(q).hashes)
    <3>1. Underway(g, t, d)
      BY <2>3, TailUp
    <3> HIDE DEF m, t
    <3>2. \A i \in DOMAIN t : i + 1 \in DOMAIN (<<m>> \o t) /\ (<<m>> \o t)[i + 1] = t[i]
      BY <2>1
    <3> QED
      BY <2>1, <3>1, <3>2 DEF Underway
  <2> QED
    BY <2>2, <2>3
<1> QED
  BY <1>1, <1>2

-----------------------------------------------------------------------------
(* The invariant.                                                          *)

NoSnapshots(d) == \A i \in DOMAIN d : d[i].kind # "snapshot"

\* Before the session is stored the agent has asked for nothing, so only an older
\* connection's read loop can have sent it a snapshot; without a connection nothing is
\* on its way.
WaitInv ==
    /\ NobodyWaitsAlone
    /\ link # "ready" => up["new"] = <<>> /\ serving["new"] = NoSnapshot
    /\ link = "none" => down = <<>> /\ ~mixed
    /\ link = "greeting" /\ ~mixed => NoSnapshots(down)

LEMMA InitWaits == Init => WaitInv
BY DEF Init, WaitInv, NobodyWaitsAlone, Links

\* Messages may be added on either side while nothing else changes.
LEMMA MoreUnderway ==
    ASSUME WaitInv, UNCHANGED <<link, waiting, spoilt>>, mixed => mixed',
           link # "ready" => up'["new"] = <<>> /\ serving'["new"] = NoSnapshot,
           link = "none" => down' = <<>> /\ ~mixed',
           link = "greeting" /\ ~mixed' => NoSnapshots(down'),
           \A h \in waiting : Underway(h, up["new"], down) => Underway(h, up'["new"], down')
    PROVE  WaitInv'
<1>1. \A h : Requested(h)' = Underway(h, up'["new"], down')
  BY DEF Requested, Underway
<1>2. NobodyWaitsAlone'
  BY <1>1, RequestedIsUnderway DEF WaitInv, NobodyWaitsAlone
<1> QED
  BY <1>2 DEF WaitInv

\* One more message for the agent, no snapshot, and nothing else.
LEMMA SendWaits ==
    ASSUME TypeOK, WaitInv, NEW m \in ToAgent, Send(m), m.kind # "snapshot",
           UNCHANGED <<up, serving, link, waiting, spoilt, mixed>>
    PROVE  WaitInv'
<1>1. CASE link = "none"
  <2>1. down' = down
    BY <1>1 DEF Send
  <2> QED
    BY <1>1, <2>1, MoreUnderway DEF WaitInv
<1>2. CASE link # "none"
  <2>1. down' = Append(down, m) /\ down \in Seq(ToAgent)
    BY <1>2 DEF Send, TypeOK
  <2>2. \A h : Underway(h, up["new"], down) => Underway(h, up'["new"], down')
    BY <2>1, AppendDown
  <2>3. NoSnapshots(down) => NoSnapshots(down')
    BY <2>1 DEF NoSnapshots
  <2> QED
    BY <1>2, <2>2, <2>3, MoreUnderway DEF WaitInv
<1> QED
  BY <1>1, <1>2

\* A message that is no content is read by the agent, which may reply to it.
LEMMA HearWaits ==
    ASSUME TypeOK, WaitInv, NEW k, Hears(k), k # "blob", down' = Tail(down),
           NEW m \in ToHub, Reply(m) \/ up' = up,
           UNCHANGED <<serving, link, waiting, spoilt, mixed>>
    PROVE  WaitInv'
<1>1. up["new"] \in Seq(ToHub) /\ down \in Seq(ToAgent) /\ down # <<>> /\ Head(down).kind = k
  BY DEF TypeOK, Links, Hears
<1>2. link # "none"
  BY <1>1 DEF WaitInv
<1>3. \A h : Underway(h, up["new"], down) => Underway(h, up["new"], down')
  BY <1>1, TailDown
<1>4. up'["new"] = up["new"] \/ (link = "ready" /\ up'["new"] = Append(up["new"], m))
  BY DEF Reply, TypeOK, Links
<1>5. \A h : Underway(h, up["new"], down) => Underway(h, up'["new"], down')
  BY <1>1, <1>3, <1>4, AppendUp
<1>6. NoSnapshots(down) => NoSnapshots(down')
  BY <1>1 DEF NoSnapshots
<1> QED
  BY <1>2, <1>4, <1>5, <1>6, MoreUnderway DEF WaitInv

\* A read loop takes a message that is no request.
LEMMA ReadWaits ==
    ASSUME TypeOK, WaitInv, NEW l \in Links, NEW k, Reads(l, k), Popped(l), k # "need",
           UNCHANGED <<down, link, waiting, spoilt, mixed>>,
           \A n \in Links \ {l} : serving'[n] = serving[n]
    PROVE  WaitInv'
<1>1. "new" \in Links /\ up["new"] \in Seq(ToHub)
  BY DEF TypeOK, Links
<1>2. CASE l = "new"
  <2>1. up["new"] # <<>> /\ Head(up["new"]).kind = k /\ up'["new"] = Tail(up["new"])
    BY <1>1, <1>2 DEF Reads, Popped, TypeOK
  <2>2. link = "ready"
    BY <2>1 DEF WaitInv
  <2>3. \A h : Underway(h, up["new"], down) => Underway(h, up'["new"], down')
    BY <1>1, <2>1, TailUp
  <2> QED
    BY <2>2, <2>3, MoreUnderway DEF WaitInv
<1>3. CASE l # "new"
  <2>1. up'["new"] = up["new"] /\ serving'["new"] = serving["new"]
    BY <1>1, <1>3 DEF Popped, TypeOK
  <2> QED
    BY <2>1, MoreUnderway DEF WaitInv
<1> QED
  BY <1>2, <1>3

\* Without a snapshot that waits there is nothing to wait for.
LEMMA NoneWaits ==
    ASSUME TypeOK, WaitInv, NEW k, Hears(k), down' = Tail(down), waiting' = {},
           NEW m \in ToHub, Reply(m) \/ up' = up, UNCHANGED <<serving, link, mixed>>
    PROVE  WaitInv'
<1>1. up["new"] \in Seq(ToHub) /\ down \in Seq(ToAgent) /\ down # <<>>
  BY DEF TypeOK, Links, Hears
<1>2. up'["new"] = up["new"] \/ link = "ready"
  BY DEF Reply, TypeOK, Links
<1>3. NoSnapshots(down) => NoSnapshots(down')
  BY <1>1 DEF NoSnapshots
<1> QED
  BY <1>1, <1>2, <1>3 DEF WaitInv, NobodyWaitsAlone

\* Whatever a snapshot comes to, it is acknowledged or not, and the Syncer waits no more.
LEMMA ConcludeReplies ==
    ASSUME NEW s \in Snapshot, NEW o, Conclude(s, o)
    PROVE  /\ waiting' = {} /\ Ack(s, o) \in ToHub
           /\ Reply(Ack(s, o)) \/ up' = up
<1>1. s.rev \in OrNone(Revisions)
  BY DEF Snapshot, OrNone
<1> QED
  BY <1>1, AckTyped DEF Conclude

\* People change no queue to the hub; a restore is no snapshot.
LEMMA AdminWaits == ASSUME TypeOK, WaitInv, Admin PROVE WaitInv'
<1> USE DEF agentVars, historyVars, hubVars
<1>1. CASE OrderRestore
  <2>1. [kind |-> "restore"] \in ToAgent
    BY DEF ToAgent
  <2> QED
    BY <1>1, <2>1, SendWaits DEF OrderRestore
<1>2. CASE ~OrderRestore
  <2>1. UNCHANGED <<up, down, serving, link, waiting, spoilt, mixed>>
    BY <1>2 DEF Admin, Publish, Rotate, SetPaused, Assign, ClearDegraded
  <2> QED
    BY <2>1, MoreUnderway DEF WaitInv
<1> QED
  BY <1>1, <1>2

\* A content, or the word that there is none, is on its way before its request is gone.
LEMMA ServeBlobWaits ==
    ASSUME TypeOK, WaitInv, NEW l \in Links, NEW h \in Blobs, NEW missing \in BOOLEAN,
           ServeBlob(l, h, missing)
    PROVE  WaitInv'
<1> DEFINE m == [kind |-> "blob", hash |-> h, missing |-> missing]
<1>1. /\ Send(m) /\ up' = [up EXCEPT ![l] = Answered(up[l], h)]
      /\ UNCHANGED <<serving, link, waiting, spoilt, mixed>>
  BY DEF ServeBlob, hubVars, agentVars, historyVars
<1>2. /\ up \in [Links -> Seq(ToHub)] /\ down \in Seq(ToAgent)
      /\ up[l] # <<>> /\ "new" \in Links
  BY DEF TypeOK, Links, ServeBlob, Reads
<1>3. m \in ToAgent /\ m.kind = "blob" /\ m.hash = h
  BY DEF ToAgent
<1> HIDE DEF m
<1>4. CASE l # "new"
  <2>1. up'["new"] = up["new"]
    BY <1>1, <1>2, <1>4
  <2>2. CASE link = "none"
    <3>1. down' = down
      BY <1>1, <2>2 DEF Send
    <3> QED
      BY <1>1, <2>1, <3>1, MoreUnderway DEF WaitInv
  <2>3. CASE link # "none"
    <3>1. down' = Append(down, m)
      BY <1>1, <2>3 DEF Send
    <3>2. \A g : Underway(g, up["new"], down) => Underway(g, up'["new"], down')
      BY <1>2, <2>1, <3>1, AppendDown
    <3>3. NoSnapshots(down) => NoSnapshots(down')
      BY <1>2, <1>3, <3>1 DEF NoSnapshots
    <3> QED
      BY <1>1, <2>1, <2>3, <3>2, <3>3, MoreUnderway DEF WaitInv
  <2> QED
    BY <2>2, <2>3
<1>5. CASE l = "new"
  <2>1. link = "ready"
    BY <1>2, <1>5 DEF WaitInv
  <2>2. down' = Append(down, m)
    BY <1>1, <2>1 DEF Send
  <2>3. up'["new"] = Answered(up["new"], h)
    BY <1>1, <1>2, <1>5
  <2>4. ASSUME NEW g, Underway(g, up["new"], down)
        PROVE  Underway(g, up'["new"], down')
    <3>1. CASE g = h
      <4>1. Len(down) + 1 \in DOMAIN down' /\ down'[Len(down) + 1] = m
        BY <1>2, <2>2
      <4> QED
        BY <1>3, <3>1, <4>1 DEF Underway
    <3>2. CASE g # h
      <4>1. Underway(g, up'["new"], down)
        BY <1>2, <1>5, <2>3, <2>4, <3>2, AnsweredUp
      <4> QED
        BY <1>2, <2>2, <4>1, AppendDown
    <3> QED
      BY <3>1, <3>2
  <2> QED
    BY <1>1, <2>1, <2>4, MoreUnderway DEF WaitInv
<1> QED
  BY <1>4, <1>5

\* A read loop of the hub.
LEMMA HubLoopWaits == ASSUME TypeOK, WaitInv, NEW l \in Links, HubLoop(l) PROVE WaitInv'
<1> USE DEF agentVars, historyVars, hubVars
<1> "new" \in Links /\ serving \in [Links -> Snapshot \cup {NoSnapshot, Assembling}]
  BY DEF TypeOK, Links
<1>1. CASE ServePull(l)
  <2>1. \A n \in Links \ {l} : serving'[n] = serving[n]
    BY <1>1 DEF ServePull
  <2> QED
    BY <1>1, <2>1, ReadWaits DEF ServePull
<1>2. CASE ServeAck(l)
  BY <1>2, ReadWaits DEF ServeAck
<1>3. CASE Assemble(l) \/ NothingToAssemble(l)
  <2>1. UNCHANGED <<up, down, link, waiting, spoilt, mixed>>
    BY <1>3 DEF Assemble, NothingToAssemble, NotAssembled
  <2>2. serving[l] = Assembling /\ \A n \in Links \ {l} : serving'[n] = serving[n]
    BY <1>3 DEF Assemble, NothingToAssemble, NotAssembled
  <2>3. serving["new"] = NoSnapshot => serving'["new"] = NoSnapshot
    BY <2>2, ConstantsAssumption
  <2> QED
    BY <2>1, <2>3, MoreUnderway DEF WaitInv
<1>4. CASE SendSnapshot(l)
  <2>1. /\ UNCHANGED <<up, link, waiting, spoilt>>
        /\ Send([kind |-> "snapshot", snap |-> serving[l]])
        /\ serving[l] # NoSnapshot
        /\ serving' = [serving EXCEPT ![l] = NoSnapshot]
        /\ mixed' = (mixed \/ (l = "old" /\ link # "none"))
    BY <1>4 DEF SendSnapshot
  <2>2. CASE link = "none"
    <3>1. down' = down /\ mixed' = mixed /\ serving'["new"] = NoSnapshot
      BY <2>1, <2>2 DEF Send, WaitInv, TypeOK
    <3> QED
      BY <2>1, <2>2, <3>1, MoreUnderway DEF WaitInv
  <2>3. CASE link # "none"
    <3>1. \A h : Underway(h, up["new"], down) => Underway(h, up'["new"], down')
      BY <2>1, <2>3, AppendDown DEF Send, TypeOK
    <3>2. link = "greeting" => l = "old"
      BY <2>1 DEF WaitInv, Links
    <3>3. /\ serving["new"] = NoSnapshot => serving'["new"] = NoSnapshot
          /\ mixed => mixed'
          /\ link = "greeting" => mixed'
      BY <2>1, <2>3, <3>2
    <3> QED
      BY <2>1, <2>3, <3>1, <3>3, MoreUnderway DEF WaitInv
  <2> QED
    BY <2>2, <2>3
<1>5. ASSUME NEW h \in Blobs, ServeBlob(l, h, FALSE) PROVE WaitInv'
  BY <1>5, ServeBlobWaits
<1> QED
  BY <1>1, <1>2, <1>3, <1>4, <1>5 DEF HubLoop

\* A failure: the connection is gone, or a content is known not to be cached.
LEMMA FailureWaits == ASSUME TypeOK, WaitInv, Failure PROVE WaitInv'
<1> USE DEF agentVars, historyVars, hubVars
<1>1. CASE Disconnect
  BY <1>1 DEF Disconnect, WaitInv, NobodyWaitsAlone, Links
<1>2. CASE LoseStateFile
  BY <1>2, MoreUnderway DEF LoseStateFile, WaitInv
<1>3. CASE BlobSpoilt
  <2>1. /\ down \in Seq(ToAgent) /\ down # <<>> /\ down' = Tail(down)
        /\ spoilt' = spoilt \cup {Head(down).hash}
        /\ UNCHANGED <<up, serving, link, waiting, mixed>>
    BY <1>3 DEF BlobSpoilt, Hears, TypeOK
  <2>2. link # "none" /\ (NoSnapshots(down) => NoSnapshots(down'))
    BY <2>1 DEF WaitInv, NoSnapshots
  <2>3. ASSUME NEW h \in waiting \ spoilt', ~mixed PROVE Underway(h, up'["new"], down')
    <3>1. Underway(h, up["new"], down)
      BY <2>1, <2>2, <2>3, RequestedIsUnderway DEF WaitInv, NobodyWaitsAlone
    <3> QED
      BY <2>1, <2>3, <3>1, TailDown
  <2>4. \A h : Requested(h)' = Underway(h, up'["new"], down')
    BY DEF Requested, Underway
  <2>5. NobodyWaitsAlone'
    BY <2>1, <2>3, <2>4 DEF NobodyWaitsAlone
  <2> QED
    BY <2>1, <2>2, <2>5 DEF WaitInv
<1>4. ASSUME NEW l \in Links, AssembleFails(l) PROVE WaitInv'
  <2>1. /\ UNCHANGED <<up, down, link, waiting, spoilt, mixed>>
        /\ serving' = [serving EXCEPT ![l] = NoSnapshot]
    BY <1>4 DEF AssembleFails, NotAssembled
  <2>2. serving["new"] = NoSnapshot => serving'["new"] = NoSnapshot
    BY <2>1 DEF TypeOK
  <2> QED
    BY <2>1, <2>2, MoreUnderway DEF WaitInv
<1>5. ASSUME NEW l \in Links, NEW h \in Blobs, ServeBlob(l, h, TRUE) PROVE WaitInv'
  BY <1>5, ServeBlobWaits
<1> QED
  BY <1>1, <1>2, <1>3, <1>4, <1>5 DEF Failure

\* The agent asks for what it waits for, and waits for what it asked for.
LEMMA AgentLoopWaits == ASSUME TypeOK, WaitInv, AgentLoop PROVE WaitInv'
<1> USE DEF agentVars, historyVars, hubVars
<1> /\ up \in [Links -> Seq(ToHub)] /\ down \in Seq(ToAgent)
    /\ st \in State /\ st.rev \in OrNone(Revisions) /\ "new" \in Links
  BY DEF TypeOK, State, Links
<1>1. CASE HandleNotify
  <2>1. [kind |-> "pull", have |-> st.rev] \in ToHub
    BY DEF ToHub
  <2> QED
    BY <1>1, <2>1, HearWaits DEF HandleNotify
<1>2. ASSUME NEW o \in Results, HandleSnapshot(o) PROVE WaitInv'
  <2> DEFINE s == Head(down).snap
             need == Content[s.rev[1]][s.rev[2]] \ cache
             m == [kind |-> "need", hashes |-> need]
  <2>1. /\ Head(down) \in ToAgent /\ Hears("snapshot") /\ Head(down).kind = "snapshot"
        /\ down' = Tail(down) /\ UNCHANGED <<serving, link, mixed>>
    BY <1>2, HearTyped DEF HandleSnapshot
  <2>2. s \in Snapshot
    BY <2>1 DEF ToAgent
  <2>3. need \subseteq Blobs
    BY <2>2, ConstantsAssumption DEF Snapshot, Revisions
  <2>4. CASE need = {}
    <3>1. Conclude(s, o)
      BY <1>2, <2>4 DEF HandleSnapshot
    <3>2. waiting' = {} /\ Ack(s, o) \in ToHub /\ (Reply(Ack(s, o)) \/ up' = up)
      BY <2>2, <3>1, ConcludeReplies
    <3> QED
      BY <2>1, <3>2, NoneWaits
  <2>5. CASE need # {}
    <3>1. Reply(m) /\ waiting' = need /\ spoilt' = {}
      BY <1>2, <2>5 DEF HandleSnapshot
    <3>2. down # <<>> /\ link # "none"
      BY <2>1 DEF Hears, WaitInv
    <3>3. link = "greeting" => mixed
      <4>1. 1 \in DOMAIN down /\ down[1].kind = "snapshot"
        BY <2>1, <3>2
      <4> QED
        BY <4>1 DEF WaitInv, NoSnapshots
    <3> HIDE DEF s, need
    <3>4. ASSUME NEW h \in need, link = "ready" PROVE Underway(h, up'["new"], down')
      <4>1. up'["new"] = Append(up["new"], m)
        BY <3>1, <3>4 DEF Reply
      <4>2. m.kind = "need" /\ h \in m.hashes
        BY <3>4
      <4> QED
        BY <4>1, <4>2, AppendUp
    <3>5. \A h : Requested(h)' = Underway(h, up'["new"], down')
      BY DEF Requested, Underway
    <3>6. NobodyWaitsAlone'
      BY <2>1, <3>1, <3>2, <3>3, <3>4, <3>5 DEF NobodyWaitsAlone, TypeOK
    <3>7. link # "ready" => up'["new"] = <<>> /\ serving'["new"] = NoSnapshot
      BY <2>1, <3>1 DEF Reply, WaitInv
    <3> QED
      BY <2>1, <3>2, <3>3, <3>6, <3>7 DEF WaitInv
  <2> QED
    BY <2>4, <2>5
<1>3. ASSUME NEW o \in Results, HandleBlob(o) PROVE WaitInv'
  <2> DEFINE b == Head(down)
  <2>1. /\ Hears("blob") /\ down # <<>> /\ down' = Tail(down)
        /\ UNCHANGED <<serving, link, mixed, spoilt>>
    BY <1>3 DEF HandleBlob, Hears
  <2>2. link # "none" /\ (NoSnapshots(down) => NoSnapshots(down'))
    BY <2>1 DEF WaitInv, NoSnapshots
  <2>3. \/ Conclude(pending, o) /\ b.hash \in waiting
        \/ Conclude(pending, "aborted") /\ b.hash \in waiting
        \/ waiting' = waiting \ {b.hash} /\ up' = up
    BY <1>3 DEF HandleBlob, BlobMissing
  <2>4. ASSUME NEW r, Conclude(pending, r), b.hash \in waiting PROVE WaitInv'
    <3>1. pending \in Snapshot
      BY <2>4 DEF TypeOK
    <3>2. /\ waiting' = {} /\ Ack(pending, r) \in ToHub
          /\ Reply(Ack(pending, r)) \/ up' = up
      BY <2>4, <3>1, ConcludeReplies
    <3> QED
      BY <2>1, <3>2, NoneWaits
  <2>5. CASE waiting' = waiting \ {b.hash} /\ up' = up
    <3>1. ASSUME NEW h \in waiting' \ spoilt', ~mixed
          PROVE  Underway(h, up'["new"], down')
      <4>1. h \in waiting \ spoilt /\ h # b.hash
        BY <2>1, <2>5, <3>1
      <4>2. Underway(h, up["new"], down)
        BY <2>2, <3>1, <4>1, RequestedIsUnderway DEF WaitInv, NobodyWaitsAlone
      <4> QED
        BY <2>1, <2>5, <4>1, <4>2, TailDown
    <3>2. \A h : Requested(h)' = Underway(h, up'["new"], down')
      BY DEF Requested, Underway
    <3>3. NobodyWaitsAlone'
      BY <2>1, <3>1, <3>2 DEF NobodyWaitsAlone
    <3> QED
      BY <2>1, <2>2, <2>5, <3>3 DEF WaitInv
  <2> QED
    BY <2>3, <2>4, <2>5
<1>4. ASSUME NEW o \in Acknowledged, HandleRestore(o) PROVE WaitInv'
  <2>1. Ack([rev |-> st.rev], o) \in ToHub
    BY AckTyped, [rev |-> st.rev].rev = st.rev
  <2>2. Reply(Ack([rev |-> st.rev], o)) \/ up' = up
    BY <1>4 DEF HandleRestore
  <2> QED
    BY <1>4, <2>1, <2>2, HearWaits DEF HandleRestore
<1> QED
  BY <1>1, <1>2, <1>3, <1>4 DEF AgentLoop

\* Every step keeps it.
LEMMA WaitsKept == TypeOK /\ WaitInv /\ [Next]_vars => WaitInv'
<1> SUFFICES ASSUME TypeOK, WaitInv, [Next]_vars PROVE WaitInv'
  OBVIOUS
<1> USE DEF agentVars, historyVars, hubVars
<1>1. ASSUME NEW t \in Tasks, Notify(t) PROVE WaitInv'
  <2>1. [kind |-> "notify"] \in ToAgent
    BY DEF ToAgent
  <2>2. UNCHANGED <<up, serving, link, waiting, spoilt, mixed>>
    BY <1>1 DEF Notify
  <2>3. Send([kind |-> "notify"]) \/ down' = down
    BY <1>1 DEF Notify
  <2> QED
    BY <2>1, <2>2, <2>3, SendWaits, MoreUnderway DEF WaitInv
<1>2. CASE OldLoopEnds
  <2>1. up'["new"] = up["new"]
    BY <1>2 DEF OldLoopEnds, TypeOK, Links
  <2> QED
    BY <1>2, <2>1, MoreUnderway DEF OldLoopEnds, WaitInv
<1>3. CASE Connect
  <2>1. down = <<>> /\ NoSnapshots(down)
    BY <1>3 DEF Connect, WaitInv, NoSnapshots
  <2> QED
    BY <1>3, <2>1 DEF Connect, Fresh, WaitInv, NobodyWaitsAlone
<1>4. CASE StoreSession
  <2>1. NobodyWaitsAlone'
    BY <1>4 DEF StoreSession, WaitInv, NobodyWaitsAlone, Requested
  <2> QED
    BY <1>4, <2>1 DEF StoreSession, WaitInv
<1>5. CASE UNCHANGED vars
  BY <1>5, MoreUnderway DEF vars, WaitInv
<1> QED
  BY <1>1, <1>2, <1>3, <1>4, <1>5, AdminWaits, HubLoopWaits, FailureWaits,
     AgentLoopWaits DEF Next

\* Syncer.onSnapshot, onBlob and BlobRequest: every hash the agent waits for is asked
\* for or on its way, however connections break, snapshots replace each other, and
\* contents come twice or not at all.
THEOREM WaitsAreAnswered == Spec => []NobodyWaitsAlone
<1>1. Init => TypeOK /\ WaitInv
  BY InitTyped, InitWaits
<1>2. TypeOK /\ WaitInv /\ [Next]_vars => TypeOK' /\ WaitInv'
  BY TypesKept, WaitsKept
<1>3. WaitInv => NobodyWaitsAlone
  BY DEF WaitInv
<1> QED
  BY <1>1, <1>2, <1>3, PTL DEF Spec

-----------------------------------------------------------------------------
(* What a connection carries, and in which order.                         *)
(* Lost state.                                                             *)

Surveys(d) == \A i \in DOMAIN d : d[i].kind = "snapshot" => d[i].snap.mode = "survey"
PullsWithNothing(q) == \A i \in DOMAIN q : q[i].kind = "pull" => q[i].have = NoRevision

\* The hub knows that the machine applied something, or has ordered a survey already; so
\* whatever this connection's pulls are answered with, it is one.
SurveyInv ==
    /\ blind => assign # NoAssignment
                /\ (assign.applied # NoRevision \/ assign.mode = "survey")
    /\ blind /\ ~mixed /\ link # "none" =>
        /\ st.rev = NoRevision
        /\ PullsWithNothing(up["new"])
        /\ serving["new"] = Assembling => assign.mode = "survey"
        /\ serving["new"] \in Snapshot => serving["new"].mode = "survey"
        /\ pending # NoSnapshot => pending.mode = "survey"
        /\ Surveys(down)

LEMMA InitSurveys == Init => SurveyInv
BY DEF Init, SurveyInv

\* What an agent reads or a hub has read is gone, the rest is as it was.
LEMMA TailSurveys ==
    ASSUME NEW d \in Seq(ToAgent), d # <<>>, Surveys(d)
    PROVE  Surveys(Tail(d)) /\ (Head(d).kind = "snapshot" => Head(d).snap.mode = "survey")
<1>1. \A i \in DOMAIN Tail(d) : i + 1 \in DOMAIN d /\ Tail(d)[i] = d[i + 1]
  OBVIOUS
<1>2. 1 \in DOMAIN d /\ Head(d) = d[1]
  OBVIOUS
<1> QED
  BY <1>1, <1>2 DEF Surveys

LEMMA TailPulls ==
    ASSUME NEW q \in Seq(ToHub), q # <<>>, PullsWithNothing(q)
    PROVE  /\ PullsWithNothing(Tail(q))
           /\ Head(q).kind = "pull" => Head(q).have = NoRevision
<1>1. \A i \in DOMAIN Tail(q) : i + 1 \in DOMAIN q /\ Tail(q)[i] = q[i + 1]
  OBVIOUS
<1>2. 1 \in DOMAIN q /\ Head(q) = q[1]
  OBVIOUS
<1> QED
  BY <1>1, <1>2 DEF PullsWithNothing

\* What is sent is no snapshot, or a survey; no pull, or one without a revision.
LEMMA SendSurveys ==
    ASSUME down \in Seq(ToAgent), NEW m, Send(m), Surveys(down),
           m.kind = "snapshot" => m.snap.mode = "survey"
    PROVE  Surveys(down')
<1>1. \A i \in DOMAIN Append(down, m) :
            (i \in DOMAIN down /\ Append(down, m)[i] = down[i]) \/ Append(down, m)[i] = m
  OBVIOUS
<1> QED
  BY <1>1 DEF Send, Surveys

LEMMA ReplyPulls ==
    ASSUME up \in [Links -> Seq(ToHub)], NEW m, Reply(m) \/ up' = up,
           PullsWithNothing(up["new"]), m.kind = "pull" => m.have = NoRevision
    PROVE  PullsWithNothing(up'["new"])
<1> DEFINE q == up["new"]
<1>1. q \in Seq(ToHub) /\ "new" \in Links
  BY DEF Links
<1>2. \A i \in DOMAIN Append(q, m) :
            (i \in DOMAIN q /\ Append(q, m)[i] = q[i]) \/ Append(q, m)[i] = m
  BY <1>1
<1>3. PullsWithNothing(Append(q, m))
  BY <1>2 DEF PullsWithNothing
<1> QED
  BY <1>1, <1>3 DEF Reply

\* An answered request is no pull.
LEMMA AnsweredPulls ==
    ASSUME NEW q \in Seq(ToHub), q # <<>>, PullsWithNothing(q), NEW h
    PROVE  PullsWithNothing(Answered(q, h))
<1> DEFINE m == [kind |-> "need", hashes |-> Head(q).hashes \ {h}]
           t == Tail(q)
<1>1. PullsWithNothing(t) /\ t \in Seq(ToHub) /\ m.kind # "pull"
  BY TailPulls
<1>2. Answered(q, h) = t \/ Answered(q, h) = <<m>> \o t
  BY DEF Answered
<1> HIDE DEF m, t
<1>3. \A i \in DOMAIN (<<m>> \o t) : (<<m>> \o t)[i] = m
                    \/ (i - 1 \in DOMAIN t /\ (<<m>> \o t)[i] = t[i - 1])
  BY <1>1
<1> QED
  BY <1>1, <1>2, <1>3 DEF PullsWithNothing

\* Steps that leave the record, the state and the read loop alone.
LEMMA QueuesSurvey ==
    ASSUME SurveyInv, UNCHANGED <<assign, serving, link>>,
           st'.rev = st.rev, blind' => blind, mixed => mixed',
           pending' = pending \/ pending' = NoSnapshot,
           PullsWithNothing(up["new"]) => PullsWithNothing(up'["new"]),
           link # "none" /\ Surveys(down) => Surveys(down')
    PROVE  SurveyInv'
BY DEF SurveyInv

\* A snapshot that is a survey gives the agent a baseline, or changes nothing.
LEMMA ConcludeSurveys ==
    ASSUME NEW s \in Snapshot, s.mode = "survey", NEW o \in Outcomes(s) \cup {"aborted"},
           Conclude(s, o)
    PROVE  blind' => blind /\ st' = st
<1>1. o \in {"surveyed", "dropped", "aborted"}
  BY DEF Outcomes
<1> QED
  BY <1>1 DEF Conclude

\* People order surveys, or start over.
LEMMA AdminSurveys == ASSUME TypeOK, SurveyInv, Admin PROVE SurveyInv'
<1> USE DEF agentVars, historyVars, hubVars
<1>1. ASSUME NEW c \in Sets, NEW m \in Modes, Assign(c, m) PROVE SurveyInv'
  BY <1>1 DEF Assign, SurveyInv
<1>2. CASE ClearDegraded
  <2>1. assign' # NoAssignment /\ assign'.mode = "survey"
    BY <1>2, ConstantsAssumption DEF ClearDegraded, TypeOK, Assignment, Modes
  <2> QED
    BY <1>2, <2>1 DEF ClearDegraded, SurveyInv
<1>3. CASE OrderRestore
  <2>1. Surveys(down) => Surveys(down')
    BY <1>3, SendSurveys DEF OrderRestore, TypeOK
  <2> QED
    BY <1>3, <2>1, QueuesSurvey DEF OrderRestore
<1>4. ASSUME NEW c \in Sets, Publish(c) \/ Rotate(c) \/ SetPaused(c) PROVE SurveyInv'
  BY <1>4, QueuesSurvey DEF Publish, Rotate, SetPaused
<1> QED
  BY <1>1, <1>2, <1>3, <1>4 DEF Admin

LEMMA ServeBlobSurveys ==
    ASSUME TypeOK, SurveyInv, NEW l \in Links, NEW h, NEW missing, ServeBlob(l, h, missing)
    PROVE  SurveyInv'
<1> DEFINE m == [kind |-> "blob", hash |-> h, missing |-> missing]
<1>1. /\ Send(m) /\ up' = [up EXCEPT ![l] = Answered(up[l], h)]
      /\ UNCHANGED <<assign, serving, link, st, pending, blind, mixed>>
  BY DEF ServeBlob, hubVars, agentVars, historyVars
<1>2. /\ up \in [Links -> Seq(ToHub)] /\ down \in Seq(ToAgent)
      /\ up[l] # <<>> /\ "new" \in Links
  BY DEF TypeOK, Links, ServeBlob, Reads
<1>3. m.kind = "blob"
  OBVIOUS
<1> HIDE DEF m
<1>4. Surveys(down) => Surveys(down')
  BY <1>1, <1>2, <1>3, SendSurveys
<1>5. PullsWithNothing(up["new"]) => PullsWithNothing(up'["new"])
  <2>1. CASE l = "new"
    BY <1>1, <1>2, <2>1, AnsweredPulls
  <2>2. CASE l # "new"
    BY <1>1, <1>2, <2>2
  <2> QED
    BY <2>1, <2>2
<1> QED
  BY <1>1, <1>4, <1>5, QueuesSurvey

\* What a read loop took from its queue was one of the messages in it.
LEMMA PoppedPulls ==
    ASSUME TypeOK, NEW l \in Links, NEW k, Reads(l, k), Popped(l), PullsWithNothing(up["new"])
    PROVE  /\ PullsWithNothing(up'["new"])
           /\ l = "new" /\ k = "pull" => Head(up["new"]).have = NoRevision
<1>1. up \in [Links -> Seq(ToHub)] /\ "new" \in Links
  BY DEF TypeOK, Links
<1>2. CASE l = "new"
  BY <1>1, <1>2, TailPulls DEF Reads, Popped
<1>3. CASE l # "new"
  BY <1>1, <1>3 DEF Popped
<1> QED
  BY <1>2, <1>3

\* The pull of a machine that lost its state turns it into one to survey.
LEMMA ServePullSurveys ==
    ASSUME TypeOK, SurveyInv, NEW l \in Links, ServePull(l)
    PROVE  SurveyInv'
<1>1. /\ Reads(l, "pull") /\ Popped(l) /\ serving' = [serving EXCEPT ![l] = Assembling]
      /\ UNCHANGED <<link, down, st, pending, blind, mixed>>
  BY DEF ServePull, agentVars, historyVars
<1>2. \/ assign' = assign
      \/ assign' # NoAssignment /\ assign'.mode = "survey"
  <2> DEFINE lost == /\ assign # NoAssignment /\ assign.applied # NoRevision
                     /\ Head(up[l]).have = NoRevision /\ assign.mode # "survey"
             surveyed == [assign EXCEPT !.state = "pending", !.applied = NoRevision,
                                        !.mode = "survey"]
  <2>1. lost => assign' = surveyed
    BY DEF ServePull
  <2>2. ~lost => assign' = assign
    BY DEF ServePull
  <2>3. lost => surveyed \in Assignment /\ surveyed.mode = "survey"
    BY DEF TypeOK, Assignment, Modes, OrNone
  <2> QED
    BY <2>1, <2>2, <2>3, ConstantsAssumption
<1>3. \/ assign'.mode = "survey"
      \/ assign = NoAssignment \/ assign.applied = NoRevision
      \/ Head(up[l]).have # NoRevision
  <2>1. assign # NoAssignment => assign \in Assignment
    BY DEF TypeOK
  <2>2. CASE assign.mode = "survey"
    BY <1>2, <2>2
  <2>3. CASE assign.mode # "survey"
    <3> SUFFICES ASSUME assign # NoAssignment, assign.applied # NoRevision,
                        Head(up[l]).have = NoRevision
                 PROVE  assign'.mode = "survey"
      OBVIOUS
    <3>1. assign' = [assign EXCEPT !.state = "pending", !.applied = NoRevision,
                                   !.mode = "survey"]
      BY <2>3 DEF ServePull
    <3> QED
      BY <2>1, <3>1 DEF Assignment
  <2> QED
    BY <2>2, <2>3
<1>4. blind => assign' # NoAssignment
               /\ (assign'.applied # NoRevision \/ assign'.mode = "survey")
  BY <1>2 DEF SurveyInv
<1>5. ASSUME blind, ~mixed, link # "none" PROVE SurveyInv'
  <2>1. /\ st.rev = NoRevision /\ PullsWithNothing(up["new"])
        /\ serving["new"] = Assembling => assign.mode = "survey"
        /\ serving["new"] \in Snapshot => serving["new"].mode = "survey"
        /\ pending # NoSnapshot => pending.mode = "survey"
        /\ Surveys(down)
    BY <1>5 DEF SurveyInv
  <2>2. PullsWithNothing(up'["new"])
    BY <1>1, <2>1, PoppedPulls
  <2>3. serving'["new"] = Assembling => assign'.mode = "survey"
    <3>1. CASE l = "new"
      <4>1. Head(up["new"]).have = NoRevision
        BY <1>1, <2>1, <3>1, PoppedPulls
      <4> QED
        BY <1>2, <1>3, <1>4, <1>5, <3>1, <4>1 DEF SurveyInv
    <3>2. CASE l # "new"
      <4>1. serving'["new"] = serving["new"]
        BY <1>1, <3>2 DEF TypeOK
      <4> QED
        BY <1>2, <2>1, <4>1
    <3> QED
      BY <3>1, <3>2
  <2>4. serving'["new"] \in Snapshot => serving'["new"].mode = "survey"
    BY <1>1, <2>1, ConstantsAssumption DEF TypeOK, Links
  <2> QED
    BY <1>1, <1>4, <2>1, <2>2, <2>3, <2>4 DEF SurveyInv
<1> QED
  BY <1>1, <1>4, <1>5 DEF SurveyInv

LEMMA HubLoopSurveys ==
    ASSUME TypeOK, WaitInv, SurveyInv, NEW l \in Links, HubLoop(l)
    PROVE  SurveyInv'
<1> USE DEF agentVars, historyVars, hubVars
<1> /\ "new" \in Links /\ serving \in [Links -> Snapshot \cup {NoSnapshot, Assembling}]
    /\ down \in Seq(ToAgent)
  BY DEF TypeOK, Links
<1>1. CASE ServePull(l)
  BY <1>1, ServePullSurveys
<1>2. CASE Assemble(l)
  <2>1. /\ serving[l] = Assembling
        /\ serving' = [serving EXCEPT ![l] =
                        [rev |-> HeadRevision, mode |-> assign.mode, ver |-> ver]]
        /\ UNCHANGED <<assign, link, st, blind, mixed, up, pending, down>>
    BY <1>2 DEF Assemble
  <2>2. CASE l = "new"
    <3>1. serving'["new"].mode = assign.mode
      BY <2>1, <2>2
    <3>2. serving'["new"] = Assembling => FALSE
      <4>1. serving'["new"] \in Snapshot
        BY <1>2, <2>1, <2>2, HeadTyped DEF Snapshot, TypeOK, Assignment, Assemble
      <4> QED
        BY <4>1, ConstantsAssumption
    <3> QED
      BY <2>1, <2>2, <3>1, <3>2 DEF SurveyInv
  <2>3. CASE l # "new"
    <3>1. serving'["new"] = serving["new"]
      BY <2>1, <2>3
    <3> QED
      BY <2>1, <3>1 DEF SurveyInv
  <2> QED
    BY <2>2, <2>3
<1>3. CASE NothingToAssemble(l)
  <2>1. /\ serving' = [serving EXCEPT ![l] = NoSnapshot]
        /\ UNCHANGED <<assign, link, st, blind, mixed, up, pending, down>>
    BY <1>3 DEF NothingToAssemble, NotAssembled
  <2>2. serving'["new"] \in {serving["new"], NoSnapshot}
    BY <2>1
  <2> QED
    BY <2>1, <2>2, ConstantsAssumption DEF SurveyInv
<1>4. CASE SendSnapshot(l)
  <2>1. /\ serving[l] \in Snapshot
        /\ Send([kind |-> "snapshot", snap |-> serving[l]])
        /\ serving' = [serving EXCEPT ![l] = NoSnapshot]
        /\ mixed' = (mixed \/ (l = "old" /\ link # "none"))
        /\ UNCHANGED <<assign, link, st, blind, up, pending>>
    BY <1>4 DEF SendSnapshot
  <2>2. serving'["new"] \in {serving["new"], NoSnapshot}
    BY <2>1
  <2>3. ASSUME blind, ~mixed', link # "none" PROVE Surveys(down')
    <3>1. l = "new" /\ ~mixed
      BY <2>1, <2>3 DEF Links
    <3>2. Surveys(down) /\ serving[l].mode = "survey"
      BY <2>1, <2>3, <3>1 DEF SurveyInv
    <3> QED
      BY <2>1, <3>2, SendSurveys
  <2> QED
    BY <2>1, <2>2, <2>3, ConstantsAssumption DEF SurveyInv
<1>5. ASSUME NEW h \in Blobs, ServeBlob(l, h, FALSE) PROVE SurveyInv'
  BY <1>5, ServeBlobSurveys
<1>6. CASE ServeAck(l)
  <2>1. /\ Reads(l, "ack") /\ Popped(l)
        /\ UNCHANGED <<serving, link, st, mixed, pending, down>>
    BY <1>6 DEF ServeAck
  <2>2. Head(up[l]) \in ToHub /\ Head(up[l]).kind = "ack"
    BY <2>1, ReadTyped DEF TypeOK
  <2>3. Head(up[l]).how \in {"ok", "rolledback", "other"}
    BY <2>2 DEF ToHub
  <2>4. /\ blind' => blind
        /\ assign = NoAssignment => assign' = assign
        /\ assign # NoAssignment => assign' # NoAssignment /\ assign'.mode = assign.mode
        /\ assign # NoAssignment /\ blind' /\ assign'.applied = NoRevision
            => assign.applied = NoRevision
    <3>1. assign # NoAssignment => assign' \in Assignment
      BY <1>6, <2>2, <2>3 DEF ServeAck, TypeOK, Assignment, ToHub
    <3>2. assign # NoAssignment => assign'.mode = assign.mode
      BY <1>6, <2>3 DEF ServeAck, TypeOK, Assignment
    <3>3. assign # NoAssignment /\ blind' /\ assign'.applied = NoRevision
            => assign.applied = NoRevision
      BY <1>6, <2>3 DEF ServeAck, TypeOK, Assignment
    <3> QED
      BY <1>6, <3>1, <3>2, <3>3, ConstantsAssumption DEF ServeAck
  <2>5. PullsWithNothing(up["new"]) => PullsWithNothing(up'["new"])
    BY <2>1, PoppedPulls
  <2> QED
    BY <2>1, <2>4, <2>5 DEF SurveyInv
<1> QED
  BY <1>1, <1>2, <1>3, <1>4, <1>5, <1>6 DEF HubLoop

LEMMA FailureSurveys == ASSUME TypeOK, SurveyInv, Failure PROVE SurveyInv'
<1> USE DEF agentVars, historyVars, hubVars
<1>1. CASE Disconnect
  BY <1>1 DEF Disconnect, SurveyInv
<1>2. CASE LoseStateFile
  BY <1>2, QueuesSurvey DEF LoseStateFile
<1>3. CASE BlobSpoilt
  <2>1. Surveys(down) => Surveys(down')
    BY <1>3, TailSurveys DEF BlobSpoilt, Hears, TypeOK
  <2> QED
    BY <1>3, <2>1, QueuesSurvey DEF BlobSpoilt
<1>4. ASSUME NEW l \in Links, AssembleFails(l) PROVE SurveyInv'
  <2>1. /\ serving' = [serving EXCEPT ![l] = NoSnapshot]
        /\ UNCHANGED <<link, st, blind, mixed, up, pending, down>>
        /\ assign # NoAssignment
    BY <1>4 DEF AssembleFails, NotAssembled
  <2>2. serving'["new"] \in {serving["new"], NoSnapshot}
    BY <2>1 DEF TypeOK, Links
  <2>3. /\ assign' \in Assignment /\ assign'.mode = assign.mode
        /\ assign'.applied = assign.applied
    BY <1>4 DEF AssembleFails, TypeOK, Assignment
  <2> QED
    BY <2>1, <2>2, <2>3, ConstantsAssumption DEF SurveyInv
<1>5. ASSUME NEW l \in Links, NEW h \in Blobs, ServeBlob(l, h, TRUE) PROVE SurveyInv'
  BY <1>5, ServeBlobSurveys
<1> QED
  BY <1>1, <1>2, <1>3, <1>4, <1>5 DEF Failure

\* The agent asks with what its state says, which is nothing until it is surveyed.
LEMMA AgentLoopSurveys == ASSUME TypeOK, WaitInv, SurveyInv, AgentLoop PROVE SurveyInv'
<1> USE DEF agentVars, historyVars, hubVars
<1> /\ up \in [Links -> Seq(ToHub)] /\ down \in Seq(ToAgent)
    /\ st \in State /\ st.rev \in OrNone(Revisions)
  BY DEF TypeOK, State
<1>1. CASE HandleNotify
  <2> DEFINE m == [kind |-> "pull", have |-> st.rev]
  <2>1. /\ down # <<>> /\ down' = Tail(down) /\ Reply(m)
        /\ UNCHANGED <<assign, serving, link, st, blind, mixed, pending>>
    BY <1>1 DEF HandleNotify, Hears
  <2>2. Surveys(down) => Surveys(down')
    BY <2>1, TailSurveys
  <2>3. ASSUME blind, ~mixed, link # "none" PROVE PullsWithNothing(up'["new"])
    <3>1. st.rev = NoRevision /\ PullsWithNothing(up["new"])
      BY <2>3 DEF SurveyInv
    <3>2. m.have = NoRevision
      BY <3>1
    <3> HIDE DEF m
    <3> QED
      BY <2>1, <3>1, <3>2, ReplyPulls
  <2> QED
    BY <2>1, <2>2, <2>3 DEF SurveyInv
<1>2. ASSUME NEW o \in Results, HandleSnapshot(o) PROVE SurveyInv'
  <2> DEFINE s == Head(down).snap
             need == Content[s.rev[1]][s.rev[2]] \ cache
             m == [kind |-> "need", hashes |-> need]
  <2>1. /\ Head(down) \in ToAgent /\ Head(down).kind = "snapshot"
        /\ down # <<>> /\ down' = Tail(down)
        /\ UNCHANGED <<assign, serving, link, mixed>>
    BY <1>2, HearTyped DEF HandleSnapshot, Hears
  <2>2. s \in Snapshot /\ link # "none"
    BY <2>1 DEF ToAgent, WaitInv
  <2>3. Surveys(down) => Surveys(down') /\ s.mode = "survey"
    BY <2>1, TailSurveys
  <2>4. CASE need = {}
    <3>1. o \in Outcomes(s) /\ Conclude(s, o)
      BY <1>2, <2>4 DEF HandleSnapshot
    <3> HIDE DEF s
    <3>2. (Reply(Ack(s, o)) \/ up' = up) /\ pending' = NoSnapshot /\ (blind' => blind)
      BY <3>1 DEF Conclude
    <3>3. Ack(s, o).kind = "ack"
      BY DEF Ack
    <3>4. PullsWithNothing(up["new"]) => PullsWithNothing(up'["new"])
      BY <3>2, <3>3, ReplyPulls
    <3>5. ASSUME blind', ~mixed PROVE st' = st
      <4>1. s.mode = "survey"
        BY <2>2, <2>3, <3>2, <3>5 DEF SurveyInv
      <4> QED
        BY <2>2, <3>1, <3>5, <4>1, ConcludeSurveys
    <3> QED
      BY <2>1, <2>3, <3>2, <3>4, <3>5 DEF SurveyInv
  <2>5. CASE need # {}
    <3>1. /\ Reply(m) /\ pending' = s /\ UNCHANGED <<st, blind>>
      BY <1>2, <2>5 DEF HandleSnapshot
    <3>2. m.kind = "need"
      OBVIOUS
    <3> HIDE DEF s, m
    <3>3. PullsWithNothing(up["new"]) => PullsWithNothing(up'["new"])
      BY <3>1, <3>2, ReplyPulls
    <3> QED
      BY <2>1, <2>3, <3>1, <3>3 DEF SurveyInv
  <2> QED
    BY <2>4, <2>5
<1>3. ASSUME NEW o \in Results, HandleBlob(o) PROVE SurveyInv'
  <2>1. /\ down # <<>> /\ down' = Tail(down) /\ UNCHANGED <<assign, serving, link, mixed>>
    BY <1>3 DEF HandleBlob, Hears
  <2>2. (Surveys(down) => Surveys(down')) /\ link # "none"
    BY <2>1, TailSurveys DEF WaitInv
  <2>3. \/ UNCHANGED <<up, st, pending, blind>>
        \/ \E r \in Outcomes(pending) \cup {"aborted"} :
                Head(down).hash \in waiting /\ Conclude(pending, r)
    BY <1>3 DEF HandleBlob, BlobMissing
  <2>4. CASE UNCHANGED <<up, st, pending, blind>>
    BY <2>1, <2>2, <2>4 DEF SurveyInv
  <2>5. ASSUME NEW r \in Outcomes(pending) \cup {"aborted"},
               Head(down).hash \in waiting, Conclude(pending, r)
        PROVE  SurveyInv'
    <3>1. pending \in Snapshot /\ pending # NoSnapshot
      BY <2>5, ConstantsAssumption DEF TypeOK
    <3>2. (Reply(Ack(pending, r)) \/ up' = up) /\ pending' = NoSnapshot /\ (blind' => blind)
      BY <2>5 DEF Conclude
    <3>3. Ack(pending, r).kind = "ack"
      BY DEF Ack
    <3>4. PullsWithNothing(up["new"]) => PullsWithNothing(up'["new"])
      BY <3>2, <3>3, ReplyPulls
    <3>5. ASSUME blind', ~mixed PROVE st' = st
      <4>1. pending.mode = "survey"
        BY <2>2, <3>1, <3>2, <3>5 DEF SurveyInv
      <4> QED
        BY <2>5, <3>1, <3>5, <4>1, ConcludeSurveys
    <3> QED
      BY <2>1, <2>2, <3>2, <3>4, <3>5 DEF SurveyInv
  <2> QED
    BY <2>3, <2>4, <2>5
<1>4. ASSUME NEW o \in Acknowledged, HandleRestore(o) PROVE SurveyInv'
  <2> DEFINE m == Ack([rev |-> st.rev], o)
  <2>1. /\ down # <<>> /\ down' = Tail(down) /\ (Reply(m) \/ up' = up)
        /\ UNCHANGED <<assign, serving, link, mixed, blind, pending>>
    BY <1>4 DEF HandleRestore, Hears
  <2>2. st' = st
    BY <1>4 DEF HandleRestore, Save
  <2>3. m.kind = "ack"
    BY DEF Ack
  <2> HIDE DEF m
  <2>4. PullsWithNothing(up["new"]) => PullsWithNothing(up'["new"])
    BY <2>1, <2>3, ReplyPulls
  <2>5. Surveys(down) => Surveys(down')
    BY <2>1, TailSurveys
  <2> QED
    BY <2>1, <2>2, <2>4, <2>5, QueuesSurvey
<1> QED
  BY <1>1, <1>2, <1>3, <1>4 DEF AgentLoop

LEMMA SurveysKept == TypeOK /\ WaitInv /\ SurveyInv /\ [Next]_vars => SurveyInv'
<1> SUFFICES ASSUME TypeOK, WaitInv, SurveyInv, [Next]_vars PROVE SurveyInv'
  OBVIOUS
<1> USE DEF agentVars, historyVars, hubVars
<1>1. ASSUME NEW t \in Tasks, Notify(t) PROVE SurveyInv'
  <2>1. down' = down \/ Send([kind |-> "notify"])
    BY <1>1 DEF Notify
  <2>2. Surveys(down) => Surveys(down')
    BY <2>1, SendSurveys DEF TypeOK
  <2> QED
    BY <1>1, <2>2, QueuesSurvey DEF Notify
<1>2. CASE OldLoopEnds
  <2>1. up'["new"] = up["new"]
    BY <1>2 DEF OldLoopEnds, TypeOK, Links
  <2> QED
    BY <1>2, <2>1, QueuesSurvey DEF OldLoopEnds
<1>3. CASE Connect
  <2>1. /\ up'["new"] = <<>> /\ down' = <<>> /\ serving'["new"] = NoSnapshot
        /\ pending' = NoSnapshot /\ st' = saved /\ assign' = assign
        /\ blind' => saved.rev = NoRevision /\
             (blind \/ (assign # NoAssignment /\ assign.applied # NoRevision))
    BY <1>3 DEF Connect, Fresh, WaitInv
  <2> QED
    BY <2>1, ConstantsAssumption DEF SurveyInv, PullsWithNothing, Surveys
<1>4. CASE StoreSession
  BY <1>4 DEF StoreSession, SurveyInv, WaitInv
<1>5. CASE UNCHANGED vars
  BY <1>5, QueuesSurvey DEF vars
<1> QED
  BY <1>1, <1>2, <1>3, <1>4, <1>5, AdminSurveys, HubLoopSurveys, FailureSurveys,
     AgentLoopSurveys DEF Next

\* Service.Pull: an agent without a baseline, on whose record the hub has an apply, finds
\* nothing but surveys among its messages, until it has one or is assigned anew.
THEOREM LostIsSurveyed == Spec => []LostStateIsSurveyed
<1>1. Init => TypeOK /\ WaitInv /\ SurveyInv
  BY InitTyped, InitWaits, InitSurveys
<1>2. TypeOK /\ WaitInv /\ SurveyInv /\ [Next]_vars => TypeOK' /\ WaitInv' /\ SurveyInv'
  BY TypesKept, WaitsKept, SurveysKept
<1>3. SurveyInv => LostStateIsSurveyed
  BY DEF SurveyInv, LostStateIsSurveyed, Surveys
<1> QED
  BY <1>1, <1>2, <1>3, PTL DEF Spec

-----------------------------------------------------------------------------
(* Revisions do not overtake each other.                                   *)

\* Of one config set a is not after b.
Behind(a, b) == a[1] = b[1] => a[2] <= b[2]

Published(r) == r[2] <= head[r[1]]

IsSnapshot(d, i) == i \in DOMAIN d /\ d[i].kind = "snapshot"
Sorted(d) ==
    \A i, j \in Nat : i < j /\ IsSnapshot(d, i) /\ IsSnapshot(d, j)
                        => Behind(d[i].snap.rev, d[j].snap.rev)
AllAhead(r, d) == \A i \in DOMAIN d : d[i].kind = "snapshot" => Behind(r, d[i].snap.rev)
AllBehind(d, r) == \A i \in DOMAIN d : d[i].kind = "snapshot" => Behind(d[i].snap.rev, r)

\* r is not after anything that is on its way to the agent.
InFront(r) ==
    /\ AllAhead(r, down)
    /\ serving["new"] \in Snapshot => Behind(r, serving["new"].rev)

\* The revisions of the state, its file, the snapshot that waits, those on their way and
\* those in the read loops: none is ahead of the head of its set.
Carried ==
    {r \in Revisions :
        \/ r = st.rev \/ r = saved.rev
        \/ pending # NoSnapshot /\ r = pending.rev
        \/ \E l \in Links : serving[l] \in Snapshot /\ r = serving[l].rev
        \/ \E i \in DOMAIN down : IsSnapshot(down, i) /\ r = down[i].snap.rev}
PublishedInv == \A r \in Carried : Published(r)

\* The state, the snapshot that waits, those on their way and the one the read loop
\* holds are in the order they were published in, set by set.
OrderInv ==
    link # "none" /\ ~mixed =>
        /\ Sorted(down)
        /\ serving["new"] \in Snapshot => AllBehind(down, serving["new"].rev)
        /\ pending # NoSnapshot => InFront(pending.rev)
        /\ st.rev # NoRevision => InFront(st.rev)
        /\ st.rev # NoRevision /\ pending # NoSnapshot => Behind(st.rev, pending.rev)

\* Heads only advance.
LEMMA HeadsAdvance ==
    ASSUME TypeOK, [Next]_vars, NEW r \in Revisions, Published(r)
    PROVE  Published(r)'
<1> USE DEF agentVars, historyVars, hubVars
<1>1. r[1] \in Sets /\ r[2] \in Nat /\ \A c \in Sets : head[c] \in Nat
  BY ConstantsAssumption DEF Revisions, TypeOK
<1>2. CASE UNCHANGED head
  BY <1>2 DEF Published
<1>3. ASSUME NEW c \in Sets, Publish(c) PROVE Published(r)'
  <2>1. head' = [head EXCEPT ![c] = head[c] + 1] /\ head \in [Sets -> 0..MaxRev]
    BY <1>3 DEF Publish, TypeOK
  <2>2. head'[r[1]] = head[r[1]] \/ head'[r[1]] = head[r[1]] + 1
    BY <1>1, <2>1
  <2> QED
    BY <1>1, <2>2 DEF Published
<1>4. UNCHANGED head \/ \E c \in Sets : Publish(c)
  BY DEF Next, Admin, Rotate, SetPaused, Assign, ClearDegraded, OrderRestore, Notify,
         HubLoop, ServePull, Assemble, NothingToAssemble, NotAssembled, SendSnapshot,
         ServeBlob, ServeAck, OldLoopEnds, AgentLoop, HandleNotify, HandleSnapshot,
         HandleBlob, HandleRestore, Connect, StoreSession, Failure, Disconnect,
         LoseStateFile, BlobSpoilt, AssembleFails, vars
<1> QED
  BY <1>2, <1>3, <1>4

\* A snapshot moves the state to its revision, or leaves it.
LEMMA ConcludeMoves ==
    ASSUME NEW s \in Snapshot, NEW o \in Results, Conclude(s, o), st \in State
    PROVE  /\ st'.rev \in {s.rev, st.rev} /\ saved'.rev \in {s.rev, st.rev, saved.rev}
           /\ pending' = NoSnapshot
<1>1. CASE o \in {"applied", "surveyed"}
  <2>1. Save([rev |-> s.rev, health |-> "ok"])
    BY <1>1 DEF Conclude
  <2> QED
    BY <2>1 DEF Save, Conclude
<1>2. CASE o = "broken"
  <2>1. Save([st EXCEPT !.health = "degraded"])
    BY <1>2 DEF Conclude
  <2> QED
    BY <2>1 DEF Save, Conclude, State
<1>3. CASE o \in {"rolledback", "refused"}
  <2>1. Save(Made(st))
    BY <1>3 DEF Conclude
  <2> QED
    BY <2>1, MadeTyped DEF Save, Conclude
<1>4. CASE o \in {"aborted", "dropped"}
  BY <1>4 DEF Conclude
<1> QED
  BY <1>1, <1>2, <1>3, <1>4 DEF Results, Acknowledged

\* Snapshots have revisions.
LEMMA SnapshotsTyped ==
    ASSUME TypeOK, NEW i \in DOMAIN down, down[i].kind = "snapshot"
    PROVE  down[i].snap \in Snapshot /\ down[i].snap.rev \in Revisions
<1>1. down[i] \in ToAgent
  BY DEF TypeOK
<1> QED
  BY <1>1 DEF ToAgent, Snapshot

\* What is on its way to the agent grows at its end by what is sent, and shrinks at its
\* front.
LEMMA SendAdds ==
    ASSUME down \in Seq(ToAgent), NEW m, Send(m) \/ down' = down
    PROVE  \A i : IsSnapshot(down', i) =>
                \/ IsSnapshot(down, i) /\ down'[i] = down[i]
                \/ /\ link # "none" /\ m.kind = "snapshot" /\ down'[i] = m
                   /\ i = Len(down) + 1
<1>1. \A i \in DOMAIN Append(down, m) :
            \/ i \in DOMAIN down /\ Append(down, m)[i] = down[i]
            \/ i = Len(down) + 1 /\ Append(down, m)[i] = m
  OBVIOUS
<1> QED
  BY <1>1 DEF Send, IsSnapshot

LEMMA TailTakes ==
    ASSUME down \in Seq(ToAgent), down # <<>>, down' = Tail(down)
    PROVE  /\ \A i : IsSnapshot(down', i) =>
                    IsSnapshot(down, i + 1) /\ down'[i] = down[i + 1] /\ i + 1 > 1
           /\ 1 \in DOMAIN down /\ Head(down) = down[1]
<1>1. \A i \in DOMAIN Tail(down) :
            i + 1 \in DOMAIN down /\ Tail(down)[i] = down[i + 1] /\ i + 1 > 1
  OBVIOUS
<1> QED
  BY <1>1 DEF IsSnapshot

\* No revision comes from anywhere else.
LEMMA NothingNew ==
    ASSUME \A i \in DOMAIN down' : IsSnapshot(down', i) =>
                \/ \E j \in DOMAIN down : IsSnapshot(down, j) /\ down'[i] = down[j]
                \/ \E l \in Links : serving[l] \in Snapshot /\ down'[i].snap = serving[l],
           \A l \in Links : serving'[l] \in Snapshot =>
                \E k \in Links : serving'[l] = serving[k],
           pending' = NoSnapshot \/ pending' = pending
            \/ \E j \in DOMAIN down : IsSnapshot(down, j) /\ pending' = down[j].snap,
           st'.rev \in Carried \cup {st.rev, saved.rev},
           saved'.rev \in Carried \cup {st.rev, saved.rev, NoRevision}
    PROVE  Carried' \subseteq Carried
BY ConstantsAssumption DEF Carried

\* Only a read loop that assembles a snapshot takes a revision up.
LEMMA OthersCarryNoMore ==
    ASSUME TypeOK, [Next]_vars, \A l \in Links : ~Assemble(l)
    PROVE  Carried' \subseteq Carried
<1> USE DEF agentVars, historyVars, hubVars
<1> /\ down \in Seq(ToAgent) /\ st \in State /\ "new" \in Links
    /\ serving \in [Links -> Snapshot \cup {NoSnapshot, Assembling}]
  BY DEF TypeOK, Links
<1>1. CASE Admin
  <2>1. UNCHANGED <<st, saved, pending, serving>>
    BY <1>1 DEF Admin, Publish, Rotate, SetPaused, Assign, ClearDegraded, OrderRestore
  <2>2. Send([kind |-> "restore"]) \/ down' = down
    BY <1>1 DEF Admin, Publish, Rotate, SetPaused, Assign, ClearDegraded, OrderRestore
  <2>3. \A i \in DOMAIN down' : IsSnapshot(down', i) =>
            \E j \in DOMAIN down : IsSnapshot(down, j) /\ down'[i] = down[j]
    BY <2>2, SendAdds DEF IsSnapshot
  <2> QED
    BY <2>1, <2>3, NothingNew
<1>2. ASSUME NEW t \in Tasks, Notify(t) PROVE Carried' \subseteq Carried
  <2>1. UNCHANGED <<st, saved, pending, serving>>
    BY <1>2 DEF Notify
  <2>2. Send([kind |-> "notify"]) \/ down' = down
    BY <1>2 DEF Notify
  <2>3. \A i \in DOMAIN down' : IsSnapshot(down', i) =>
            \E j \in DOMAIN down : IsSnapshot(down, j) /\ down'[i] = down[j]
    BY <2>2, SendAdds DEF IsSnapshot
  <2> QED
    BY <2>1, <2>3, NothingNew
<1>3. ASSUME NEW l \in Links, SendSnapshot(l) PROVE Carried' \subseteq Carried
  <2> DEFINE m == [kind |-> "snapshot", snap |-> serving[l]]
  <2>1. /\ serving[l] \in Snapshot /\ Send(m)
        /\ serving' = [serving EXCEPT ![l] = NoSnapshot]
        /\ UNCHANGED <<st, saved, pending>>
    BY <1>3 DEF SendSnapshot
  <2>2. m.snap = serving[l]
    OBVIOUS
  <2> HIDE DEF m
  <2>3. \A i \in DOMAIN down' : IsSnapshot(down', i) =>
            \/ \E j \in DOMAIN down : IsSnapshot(down, j) /\ down'[i] = down[j]
            \/ down'[i].snap = serving[l]
    BY <2>1, <2>2, SendAdds DEF IsSnapshot
  <2>4. \A k \in Links : serving'[k] \in Snapshot => serving'[k] = serving[k]
    BY <2>1, ConstantsAssumption
  <2> QED
    BY <2>1, <2>3, <2>4, NothingNew
<1>4. ASSUME NEW l \in Links, NEW h, NEW missing, ServeBlob(l, h, missing)
      PROVE  Carried' \subseteq Carried
  <2> DEFINE m == [kind |-> "blob", hash |-> h, missing |-> missing]
  <2>1. Send(m) /\ UNCHANGED <<st, saved, pending, serving>>
    BY <1>4 DEF ServeBlob
  <2>2. m.kind = "blob"
    OBVIOUS
  <2> HIDE DEF m
  <2>3. \A i \in DOMAIN down' : IsSnapshot(down', i) =>
            \E j \in DOMAIN down : IsSnapshot(down, j) /\ down'[i] = down[j]
    BY <2>1, <2>2, SendAdds DEF IsSnapshot
  <2> QED
    BY <2>1, <2>3, NothingNew
<1>5. ASSUME NEW l \in Links,
             ServePull(l) \/ NothingToAssemble(l) \/ ServeAck(l) \/ AssembleFails(l)
      PROVE  Carried' \subseteq Carried
  <2>1. /\ UNCHANGED <<st, saved, pending, down>>
        /\ \/ serving' = serving
           \/ serving' = [serving EXCEPT ![l] = Assembling]
           \/ serving' = [serving EXCEPT ![l] = NoSnapshot]
    BY <1>5 DEF ServePull, NothingToAssemble, ServeAck, AssembleFails, NotAssembled
  <2>2. \A k \in Links : serving'[k] \in Snapshot => serving'[k] = serving[k]
    BY <2>1, ConstantsAssumption
  <2> QED
    BY <2>1, <2>2, NothingNew
<1>6. CASE OldLoopEnds \/ StoreSession \/ UNCHANGED vars
  <2>1. UNCHANGED <<st, saved, pending, serving, down>>
    BY <1>6 DEF OldLoopEnds, StoreSession, vars
  <2> QED
    BY <2>1, NothingNew
<1>7. CASE Connect
  <2>1. UNCHANGED <<saved, serving, down>> /\ st' = saved /\ pending' = NoSnapshot
    BY <1>7 DEF Connect, Fresh
  <2> QED
    BY <2>1, NothingNew
<1>8. CASE Disconnect
  <2>1. /\ UNCHANGED <<st, saved, pending>> /\ down' = <<>>
        /\ \A l \in Links : serving'[l] \in {serving["new"], NoSnapshot}
    BY <1>8 DEF Disconnect
  <2>2. \A l \in Links : serving'[l] \in Snapshot => serving'[l] = serving["new"]
    BY <2>1, ConstantsAssumption
  <2> QED
    BY <2>1, <2>2, NothingNew
<1>9. CASE LoseStateFile
  <2>1. UNCHANGED <<st, serving, pending, down>> /\ saved'.rev = NoRevision
    BY <1>9 DEF LoseStateFile, NoState
  <2> QED
    BY <2>1, NothingNew
<1>10. CASE BlobSpoilt \/ HandleNotify \/ \E o \in Acknowledged : HandleRestore(o)
  <2>1. /\ down # <<>> /\ down' = Tail(down) /\ UNCHANGED <<pending, serving>>
        /\ st' = st /\ saved' \in {st, saved}
    BY <1>10 DEF BlobSpoilt, HandleNotify, HandleRestore, Save, Hears
  <2>2. \A i \in DOMAIN down' : IsSnapshot(down', i) =>
            \E j \in DOMAIN down : IsSnapshot(down, j) /\ down'[i] = down[j]
    BY <2>1, TailTakes DEF IsSnapshot
  <2> QED
    BY <2>1, <2>2, NothingNew
<1>11. ASSUME NEW o \in Results, HandleSnapshot(o) \/ HandleBlob(o)
       PROVE  Carried' \subseteq Carried
  <2>1. down # <<>> /\ down' = Tail(down) /\ UNCHANGED serving
    BY <1>11 DEF HandleSnapshot, HandleBlob, Hears
  <2>2. \A i \in DOMAIN down' : IsSnapshot(down', i) =>
            \E j \in DOMAIN down : IsSnapshot(down, j) /\ down'[i] = down[j]
    BY <2>1, TailTakes DEF IsSnapshot
  <2>3. 1 \in DOMAIN down /\ Head(down) = down[1]
    BY <2>1, TailTakes
  <2>4. CASE HandleSnapshot(o)
    <3>1. /\ IsSnapshot(down, 1) /\ down[1].snap \in Snapshot
          /\ down[1].snap.rev \in Carried
      BY <2>3, <2>4, SnapshotsTyped DEF HandleSnapshot, Hears, Carried, IsSnapshot
    <3>2. \/ Conclude(down[1].snap, o)
          \/ pending' = down[1].snap /\ UNCHANGED <<st, saved>>
      BY <2>3, <2>4 DEF HandleSnapshot
    <3>3. CASE Conclude(down[1].snap, o)
      BY <2>1, <2>2, <3>1, <3>3, ConcludeMoves, NothingNew
    <3>4. CASE pending' = down[1].snap /\ UNCHANGED <<st, saved>>
      BY <2>1, <2>2, <2>3, <3>1, <3>4, NothingNew
    <3> QED
      BY <3>2, <3>3, <3>4
  <2>5. CASE HandleBlob(o)
    <3>1. \/ UNCHANGED <<pending, st, saved>>
          \/ Head(down).hash \in waiting
             /\ (Conclude(pending, o) \/ Conclude(pending, "aborted"))
      BY <2>5 DEF HandleBlob, BlobMissing
    <3>2. CASE UNCHANGED <<pending, st, saved>>
      BY <2>1, <2>2, <3>2, NothingNew
    <3>3. ASSUME NEW r \in Results, Head(down).hash \in waiting, Conclude(pending, r)
          PROVE  Carried' \subseteq Carried
      <4>1. pending \in Snapshot /\ pending # NoSnapshot
        BY <3>3, ConstantsAssumption DEF TypeOK
      <4>2. pending.rev \in Carried
        BY <4>1 DEF Carried, Snapshot
      <4> QED
        BY <2>1, <2>2, <3>3, <4>1, <4>2, ConcludeMoves, NothingNew
    <3> QED
      BY <3>1, <3>2, <3>3 DEF Results, Acknowledged
  <2> QED
    BY <1>11, <2>4, <2>5
<1> QED
  BY <1>1, <1>2, <1>3, <1>4, <1>5, <1>6, <1>7, <1>8, <1>9, <1>10, <1>11
     DEF Next, HubLoop, AgentLoop, Failure

LEMMA InitPublished == Init => PublishedInv /\ OrderInv
<1> SUFFICES ASSUME Init PROVE PublishedInv /\ OrderInv
  OBVIOUS
<1>1. OrderInv
  BY DEF Init, OrderInv
<1>2. Carried = {}
  BY ConstantsAssumption DEF Init, Carried, NoState, IsSnapshot
<1> QED
  BY <1>1, <1>2 DEF PublishedInv

LEMMA PublishedKept ==
    ASSUME TypeOK, PublishedInv, [Next]_vars
    PROVE  PublishedInv'
<1>1. \A r \in Carried : Published(r)'
  BY HeadsAdvance DEF PublishedInv, Carried
<1>2. CASE \A l \in Links : ~Assemble(l)
  BY <1>1, <1>2, OthersCarryNoMore DEF PublishedInv
<1>3. ASSUME NEW l \in Links, Assemble(l) PROVE PublishedInv'
  <2> DEFINE s == [rev |-> HeadRevision, mode |-> assign.mode, ver |-> ver]
  <2>1. /\ serving' = [serving EXCEPT ![l] = s] /\ s.rev = HeadRevision
        /\ serving \in [Links -> Snapshot \cup {NoSnapshot, Assembling}]
        /\ UNCHANGED <<st, saved, pending, down, head, assign>>
    BY <1>3 DEF Assemble, agentVars, TypeOK
  <2>2. HeadRevision \in Revisions
    BY <1>3, HeadTyped DEF Assemble
  <2>3. Published(HeadRevision)
    BY <1>3, <2>2, ConstantsAssumption DEF Published, HeadRevision, TypeOK, Revisions
  <2>4. \A r \in Carried' : r \in Carried \/ r = HeadRevision
    <3> HIDE DEF s
    <3> QED
      BY <2>1 DEF Carried
  <2>5. \A r \in Carried' : Published(r)'
    <3> SUFFICES ASSUME NEW r \in Carried' PROVE Published(r)'
      OBVIOUS
    <3>1. CASE r \in Carried
      BY <1>1, <3>1
    <3>2. CASE r = HeadRevision
      BY <2>1, <2>3, <3>2 DEF Published
    <3> QED
      BY <2>4, <3>1, <3>2
  <2> QED
    BY <2>5 DEF PublishedInv
<1> QED
  BY <1>2, <1>3

\* The head is not before anything of its set.
LEMMA HeadIsLast ==
    ASSUME PublishedInv, NEW r \in Carried
    PROVE  Behind(r, HeadRevision)
BY DEF PublishedInv, Published, Behind, HeadRevision

\* down' is down without its first k messages, or with some that are no snapshots.
Thinner(k) ==
    \A i \in Nat : IsSnapshot(down', i) => IsSnapshot(down, i + k) /\ down'[i] = down[i + k]

\* What is thinner is sorted, and in front of and behind the same revisions.
LEMMA ThinnerSorted ==
    ASSUME NEW k \in Nat, Thinner(k), down' \in Seq(ToAgent)
    PROVE  /\ Sorted(down) => Sorted(down')
           /\ \A r : AllAhead(r, down) => AllAhead(r, down')
           /\ \A r : AllBehind(down, r) => AllBehind(down', r)
<1>1. Sorted(down) => Sorted(down')
  <2> SUFFICES ASSUME Sorted(down), NEW i \in Nat, NEW j \in Nat, i < j,
                      IsSnapshot(down', i), IsSnapshot(down', j)
               PROVE  Behind(down'[i].snap.rev, down'[j].snap.rev)
    BY DEF Sorted
  <2>1. /\ IsSnapshot(down, i + k) /\ down'[i] = down[i + k]
        /\ IsSnapshot(down, j + k) /\ down'[j] = down[j + k]
        /\ i + k < j + k /\ i + k \in Nat /\ j + k \in Nat
    BY DEF Thinner
  <2> QED
    BY <2>1 DEF Sorted
<1>2. \A i \in DOMAIN down' : i \in Nat
  OBVIOUS
<1>3. \A r : AllAhead(r, down) => AllAhead(r, down')
  BY <1>2 DEF AllAhead, Thinner, IsSnapshot
<1>4. \A r : AllBehind(down, r) => AllBehind(down', r)
  BY <1>2 DEF AllBehind, Thinner, IsSnapshot
<1> QED
  BY <1>1, <1>3, <1>4

\* Steps that add no snapshot anywhere.
LEMMA FewerSnapshots ==
    ASSUME OrderInv, NEW k \in Nat, Thinner(k), down' \in Seq(ToAgent),
           link' # "none" => link # "none", mixed => mixed',
           serving'["new"] \in Snapshot => serving'["new"] = serving["new"],
           pending' = NoSnapshot \/ pending' = pending,
           st'.rev = st.rev
    PROVE  OrderInv'
<1> SUFFICES ASSUME link # "none", ~mixed PROVE OrderInv'
  BY DEF OrderInv
<1>1. Sorted(down') /\ (serving'["new"] \in Snapshot => AllBehind(down', serving'["new"].rev))
  BY ThinnerSorted DEF OrderInv
<1>2. \A r : InFront(r) => InFront(r)'
  BY ThinnerSorted DEF InFront
<1> QED
  BY <1>1, <1>2 DEF OrderInv

LEMMA SendThinner ==
    ASSUME down \in Seq(ToAgent), NEW m, Send(m) \/ down' = down, m.kind # "snapshot"
    PROVE  Thinner(0)
<1>1. \A i : IsSnapshot(down', i) => IsSnapshot(down, i) /\ down'[i] = down[i]
  BY SendAdds
<1> QED
  BY <1>1 DEF Thinner

LEMMA TailThinner ==
    ASSUME down \in Seq(ToAgent), down # <<>>, down' = Tail(down)
    PROVE  Thinner(1)
BY TailTakes DEF Thinner

\* The snapshot that is read is in front of those behind it.
LEMMA HeadInFront ==
    ASSUME TypeOK, OrderInv, link # "none", ~mixed, IsSnapshot(down, 1),
           down' = Tail(down), serving' = serving
    PROVE  /\ AllAhead(down[1].snap.rev, down')
           /\ serving["new"] \in Snapshot => Behind(down[1].snap.rev, serving["new"].rev)
<1>1. down \in Seq(ToAgent) /\ down # <<>> /\ Sorted(down)
  BY DEF TypeOK, OrderInv, IsSnapshot
<1>2. AllAhead(down[1].snap.rev, down')
  BY <1>1, TailTakes DEF AllAhead, Sorted, IsSnapshot
<1> QED
  BY <1>2 DEF OrderInv, AllBehind, IsSnapshot

\* The agent moves to the snapshot it reads, or waits for its contents; either way it is
\* in front of the others, and not before the state.
LEMMA SnapshotInOrder ==
    ASSUME TypeOK, WaitInv, OrderInv, NEW o \in Results, HandleSnapshot(o)
    PROVE  /\ OrderInv'
           /\ ~mixed => st'.rev = st.rev \/ st.rev = NoRevision \/ Behind(st.rev, st'.rev)
<1> DEFINE s == down[1].snap
<1>1. /\ down \in Seq(ToAgent) /\ down # <<>> /\ down' = Tail(down)
      /\ UNCHANGED <<serving, link, mixed>> /\ link # "none" /\ st \in State
  BY DEF HandleSnapshot, Hears, hubVars, TypeOK, WaitInv
<1>2. down[1] = Head(down) /\ IsSnapshot(down, 1) /\ s \in Snapshot
  BY <1>1, TailTakes, SnapshotsTyped DEF HandleSnapshot, Hears, IsSnapshot
<1>3. \/ Conclude(s, o)
      \/ pending' = s /\ UNCHANGED <<st, saved>>
  BY <1>2 DEF HandleSnapshot
<1>4. \/ st'.rev \in {s.rev, st.rev} /\ pending' = NoSnapshot
      \/ st'.rev = st.rev /\ pending' = s
  BY <1>1, <1>2, <1>3, ConcludeMoves
<1> HIDE DEF s
<1> SUFFICES ASSUME ~mixed
             PROVE  /\ OrderInv'
                    /\ st'.rev = st.rev \/ st.rev = NoRevision \/ Behind(st.rev, st'.rev)
  BY <1>1 DEF OrderInv
<1>5. /\ AllAhead(s.rev, down')
      /\ serving'["new"] \in Snapshot => Behind(s.rev, serving'["new"].rev)
  BY <1>1, <1>2, HeadInFront DEF s
<1>6. Thinner(1) /\ down' \in Seq(ToAgent)
  BY <1>1, TailThinner
<1>7. Sorted(down') /\ (serving'["new"] \in Snapshot => AllBehind(down', serving'["new"].rev))
  BY <1>1, <1>6, ThinnerSorted DEF OrderInv
<1>8. st.rev # NoRevision => /\ AllAhead(st.rev, down')
                             /\ serving'["new"] \in Snapshot => Behind(st.rev, serving'["new"].rev)
                             /\ Behind(st.rev, s.rev)
  BY <1>1, <1>2, <1>6, ThinnerSorted DEF OrderInv, InFront, AllAhead, IsSnapshot, s
<1> QED
  BY <1>4, <1>5, <1>7, <1>8 DEF OrderInv, InFront

\* So it is with the one that waited.
LEMMA BlobInOrder ==
    ASSUME TypeOK, WaitInv, OrderInv, NEW o \in Results, HandleBlob(o)
    PROVE  /\ OrderInv'
           /\ ~mixed => st'.rev = st.rev \/ st.rev = NoRevision \/ Behind(st.rev, st'.rev)
<1>1. /\ down \in Seq(ToAgent) /\ down # <<>> /\ down' = Tail(down)
      /\ UNCHANGED <<serving, link, mixed>> /\ link # "none" /\ st \in State
  BY DEF HandleBlob, Hears, hubVars, TypeOK, WaitInv
<1>2. Thinner(1) /\ down' \in Seq(ToAgent)
  BY <1>1, TailThinner
<1>3. \/ UNCHANGED <<pending, st, saved>>
      \/ Head(down).hash \in waiting /\ (Conclude(pending, o) \/ Conclude(pending, "aborted"))
  BY DEF HandleBlob, BlobMissing, agentVars
<1>4. CASE UNCHANGED <<pending, st, saved>>
  BY <1>1, <1>2, <1>4, FewerSnapshots
<1>5. ASSUME NEW r \in Results, Head(down).hash \in waiting, Conclude(pending, r)
      PROVE  /\ OrderInv'
             /\ ~mixed => st'.rev = st.rev \/ st.rev = NoRevision \/ Behind(st.rev, st'.rev)
  <2>1. pending \in Snapshot /\ pending # NoSnapshot
    BY <1>5, ConstantsAssumption DEF TypeOK
  <2>2. st'.rev \in {pending.rev, st.rev} /\ pending' = NoSnapshot
    BY <1>1, <1>5, <2>1, ConcludeMoves
  <2>3. CASE st'.rev = st.rev
    BY <1>1, <1>2, <2>2, <2>3, FewerSnapshots
  <2>4. CASE st'.rev = pending.rev
    <3> SUFFICES ASSUME ~mixed
                 PROVE  OrderInv' /\ (st.rev = NoRevision \/ Behind(st.rev, st'.rev))
      BY <1>1 DEF OrderInv
    <3>1. /\ Sorted(down')
          /\ serving'["new"] \in Snapshot => AllBehind(down', serving'["new"].rev)
      BY <1>1, <1>2, ThinnerSorted DEF OrderInv
    <3>2. /\ AllAhead(pending.rev, down')
          /\ serving'["new"] \in Snapshot => Behind(pending.rev, serving'["new"].rev)
      BY <1>1, <1>2, <2>1, ThinnerSorted DEF OrderInv, InFront
    <3>3. st.rev = NoRevision \/ Behind(st.rev, st'.rev)
      BY <1>1, <2>1, <2>4 DEF OrderInv
    <3> QED
      BY <2>2, <2>4, <3>1, <3>2, <3>3 DEF OrderInv, InFront
  <2> QED
    BY <2>2, <2>3, <2>4
<1> QED
  BY <1>3, <1>4, <1>5 DEF Results, Acknowledged

\* A read loop takes up the head, and sends it behind everything it sent before.
LEMMA AssembleInOrder ==
    ASSUME TypeOK, PublishedInv, OrderInv, NEW l \in Links, Assemble(l)
    PROVE  OrderInv'
<1> DEFINE s == [rev |-> HeadRevision, mode |-> assign.mode, ver |-> ver]
<1>1. /\ serving' = [serving EXCEPT ![l] = s] /\ s.rev = HeadRevision
      /\ UNCHANGED <<st, saved, pending, down, link, mixed>>
      /\ serving \in [Links -> Snapshot \cup {NoSnapshot, Assembling}] /\ "new" \in Links
  BY DEF Assemble, agentVars, historyVars, TypeOK, Links
<1> HIDE DEF s
<1>2. \A i \in DOMAIN down : down[i].kind = "snapshot" => Behind(down[i].snap.rev, HeadRevision)
  BY HeadIsLast, SnapshotsTyped DEF Carried, IsSnapshot
<1>3. pending # NoSnapshot => Behind(pending.rev, HeadRevision)
  BY HeadIsLast DEF Carried, TypeOK, Snapshot
<1>4. st.rev # NoRevision => Behind(st.rev, HeadRevision)
  BY HeadIsLast DEF Carried, TypeOK, State, OrNone
<1>5. CASE l = "new"
  BY <1>1, <1>2, <1>3, <1>4, <1>5 DEF OrderInv, InFront, AllBehind
<1>6. CASE l # "new"
  <2>1. serving'["new"] = serving["new"]
    BY <1>1, <1>6
  <2> QED
    BY <1>1, <2>1 DEF OrderInv, InFront
<1> QED
  BY <1>5, <1>6

LEMMA SendInOrder ==
    ASSUME TypeOK, WaitInv, OrderInv, NEW l \in Links, SendSnapshot(l)
    PROVE  OrderInv'
<1> DEFINE m == [kind |-> "snapshot", snap |-> serving[l]]
<1>1. /\ serving[l] \in Snapshot /\ Send(m)
      /\ serving' = [serving EXCEPT ![l] = NoSnapshot]
      /\ mixed' = (mixed \/ (l = "old" /\ link # "none"))
      /\ UNCHANGED <<st, pending, link>>
      /\ serving \in [Links -> Snapshot \cup {NoSnapshot, Assembling}]
      /\ down \in Seq(ToAgent)
  BY DEF SendSnapshot, agentVars, TypeOK
<1> SUFFICES ASSUME link # "none", ~mixed' PROVE OrderInv'
  BY <1>1 DEF OrderInv
<1>2. l = "new" /\ ~mixed /\ serving'["new"] = NoSnapshot
  BY <1>1 DEF Links
<1>3. m.snap = serving["new"] /\ m.kind = "snapshot"
  BY <1>2
<1> HIDE DEF m
<1>4. down' = Append(down, m)
  BY <1>1 DEF Send
<1>5. \A i \in DOMAIN down' : i \in Nat /\ i <= Len(down) + 1
        /\ ((i \in DOMAIN down /\ down'[i] = down[i]) \/ (i = Len(down) + 1 /\ down'[i] = m))
  BY <1>1, <1>4
<1>6. Sorted(down) /\ AllBehind(down, m.snap.rev)
  BY <1>1, <1>2, <1>3 DEF OrderInv
<1>7. Sorted(down')
  <2> SUFFICES ASSUME NEW i \in Nat, NEW j \in Nat, i < j,
                      IsSnapshot(down', i), IsSnapshot(down', j)
               PROVE  Behind(down'[i].snap.rev, down'[j].snap.rev)
    BY DEF Sorted
  <2>1. i \in DOMAIN down /\ down'[i] = down[i]
    BY <1>1, <1>5 DEF IsSnapshot
  <2>2. CASE j \in DOMAIN down /\ down'[j] = down[j]
    BY <1>6, <2>1, <2>2 DEF Sorted, IsSnapshot
  <2>3. CASE down'[j] = m
    BY <1>6, <2>1, <2>3 DEF AllBehind, IsSnapshot
  <2> QED
    BY <1>5, <2>2, <2>3 DEF IsSnapshot
<1>8. \A r : InFront(r) => AllAhead(r, down')
  BY <1>1, <1>2, <1>3, <1>5 DEF InFront, AllAhead
<1> QED
  BY <1>1, <1>2, <1>7, <1>8, ConstantsAssumption DEF OrderInv, InFront

\* Every other step moves no revision, but from the file to a new Syncer.
LEMMA OthersInOrder ==
    ASSUME TypeOK, WaitInv, OrderInv, [Next]_vars,
           \A l \in Links : ~Assemble(l) /\ ~SendSnapshot(l),
           \A o \in Results : ~HandleSnapshot(o) /\ ~HandleBlob(o)
    PROVE  /\ OrderInv'
           /\ link # "none" => st'.rev = st.rev
<1> USE DEF agentVars, historyVars, hubVars
<1> /\ down \in Seq(ToAgent) /\ "new" \in Links
    /\ serving \in [Links -> Snapshot \cup {NoSnapshot, Assembling}]
  BY DEF TypeOK, Links
<1>1. ASSUME NEW m \in ToAgent, m.kind # "snapshot", Send(m) \/ down' = down,
             UNCHANGED <<st, pending, link, mixed>>,
             serving'["new"] \in Snapshot => serving'["new"] = serving["new"]
      PROVE  OrderInv'
  <2>1. Thinner(0) /\ down' \in Seq(ToAgent)
    BY <1>1, SendThinner, SendTyped
  <2> QED
    BY <1>1, <2>1, FewerSnapshots
<1>2. [kind |-> "notify"] \in ToAgent /\ [kind |-> "restore"] \in ToAgent
  BY DEF ToAgent
<1>3. CASE Admin
  <2>1. UNCHANGED <<st, pending, serving, link, mixed>>
    BY <1>3 DEF Admin, Publish, Rotate, SetPaused, Assign, ClearDegraded, OrderRestore
  <2>2. Send([kind |-> "restore"]) \/ down' = down
    BY <1>3 DEF Admin, Publish, Rotate, SetPaused, Assign, ClearDegraded, OrderRestore
  <2> QED
    BY <1>1, <1>2, <2>1, <2>2
<1>4. ASSUME NEW t \in Tasks, Notify(t) PROVE OrderInv' /\ st' = st
  <2>1. UNCHANGED <<st, pending, serving, link, mixed>>
    BY <1>4 DEF Notify
  <2>2. Send([kind |-> "notify"]) \/ down' = down
    BY <1>4 DEF Notify
  <2> QED
    BY <1>1, <1>2, <2>1, <2>2
<1>5. ASSUME NEW l \in Links, NEW h \in Blobs, NEW missing \in BOOLEAN,
             ServeBlob(l, h, missing)
      PROVE  OrderInv' /\ st' = st
  <2> DEFINE m == [kind |-> "blob", hash |-> h, missing |-> missing]
  <2>1. Send(m) /\ UNCHANGED <<st, pending, serving, link, mixed>>
    BY <1>5 DEF ServeBlob
  <2>2. m \in ToAgent /\ m.kind # "snapshot"
    BY DEF ToAgent
  <2> HIDE DEF m
  <2> QED
    BY <1>1, <2>1, <2>2
<1>6. ASSUME NEW l \in Links,
             ServePull(l) \/ NothingToAssemble(l) \/ ServeAck(l) \/ AssembleFails(l)
      PROVE  OrderInv' /\ st' = st
  <2>1. /\ UNCHANGED <<st, pending, down, link, mixed>>
        /\ \/ serving' = serving
           \/ serving' = [serving EXCEPT ![l] = Assembling]
           \/ serving' = [serving EXCEPT ![l] = NoSnapshot]
    BY <1>6 DEF ServePull, NothingToAssemble, ServeAck, AssembleFails, NotAssembled
  <2>2. serving'["new"] \in Snapshot => serving'["new"] = serving["new"]
    BY <2>1, ConstantsAssumption
  <2> QED
    BY <1>1, <1>2, <2>1, <2>2
<1>7. CASE OldLoopEnds \/ LoseStateFile \/ UNCHANGED vars
  <2>1. UNCHANGED <<st, pending, down, serving, link, mixed>>
    BY <1>7 DEF OldLoopEnds, LoseStateFile, vars
  <2> QED
    BY <1>1, <1>2, <2>1
<1>8. CASE StoreSession
  <2>1. UNCHANGED <<st, pending, down, serving, mixed>> /\ link # "none" /\ Thinner(0)
    BY <1>8 DEF StoreSession, Thinner, IsSnapshot
  <2> QED
    BY <2>1, FewerSnapshots
<1>9. CASE Connect
  <2>1. /\ link = "none" /\ down' = <<>> /\ serving'["new"] = NoSnapshot
        /\ pending' = NoSnapshot
    BY <1>9 DEF Connect, Fresh, WaitInv
  <2>2. Sorted(down') /\ \A r : AllAhead(r, down')
    BY <2>1 DEF Sorted, AllAhead, IsSnapshot
  <2> QED
    BY <2>1, <2>2, ConstantsAssumption DEF OrderInv, InFront
<1>10. CASE Disconnect
  BY <1>10 DEF Disconnect, OrderInv
<1>11. CASE BlobSpoilt \/ HandleNotify \/ \E o \in Acknowledged : HandleRestore(o)
  <2>1. /\ down # <<>> /\ down' = Tail(down) /\ UNCHANGED <<st, pending, serving, link, mixed>>
    BY <1>11 DEF BlobSpoilt, HandleNotify, HandleRestore, Save, Hears
  <2>2. Thinner(1) /\ down' \in Seq(ToAgent)
    BY <2>1, TailThinner
  <2> QED
    BY <2>1, <2>2, FewerSnapshots
<1> QED
  BY <1>3, <1>4, <1>5, <1>6, <1>7, <1>8, <1>9, <1>10, <1>11
     DEF Next, HubLoop, AgentLoop, Failure

\* Every step keeps the order, and moves the state along it.
LEMMA OrderKept ==
    ASSUME TypeOK, WaitInv, PublishedInv, OrderInv, [Next]_vars
    PROVE  /\ OrderInv'
           /\ ~mixed /\ link # "none"
                => st'.rev = st.rev \/ st.rev = NoRevision \/ Behind(st.rev, st'.rev)
<1> USE DEF agentVars, historyVars, hubVars
<1>1. ASSUME NEW l \in Links, Assemble(l) PROVE OrderInv' /\ st' = st
  BY <1>1, AssembleInOrder DEF Assemble
<1>2. ASSUME NEW l \in Links, SendSnapshot(l) PROVE OrderInv' /\ st' = st
  BY <1>2, SendInOrder DEF SendSnapshot
<1> QED
  BY <1>1, <1>2, SnapshotInOrder, BlobInOrder, OthersInOrder

\* Pull, onSnapshot, onBlob, Publish, Rollback: on one connection a machine never goes
\* back to an earlier revision of its set, as long as no read loop of an older
\* connection answers on it.
THEOREM NeverBack == Spec => RevisionsAdvance
<1> DEFINE Inv == TypeOK /\ WaitInv /\ PublishedInv /\ OrderInv
           Forward == ~mixed /\ link # "none" /\ st.rev # NoRevision /\ st'.rev # NoRevision
                        /\ st'.rev[1] = st.rev[1] => st'.rev[2] >= st.rev[2]
<1>1. Init => Inv
  BY InitTyped, InitWaits, InitPublished
<1>2. Inv /\ [Next]_vars => Inv'
  BY TypesKept, WaitsKept, PublishedKept, OrderKept
<1>3. Inv /\ [Next]_vars => Forward
  <2> SUFFICES ASSUME Inv, [Next]_vars, ~mixed, link # "none",
                      st.rev # NoRevision, st'.rev # NoRevision, st'.rev[1] = st.rev[1]
               PROVE  st'.rev[2] >= st.rev[2]
    OBVIOUS
  <2>1. st'.rev = st.rev \/ Behind(st.rev, st'.rev)
    BY OrderKept
  <2>2. TypeOK'
    BY TypesKept
  <2>3. st.rev[2] \in Nat /\ st'.rev[2] \in Nat
    BY <2>2, ConstantsAssumption DEF TypeOK, State, OrNone, Revisions
  <2> QED
    BY <2>1, <2>3 DEF Behind
<1>4. Spec => [][Forward]_vars
  <2> HIDE DEF Inv, Forward
  <2> QED
    BY <1>1, <1>2, <1>3, PTL DEF Spec
<1> QED
  BY <1>4 DEF RevisionsAdvance

=============================================================================
