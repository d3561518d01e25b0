--------------------------- MODULE DriftInboxProofs ---------------------------
(***************************************************************************)
(* Theorems about DriftInbox, for any files, contents, queues and orders.  *)
(***************************************************************************)
EXTENDS DriftInbox, SequenceTheorems, TLAPS

-----------------------------------------------------------------------------
(* Batches.                                                                *)

Found == Contents \cup {None}
Items == UNION {[P -> Found] : P \in SUBSET Paths}

LEMMA ItemsKnown ==
    ASSUME NEW P \in SUBSET Paths, NEW f \in [P -> Found]
    PROVE  f \in Items
BY DEF Items

LEMMA ItemsAre ==
    ASSUME NEW f \in Items
    PROVE  /\ DOMAIN f \subseteq Paths
           /\ f \in [DOMAIN f -> Found]
           /\ \A p \in DOMAIN f : f[p] \in Found
BY DEF Items

LEMMA BatchIs ==
    ASSUME NEW b
    PROVE  b \in Batch <=> b \in [kind : {"report"}, items : Items, full : BOOLEAN,
                                  final : BOOLEAN, all : SUBSET Paths]
BY DEF Batch, Items, Found

LEMMA NoBatchTyped == NoBatch \in Batch
<1>1. <<>> \in [{} -> Found]
  OBVIOUS
<1>2. <<>> \in Items
  BY <1>1, ItemsKnown
<1> QED
  BY <1>2, BatchIs DEF NoBatch

\* What a goroutine has to send of one report.
Parts(bs) ==
    /\ bs \in Seq(Batch) /\ Len(bs) <= 2
    /\ Len(bs) = 1 /\ bs[1].full => bs[1].final
    /\ Len(bs) = 2 => bs[1].full = bs[2].full
    /\ Len(bs) = 2 /\ bs[1].full =>
           /\ ~bs[1].final /\ bs[2].final
           /\ bs[2].all \ DOMAIN bs[2].items \subseteq DOMAIN bs[1].items

LEMMA BatchesTyped ==
    ASSUME NEW found \in Files, NEW P \in SUBSET Paths, NEW full \in BOOLEAN,
           NEW bs \in BatchesOf(found, P, full)
    PROVE  /\ Parts(bs)
           /\ bs # <<>> /\ bs[1].full => DOMAIN bs[1].items = bs[1].all \/ ~bs[1].final
<1> DEFINE part(Q, final) == [kind |-> "report", items |-> [p \in Q |-> found[p]], full |-> full,
                              final |-> final, all |-> P]
<1>1. ASSUME NEW Q \in SUBSET Paths, NEW final \in BOOLEAN
      PROVE  /\ part(Q, final) \in Batch /\ DOMAIN part(Q, final).items = Q
             /\ part(Q, final).full = full /\ part(Q, final).final = final /\ part(Q, final).all = P
  <2>1. [p \in Q |-> found[p]] \in [Q -> Found]
    BY DEF Files, Found
  <2>2. [p \in Q |-> found[p]] \in Items
    BY <2>1, ItemsKnown
  <2> QED
    BY <2>2, BatchIs
<1>2. \/ bs = <<>>
      \/ bs = <<part(P, TRUE)>>
      \/ \E Q \in SUBSET P : bs = <<part(Q, FALSE), part(P \ Q, TRUE)>>
  BY DEF BatchesOf
<1> HIDE DEF part
<1>3. CASE bs = <<>>
  BY <1>3 DEF Parts
<1>4. CASE bs = <<part(P, TRUE)>>
  <2> DEFINE one == part(P, TRUE)
  <2>1. /\ one \in Batch /\ DOMAIN one.items = P /\ one.full = full /\ one.final = TRUE /\ one.all = P
    BY <1>1
  <2> HIDE DEF one
  <2>2. bs = <<one>>
    BY <1>4 DEF one
  <2>3. bs \in Seq(Batch) /\ Len(bs) = 1 /\ bs[1] = one
    BY <2>1, <2>2
  <2> QED
    BY <2>1, <2>3 DEF Parts
<1>5. CASE \E Q \in SUBSET P : bs = <<part(Q, FALSE), part(P \ Q, TRUE)>>
  <2>1. PICK Q \in SUBSET P : bs = <<part(Q, FALSE), part(P \ Q, TRUE)>>
    BY <1>5
  <2>2. Q \in SUBSET Paths /\ P \ Q \in SUBSET Paths
    OBVIOUS
  <2> DEFINE one == part(Q, FALSE)
             two == part(P \ Q, TRUE)
  <2>3. /\ one \in Batch /\ DOMAIN one.items = Q /\ one.full = full /\ one.final = FALSE /\ one.all = P
        /\ two \in Batch /\ DOMAIN two.items = P \ Q /\ two.full = full /\ two.final = TRUE /\ two.all = P
    BY <1>1, <2>2
  <2> HIDE DEF one, two
  <2>4. bs = <<one, two>>
    BY <2>1 DEF one, two
  <2>5. bs \in Seq(Batch) /\ Len(bs) = 2 /\ bs[1] = one /\ bs[2] = two /\ bs # <<>>
    BY <2>3, <2>4
  <2> QED
    BY <2>3, <2>5 DEF Parts
<1> QED
  BY <1>2, <1>3, <1>4, <1>5

-----------------------------------------------------------------------------
(* Events.                                                                 *)

States == {"open", "adopted", "restored", "ignored", "superseded"}

\* One event is open per path.
Single(es) ==
    \A e, f \in DOMAIN es :
        es[e].path = es[f].path /\ es[e].state = "open" /\ es[f].state = "open" => e = f

\* Some events of es are closed in es2, and nothing else differs.
Closes(es, es2) ==
    /\ es2 \in Seq(Event) /\ Len(es2) = Len(es)
    /\ \A e \in 1 .. Len(es) : /\ es2[e].path = es[e].path /\ es2[e].content = es[e].content
                               /\ es2[e].state = "open" => es[e].state = "open"

\* An event in another state.
InState(v, s) == [v EXCEPT !.state = s]

LEMMA EventIs ==
    ASSUME NEW v \in Event, NEW s \in States
    PROVE  /\ InState(v, s) \in Event
           /\ InState(v, s).path = v.path
           /\ InState(v, s).content = v.content
           /\ InState(v, s).state = s
BY DEF Event, States, InState

LEMMA MapTyped ==
    ASSUME NEW es \in Seq(Event), NEW es2, es2 = [e \in 1 .. Len(es) |-> es2[e]],
           \A e \in 1 .. Len(es) : es2[e] = es[e]
                                   \/ \E s \in States \ {"open"} : es2[e] = InState(es[e], s)
    PROVE  Closes(es, es2)
<1>1. ASSUME NEW e \in 1 .. Len(es)
      PROVE  /\ es2[e] \in Event /\ es2[e].path = es[e].path /\ es2[e].content = es[e].content
             /\ es2[e].state = "open" => es[e].state = "open"
  <2>1. es[e] \in Event
    OBVIOUS
  <2>2. CASE es2[e] = es[e]
    BY <2>1, <2>2
  <2>3. ASSUME NEW s \in States \ {"open"}, es2[e] = InState(es[e], s)
        PROVE  /\ es2[e] \in Event /\ es2[e].path = es[e].path /\ es2[e].content = es[e].content
               /\ es2[e].state = "open" => es[e].state = "open"
    <3>1. s \in States /\ s # "open"
      BY <2>3
    <3> QED
      BY <2>1, <2>3, <3>1, EventIs
  <2> QED
    BY <2>2, <2>3
<1>2. es2 \in [1 .. Len(es) -> Event]
  BY <1>1
<1>3. Len(es) \in Nat
  OBVIOUS
<1>4. es2 \in Seq(Event) /\ Len(es2) = Len(es)
  BY <1>2, <1>3
<1> QED
  BY <1>1, <1>4 DEF Closes

LEMMA CloseKeeps ==
    ASSUME NEW es \in Seq(Event), NEW E, NEW s \in States \ {"open"}
    PROVE  /\ Closes(es, Closed(es, E, s))
           /\ \A e \in 1 .. Len(es) : e \in E => Closed(es, E, s)[e].state # "open"
<1> DEFINE es2 == Closed(es, E, s)
<1>1. DOMAIN es = 1 .. Len(es)
  OBVIOUS
<1>2. es2 = [e \in 1 .. Len(es) |-> IF e \in E THEN InState(es[e], s) ELSE es[e]]
  BY <1>1 DEF Closed, InState
<1> HIDE DEF es2
<1>3. \A e \in 1 .. Len(es) : es2[e] = IF e \in E THEN InState(es[e], s) ELSE es[e]
  BY <1>2
<1>4. es2 = [e \in 1 .. Len(es) |-> es2[e]]
  BY <1>2
<1>5. Closes(es, es2)
  <2>1. \A e \in 1 .. Len(es) : es2[e] = es[e] \/ \E t \in States \ {"open"} : es2[e] = InState(es[e], t)
    BY <1>3
  <2> QED
    BY <1>4, <2>1, MapTyped
<1>6. ASSUME NEW e \in 1 .. Len(es), e \in E
      PROVE  es2[e].state # "open"
  <2>1. es[e] \in Event /\ es2[e] = InState(es[e], s)
    BY <1>3, <1>6
  <2>2. s \in States /\ s # "open"
    OBVIOUS
  <2> QED
    BY <2>1, <2>2, EventIs
<1> QED
  BY <1>5, <1>6 DEF es2

LEMMA CloseNone == ASSUME NEW es \in Seq(Event) PROVE Closes(es, es)
BY DEF Closes

LEMMA ClosesSingle ==
    ASSUME NEW es \in Seq(Event), NEW es2, Single(es), Closes(es, es2)
    PROVE  Single(es2)
<1>1. DOMAIN es = 1 .. Len(es) /\ DOMAIN es2 = 1 .. Len(es)
  BY DEF Closes
<1> QED
  BY <1>1 DEF Single, Closes

LEMMA AppendSingle ==
    ASSUME NEW es \in Seq(Event), NEW v \in Event, Single(es),
           \A e \in DOMAIN es : ~(es[e].path = v.path /\ es[e].state = "open")
    PROVE  Append(es, v) \in Seq(Event) /\ Single(Append(es, v))
<1> DEFINE es2 == Append(es, v)
<1>1. /\ es2 \in Seq(Event) /\ Len(es2) = Len(es) + 1 /\ es2[Len(es) + 1] = v
      /\ \A e \in 1 .. Len(es) : es2[e] = es[e]
  OBVIOUS
<1>2. DOMAIN es = 1 .. Len(es) /\ DOMAIN es2 = 1 .. (Len(es) + 1) /\ Len(es) \in Nat
  BY <1>1
<1> HIDE DEF es2
<1>3. ASSUME NEW e \in DOMAIN es2, NEW f \in DOMAIN es2, es2[e].path = es2[f].path,
             es2[e].state = "open", es2[f].state = "open"
      PROVE  e = f
  <2>1. CASE e \in 1 .. Len(es) /\ f \in 1 .. Len(es)
    BY <1>1, <1>2, <1>3, <2>1 DEF Single
  <2>2. CASE e = Len(es) + 1 /\ f # Len(es) + 1
    BY <1>1, <1>2, <1>3, <2>2
  <2>3. CASE e # Len(es) + 1 /\ f = Len(es) + 1
    BY <1>1, <1>2, <1>3, <2>3
  <2>4. CASE e = Len(es) + 1 /\ f = Len(es) + 1
    BY <2>4
  <2> QED
    BY <1>2, <2>1, <2>2, <2>3, <2>4
<1>4. Single(es2)
  BY <1>3 DEF Single
<1> QED
  BY <1>1, <1>4 DEF es2

\* A report has another content of an event.
Rewritten(es, n, c) == [es EXCEPT ![n].content = c]

LEMMA RewrittenKeeps ==
    ASSUME NEW es \in Seq(Event), NEW n \in 1 .. Len(es), NEW c \in Contents \cup {None}, Single(es)
    PROVE  /\ Rewritten(es, n, c) \in Seq(Event) /\ Single(Rewritten(es, n, c))
           /\ Len(Rewritten(es, n, c)) = Len(es)
           /\ \A e \in 1 .. Len(es) : /\ Rewritten(es, n, c)[e].path = es[e].path
                                      /\ Rewritten(es, n, c)[e].state = es[e].state
                                      /\ e # n => Rewritten(es, n, c)[e] = es[e]
<1> DEFINE es2 == Rewritten(es, n, c)
<1>1. DOMAIN es = 1 .. Len(es) /\ Len(es) \in Nat /\ es[n] \in Event
  OBVIOUS
<1>2. /\ [es[n] EXCEPT !.content = c] \in Event
      /\ [es[n] EXCEPT !.content = c].path = es[n].path
      /\ [es[n] EXCEPT !.content = c].state = es[n].state
  BY <1>1 DEF Event
<1>3. es2 = [es EXCEPT ![n] = [es[n] EXCEPT !.content = c]]
  BY DEF Rewritten
<1>4. /\ DOMAIN es2 = 1 .. Len(es)
      /\ es2[n] = [es[n] EXCEPT !.content = c]
      /\ \A e \in 1 .. Len(es) : e # n => es2[e] = es[e]
  BY <1>1 DEF Rewritten
<1> HIDE DEF es2
<1>5. es2 \in Seq(Event) /\ Len(es2) = Len(es)
  BY <1>1, <1>2, <1>3
<1>6. \A e \in 1 .. Len(es) : es2[e].path = es[e].path /\ es2[e].state = es[e].state
  BY <1>2, <1>4
<1>7. Single(es2)
  BY <1>1, <1>4, <1>6 DEF Single
<1> QED
  BY <1>4, <1>5, <1>6, <1>7 DEF es2

-----------------------------------------------------------------------------
(* Types.                                                                  *)

HubOK ==
    /\ head \in Files /\ mode \in Modes /\ rules \in [{"own", "global"} -> SUBSET Paths]
    /\ fullSeen \subseteq Paths /\ pending \subseteq Paths
    /\ asked \in BOOLEAN /\ snapping \in Modes \cup {"no"}
    /\ taken \subseteq Files /\ (snapping = "no" => taken = {})

EventsOK == events \in Seq(Event) /\ Single(events) /\ adopting \subseteq 1 .. Len(events)

\* The hub looks for an event and saves it in two steps.  Only the hub opens events, so what it
\* has not found is still not there.
WorkOK ==
    /\ work \in [batch : Batch, todo : SUBSET Paths, path : Paths \cup {None}, event : Nat,
                 seen : SUBSET Paths]
    /\ work.event <= Len(events)
    /\ work.todo \subseteq DOMAIN work.batch.items
    /\ work.path = None => work.event = 0
    /\ work.path # None =>
          /\ work.path \in DOMAIN work.batch.items
          /\ work.event = 0 => OpenAt(work.path) = {}
          /\ work.event # 0 => events[work.event].path = work.path

AgentOK ==
    /\ disk \in Files /\ base \in [Paths -> Entry] /\ ignored \subseteq Paths
    /\ watching \in [entries : [Paths -> Entry], skip : SUBSET Paths]
    /\ due \in Ack /\ reports \in [Goroutines -> Seq(Batch)] /\ \A g \in Goroutines : Parts(reports[g])

NetOK == up \in Seq(Batch \cup Ack) /\ down \in Seq(Snapshot \cup Command) /\ online \in BOOLEAN

Mishaps == {"unacknowledged", "created", "raced", "overtaken", "failed", "torn", "mixed"}
HistoryOK == lost \subseteq Paths \X Contents /\ unseen \subseteq Paths /\ mishaps \subseteq Mishaps

TypeInv == HubOK /\ EventsOK /\ WorkOK /\ AgentOK /\ NetOK /\ HistoryOK

LEMMA TypesAll == TypeInv => TypeOK
<1> SUFFICES ASSUME TypeInv PROVE TypeOK
  OBVIOUS
<1>1. DOMAIN events = 1 .. Len(events)
  BY DEF TypeInv, EventsOK
<1>2. \A p \in Paths : \A e, f \in OpenAt(p) : e = f
  BY <1>1 DEF TypeInv, EventsOK, Single, OpenAt, Ids
<1>3. work.event \in 0 .. Len(events)
  BY DEF TypeInv, EventsOK, WorkOK
<1>4. work \in [batch : Batch, todo : SUBSET Paths, path : Paths \cup {None},
                event : 0 .. Len(events), seen : SUBSET Paths]
  BY <1>3 DEF TypeInv, WorkOK
<1> QED
  BY <1>2, <1>4 DEF TypeInv, HubOK, EventsOK, AgentOK, NetOK, HistoryOK, TypeOK, Ids, Mishaps

LEMMA NoAckTyped == NoAck \in Ack
BY DEF NoAck, Ack

LEMMA NotedTyped ==
    ASSUME NEW files \in Files, NEW written \in BOOLEAN
    PROVE  Noted(files, written) \in [Paths -> Entry]
<1>1. \A p \in Paths : [blob |-> files[p], written |-> written /\ files[p] # None] \in Entry
  BY DEF Files, Entry
<1> QED
  BY <1>1 DEF Noted

LEMMA InitTyped == Init => TypeInv
<1> SUFFICES ASSUME Init PROVE TypeInv
  OBVIOUS
<1>1. NoFiles \in Files
  BY DEF NoFiles, Files
<1>2. base \in [Paths -> Entry] /\ disk \in Files
  BY <1>1, NotedTyped DEF Init
<1>3. HubOK
  BY DEF Init, HubOK
<1>4. EventsOK
  BY DEF Init, EventsOK, Single
<1>5. WorkOK
  <2>1. /\ work.batch = NoBatch /\ work.todo = {} /\ work.path = None /\ work.event = 0 /\ work.seen = {}
        /\ work = [batch |-> NoBatch, todo |-> {}, path |-> None, event |-> 0, seen |-> {}]
    BY DEF Init, NoWork
  <2>2. Len(events) = 0
    BY DEF Init
  <2> QED
    BY <2>1, <2>2, NoBatchTyped DEF WorkOK
<1>6. AgentOK
  BY <1>2, NoAckTyped DEF Init, Current, AgentOK, Parts, Goroutines
<1>7. NetOK
  BY DEF Init, NetOK
<1>8. HistoryOK
  BY DEF Init, HistoryOK
<1> QED
  BY <1>3, <1>4, <1>5, <1>6, <1>7, <1>8 DEF TypeInv

LEMMA SentUp == ASSUME NetOK, NEW m \in Batch \cup Ack, ToHub(m)
                PROVE  up' \in Seq(Batch \cup Ack)
BY DEF NetOK, ToHub

LEMMA SentDown == ASSUME NetOK, NEW m \in Snapshot \cup Command, ToAgent(m)
                  PROVE  down' \in Seq(Snapshot \cup Command)
BY DEF NetOK, ToAgent

LEMMA TookDown == ASSUME NetOK, NEW kind, Take(kind)
                  PROVE  down' \in Seq(Snapshot \cup Command) /\ Head(down) \in Snapshot \cup Command
                         /\ Head(down).kind = kind /\ due = NoAck /\ reports["handler"] = <<>>
BY DEF NetOK, Take

LEMMA TookSnapshot == ASSUME NetOK, Take("snapshot")
                      PROVE  /\ Head(down).files \in Files /\ Head(down).mode \in Modes
                             /\ Head(down).ignore \in SUBSET Paths
<1>1. Head(down) \in Snapshot \cup Command /\ Head(down).kind = "snapshot"
  BY TookDown
<1> QED
  BY <1>1 DEF Snapshot, Command

LEMMA TookCommand == ASSUME NetOK, NEW kind \in {"restore", "ignore"}, Take(kind)
                     PROVE  Head(down).paths \in SUBSET Paths
<1>1. Head(down) \in Snapshot \cup Command /\ Head(down).kind = kind
  BY TookDown
<1> QED
  BY <1>1 DEF Snapshot, Command

\* The steps of the agent leave the hub alone.
LEMMA HubStays ==
    ASSUME TypeInv, UNCHANGED hub
    PROVE  HubOK' /\ EventsOK' /\ WorkOK'
BY DEF TypeInv, hub, HubOK, EventsOK, WorkOK, Single, OpenAt, Ids

LEMMA EditTyped ==
    ASSUME TypeInv, NEW p \in Paths, NEW c \in Contents \cup {None}, Edit(p, c)
    PROVE  TypeInv'
<1>1. HubOK' /\ EventsOK' /\ WorkOK'
  BY HubStays DEF Edit
<1>2. AgentOK'
  BY DEF TypeInv, AgentOK, Edit, Files
<1>3. NetOK' /\ HistoryOK'
  BY DEF TypeInv, NetOK, HistoryOK, Edit, net, history
<1> QED
  BY <1>1, <1>2, <1>3 DEF TypeInv

LEMMA DriftsKnown ==
    ASSUME NEW files, NEW entries, NEW skip
    PROVE  Drifted(files, entries, skip) \subseteq Paths
BY DEF Drifted

\* The reports of one goroutine are others.
LEMMA ReportsTyped ==
    ASSUME AgentOK, NEW g \in Goroutines, NEW bs, Parts(bs),
           reports' = [reports EXCEPT ![g] = bs], disk' \in Files, base' \in [Paths -> Entry],
           ignored' \subseteq Paths, due' \in Ack,
           watching' \in [entries : [Paths -> Entry], skip : SUBSET Paths]
    PROVE  AgentOK'
<1>1. reports' \in [Goroutines -> Seq(Batch)]
  BY DEF AgentOK, Parts
<1>2. \A h \in Goroutines : Parts(reports'[h])
  BY DEF AgentOK
<1> QED
  BY <1>1, <1>2 DEF AgentOK

LEMMA ScanTyped ==
    ASSUME TypeInv, NEW full \in BOOLEAN, NEW T \in SUBSET Paths, Scan(full, T)
    PROVE  TypeInv'
<1>1. HubOK' /\ EventsOK' /\ WorkOK'
  BY HubStays DEF Scan
<1>2. PICK bs \in BatchesOf(disk, Differing \ T, full) : reports' = [reports EXCEPT !["watcher"] = bs]
  BY DEF Scan
<1>3. Differing \ T \in SUBSET Paths /\ disk \in Files
  BY DriftsKnown DEF Differing, TypeInv, AgentOK
<1>4. Parts(bs)
  BY <1>3, BatchesTyped
<1>5. AgentOK'
  <2>1. /\ disk' \in Files /\ base' \in [Paths -> Entry] /\ ignored' \subseteq Paths /\ due' \in Ack
        /\ watching' \in [entries : [Paths -> Entry], skip : SUBSET Paths]
    BY DEF TypeInv, AgentOK, Scan
  <2>2. "watcher" \in Goroutines /\ AgentOK
    BY DEF Goroutines, TypeInv
  <2> QED
    BY <1>2, <1>4, <2>1, <2>2, ReportsTyped
<1>6. NetOK' /\ HistoryOK'
  BY DEF TypeInv, NetOK, HistoryOK, Scan, net, history
<1> QED
  BY <1>1, <1>5, <1>6 DEF TypeInv

LEMMA NoParts == Parts(<<>>)
BY DEF Parts

LEMMA TailParts ==
    ASSUME NEW bs, Parts(bs), bs # <<>>
    PROVE  /\ Parts(Tail(bs)) /\ Head(bs) = bs[1] /\ Head(bs) \in Batch
           /\ Tail(bs) # <<>> => Len(bs) = 2 /\ Head(Tail(bs)) = bs[2]
           /\ Tail(bs) = <<>> => Len(bs) = 1
<1>1. /\ bs \in Seq(Batch) /\ Len(bs) \in Nat \ {0} /\ Len(bs) <= 2
      /\ Head(bs) = bs[1] /\ Head(bs) \in Batch
      /\ Tail(bs) \in Seq(Batch) /\ Len(Tail(bs)) = Len(bs) - 1
      /\ \A i \in 1 .. Len(Tail(bs)) : Tail(bs)[i] = bs[i + 1]
  BY EmptySeq, HeadTailProperties DEF Parts
<1>2. CASE Len(bs) = 1
  <2>1. Len(Tail(bs)) = 0
    BY <1>1, <1>2
  <2>2. Tail(bs) = <<>>
    BY <1>1, <2>1, EmptySeq
  <2>3. Parts(Tail(bs))
    BY <2>2, NoParts
  <2> QED
    BY <1>1, <1>2, <2>2, <2>3
<1>3. CASE Len(bs) = 2
  <2>1. Len(Tail(bs)) = 1
    BY <1>1, <1>3
  <2>2. Tail(bs)[1] = bs[2]
    <3>1. 1 \in 1 .. Len(Tail(bs)) /\ 1 + 1 = 2
      BY <2>1
    <3> QED
      BY <1>1, <3>1
  <2>3. Tail(bs) # <<>>
    <3>1. Len(<<>>) = 0 /\ 0 # 1
      OBVIOUS
    <3> QED
      BY <2>1, <3>1, Zenon
  <2>4. Head(Tail(bs)) = bs[2]
    BY <1>1, <2>2, <2>3
  <2>5. bs[2].full => bs[2].final
    BY <1>3 DEF Parts
  <2>6. Parts(Tail(bs))
    BY <1>1, <2>1, <2>2, <2>5 DEF Parts
  <2> QED
    BY <1>1, <1>3, <2>3, <2>4, <2>6
<1> QED
  BY <1>1, <1>2, <1>3

LEMMA SendBatchTyped ==
    ASSUME TypeInv, NEW g \in Goroutines, SendBatch(g)
    PROVE  TypeInv'
<1>1. HubOK' /\ EventsOK' /\ WorkOK'
  BY HubStays DEF SendBatch
<1>2. Parts(reports[g]) /\ reports[g] # <<>>
  BY DEF TypeInv, AgentOK, SendBatch
<1>3. PICK bs : Parts(bs) /\ reports' = [reports EXCEPT ![g] = bs]
  <2>1. Parts(Tail(reports[g])) /\ Parts(<<>>)
    BY <1>2, TailParts, NoParts
  <2>2. reports \in [Goroutines -> Seq(Batch)]
    BY DEF TypeInv, AgentOK
  <2>3. CASE online
    BY <2>1, <2>2, <2>3 DEF SendBatch
  <2>4. CASE ~online
    BY <2>1, <2>2, <2>4 DEF SendBatch
  <2> QED
    BY <2>3, <2>4
<1>4. AgentOK'
  <2>1. /\ disk' \in Files /\ base' \in [Paths -> Entry] /\ ignored' \subseteq Paths /\ due' \in Ack
        /\ watching' \in [entries : [Paths -> Entry], skip : SUBSET Paths]
    BY DEF TypeInv, AgentOK, SendBatch
  <2> QED
    BY <1>3, <2>1, ReportsTyped DEF TypeInv
<1>5. NetOK'
  <2>1. Head(reports[g]) \in Batch \cup Ack
    BY <1>2, TailParts
  <2>2. up' \in Seq(Batch \cup Ack)
    BY <2>1, SentUp DEF TypeInv, SendBatch
  <2> QED
    BY <2>2 DEF TypeInv, NetOK, SendBatch
<1>6. HistoryOK'
  BY DEF TypeInv, HistoryOK, SendBatch, Mishaps
<1> QED
  BY <1>1, <1>4, <1>5, <1>6 DEF TypeInv

LEMMA SurveyTyped ==
    ASSUME TypeInv, Survey
    PROVE  TypeInv'
<1>1. HubOK' /\ EventsOK' /\ WorkOK'
  BY HubStays DEF Survey
<1>2. NetOK /\ Take("snapshot") /\ disk \in Files
  BY DEF TypeInv, Survey, AgentOK
<1>3. Head(down).files \in Files /\ Head(down).ignore \in SUBSET Paths
  BY <1>2, TookSnapshot
<1>4. base' \in [Paths -> Entry] /\ ignored' \subseteq Paths
  BY <1>3, NotedTyped DEF Survey
<1>5. PICK bs \in BatchesOf(disk, Drifted(disk, base', ignored'), TRUE) :
          reports' = [reports EXCEPT !["handler"] = bs]
  BY DEF Survey
<1>6. Parts(bs)
  BY <1>2, DriftsKnown, BatchesTyped
<1>7. AgentOK'
  <2>1. disk' \in Files /\ due' \in Ack /\ "handler" \in Goroutines /\ AgentOK
    BY DEF TypeInv, AgentOK, Survey, Goroutines
  <2>2. watching' \in [entries : [Paths -> Entry], skip : SUBSET Paths]
    BY <1>4 DEF Survey
  <2> QED
    BY <1>4, <1>5, <1>6, <2>1, <2>2, ReportsTyped
<1>8. NetOK'
  BY <1>2, TookDown DEF NetOK, Survey
<1>9. HistoryOK'
  BY DEF TypeInv, HistoryOK, Survey, history
<1> QED
  BY <1>1, <1>7, <1>8, <1>9 DEF TypeInv

LEMMA ShownTyped ==
    ASSUME NEW files \in Files, NEW P \in SUBSET Paths
    PROVE  Shown(files, P) \subseteq Paths \X Contents
BY DEF Shown, Files

LEMMA OverTyped ==
    ASSUME NEW now \in Files, NEW s, s.files \in Files, NEW P
    PROVE  Over(now, s, P) \in Files
BY DEF Over, Files

LEMMA EntriesTyped ==
    ASSUME base \in [Paths -> Entry], NEW s, s.files \in Files, NEW P
    PROVE  Entries(s, P) \in [Paths -> Entry]
<1>1. \A p \in Paths : [blob |-> s.files[p], written |-> s.files[p] # None] \in Entry
  BY DEF Files, Entry
<1> QED
  BY <1>1 DEF Entries

LEMMA ApplyTyped ==
    ASSUME TypeInv, Apply
    PROVE  TypeInv'
<1>1. HubOK' /\ EventsOK' /\ WorkOK'
  BY HubStays DEF Apply
<1> DEFINE s == Head(down)
<1>2. NetOK /\ Take("snapshot") /\ disk \in Files /\ base \in [Paths -> Entry] /\ AgentOK
  BY DEF TypeInv, Apply, AgentOK
<1>3. s.files \in Files /\ s.ignore \in SUBSET Paths
  BY <1>2, TookSnapshot
<1>4. Writes(s) \in SUBSET Paths /\ Wanted(s) \in SUBSET Paths /\ Deletes(s) \in SUBSET Paths
  BY DEF Writes, Wanted, Deletes
<1>5. /\ disk' = Over(disk, s, Writes(s)) /\ base' = Entries(s, Writes(s)) /\ ignored' = s.ignore
      /\ due' = [kind |-> "ack", ok |-> TRUE, restore |-> FALSE,
                 done |-> Wanted(s) \cup Deletes(s), over |-> Writes(s) \ Creates(s)]
      /\ lost' = lost \cup Shown(disk, {p \in Writes(s) : disk[p] # s.files[p]})
      /\ mishaps' \subseteq mishaps \cup {"created", "raced"}
      /\ reports' = reports
  BY DEF Apply
<1> HIDE DEF s
<1>6. AgentOK'
  <2>1. disk' \in Files
    BY <1>2, <1>3, <1>5, OverTyped
  <2>2. base' \in [Paths -> Entry]
    BY <1>2, <1>3, <1>5, EntriesTyped
  <2>3. due' \in Ack
    BY <1>4, <1>5 DEF Ack
  <2>4. watching' \in [entries : [Paths -> Entry], skip : SUBSET Paths]
    BY <1>2 DEF AgentOK, Apply
  <2> QED
    BY <1>2, <1>3, <1>5, <2>1, <2>2, <2>3, <2>4 DEF AgentOK
<1>7. NetOK'
  BY <1>2, TookDown DEF NetOK, Apply
<1>8. HistoryOK'
  <2>1. {p \in Writes(s) : disk[p] # s.files[p]} \in SUBSET Paths
    BY <1>4
  <2>2. lost' \subseteq Paths \X Contents
    BY <1>2, <1>5, <2>1, ShownTyped DEF TypeInv, HistoryOK
  <2>3. unseen' = unseen
    BY DEF Apply
  <2> QED
    BY <1>5, <2>2, <2>3 DEF TypeInv, HistoryOK, Mishaps
<1> QED
  BY <1>1, <1>6, <1>7, <1>8 DEF TypeInv

LEMMA ApplyFailsTyped ==
    ASSUME TypeInv, NEW D \in SUBSET Paths, ApplyFails(D)
    PROVE  TypeInv'
<1>1. HubOK' /\ EventsOK' /\ WorkOK'
  BY HubStays DEF ApplyFails
<1>2. NetOK /\ Take("snapshot") /\ base \in [Paths -> Entry] /\ AgentOK
  BY DEF TypeInv, ApplyFails, AgentOK
<1>3. Head(down).files \in Files
  BY <1>2, TookSnapshot
<1>4. AgentOK'
  <2>1. base' \in [Paths -> Entry]
    BY <1>2, <1>3, EntriesTyped DEF ApplyFails
  <2>2. due' \in Ack
    BY DEF ApplyFails, NoAck, Ack
  <2> QED
    BY <1>2, <2>1, <2>2 DEF AgentOK, ApplyFails
<1>5. NetOK'
  BY <1>2, TookDown DEF NetOK, ApplyFails
<1>6. HistoryOK'
  BY DEF TypeInv, HistoryOK, ApplyFails
<1> QED
  BY <1>1, <1>4, <1>5, <1>6 DEF TypeInv

LEMMA RestoreFilesTyped ==
    ASSUME TypeInv, NEW ok \in BOOLEAN, RestoreFiles(ok)
    PROVE  TypeInv'
<1>1. HubOK' /\ EventsOK' /\ WorkOK'
  BY HubStays DEF RestoreFiles
<1> DEFINE P == Head(down).paths
           old == [files |-> [p \in Paths |-> base[p].blob]]
           Q == {p \in P : disk[p] # base[p].blob}
<1>2. NetOK /\ Take("restore") /\ disk \in Files /\ base \in [Paths -> Entry] /\ AgentOK
  BY DEF TypeInv, RestoreFiles, AgentOK
<1>3. P \in SUBSET Paths
  BY <1>2, TookCommand
<1>4. old.files \in Files
  <2>1. \A p \in Paths : base[p].blob \in Contents \cup {None}
    BY <1>2 DEF Entry
  <2> QED
    BY <2>1 DEF Files
<1>5. /\ disk' = IF ok THEN Over(disk, old, P) ELSE disk
      /\ base' = Entries(old, P)
      /\ due' = [kind |-> "ack", ok |-> ok, restore |-> TRUE, done |-> P, over |-> P]
      /\ lost' = lost \cup (IF ok THEN Shown(disk, Q) ELSE {})
      /\ mishaps' \subseteq mishaps \cup {"raced"}
      /\ reports' = reports /\ ignored' = ignored /\ unseen' = unseen
  BY DEF RestoreFiles, Note
<1>6. Q \in SUBSET Paths
  BY <1>3
<1> HIDE DEF P, Q, old
<1>7. AgentOK'
  <2>1. disk' \in Files
    BY <1>2, <1>4, <1>5, OverTyped
  <2>2. base' \in [Paths -> Entry]
    BY <1>2, <1>4, <1>5, EntriesTyped
  <2>3. due' \in Ack
    BY <1>3, <1>5 DEF Ack
  <2>4. watching' \in [entries : [Paths -> Entry], skip : SUBSET Paths]
    BY <1>2 DEF AgentOK, RestoreFiles
  <2> QED
    BY <1>2, <1>5, <2>1, <2>2, <2>3, <2>4 DEF AgentOK
<1>8. NetOK'
  BY <1>2, TookDown DEF NetOK, RestoreFiles
<1>9. HistoryOK'
  <2>1. lost' \subseteq Paths \X Contents
    BY <1>2, <1>5, <1>6, ShownTyped DEF TypeInv, HistoryOK
  <2> QED
    BY <1>5, <2>1 DEF TypeInv, HistoryOK, Mishaps
<1> QED
  BY <1>1, <1>7, <1>8, <1>9 DEF TypeInv

LEMMA IgnoreFilesTyped ==
    ASSUME TypeInv, IgnoreFiles
    PROVE  TypeInv'
<1>1. HubOK' /\ EventsOK' /\ WorkOK'
  BY HubStays DEF IgnoreFiles
<1>2. NetOK /\ Take("ignore") /\ AgentOK
  BY DEF TypeInv, IgnoreFiles
<1>3. Head(down).paths \in SUBSET Paths
  BY <1>2, TookCommand
<1>4. AgentOK'
  BY <1>2, <1>3 DEF AgentOK, IgnoreFiles
<1>5. NetOK'
  BY <1>2, TookDown DEF NetOK, IgnoreFiles
<1>6. HistoryOK'
  BY DEF TypeInv, HistoryOK, IgnoreFiles, history
<1> QED
  BY <1>1, <1>4, <1>5, <1>6 DEF TypeInv

LEMMA ReloadWatcherTyped ==
    ASSUME TypeInv, ReloadWatcher
    PROVE  TypeInv'
<1>1. HubOK' /\ EventsOK' /\ WorkOK'
  BY HubStays DEF ReloadWatcher
<1>2. AgentOK'
  BY DEF TypeInv, AgentOK, ReloadWatcher, Current
<1>3. NetOK' /\ HistoryOK'
  BY DEF TypeInv, NetOK, HistoryOK, ReloadWatcher, net, history
<1> QED
  BY <1>1, <1>2, <1>3 DEF TypeInv

LEMMA SendAckTyped ==
    ASSUME TypeInv, SendAck
    PROVE  TypeInv'
<1>1. HubOK' /\ EventsOK' /\ WorkOK'
  BY HubStays DEF SendAck
<1>2. AgentOK'
  BY NoAckTyped DEF TypeInv, AgentOK, SendAck
<1>3. NetOK'
  <2>1. due \in Batch \cup Ack
    BY DEF TypeInv, AgentOK
  <2>2. up' \in Seq(Batch \cup Ack)
    BY <2>1, SentUp DEF TypeInv, SendAck
  <2> QED
    BY <2>2 DEF TypeInv, NetOK, SendAck
<1>4. HistoryOK'
  BY DEF TypeInv, HistoryOK, SendAck, Note, Mishaps
<1> QED
  BY <1>1, <1>2, <1>3, <1>4 DEF TypeInv

\* The steps of the hub leave the agent alone.
LEMMA AgentStays ==
    ASSUME AgentOK, UNCHANGED agent
    PROVE  AgentOK'
BY DEF AgentOK, agent

LEMMA HeadOfUp ==
    ASSUME NetOK, up # <<>>
    PROVE  /\ Tail(up) \in Seq(Batch \cup Ack) /\ Head(up) = up[1] /\ Head(up) \in Batch \cup Ack
           /\ Head(up).kind = "report" => Head(up) \in Batch
           /\ Head(up).kind = "ack" => Head(up) \in Ack
<1>1. Tail(up) \in Seq(Batch \cup Ack) /\ Head(up) = up[1] /\ Head(up) \in Batch \cup Ack
  BY HeadTailProperties DEF NetOK
<1> QED
  BY <1>1 DEF Batch, Ack

LEMMA TakeReportTyped ==
    ASSUME TypeInv, TakeReport
    PROVE  TypeInv'
<1>1. HubOK' /\ EventsOK'
  BY DEF TypeInv, HubOK, EventsOK, Single, TakeReport
<1>2. AgentOK'
  BY AgentStays DEF TypeInv, TakeReport
<1>3. Tail(up) \in Seq(Batch \cup Ack) /\ Head(up) \in Batch
  BY HeadOfUp DEF TypeInv, TakeReport
<1>4. NetOK'
  BY <1>3 DEF TypeInv, NetOK, TakeReport
<1>5. WorkOK'
  <2>1. DOMAIN Head(up).items \in SUBSET Paths
    BY <1>3, BatchIs, ItemsAre
  <2>2. work' = [batch |-> Head(up), todo |-> DOMAIN Head(up).items, path |-> None, event |-> 0, seen |-> {}]
    BY DEF TakeReport, NoWork
  <2>3. Len(events') \in Nat
    BY <1>1 DEF EventsOK
  <2> QED
    BY <1>3, <2>1, <2>2, <2>3 DEF WorkOK
<1>6. HistoryOK'
  BY DEF TypeInv, HistoryOK, TakeReport, history
<1> QED
  BY <1>1, <1>2, <1>4, <1>5, <1>6 DEF TypeInv

LEMMA FindEventTyped ==
    ASSUME TypeInv, NEW p \in Paths, FindEvent(p)
    PROVE  TypeInv'
<1>1. HubOK' /\ EventsOK'
  BY DEF TypeInv, HubOK, EventsOK, Single, FindEvent
<1>2. AgentOK' /\ NetOK' /\ HistoryOK'
  BY AgentStays DEF TypeInv, NetOK, HistoryOK, FindEvent, net, history
<1> DEFINE n == IF OpenAt(p) = {} THEN 0 ELSE CHOOSE e \in OpenAt(p) : TRUE
<1>3. /\ work.path = None /\ p \in work.todo /\ p # None
      /\ work' = [work EXCEPT !.path = p, !.todo = @ \ {p}, !.event = n]
      /\ UNCHANGED events
  BY DriftInboxAssumption DEF FindEvent
<1>4. /\ n = 0 => OpenAt(p) = {}
      /\ n # 0 => n \in 1 .. Len(events) /\ events[n].path = p
      /\ n \in 0 .. Len(events)
  <2>1. CASE OpenAt(p) = {}
    <3>1. Len(events) \in Nat
      BY DEF TypeInv, EventsOK
    <3> QED
      BY <2>1, <3>1
  <2>2. CASE OpenAt(p) # {}
    <3>1. n \in OpenAt(p)
      BY <2>2
    <3> HIDE DEF n
    <3>2. n \in 1 .. Len(events) /\ events[n].path = p
      BY <3>1 DEF OpenAt, Ids
    <3> QED
      BY <3>2
  <2> QED
    BY <2>1, <2>2
<1> HIDE DEF n
<1>5. WorkOK'
  <2>1. work \in [batch : Batch, todo : SUBSET Paths, path : Paths \cup {None}, event : Nat,
                  seen : SUBSET Paths]
        /\ work.todo \subseteq DOMAIN work.batch.items
    BY DEF TypeInv, WorkOK
  <2>2. /\ work'.batch = work.batch /\ work'.todo = work.todo \ {p} /\ work'.path = p /\ work'.event = n
        /\ work'.seen = work.seen
        /\ work' \in [batch : Batch, todo : SUBSET Paths, path : Paths \cup {None}, event : Nat,
                      seen : SUBSET Paths]
    <3>1. n \in Nat
      BY <1>4 DEF TypeInv, EventsOK
    <3> QED
      BY <1>3, <2>1, <3>1
  <2>4. n <= Len(events)
    BY <1>4 DEF TypeInv, EventsOK
  <2>3. n = 0 => OpenAt(work.path)' = {}
    BY <1>3, <1>4, <2>2 DEF OpenAt, Ids
  <2> QED
    BY <1>3, <1>4, <2>1, <2>2, <2>3, <2>4 DEF WorkOK
<1> QED
  BY <1>1, <1>2, <1>5 DEF TypeInv

LEMMA NoWorkTyped ==
    ASSUME work' = NoWork, Len(events') \in Nat
    PROVE  WorkOK'
<1>1. /\ work'.batch = NoBatch /\ work'.todo = {} /\ work'.path = None /\ work'.event = 0 /\ work'.seen = {}
      /\ work' = [batch |-> NoBatch, todo |-> {}, path |-> None, event |-> 0, seen |-> {}]
  BY DEF NoWork
<1> QED
  BY <1>1, NoBatchTyped DEF WorkOK

\* Continue, whatever was saved before.
LEMMA ContinueTyped ==
    ASSUME TypeInv, NEW es \in Seq(Event), Single(es), Len(events) <= Len(es),
           NEW seen \in SUBSET Paths, Continue(es, seen), UNCHANGED adopting
    PROVE  EventsOK' /\ WorkOK' /\ fullSeen' \subseteq Paths
<1>1. /\ Closes(es, Closed(es, Vanished(es, seen), "superseded"))
      /\ Closes(es, es)
  BY CloseKeeps, CloseNone DEF States
<1>2. PICK es2 : Closes(es, es2) /\ events' = es2
  BY <1>1 DEF Continue
<1>3. Single(es2) /\ es2 \in Seq(Event) /\ Len(es2) = Len(es)
  BY <1>2, ClosesSingle DEF Closes
<1>4. Len(es) \in Nat /\ Len(events) \in Nat
  BY DEF TypeInv, EventsOK
<1>5. EventsOK'
  BY <1>2, <1>3, <1>4 DEF EventsOK, TypeInv
<1>6. WorkOK'
  <2>1. CASE work.todo # {}
    <3>1. work' = [work EXCEPT !.seen = seen, !.path = None, !.event = 0]
      BY <2>1 DEF Continue
    <3>2. /\ work'.batch = work.batch /\ work'.todo = work.todo /\ work'.path = None /\ work'.event = 0
          /\ work'.seen = seen
          /\ work' \in [batch : Batch, todo : SUBSET Paths, path : Paths \cup {None}, event : Nat,
                        seen : SUBSET Paths]
      BY <3>1 DEF TypeInv, WorkOK
    <3>3. 0 <= Len(events')
      BY <1>2, <1>3, <1>4
    <3> QED
      BY <3>2, <3>3 DEF WorkOK, TypeInv
  <2>2. CASE work.todo = {}
    <3>1. work' = NoWork
      BY <2>2 DEF Continue
    <3> QED
      BY <1>2, <1>3, <1>4, <3>1, NoWorkTyped
  <2> QED
    BY <2>1, <2>2
<1>7. fullSeen' \subseteq Paths
  BY DEF Continue, TypeInv, HubOK, AllSeen
<1> QED
  BY <1>5, <1>6, <1>7

\* What SaveEvent makes of the events, before anything is closed.
Saved(p, c) == IF work.event # 0 THEN [events EXCEPT ![work.event].content = c]
               ELSE Append(events, [path |-> p, content |-> c, state |-> "open"])

LEMMA SavedTyped ==
    ASSUME TypeInv, work.path # None
    PROVE  /\ Saved(work.path, work.batch.items[work.path]) \in Seq(Event)
           /\ Single(Saved(work.path, work.batch.items[work.path]))
           /\ Len(events) <= Len(Saved(work.path, work.batch.items[work.path]))
<1> DEFINE p == work.path
           c == work.batch.items[work.path]
<1>1. p \in Paths /\ c \in Contents \cup {None} /\ events \in Seq(Event) /\ Single(events)
      /\ Len(events) \in Nat /\ work.event \in 0 .. Len(events)
  <2>1. p \in Paths /\ work.batch \in Batch /\ p \in DOMAIN work.batch.items /\ work.event \in Nat
        /\ work.event <= Len(events)
    BY DEF TypeInv, WorkOK
  <2>2. c \in Contents \cup {None}
    BY <2>1, BatchIs, ItemsAre DEF Found
  <2> QED
    BY <2>1, <2>2 DEF TypeInv, EventsOK
<1>2. CASE work.event # 0
  <2> DEFINE n == work.event
             es == Rewritten(events, n, c)
  <2>1. n \in 1 .. Len(events)
    BY <1>1, <1>2
  <2>2. Saved(p, c) = es
    BY <1>2 DEF Saved, Rewritten
  <2> HIDE DEF c, n
  <2>3. es \in Seq(Event) /\ Single(es) /\ Len(es) = Len(events)
    BY <1>1, <2>1, RewrittenKeeps
  <2> HIDE DEF es
  <2> QED
    BY <1>1, <2>2, <2>3 DEF c
<1>3. CASE work.event = 0
  <2> DEFINE v == [path |-> p, content |-> c, state |-> "open"]
  <2>1. v \in Event /\ v.path = p
    BY <1>1 DEF Event
  <2>2. OpenAt(p) = {}
    BY <1>3 DEF TypeInv, WorkOK
  <2>3. DOMAIN events = 1 .. Len(events)
    BY <1>1
  <2>4. \A e \in DOMAIN events : ~(events[e].path = v.path /\ events[e].state = "open")
    BY <2>1, <2>2, <2>3 DEF OpenAt, Ids
  <2> HIDE DEF v
  <2>5. Append(events, v) \in Seq(Event) /\ Single(Append(events, v))
    BY <1>1, <2>1, <2>4, AppendSingle
  <2>6. Len(events) <= Len(Append(events, v))
    BY <1>1, <2>1
  <2>7. Saved(p, c) = Append(events, v)
    BY <1>3 DEF Saved, v
  <2> QED
    BY <2>5, <2>6, <2>7
<1> QED
  BY <1>2, <1>3

LEMMA SaveEventTyped ==
    ASSUME TypeInv, SaveEvent
    PROVE  TypeInv'
<1> DEFINE es == Saved(work.path, work.batch.items[work.path])
<1>1. work.path # None /\ Continue(es, work.seen \cup {work.path}) /\ UNCHANGED adopting
  BY DEF SaveEvent, Saved
<1>2. es \in Seq(Event) /\ Single(es) /\ Len(events) <= Len(es)
  BY <1>1, SavedTyped
<1>3. work.seen \cup {work.path} \in SUBSET Paths
  BY <1>1 DEF TypeInv, WorkOK
<1> HIDE DEF es
<1>4. EventsOK' /\ WorkOK' /\ fullSeen' \subseteq Paths
  BY <1>1, <1>2, <1>3, ContinueTyped
<1>5. HubOK'
  BY <1>4 DEF TypeInv, HubOK, SaveEvent
<1>6. AgentOK' /\ NetOK' /\ HistoryOK'
  BY AgentStays DEF TypeInv, NetOK, HistoryOK, SaveEvent, net, history
<1> QED
  BY <1>4, <1>5, <1>6 DEF TypeInv

LEMMA PassOverTyped ==
    ASSUME TypeInv, PassOver
    PROVE  TypeInv'
<1>1. Continue(events, work.seen) /\ UNCHANGED adopting
  BY DEF PassOver
<1>2. events \in Seq(Event) /\ Single(events) /\ Len(events) \in Nat /\ work.seen \in SUBSET Paths
  BY DEF TypeInv, EventsOK, WorkOK
<1>3. Len(events) <= Len(events)
  BY <1>2
<1>4. EventsOK' /\ WorkOK' /\ fullSeen' \subseteq Paths
  BY <1>1, <1>2, <1>3, ContinueTyped
<1>5. HubOK'
  BY <1>4 DEF TypeInv, HubOK, PassOver
<1>6. AgentOK' /\ NetOK'
  BY AgentStays DEF TypeInv, NetOK, PassOver, net
<1>7. HistoryOK'
  BY DEF TypeInv, HistoryOK, PassOver, Mishaps
<1> QED
  BY <1>4, <1>5, <1>6, <1>7 DEF TypeInv

\* Events are closed while a report is being saved.
LEMMA ClosingTyped ==
    ASSUME TypeInv, Closes(events, events'), UNCHANGED work, adopting' \subseteq adopting
    PROVE  EventsOK' /\ WorkOK'
<1>1. events \in Seq(Event) /\ Single(events) /\ Len(events) \in Nat
  BY DEF TypeInv, EventsOK
<1>2. events' \in Seq(Event) /\ Len(events') = Len(events) /\ Single(events')
  BY <1>1, ClosesSingle DEF Closes
<1>3. EventsOK'
  BY <1>2 DEF TypeInv, EventsOK
<1>4. WorkOK'
  <2>1. work.event \in 0 .. Len(events)
    BY <1>1 DEF TypeInv, WorkOK
  <2>2. work.event # 0 => events'[work.event].path = events[work.event].path
    BY <1>1, <2>1 DEF Closes
  <2>3. OpenAt(work.path)' \subseteq OpenAt(work.path)
    BY <1>2 DEF OpenAt, Ids, Closes
  <2> QED
    BY <1>2, <2>2, <2>3 DEF TypeInv, WorkOK
<1> QED
  BY <1>3, <1>4

LEMMA TakeAckCloses ==
    ASSUME events \in Seq(Event), TakeAck
    PROVE  Closes(events, events')
<1> DEFINE a == Head(up)
<1>1. CASE a.ok
  <2>1. events' = [e \in 1 .. Len(events) |->
                   IF e \in Restored(a) THEN InState(events[e], "restored")
                   ELSE IF e \in Superseded(a) THEN InState(events[e], "superseded")
                   ELSE events[e]]
    BY <1>1 DEF TakeAck, InState, Ids
  <2>2. events' = [e \in 1 .. Len(events) |-> events'[e]]
    BY <2>1
  <2>3. ASSUME NEW e \in 1 .. Len(events)
        PROVE  \/ events'[e] = events[e]
               \/ \E s \in States \ {"open"} : events'[e] = InState(events[e], s)
    BY <2>1 DEF States
  <2> QED
    BY <2>2, <2>3, MapTyped
<1>2. CASE ~a.ok
  BY <1>2, CloseNone DEF TakeAck
<1> QED
  BY <1>1, <1>2

LEMMA TakeAckTyped ==
    ASSUME TypeInv, TakeAck
    PROVE  TypeInv'
<1>1. EventsOK' /\ WorkOK'
  BY TakeAckCloses, ClosingTyped DEF TypeInv, EventsOK, TakeAck
<1>2. HubOK'
  BY DEF TypeInv, HubOK, TakeAck
<1>3. AgentOK' /\ HistoryOK'
  BY AgentStays DEF TypeInv, HistoryOK, TakeAck, history
<1>4. NetOK'
  BY HeadOfUp DEF TypeInv, NetOK, TakeAck
<1> QED
  BY <1>1, <1>2, <1>3, <1>4 DEF TypeInv

LEMMA PublishTyped ==
    ASSUME TypeInv, NEW p \in Paths, NEW c \in Contents \cup {None}, Publish(p, c)
    PROVE  TypeInv'
<1>1. HubOK'
  BY DEF TypeInv, HubOK, NetOK, Publish, Notify, Files
<1>2. EventsOK' /\ WorkOK'
  BY DEF TypeInv, EventsOK, WorkOK, OpenAt, Ids, Publish
<1>3. AgentOK' /\ NetOK' /\ HistoryOK'
  BY AgentStays DEF TypeInv, NetOK, HistoryOK, Publish, net, history
<1> QED
  BY <1>1, <1>2, <1>3 DEF TypeInv

LEMMA AssignTyped ==
    ASSUME TypeInv, NEW m \in Modes, Assign(m)
    PROVE  TypeInv'
<1>1. HubOK'
  BY DEF TypeInv, HubOK, NetOK, Assign, Notify
<1>2. EventsOK' /\ WorkOK'
  BY DEF TypeInv, EventsOK, WorkOK, OpenAt, Ids, Assign
<1>3. AgentOK' /\ NetOK'
  BY AgentStays DEF TypeInv, NetOK, Assign, net
<1>4. HistoryOK'
  BY DEF TypeInv, HistoryOK, Assign
<1> QED
  BY <1>1, <1>2, <1>3, <1>4 DEF TypeInv

LEMMA StartAdoptTyped ==
    ASSUME TypeInv, NEW E \in SUBSET Ids, StartAdopt(E)
    PROVE  TypeInv'
<1>1. head' \in Files
  <2>1. ASSUME NEW p \in Paths, OpenAt(p) \cap E # {}
        PROVE  events[CHOOSE e \in OpenAt(p) : TRUE].content \in Contents \cup {None}
    <3> DEFINE e == CHOOSE e \in OpenAt(p) : TRUE
    <3>1. e \in OpenAt(p)
      BY <2>1
    <3> HIDE DEF e
    <3>2. e \in 1 .. Len(events)
      BY <3>1 DEF OpenAt, Ids
    <3>3. events[e] \in Event
      BY <3>2 DEF TypeInv, EventsOK
    <3> QED
      BY <3>3 DEF Event, e
  <2>2. head \in Files
    BY DEF TypeInv, HubOK
  <2>3. head' = [p \in Paths |-> IF OpenAt(p) \cap E = {} THEN head[p]
                                 ELSE events[CHOOSE e \in OpenAt(p) : TRUE].content]
    BY DEF StartAdopt
  <2> QED
    BY <2>1, <2>2, <2>3 DEF Files
<1>2. HubOK'
  BY <1>1 DEF TypeInv, HubOK, StartAdopt
<1>3. EventsOK' /\ WorkOK'
  BY DEF TypeInv, EventsOK, WorkOK, OpenAt, Ids, StartAdopt
<1>4. AgentOK' /\ NetOK' /\ HistoryOK'
  BY AgentStays DEF TypeInv, NetOK, HistoryOK, StartAdopt, net, history
<1> QED
  BY <1>2, <1>3, <1>4 DEF TypeInv

LEMMA MarkAdoptedTyped ==
    ASSUME TypeInv, MarkAdopted
    PROVE  TypeInv'
<1>1. Closes(events, events')
  BY CloseKeeps DEF TypeInv, EventsOK, MarkAdopted, States
<1>2. EventsOK' /\ WorkOK'
  BY <1>1, ClosingTyped DEF MarkAdopted
<1>3. HubOK'
  BY DEF TypeInv, HubOK, NetOK, MarkAdopted, Notify
<1>4. AgentOK' /\ NetOK' /\ HistoryOK'
  BY AgentStays DEF TypeInv, NetOK, HistoryOK, MarkAdopted, net, history
<1> QED
  BY <1>2, <1>3, <1>4 DEF TypeInv

LEMMA EventPath ==
    ASSUME TypeInv, NEW e \in Ids
    PROVE  events[e].path \in Paths
<1>1. events[e] \in Event
  BY DEF TypeInv, EventsOK, Ids
<1> QED
  BY <1>1 DEF Event

LEMMA RestoreTyped ==
    ASSUME TypeInv, NEW E \in SUBSET Ids, Restore(E)
    PROVE  TypeInv'
<1> DEFINE P == {events[e].path : e \in E}
<1>1. P \in SUBSET Paths
  BY EventPath
<1>2. HubOK'
  BY <1>1 DEF TypeInv, HubOK, Restore
<1>3. EventsOK' /\ WorkOK'
  BY DEF TypeInv, EventsOK, WorkOK, OpenAt, Ids, Restore
<1>4. AgentOK' /\ HistoryOK'
  BY AgentStays DEF TypeInv, HistoryOK, Restore, history
<1>5. NetOK'
  <2>1. [kind |-> "restore", paths |-> P] \in Snapshot \cup Command
    BY <1>1 DEF Command
  <2>2. down' \in Seq(Snapshot \cup Command)
    BY <2>1, SentDown DEF TypeInv, Restore
  <2> QED
    BY <2>2 DEF TypeInv, NetOK, Restore
<1> QED
  BY <1>2, <1>3, <1>4, <1>5 DEF TypeInv

LEMMA IgnoreTyped ==
    ASSUME TypeInv, NEW e \in Ids, NEW scope \in {"own", "global"}, Ignore(e, scope)
    PROVE  TypeInv'
<1>1. events[e].path \in Paths
  BY EventPath
<1>2. Closes(events, events')
  BY CloseKeeps DEF TypeInv, EventsOK, Ignore, States
<1>3. EventsOK' /\ WorkOK'
  BY <1>2, ClosingTyped DEF Ignore
<1>4. HubOK'
  BY <1>1 DEF TypeInv, HubOK, Ignore
<1>5. AgentOK' /\ HistoryOK'
  BY AgentStays DEF TypeInv, HistoryOK, Ignore, history
<1>6. NetOK'
  <2>1. [kind |-> "ignore", paths |-> {events[e].path}] \in Snapshot \cup Command
    BY <1>1 DEF Command
  <2>2. down' \in Seq(Snapshot \cup Command)
    BY <2>1, SentDown DEF TypeInv, Ignore
  <2> QED
    BY <2>2 DEF TypeInv, NetOK, Ignore
<1> QED
  BY <1>3, <1>4, <1>5, <1>6 DEF TypeInv

LEMMA RemanageTyped ==
    ASSUME TypeInv, NEW p \in Paths, Remanage(p)
    PROVE  TypeInv'
<1>1. HubOK'
  BY DEF TypeInv, HubOK, NetOK, Remanage, Notify, Modes
<1>2. EventsOK' /\ WorkOK'
  BY DEF TypeInv, EventsOK, WorkOK, OpenAt, Ids, Remanage
<1>3. AgentOK' /\ NetOK'
  BY AgentStays DEF TypeInv, NetOK, Remanage, net
<1>4. HistoryOK'
  BY DEF TypeInv, HistoryOK, Remanage, Note, Mishaps
<1> QED
  BY <1>1, <1>2, <1>3, <1>4 DEF TypeInv

LEMMA ReadModeTyped ==
    ASSUME TypeInv, ReadMode
    PROVE  TypeInv'
<1>1. HubOK'
  BY DEF TypeInv, HubOK, ReadMode
<1>2. EventsOK' /\ WorkOK'
  BY DEF TypeInv, EventsOK, WorkOK, OpenAt, Ids, ReadMode
<1>3. AgentOK' /\ NetOK' /\ HistoryOK'
  BY AgentStays DEF TypeInv, NetOK, HistoryOK, ReadMode, net, history
<1> QED
  BY <1>1, <1>2, <1>3 DEF TypeInv

LEMMA ReadHeadTyped ==
    ASSUME TypeInv, ReadHead
    PROVE  TypeInv'
<1>1. HubOK'
  BY DEF TypeInv, HubOK, ReadHead
<1>2. EventsOK' /\ WorkOK'
  BY DEF TypeInv, EventsOK, WorkOK, OpenAt, Ids, ReadHead
<1>3. AgentOK' /\ NetOK' /\ HistoryOK'
  BY AgentStays DEF TypeInv, NetOK, HistoryOK, ReadHead, net, history
<1> QED
  BY <1>1, <1>2, <1>3 DEF TypeInv

\* What is sent is a snapshot in the mode as it was read.
LEMMA Sends ==
    ASSUME TypeInv, SendSnapshot
    PROVE  \E m \in Snapshot \cup Command : ToAgent(m) /\ m.mode = snapping
<1>1. PICK files \in taken :
          ToAgent([kind |-> "snapshot", files |-> files, mode |-> snapping,
                   ignore |-> rules["own"] \cup rules["global"]])
  BY DEF SendSnapshot
<1> DEFINE m == [kind |-> "snapshot", files |-> files, mode |-> snapping,
                 ignore |-> rules["own"] \cup rules["global"]]
<1>2. files \in Files /\ snapping \in Modes /\ rules["own"] \cup rules["global"] \in SUBSET Paths
  BY DEF TypeInv, HubOK
<1>3. m \in Snapshot \cup Command /\ m.mode = snapping
  BY <1>2 DEF Snapshot
<1>4. ToAgent(m)
  BY <1>1
<1> HIDE DEF m
<1> QED
  BY <1>3, <1>4

LEMMA SendSnapshotTyped ==
    ASSUME TypeInv, SendSnapshot
    PROVE  TypeInv'
<1>1. HubOK'
  BY DEF TypeInv, HubOK, SendSnapshot
<1>2. EventsOK' /\ WorkOK'
  BY DEF TypeInv, EventsOK, WorkOK, OpenAt, Ids, SendSnapshot
<1>3. AgentOK' /\ HistoryOK'
  BY AgentStays DEF TypeInv, HistoryOK, SendSnapshot, history
<1>4. NetOK'
  <2>1. PICK m \in Snapshot \cup Command : ToAgent(m)
    BY Sends
  <2>2. down' \in Seq(Snapshot \cup Command)
    BY <2>1, SentDown DEF TypeInv
  <2> QED
    BY <2>2 DEF TypeInv, NetOK, SendSnapshot
<1> QED
  BY <1>1, <1>2, <1>3, <1>4 DEF TypeInv

LEMMA FaultsTyped ==
    ASSUME TypeInv, Disconnect \/ Reconnect \/ Restart
    PROVE  TypeInv'
<1>1. HubOK'
  BY DEF TypeInv, HubOK, Disconnect, Reconnect, Restart
<1>2. EventsOK'
  BY DEF TypeInv, EventsOK, Disconnect, Reconnect, Restart
<1>3. WorkOK'
  <2>1. CASE Disconnect \/ Reconnect
    BY <2>1 DEF TypeInv, WorkOK, OpenAt, Ids, Disconnect, Reconnect
  <2>2. CASE Restart
    <3>1. work' = NoWork /\ Len(events') \in Nat
      BY <2>2, <1>2 DEF Restart, EventsOK
    <3> QED
      BY <3>1, NoWorkTyped
  <2> QED
    BY <2>1, <2>2
<1>4. AgentOK'
  BY AgentStays DEF TypeInv, Disconnect, Reconnect, Restart
<1>5. NetOK'
  <2>1. CASE Disconnect \/ Restart
    <3>1. up' = <<>> /\ down' = <<>> /\ online' \in BOOLEAN
      BY <2>1 DEF Disconnect, Restart
    <3> QED
      BY <3>1, EmptySeq DEF NetOK
  <2>2. CASE Reconnect
    BY <2>2 DEF TypeInv, NetOK, Reconnect
  <2> QED
    BY <2>1, <2>2
<1>6. HistoryOK'
  BY DEF TypeInv, HistoryOK, Disconnect, Reconnect, Restart, Mishaps, history
<1> QED
  BY <1>1, <1>2, <1>3, <1>4, <1>5, <1>6 DEF TypeInv

LEMMA NextTyped == TypeInv /\ [Next]_vars => TypeInv'
<1> SUFFICES ASSUME TypeInv, [Next]_vars PROVE TypeInv'
  OBVIOUS
<1>1. CASE User
  <2>1. CASE \E p \in Paths : \/ Remanage(p)
                              \/ \E c \in Contents \cup {None} : Edit(p, c) \/ Publish(p, c)
    BY <2>1, RemanageTyped, EditTyped, PublishTyped
  <2>2. CASE \E E \in SUBSET Ids : StartAdopt(E) \/ Restore(E)
    BY <2>2, StartAdoptTyped, RestoreTyped
  <2>3. CASE \E e \in Ids, scope \in {"own", "global"} : Ignore(e, scope)
    BY <2>3, IgnoreTyped
  <2>4. CASE \E m \in Modes : Assign(m)
    BY <2>4, AssignTyped
  <2> QED
    BY <1>1, <2>1, <2>2, <2>3, <2>4 DEF User
<1>2. CASE Agent
  <2>1. CASE \/ \E T \in SUBSET Paths : Scan(FALSE, T)
             \/ Scan(TRUE, {})
    BY <2>1, ScanTyped
  <2>2. CASE \E g \in Goroutines : SendBatch(g)
    BY <2>2, SendBatchTyped
  <2>3. CASE \E D \in SUBSET Paths : ApplyFails(D)
    BY <2>3, ApplyFailsTyped
  <2>4. CASE \E ok \in BOOLEAN : RestoreFiles(ok)
    BY <2>4, RestoreFilesTyped
  <2>5. CASE Survey \/ Apply \/ IgnoreFiles \/ ReloadWatcher \/ SendAck
    BY <2>5, SurveyTyped, ApplyTyped, IgnoreFilesTyped, ReloadWatcherTyped, SendAckTyped
  <2> QED
    BY <1>2, <2>1, <2>2, <2>3, <2>4, <2>5 DEF Agent
<1>3. CASE Hub
  <2>1. CASE TakeReport \/ SaveEvent \/ PassOver \/ TakeAck \/ MarkAdopted
    BY <2>1, TakeReportTyped, SaveEventTyped, PassOverTyped, TakeAckTyped, MarkAdoptedTyped
  <2>2. CASE ReadMode \/ ReadHead \/ SendSnapshot \/ \E p \in Paths : FindEvent(p)
    BY <2>2, ReadModeTyped, ReadHeadTyped, SendSnapshotTyped, FindEventTyped
  <2> QED
    BY <1>3, <2>1, <2>2 DEF Hub
<1>4. CASE Disconnect \/ Reconnect \/ Restart
  BY <1>4, FaultsTyped
<1>5. CASE UNCHANGED vars
  <2>1. HubOK' /\ EventsOK' /\ WorkOK'
    BY <1>5, HubStays DEF vars
  <2> QED
    BY <1>5, <2>1, AgentStays DEF vars, net, history, TypeInv, NetOK, HistoryOK
<1> QED
  BY <1>1, <1>2, <1>3, <1>4, <1>5 DEF Next

LEMMA TypesStay == Spec => []TypeInv
<1> QED
  BY InitTyped, NextTyped, PTL DEF Spec

\* Whatever the hub, the agent and the user do, every message, record and file has its shape, and
\* at most one event is open per path although looking for it and saving it are two steps
\* (drift/service.go, upsert).
THEOREM TypeCorrect == Spec => []TypeOK
BY TypesStay, TypesAll, PTL

-----------------------------------------------------------------------------
(* Managed again.                                                          *)

\* Until the user chooses "apply" after managing a path again, the mode is "survey", and no
\* snapshot to be applied is on its way that does not leave the path out.
UnseenInv ==
    unseen # {} => /\ mode = "survey"
                   /\ Without({"overtaken"}) => \A p \in unseen : ~Overtaken(p)

LEMMA OvertakenAs ==
    ASSUME UnseenInv, UNCHANGED <<mode, unseen, snapping>>, mishaps \subseteq mishaps',
           \A p \in unseen : Overtaken(p)' => Overtaken(p)
    PROVE  UnseenInv'
BY DEF UnseenInv, Without

LEMMA UnseenStays ==
    ASSUME UnseenInv, UNCHANGED <<mode, unseen, snapping, down>>, mishaps \subseteq mishaps'
    PROVE  UnseenInv'
<1>1. \A p \in unseen : Overtaken(p)' => Overtaken(p)
  BY DEF Overtaken
<1> QED
  BY <1>1, OvertakenAs

\* What is taken from a queue was the first of it.
LEMMA TailOf ==
    ASSUME NEW S, NEW q \in Seq(S), q # <<>>
    PROVE  /\ Tail(q) \in Seq(S) /\ Len(q) \in Nat \ {0} /\ Len(Tail(q)) = Len(q) - 1
           /\ Head(q) = q[1] /\ 1 \in 1 .. Len(q)
           /\ \A i \in 1 .. Len(Tail(q)) : i + 1 \in 1 .. Len(q) /\ Tail(q)[i] = q[i + 1]
BY HeadTailProperties, EmptySeq

LEMMA UnseenTaken ==
    ASSUME TypeInv, UnseenInv, NEW kind, Take(kind), UNCHANGED <<mode, unseen, snapping>>,
           mishaps \subseteq mishaps'
    PROVE  UnseenInv'
<1>1. down \in Seq(Snapshot \cup Command) /\ down # <<>> /\ down' = Tail(down)
  BY DEF TypeInv, NetOK, Take
<1>2. \A i \in 1 .. Len(down') : i + 1 \in 1 .. Len(down) /\ down'[i] = down[i + 1]
  BY <1>1, TailOf
<1>3. \A p \in unseen : Overtaken(p)' => Overtaken(p)
  BY <1>2 DEF Overtaken
<1> QED
  BY <1>3, OvertakenAs

LEMMA AppendAt ==
    ASSUME NEW S, NEW q \in Seq(S), NEW m \in S
    PROVE  /\ Append(q, m) \in Seq(S) /\ Len(q) \in Nat /\ Len(Append(q, m)) = Len(q) + 1
           /\ Append(q, m)[Len(q) + 1] = m /\ Len(q) + 1 \in 1 .. Len(Append(q, m))
           /\ \A i \in 1 .. Len(q) : i \in 1 .. Len(Append(q, m)) /\ Append(q, m)[i] = q[i]
           /\ \A i \in 1 .. Len(Append(q, m)) : i = Len(q) + 1 \/ i \in 1 .. Len(q)
OBVIOUS

LEMMA UnseenSent ==
    ASSUME TypeInv, UnseenInv, NEW m \in Snapshot \cup Command, ToAgent(m),
           m.kind = "snapshot" => m.mode # "apply",
           snapping' # "apply", UNCHANGED <<mode, unseen, mishaps>>
    PROVE  UnseenInv'
<1>1. down \in Seq(Snapshot \cup Command)
  BY DEF TypeInv, NetOK
<1>2. ASSUME NEW i \in 1 .. Len(down'), down'[i].kind = "snapshot", down'[i].mode = "apply"
      PROVE  i \in 1 .. Len(down) /\ down'[i] = down[i]
  BY <1>1, <1>2, AppendAt DEF ToAgent
<1>3. \A p \in unseen : Overtaken(p)' => Overtaken(p)
  BY <1>2 DEF Overtaken
<1> QED
  BY <1>3 DEF UnseenInv, Without

LEMMA InitUnseen == Init => UnseenInv
BY DEF Init, UnseenInv

LEMMA NextUnseen == TypeInv /\ UnseenInv /\ [Next]_vars => UnseenInv'
<1> SUFFICES ASSUME TypeInv, UnseenInv, [Next]_vars PROVE UnseenInv'
  OBVIOUS
<1>1. CASE User
  <2>1. ASSUME NEW p \in Paths, Remanage(p)
        PROVE  UnseenInv'
    <3>1. \A q \in Paths : Overtaken(q)' = Overtaken(q)
      BY <2>1 DEF Remanage, Overtaken, net
    <3>2. mode' = "survey" /\ unseen' = unseen \cup {p} /\ Note(Overtaken(p), "overtaken")
      BY <2>1 DEF Remanage
    <3> QED
      BY <3>1, <3>2 DEF UnseenInv, Without, Note, TypeInv, HistoryOK
  <2>2. CASE \E p \in Paths, c \in Contents \cup {None} : Edit(p, c) \/ Publish(p, c)
    BY <2>2, UnseenStays DEF Edit, Publish, hub, net, history
  <2>3. CASE \E E \in SUBSET Ids : StartAdopt(E)
    BY <2>3, UnseenStays DEF StartAdopt, net, history
  <2>4. ASSUME NEW E \in SUBSET Ids, Restore(E)
        PROVE  UnseenInv'
    <3> DEFINE m == [kind |-> "restore", paths |-> {events[e].path : e \in E}]
    <3>1. m \in Snapshot \cup Command /\ m.kind # "snapshot"
      BY EventPath DEF Command
    <3>2. CASE unseen # {} /\ Without({"overtaken"})
      <4>1. snapping' # "apply"
        BY <2>4, <3>2 DEF UnseenInv, Overtaken, Restore
      <4> QED
        BY <2>4, <3>1, <4>1, UnseenSent DEF Restore, history
    <3>3. CASE ~(unseen # {} /\ Without({"overtaken"}))
      BY <2>4, <3>3 DEF UnseenInv, Without, Restore, history
    <3> QED
      BY <3>2, <3>3
  <2>5. ASSUME NEW e \in Ids, NEW scope \in {"own", "global"}, Ignore(e, scope)
        PROVE  UnseenInv'
    <3> DEFINE m == [kind |-> "ignore", paths |-> {events[e].path}]
    <3>1. m \in Snapshot \cup Command /\ m.kind # "snapshot"
      BY EventPath DEF Command
    <3>2. CASE unseen # {} /\ Without({"overtaken"})
      <4>1. snapping' # "apply"
        BY <2>5, <3>2 DEF UnseenInv, Overtaken, Ignore
      <4> QED
        BY <2>5, <3>1, <4>1, UnseenSent DEF Ignore, history
    <3>3. CASE ~(unseen # {} /\ Without({"overtaken"}))
      BY <2>5, <3>3 DEF UnseenInv, Without, Ignore, history
    <3> QED
      BY <3>2, <3>3
  <2>6. ASSUME NEW m \in Modes, Assign(m)
        PROVE  UnseenInv'
    <3>1. \A q \in Paths : Overtaken(q)' = Overtaken(q)
      BY <2>6 DEF Assign, Overtaken, net
    <3>2. mode' = m /\ unseen' = (IF m = "apply" THEN {} ELSE unseen) /\ UNCHANGED mishaps
      BY <2>6 DEF Assign
    <3> QED
      BY <3>1, <3>2 DEF UnseenInv, Without, Modes, TypeInv, HistoryOK
  <2> QED
    BY <1>1, <2>1, <2>2, <2>3, <2>4, <2>5, <2>6 DEF User
<1>2. CASE Agent
  <2>1. CASE \/ \E T \in SUBSET Paths : Scan(FALSE, T)
             \/ Scan(TRUE, {}) \/ ReloadWatcher \/ SendAck
             \/ \E g \in Goroutines : SendBatch(g)
    <3>1. UNCHANGED <<mode, unseen, snapping, down>> /\ mishaps \subseteq mishaps'
      BY <2>1 DEF Scan, SendBatch, ReloadWatcher, SendAck, Note, hub, net, history
    <3> QED
      BY <3>1, UnseenStays
  <2>2. CASE \/ \E D \in SUBSET Paths : ApplyFails(D)
             \/ \E ok \in BOOLEAN : RestoreFiles(ok)
             \/ Survey \/ Apply \/ IgnoreFiles
    <3>1. UNCHANGED <<mode, unseen, snapping>> /\ mishaps \subseteq mishaps'
      BY <2>2 DEF ApplyFails, RestoreFiles, Survey, Apply, IgnoreFiles, Note, hub, history
    <3>2. \E kind \in {"snapshot", "restore", "ignore"} : Take(kind)
      BY <2>2 DEF ApplyFails, RestoreFiles, Survey, Apply, IgnoreFiles
    <3> QED
      BY <3>1, <3>2, UnseenTaken
  <2> QED
    BY <1>2, <2>1, <2>2 DEF Agent
<1>3. CASE Hub
  <2>1. CASE TakeReport \/ SaveEvent \/ PassOver \/ TakeAck \/ MarkAdopted \/ ReadHead
             \/ \E p \in Paths : FindEvent(p)
    <3>1. UNCHANGED <<mode, unseen, snapping, down>> /\ mishaps \subseteq mishaps'
      BY <2>1 DEF TakeReport, SaveEvent, PassOver, TakeAck, MarkAdopted, ReadHead, FindEvent, net, history
    <3> QED
      BY <3>1, UnseenStays
  <2>2. CASE ReadMode
    <3>1. snapping' = mode /\ UNCHANGED <<mode, unseen, down, mishaps>>
      BY <2>2 DEF ReadMode, net, history
    <3> QED
      BY <3>1 DEF UnseenInv, Without, Overtaken
  <2>3. CASE SendSnapshot
    <3>1. PICK m \in Snapshot \cup Command : ToAgent(m) /\ m.mode = snapping
      BY <2>3, Sends
    <3>2. snapping' = "no" /\ UNCHANGED <<mode, unseen, mishaps>>
      BY <2>3 DEF SendSnapshot, history
    <3>3. CASE unseen # {} /\ Without({"overtaken"})
      <4>1. snapping # "apply"
        BY <3>3 DEF UnseenInv, Overtaken
      <4> QED
        BY <3>1, <3>2, <4>1, UnseenSent
    <3>4. CASE ~(unseen # {} /\ Without({"overtaken"}))
      BY <3>2, <3>4 DEF UnseenInv, Without
    <3> QED
      BY <3>3, <3>4
  <2> QED
    BY <1>3, <2>1, <2>2, <2>3 DEF Hub
<1>4. CASE Disconnect \/ Restart
  <2>1. down' = <<>> /\ (snapping' = snapping \/ snapping' = "no") /\ UNCHANGED <<mode, unseen>>
        /\ mishaps \subseteq mishaps'
    BY <1>4 DEF Disconnect, Restart
  <2>2. Len(down') = 0
    BY <2>1
  <2> QED
    BY <2>1, <2>2 DEF UnseenInv, Without, Overtaken
<1>5. CASE Reconnect
  BY <1>5, UnseenStays DEF Reconnect, history
<1>6. CASE UNCHANGED vars
  BY <1>6, UnseenStays DEF vars, hub, net, history
<1> QED
  BY <1>1, <1>2, <1>3, <1>4, <1>5, <1>6 DEF Next

\* The steps after which another acknowledgement is due.
LEMMA DueSteps ==
    ASSUME [Next]_vars, due' # due
    PROVE  \/ Apply \/ SendAck
           \/ \E D \in SUBSET Paths : ApplyFails(D)
           \/ \E ok \in BOOLEAN : RestoreFiles(ok)
<1>1. CASE User
  BY <1>1 DEF User, Remanage, Edit, Publish, StartAdopt, Restore, Ignore, Assign, agent
<1>2. CASE Agent
  BY <1>2 DEF Agent, Scan, SendBatch, Survey, IgnoreFiles, ReloadWatcher
<1>3. CASE Hub
  BY <1>3 DEF Hub, TakeReport, SaveEvent, PassOver, TakeAck, MarkAdopted, ReadMode, ReadHead,
              SendSnapshot, FindEvent, agent
<1> QED
  BY <1>1, <1>2, <1>3 DEF Next, Disconnect, Reconnect, Restart, agent, vars

\* A path that is managed again is in no acknowledgement of an apply before the user has chosen
\* "apply", unless Remanage overtakes a snapshot (drift/resolve.go, Remanage).
THEOREM SeenBeforeApply == Spec => SurveyFirst
<1>1. TypeInv /\ UnseenInv /\ [Next]_vars =>
          \A p \in unseen : Without({"overtaken"}) /\ due'.restore = FALSE /\ due' # due =>
              p \notin due'.done
  <2> SUFFICES ASSUME TypeInv, UnseenInv, [Next]_vars, NEW p \in unseen, Without({"overtaken"}),
                      due'.restore = FALSE, due' # due
               PROVE  p \notin due'.done
    OBVIOUS
  <2> DEFINE s == Head(down)
  <2>1. ASSUME Take("snapshot"), s.mode = "apply"
        PROVE  p \in s.ignore
    <3>1. down \in Seq(Snapshot \cup Command) /\ down # <<>> /\ s.kind = "snapshot"
      BY <2>1 DEF TypeInv, NetOK, Take
    <3>2. s = down[1] /\ 1 \in 1 .. Len(down)
      BY <3>1, TailOf
    <3>3. ~Overtaken(p)
      BY DEF UnseenInv
    <3> QED
      BY <2>1, <3>1, <3>2, <3>3 DEF Overtaken
  <2>2. CASE Apply
    BY <2>1, <2>2 DEF Apply, Wanted, Deletes
  <2>3. CASE SendAck
    BY <2>3 DEF SendAck, NoAck
  <2>4. ASSUME NEW D \in SUBSET Paths, ApplyFails(D)
        PROVE  p \notin due'.done
    <3>1. due'.done = D /\ D \subseteq Writes(s) /\ p \in s.ignore
      BY <2>1, <2>4 DEF ApplyFails, NoAck
    <3> QED
      BY <3>1 DEF Writes, Wanted, Deletes
  <2>5. ASSUME NEW ok \in BOOLEAN, RestoreFiles(ok)
        PROVE  FALSE
    BY <2>5 DEF RestoreFiles
  <2> QED
    BY <2>2, <2>3, <2>4, <2>5, DueSteps
<1>2. Spec => [](TypeInv /\ UnseenInv)
  BY TypesStay, InitUnseen, NextUnseen, PTL DEF Spec
<1> QED
  BY <1>1, <1>2, PTL DEF Spec, SurveyFirst

-----------------------------------------------------------------------------
(* What an apply went over.                                                *)

\* No report of p arrives before the first n messages have.
Clear(p, n) ==
    /\ p \notin work.todo \cup {work.path}
    /\ \A i \in 1 .. n : up[i].kind = "report" => p \notin DOMAIN up[i].items

Closing(a, p) == a.kind = "ack" /\ a.ok /\ p \in a.over

\* An acknowledgement that closes the event of p is due, or on its way, before any report of p.
Covered(p) ==
    \/ Closing(due, p) /\ Clear(p, Len(up))
    \/ \E i \in 1 .. Len(up) : Closing(up[i], p) /\ Clear(p, i)

\* Event e holds the content c of p and will go on holding it: it is not the one being saved, and
\* if it is still open, it is closed before p is reported again.
Holds(e, p, c) ==
    /\ e \in Ids /\ events[e].path = p /\ events[e].content = c
    /\ work.event # e
    /\ events[e].state = "open" => Covered(p)

Harmless == Without({"unacknowledged", "created", "raced"})
LostInv == Harmless => \A l \in lost : \E e \in Ids : Holds(e, l[1], l[2])

LEMMA HoldsAs ==
    ASSUME NEW e, NEW p, NEW c, Holds(e, p, c), UNCHANGED <<events, work, up>>,
           due' = due \/ due = NoAck
    PROVE  Holds(e, p, c)'
<1>1. \A n : Clear(p, n) => Clear(p, n)'
  BY DEF Clear
<1>2. due = NoAck => ~Closing(due, p)
  BY DEF NoAck, Closing
<1>3. Covered(p) => Covered(p)'
  BY <1>1, <1>2 DEF Covered, Closing
<1> QED
  BY <1>3 DEF Holds, Ids

\* A message goes out behind the others.
LEMMA HoldsSent ==
    ASSUME TypeInv, NEW e, NEW p, NEW c, Holds(e, p, c), UNCHANGED <<events, work>>,
           NEW m \in Batch \cup Ack, ToHub(m),
           Closing(due, p) => \/ due' = due /\ (m.kind = "report" => p \notin DOMAIN m.items)
                              \/ m = due /\ online
    PROVE  Holds(e, p, c)'
<1>1. up \in Seq(Batch \cup Ack) /\ Len(up) \in Nat
  BY DEF TypeInv, NetOK
<1>2. /\ \A i \in 1 .. Len(up) : i \in 1 .. Len(up') /\ up'[i] = up[i]
      /\ \A i \in 1 .. Len(up') : i \in 1 .. Len(up) \/ (i = Len(up) + 1 /\ up'[i] = m)
      /\ online => Len(up') = Len(up) + 1 /\ up'[Len(up) + 1] = m
      /\ Len(up') \in Nat
  <2>1. CASE online
    <3>1. up' = Append(up, m)
      BY <2>1 DEF ToHub
    <3> QED
      BY <1>1, <3>1, AppendAt
  <2>2. CASE ~online
    BY <1>1, <2>2 DEF ToHub
  <2> QED
    BY <2>1, <2>2
<1>3. ASSUME NEW n \in 1 .. Len(up), Clear(p, n)
      PROVE  Clear(p, n)'
  <2>1. \A i \in 1 .. n : i \in 1 .. Len(up)
    BY <1>1
  <2> QED
    BY <1>2, <1>3, <2>1 DEF Clear
<1>4. CASE \E i \in 1 .. Len(up) : Closing(up[i], p) /\ Clear(p, i)
  BY <1>2, <1>3, <1>4 DEF Holds, Covered, Closing, Ids
<1>5. CASE Closing(due, p) /\ Clear(p, Len(up)) /\ due' = due /\ (m.kind = "report" => p \notin DOMAIN m.items)
  <2>1. Clear(p, Len(up))'
    BY <1>1, <1>2, <1>5 DEF Clear
  <2> QED
    BY <1>5, <2>1 DEF Holds, Covered, Closing, Ids
<1>6. CASE Closing(due, p) /\ Clear(p, Len(up)) /\ m = due /\ online
  <2>1. PICK n \in Nat : n = Len(up) + 1
    BY <1>1
  <2>2. n \in 1 .. Len(up') /\ up'[n] = due /\ m.kind # "report"
    BY <1>1, <1>2, <1>6, <2>1 DEF Closing
  <2>3. \A i \in 1 .. n : i \in 1 .. Len(up) \/ up'[i] = m
    BY <1>1, <1>2, <1>6, <2>1
  <2>4. Clear(p, n)'
    BY <1>2, <1>6, <2>2, <2>3 DEF Clear
  <2>5. Closing(up[n], p)'
    BY <1>6, <2>2 DEF Closing
  <2> QED
    BY <2>2, <2>4, <2>5 DEF Holds, Covered, Ids
<1>7. CASE ~Covered(p)
  BY <1>7 DEF Holds, Ids
<1> QED
  BY <1>4, <1>5, <1>6, <1>7 DEF Covered

\* The first message is taken, and it is not the one that covers p.
LEMMA CoveredTaken ==
    ASSUME TypeInv, NEW p, Covered(p), up # <<>>, up' = Tail(up), ~Closing(Head(up), p), UNCHANGED due,
           p \notin work'.todo \cup {work'.path}
    PROVE  Covered(p)'
<1>1. /\ Len(up) \in Nat \ {0} /\ Len(up') = Len(up) - 1 /\ Head(up) = up[1]
      /\ \A i \in 1 .. Len(up') : i + 1 \in 1 .. Len(up) /\ up'[i] = up[i + 1]
  BY TailOf DEF TypeInv, NetOK
<1>2. CASE Closing(due, p) /\ Clear(p, Len(up))
  <2>1. Clear(p, Len(up))'
    BY <1>1, <1>2 DEF Clear
  <2> QED
    BY <1>2, <2>1 DEF Covered
<1>3. ASSUME NEW i \in 1 .. Len(up), Closing(up[i], p), Clear(p, i)
      PROVE  Covered(p)'
  <2>1. i # 1
    BY <1>1, <1>3
  <2>2. PICK n \in Nat : n = i - 1
    BY <1>1, <2>1
  <2>3. n \in 1 .. Len(up') /\ up'[n] = up[i]
    BY <1>1, <2>1, <2>2
  <2>4. ASSUME NEW k \in 1 .. n
        PROVE  up'[k].kind = "report" => p \notin DOMAIN up'[k].items
    <3>1. k \in 1 .. Len(up') /\ k + 1 \in 1 .. i
      BY <1>1, <2>2, <2>3
    <3> QED
      BY <1>1, <1>3, <3>1 DEF Clear
  <2>5. Clear(p, n)'
    BY <2>4 DEF Clear
  <2> QED
    BY <1>3, <2>3, <2>5 DEF Covered, Closing
<1> QED
  BY <1>2, <1>3 DEF Covered

LEMMA HoldsTakeReport ==
    ASSUME TypeInv, NEW e, NEW p \in Paths, NEW c, Holds(e, p, c), TakeReport
    PROVE  Holds(e, p, c)'
<1>1. /\ work' = [batch |-> Head(up), todo |-> DOMAIN Head(up).items, path |-> None, event |-> 0, seen |-> {}]
      /\ up # <<>> /\ up' = Tail(up) /\ UNCHANGED <<events, due>> /\ Head(up).kind = "report"
  BY DEF TakeReport, NoWork, agent
<1>2. work'.event = 0 /\ work'.path = None /\ work'.todo = DOMAIN Head(up).items
  BY <1>1
<1>3. p # None
  BY DriftInboxAssumption
<1>4. ASSUME Covered(p)
      PROVE  Covered(p)'
  <2>1. /\ Len(up) \in Nat \ {0} /\ Head(up) = up[1]
    BY <1>1, TailOf DEF TypeInv, NetOK
  <2>2. p \notin DOMAIN Head(up).items
    <3>1. CASE Clear(p, Len(up))
      BY <1>1, <2>1, <3>1 DEF Clear
    <3>2. ASSUME NEW i \in 1 .. Len(up), Clear(p, i)
          PROVE  p \notin DOMAIN Head(up).items
      <4>1. 1 \in 1 .. i
        BY <2>1
      <4> QED
        BY <1>1, <2>1, <3>2, <4>1 DEF Clear
    <3> QED
      BY <1>4, <3>1, <3>2 DEF Covered
  <2>3. ~Closing(Head(up), p)
    BY <1>1 DEF Closing
  <2> QED
    BY <1>1, <1>2, <1>3, <1>4, <2>2, <2>3, CoveredTaken
<1>5. work'.event # e
  BY <1>2 DEF Holds, Ids
<1> QED
  BY <1>1, <1>4, <1>5 DEF Holds, Ids

LEMMA CoveredWork ==
    ASSUME NEW p, Covered(p), UNCHANGED <<up, due>>,
           p \notin work.todo \cup {work.path} => p \notin work'.todo \cup {work'.path}
    PROVE  Covered(p)'
BY DEF Covered, Clear, Closing

LEMMA HoldsFindEvent ==
    ASSUME TypeInv, NEW e, NEW p \in Paths, NEW c, Holds(e, p, c), NEW q \in Paths, FindEvent(q)
    PROVE  Holds(e, p, c)'
<1> DEFINE n == IF OpenAt(q) = {} THEN 0 ELSE CHOOSE f \in OpenAt(q) : TRUE
<1>1. /\ q \in work.todo /\ UNCHANGED <<events, up, due>>
      /\ work' = [work EXCEPT !.path = q, !.todo = @ \ {q}, !.event = n]
  BY DEF FindEvent, net, agent
<1>2. work'.path = q /\ work'.todo = work.todo \ {q} /\ work'.event = n
  BY <1>1 DEF TypeInv, WorkOK
<1>3. n # 0 => n \in OpenAt(q)
  OBVIOUS
<1> HIDE DEF n
<1>4. ASSUME Covered(p)
      PROVE  Covered(p)' /\ p # q
  <2>1. p \notin work.todo \cup {work.path}
    BY <1>4 DEF Covered, Clear
  <2>2. p # q /\ p \notin work'.todo \cup {work'.path}
    BY <1>1, <1>2, <2>1
  <2> QED
    BY <1>1, <1>4, <2>2, CoveredWork
<1>5. n # e
  <2>1. CASE n = 0
    BY <2>1 DEF Holds, Ids
  <2>2. CASE n # 0 /\ n = e
    BY <1>3, <1>4, <2>2 DEF Holds, OpenAt
  <2> QED
    BY <2>1, <2>2
<1> QED
  BY <1>1, <1>2, <1>4, <1>5 DEF Holds, Ids

\* Saving, or passing over, one item.
LEMMA HoldsContinue ==
    ASSUME TypeInv, NEW e, NEW p \in Paths, NEW c, Holds(e, p, c),
           NEW es \in Seq(Event), Len(events) <= Len(es), es[e] = events[e],
           NEW seen, Continue(es, seen), UNCHANGED <<up, due>>
    PROVE  Holds(e, p, c)'
<1>1. /\ Closes(es, Closed(es, Vanished(es, seen), "superseded"))
      /\ Closes(es, es)
  BY CloseKeeps, CloseNone DEF States
<1>2. PICK es2 : Closes(es, es2) /\ events' = es2
  BY <1>1 DEF Continue
<1>3. e \in 1 .. Len(events) /\ e \in 1 .. Len(es) /\ Len(es2) = Len(es)
  BY <1>2 DEF Holds, Ids, Closes, TypeInv, EventsOK
<1>4. /\ e \in Ids' /\ events'[e].path = p /\ events'[e].content = c
      /\ events'[e].state = "open" => events[e].state = "open"
  BY <1>2, <1>3 DEF Holds, Ids, Closes
<1>5. work'.path = None /\ work'.event = 0 /\ work'.todo \subseteq work.todo
  <2>1. CASE work.todo # {}
    BY <2>1 DEF Continue, TypeInv, WorkOK
  <2>2. CASE work.todo = {}
    BY <2>2 DEF Continue, NoWork
  <2> QED
    BY <2>1, <2>2
<1>6. p # None
  BY DriftInboxAssumption
<1>7. Covered(p) => Covered(p)'
  BY <1>5, <1>6, CoveredWork
<1>8. work'.event # e
  BY <1>3, <1>5
<1> QED
  BY <1>4, <1>7, <1>8 DEF Holds

LEMMA HoldsSaveEvent ==
    ASSUME TypeInv, NEW e, NEW p \in Paths, NEW c, Holds(e, p, c), SaveEvent
    PROVE  Holds(e, p, c)'
<1> DEFINE q == work.path
           d == work.batch.items[q]
           es == Saved(q, d)
           seen == work.seen \cup {q}
<1>1. work.path # None /\ Continue(es, seen) /\ UNCHANGED <<up, due>>
  BY DEF SaveEvent, Saved, net, agent
<1>2. es \in Seq(Event) /\ Len(events) <= Len(es)
  BY <1>1, SavedTyped
<1>3. es[e] = events[e]
  <2>1. e \in 1 .. Len(events) /\ e # work.event /\ events \in Seq(Event)
    BY DEF Holds, Ids, TypeInv, EventsOK
  <2>2. CASE work.event # 0
    BY <2>1, <2>2 DEF Saved
  <2>3. CASE work.event = 0
    <3> DEFINE v == [path |-> q, content |-> d, state |-> "open"]
    <3>1. es = Append(events, v)
      BY <2>3 DEF Saved
    <3> HIDE DEF v, es
    <3> QED
      BY <2>1, <3>1
  <2> QED
    BY <2>2, <2>3
<1> HIDE DEF es, seen
<1> QED
  BY <1>1, <1>2, <1>3, HoldsContinue

LEMMA HoldsPassOver ==
    ASSUME TypeInv, NEW e, NEW p \in Paths, NEW c, Holds(e, p, c), PassOver
    PROVE  Holds(e, p, c)'
<1>1. Continue(events, work.seen) /\ UNCHANGED <<up, due>>
  BY DEF PassOver, net, agent
<1>2. events \in Seq(Event) /\ Len(events) <= Len(events)
  BY DEF TypeInv, EventsOK
<1> QED
  BY <1>1, <1>2, HoldsContinue

LEMMA HoldsTakeAck ==
    ASSUME TypeInv, NEW e, NEW p \in Paths, NEW c, Holds(e, p, c), TakeAck
    PROVE  Holds(e, p, c)'
<1> DEFINE a == Head(up)
<1>1. Closes(events, events')
  BY TakeAckCloses DEF TypeInv, EventsOK
<1>2. up # <<>> /\ up' = Tail(up) /\ UNCHANGED <<work, due>>
  BY DEF TakeAck, agent
<1>3. e \in 1 .. Len(events) /\ e \in Ids'
  BY <1>1 DEF Holds, Ids, Closes
<1>4. /\ events'[e].path = p /\ events'[e].content = c
      /\ events'[e].state = "open" => events[e].state = "open"
  BY <1>1, <1>3 DEF Holds, Closes
<1>5. ASSUME events'[e].state = "open"
      PROVE  Covered(p)'
  <2>1. Covered(p) /\ e \in OpenAt(p)
    BY <1>3, <1>4, <1>5 DEF Holds, OpenAt, Ids
  <2>2. ~Closing(a, p)
    <3> SUFFICES ASSUME Closing(a, p) PROVE FALSE
      OBVIOUS
    <3>1. e \in Restored(a) \/ e \in Superseded(a)
      <4>1. p \in a.over
        BY DEF Closing
      <4>2. e \in UNION {OpenAt(q) : q \in a.over}
        BY <2>1, <4>1
      <4> QED
        BY <4>2 DEF Superseded
    <3>2. events' = [f \in 1 .. Len(events) |->
                     IF f \in Restored(a) THEN InState(events[f], "restored")
                     ELSE IF f \in Superseded(a) THEN InState(events[f], "superseded")
                     ELSE events[f]]
      BY DEF TakeAck, InState, Ids, Closing
    <3>3. events[e] \in Event
      BY <1>3 DEF TypeInv, EventsOK
    <3>4. InState(events[e], "restored").state # "open" /\ InState(events[e], "superseded").state # "open"
      BY <3>3, EventIs DEF States
    <3> HIDE DEF a
    <3> QED
      BY <1>3, <1>5, <3>1, <3>2, <3>4
  <2>3. p \notin work'.todo \cup {work'.path}
    BY <1>2, <2>1 DEF Covered, Clear
  <2> QED
    BY <1>2, <2>1, <2>2, <2>3, CoveredTaken
<1>6. work'.event # e
  BY <1>2 DEF Holds
<1> QED
  BY <1>3, <1>4, <1>5, <1>6 DEF Holds

\* Events are closed by the user.
LEMMA HoldsClosed ==
    ASSUME TypeInv, NEW e, NEW p, NEW c, Holds(e, p, c), Closes(events, events'),
           UNCHANGED <<work, up, due>>
    PROVE  Holds(e, p, c)'
<1>1. e \in 1 .. Len(events) /\ e \in Ids'
  BY DEF Holds, Ids, Closes
<1>2. Covered(p) => Covered(p)'
  BY CoveredWork
<1> QED
  BY <1>1, <1>2 DEF Holds, Closes

\* The connection breaks with no acknowledgement on it.
LEMMA HoldsBroken ==
    ASSUME TypeInv, NEW e, NEW p \in Paths, NEW c, Holds(e, p, c), ~AckIn(up), up' = <<>>,
           UNCHANGED <<events, due>>, work' = work \/ work' = NoWork
    PROVE  Holds(e, p, c)'
<1>1. Covered(p) => Closing(due, p) /\ p \notin work.todo \cup {work.path}
  BY DEF Covered, AckIn, Closing, Clear
<1>2. p # None
  BY DriftInboxAssumption
<1>3. Covered(p) => p \notin work'.todo \cup {work'.path}
  BY <1>1, <1>2 DEF NoWork
<1>4. Len(up') = 0
  OBVIOUS
<1>5. Covered(p) => Covered(p)'
  BY <1>1, <1>3, <1>4 DEF Covered, Clear, Closing
<1>6. work'.event # e
  BY DEF Holds, Ids, NoWork
<1> QED
  BY <1>5, <1>6 DEF Holds, Ids

\* What is shown of p when no report of it is on its way stays in its event.
LEMMA NewlyHeld ==
    ASSUME TypeInv, NEW p \in Paths, NEW e \in OpenAt(p), ~OnTheWay(p),
           UNCHANGED <<events, work, up>>, Closing(due', p)
    PROVE  Holds(e, p, events[e].content)'
<1>1. e \in Ids /\ events[e].path = p /\ e # 0
  BY DEF OpenAt, Ids
<1>2. Clear(p, Len(up)) /\ p \notin work.todo \cup {work.path}
  BY DEF OnTheWay, Clear, TypeInv, NetOK
<1>3. work.event # e
  BY <1>1, <1>2 DEF TypeInv, WorkOK
<1>4. Covered(p)'
  BY <1>2 DEF Covered, Clear
<1> QED
  BY <1>1, <1>3, <1>4 DEF Holds, Ids

LEMMA LostApply ==
    ASSUME TypeInv, LostInv, Apply
    PROVE  LostInv'
<1> DEFINE s == Head(down)
           gone == Shown(disk, {p \in Writes(s) : disk[p] # s.files[p]})
<1>1. /\ UNCHANGED <<events, work, up>> /\ due = NoAck
      /\ due' = [kind |-> "ack", ok |-> TRUE, restore |-> FALSE,
                 done |-> Wanted(s) \cup Deletes(s), over |-> Writes(s) \ Creates(s)]
      /\ lost' = lost \cup gone
      /\ mishaps' = mishaps
             \cup (IF \E l \in gone : l[1] \in Creates(s) THEN {"created"} ELSE {})
             \cup (IF \E l \in gone : OnTheWay(l[1]) THEN {"raced"} ELSE {})
  BY DEF Apply, Take, hub
<1> SUFFICES ASSUME Harmless', NEW l \in lost'
             PROVE  (\E e \in Ids : Holds(e, l[1], l[2]))'
  BY DEF LostInv
<1>2. Harmless
  BY <1>1 DEF Harmless, Without
<1>3. CASE l \in lost
  <2>1. PICK e \in Ids : Holds(e, l[1], l[2])
    BY <1>2, <1>3 DEF LostInv
  <2>2. Holds(e, l[1], l[2])'
    BY <1>1, <2>1, HoldsAs
  <2> QED
    BY <2>2 DEF Holds
<1>4. CASE l \in gone
  <2>1. PICK p \in {q \in Writes(s) : disk[q] # s.files[q]} : l = <<p, disk[p]>> /\ \E e \in OpenAt(p) : events[e].content = disk[p]
    BY <1>4 DEF Shown
  <2>2. PICK e \in OpenAt(p) : events[e].content = disk[p]
    BY <2>1
  <2>3. l[1] = p /\ l[2] = events[e].content
    BY <2>1, <2>2
  <2> HIDE DEF gone
  <2>4. ~OnTheWay(p) /\ p \notin Creates(s)
    BY <1>1, <1>4, <2>3 DEF Harmless, Without
  <2>5. p \in Paths /\ p \in Writes(s) \ Creates(s)
    BY <2>1, <2>4 DEF Writes, Wanted, Deletes
  <2>6. Closing(due', p)
    BY <1>1, <2>5 DEF Closing
  <2>7. Holds(e, p, events[e].content)'
    BY <1>1, <2>4, <2>5, <2>6, NewlyHeld
  <2>8. events' = events
    BY <1>1
  <2>9. Holds(e, l[1], l[2])'
    BY <2>3, <2>7, <2>8
  <2> QED
    BY <2>9 DEF Holds
<1> QED
  BY <1>1, <1>3, <1>4

LEMMA LostRestore ==
    ASSUME TypeInv, LostInv, NEW ok \in BOOLEAN, RestoreFiles(ok)
    PROVE  LostInv'
<1> DEFINE P == Head(down).paths
           gone == IF ok THEN Shown(disk, {p \in P : disk[p] # base[p].blob}) ELSE {}
<1>1. /\ UNCHANGED <<events, work, up>> /\ due = NoAck
      /\ due' = [kind |-> "ack", ok |-> ok, restore |-> TRUE, done |-> P, over |-> P]
      /\ lost' = lost \cup gone
      /\ mishaps' = IF \E l \in gone : OnTheWay(l[1]) THEN mishaps \cup {"raced"} ELSE mishaps
      /\ P \in SUBSET Paths
  BY TookCommand DEF RestoreFiles, Take, hub, Note, TypeInv
<1> SUFFICES ASSUME Harmless', NEW l \in lost'
             PROVE  (\E e \in Ids : Holds(e, l[1], l[2]))'
  BY DEF LostInv
<1>2. Harmless
  BY <1>1 DEF Harmless, Without
<1>3. CASE l \in lost
  <2>1. PICK e \in Ids : Holds(e, l[1], l[2])
    BY <1>2, <1>3 DEF LostInv
  <2>2. Holds(e, l[1], l[2])'
    BY <1>1, <2>1, HoldsAs
  <2> QED
    BY <2>2 DEF Holds
<1>4. CASE l \in gone
  <2>0. ok
    BY <1>4
  <2>1. PICK p \in P : l = <<p, disk[p]>> /\ \E e \in OpenAt(p) : events[e].content = disk[p]
    BY <1>4 DEF Shown
  <2>2. PICK e \in OpenAt(p) : events[e].content = disk[p]
    BY <2>1
  <2>3. l[1] = p /\ l[2] = events[e].content
    BY <2>1, <2>2
  <2> HIDE DEF gone, P
  <2>4. ~OnTheWay(p)
    BY <1>1, <1>4, <2>3 DEF Harmless, Without
  <2>5. p \in Paths
    BY <1>1, <2>1
  <2>6. Closing(due', p)
    BY <1>1, <2>0, <2>1 DEF Closing
  <2>7. Holds(e, p, events[e].content)'
    BY <1>1, <2>4, <2>5, <2>6, NewlyHeld
  <2>8. events' = events
    BY <1>1
  <2>9. Holds(e, l[1], l[2])'
    BY <2>3, <2>7, <2>8
  <2> QED
    BY <2>9 DEF Holds
<1> QED
  BY <1>1, <1>3, <1>4

\* The other steps lose nothing; it is enough that they keep what is held.
LEMMA LostAs ==
    ASSUME TypeInv, LostInv, lost' = lost, mishaps \subseteq mishaps',
           Harmless' => \A p \in Paths, c \in Contents, e \in Ids : Holds(e, p, c) => Holds(e, p, c)'
    PROVE  LostInv'
<1> SUFFICES ASSUME Harmless', NEW l \in lost
             PROVE  (\E e \in Ids : Holds(e, l[1], l[2]))'
  BY DEF LostInv
<1>1. Harmless
  BY DEF Harmless, Without
<1>2. PICK e \in Ids : Holds(e, l[1], l[2])
  BY <1>1 DEF LostInv
<1>3. l[1] \in Paths /\ l[2] \in Contents
  BY DEF TypeInv, HistoryOK
<1>4. Holds(e, l[1], l[2])'
  BY <1>2, <1>3
<1> QED
  BY <1>4 DEF Holds

LEMMA InitLost == Init => LostInv
BY DEF Init, LostInv

LEMMA NextLost == TypeInv /\ LostInv /\ [Next]_vars => LostInv'
<1> SUFFICES ASSUME TypeInv, LostInv, [Next]_vars PROVE LostInv'
  OBVIOUS
<1> USE DEF Ids
<1>1. CASE UNCHANGED <<events, work, up, lost>> /\ mishaps \subseteq mishaps' /\ (due' = due \/ due = NoAck)
  BY <1>1, HoldsAs, LostAs
<1>2. CASE Apply \/ \E ok \in BOOLEAN : RestoreFiles(ok)
  BY <1>2, LostApply, LostRestore
<1>3. ASSUME NEW g \in Goroutines, SendBatch(g)
      PROVE  LostInv'
  <2> DEFINE m == Head(reports[g])
  <2>1. /\ UNCHANGED <<events, work, due, lost>> /\ ToHub(m)
        /\ due.over \cap DOMAIN m.items # {} => "raced" \in mishaps'
        /\ mishaps \subseteq mishaps'
    BY <1>3 DEF SendBatch, hub
  <2>2. m \in Batch \cup Ack
    BY <1>3, TailParts DEF SendBatch, TypeInv, AgentOK
  <2> HIDE DEF m
  <2>3. ASSUME Harmless', NEW p, Closing(due, p)
        PROVE  p \notin DOMAIN m.items
    BY <2>1, <2>3 DEF Closing, Harmless, Without
  <2> QED
    BY <2>1, <2>2, <2>3, HoldsSent, LostAs
<1>4. CASE SendAck
  <2>1. /\ UNCHANGED <<events, work, lost>> /\ ToHub(due) /\ (~online => "unacknowledged" \in mishaps')
        /\ mishaps \subseteq mishaps'
    BY <1>4 DEF SendAck, hub, Note
  <2>2. due \in Batch \cup Ack
    BY DEF TypeInv, AgentOK
  <2>3. Harmless' => online
    BY <2>1 DEF Harmless, Without, TypeInv, NetOK
  <2> QED
    BY <2>1, <2>2, <2>3, HoldsSent, LostAs
<1>5. CASE TakeReport \/ SaveEvent \/ PassOver \/ TakeAck \/ \E q \in Paths : FindEvent(q)
  <2>1. lost' = lost /\ mishaps \subseteq mishaps'
    BY <1>5 DEF TakeReport, SaveEvent, PassOver, TakeAck, FindEvent, history
  <2> QED
    BY <1>5, <2>1, HoldsTakeReport, HoldsSaveEvent, HoldsPassOver, HoldsTakeAck, HoldsFindEvent, LostAs
<1>6. CASE MarkAdopted \/ \E e \in Ids, scope \in {"own", "global"} : Ignore(e, scope)
  <2>1. lost' = lost /\ mishaps \subseteq mishaps' /\ UNCHANGED <<work, up, due>>
    BY <1>6 DEF MarkAdopted, Ignore, history, agent, net
  <2>2. Closes(events, events')
    <3>1. CASE MarkAdopted
      BY <3>1, CloseKeeps DEF MarkAdopted, States, TypeInv, EventsOK
    <3>2. ASSUME NEW e \in Ids, NEW scope \in {"own", "global"}, Ignore(e, scope)
          PROVE  Closes(events, events')
      BY <3>2, CloseKeeps DEF Ignore, States, TypeInv, EventsOK
    <3> QED
      BY <1>6, <3>1, <3>2
  <2> QED
    BY <2>1, <2>2, HoldsClosed, LostAs
<1>7. CASE Disconnect \/ Restart
  <2>1. /\ lost' = lost /\ mishaps \subseteq mishaps' /\ (AckIn(up) => "unacknowledged" \in mishaps')
        /\ up' = <<>> /\ UNCHANGED <<events, due>> /\ (work' = work \/ work' = NoWork)
    BY <1>7 DEF Disconnect, Restart, agent
  <2>2. Harmless' => ~AckIn(up)
    BY <2>1 DEF Harmless, Without
  <2> QED
    BY <2>1, <2>2, HoldsBroken, LostAs
<1>8. CASE \/ \E T \in SUBSET Paths : Scan(FALSE, T)
           \/ \E D \in SUBSET Paths : ApplyFails(D)
           \/ Scan(TRUE, {}) \/ Survey \/ IgnoreFiles \/ ReloadWatcher
  BY <1>1, <1>8 DEF Scan, Survey, IgnoreFiles, ReloadWatcher, ApplyFails, Take, hub, net, history
<1>9. CASE \/ \E p \in Paths : \/ Remanage(p)
                               \/ \E c \in Contents \cup {None} : Edit(p, c) \/ Publish(p, c)
           \/ \E E \in SUBSET Ids : StartAdopt(E) \/ Restore(E)
           \/ \E m \in Modes : Assign(m)
           \/ ReadMode \/ ReadHead \/ SendSnapshot \/ Reconnect
  BY <1>1, <1>9 DEF Remanage, Edit, Publish, StartAdopt, Restore, Assign, ReadMode, ReadHead,
                    SendSnapshot, Reconnect, Note, hub, net, history, agent
<1>10. CASE UNCHANGED vars
  BY <1>1, <1>10 DEF vars, hub, net, history, agent
<1> QED
  BY <1>2, <1>3, <1>4, <1>5, <1>6, <1>7, <1>8, <1>9, <1>10 DEF Next, User, Agent, Hub

\* What an apply or a restore went over while the inbox showed it stays in an event for good
\* (configsync/notify.go and drift/service.go against applier/restore.go): unless the
\* acknowledgement is lost, a report of the file is on its way at that time, or the file counts
\* as a new one.
THEOREM ShownIsKept == Spec => []NothingLost
<1>1. TypeInv /\ LostInv => NothingLost
  BY DEF LostInv, NothingLost, Harmless, Holds
<1>2. Spec => [](TypeInv /\ LostInv)
  BY TypesStay, InitLost, NextLost, PTL DEF Spec
<1> QED
  BY <1>1, <1>2, PTL

-----------------------------------------------------------------------------
(* A full report in parts.                                                 *)

Unbroken == mishaps \cap {"failed", "torn", "mixed"} = {}

Begins(b) == b.kind = "report" /\ b.full /\ ~b.final
Ends(b) == b.kind = "report" /\ b.full /\ b.final
Missing(b) == b.all \ DOMAIN b.items

\* What the hub will remember of a full report once the batch in work is done.
Upcoming ==
    IF ~work.batch.full THEN fullSeen
    ELSE IF work.batch.final THEN {} ELSE fullSeen \cup DOMAIN work.batch.items

\* When the hub takes the i-th message, it has been given the paths Q of the full report.
Given(i, Q) ==
    \/ \E j \in 1 .. Len(up) :
          /\ j < i /\ Begins(up[j]) /\ Q \subseteq DOMAIN up[j].items
          /\ \A k \in 1 .. Len(up) : j < k /\ k < i => ~Ends(up[k])
    \/ /\ \A k \in 1 .. Len(up) : k < i => ~Ends(up[k])
       /\ Q \subseteq Upcoming

\* A last part that does not hold all of its report, as the i-th message.
Complete(i, b) == Ends(b) /\ Missing(b) # {} => Given(i, Missing(b))

PartsInv ==
    Unbroken =>
        /\ DOMAIN work.batch.items \subseteq work.seen \cup work.todo \cup {work.path}
        /\ work.batch.full /\ work.batch.final =>
               work.batch.all \subseteq fullSeen \cup DOMAIN work.batch.items
        /\ \A i \in 1 .. Len(up) : Complete(i, up[i])
        /\ \A g \in Goroutines : reports[g] # <<>> => Complete(Len(up) + 1, Head(reports[g]))

LEMMA InitParts == Init => PartsInv
<1> SUFFICES ASSUME Init PROVE PartsInv
  OBVIOUS
<1>1. DOMAIN work.batch.items = {} /\ ~work.batch.full
  BY DEF Init, NoWork, NoBatch
<1>2. Len(up) = 0 /\ \A g \in Goroutines : reports[g] = <<>>
  BY DEF Init
<1> QED
  BY <1>1, <1>2 DEF PartsInv

\* What is not on the queue makes no difference to it.
LEMMA GivenAs ==
    ASSUME NEW i, NEW Q, Given(i, Q), UNCHANGED up, Upcoming \subseteq Upcoming'
    PROVE  Given(i, Q)'
BY DEF Given, Begins, Ends

LEMMA CompleteAs ==
    ASSUME NEW i, NEW b, Complete(i, b), UNCHANGED up, Upcoming \subseteq Upcoming'
    PROVE  Complete(i, b)'
<1>1. Given(i, Missing(b)) => Given(i, Missing(b))'
  BY GivenAs
<1> QED
  BY <1>1 DEF Complete, Ends, Missing

\* The steps that leave the reports and their order alone.
LEMMA PartsStay ==
    ASSUME PartsInv, UNCHANGED <<work, fullSeen, up, reports>>, mishaps \subseteq mishaps'
    PROVE  PartsInv'
<1>1. Upcoming \subseteq Upcoming'
  BY DEF Upcoming
<1>2. \A i, b : Complete(i, b) => Complete(i, b)'
  BY <1>1, CompleteAs
<1> QED
  BY <1>2 DEF PartsInv, Unbroken, Complete, Given, Ends, Begins, Missing, Upcoming

\* A goroutine has another report to send, from its beginning.
LEMMA PartsScanned ==
    ASSUME TypeInv, PartsInv, UNCHANGED <<work, fullSeen, up>>, mishaps \subseteq mishaps',
           NEW h \in Goroutines, NEW bs, Parts(bs), reports' = [reports EXCEPT ![h] = bs],
           bs # <<>> /\ bs[1].full => DOMAIN bs[1].items = bs[1].all \/ ~bs[1].final
    PROVE  PartsInv'
<1>1. Upcoming \subseteq Upcoming'
  BY DEF Upcoming
<1> SUFFICES ASSUME Unbroken' PROVE PartsInv'
  BY DEF PartsInv
<1>2. Unbroken
  BY DEF Unbroken
<1>3. \A i \in 1 .. Len(up') : Complete(i, up[i])'
  BY <1>1, <1>2, CompleteAs DEF PartsInv
<1>4. ASSUME NEW g \in Goroutines, reports'[g] # <<>>
      PROVE  Complete(Len(up) + 1, Head(reports[g]))'
  <2>1. CASE g = h
    <3>1. reports'[g] = bs /\ bs # <<>> /\ Head(bs) = bs[1]
      BY <1>4, <2>1, TailParts DEF TypeInv, AgentOK
    <3>2. ~(Ends(bs[1]) /\ Missing(bs[1]) # {})
      BY <3>1 DEF Ends, Missing
    <3> QED
      BY <3>1, <3>2 DEF Complete, Ends, Missing
  <2>2. CASE g # h
    <3>1. reports'[g] = reports[g]
      BY <2>2 DEF TypeInv, AgentOK
    <3>2. Complete(Len(up) + 1, Head(reports[g]))
      BY <1>2, <1>4, <3>1 DEF PartsInv
    <3>3. PICK n, b : n = Len(up) + 1 /\ b = Head(reports[g])
      OBVIOUS
    <3>4. Complete(n, b)'
      BY <1>1, <3>2, <3>3, CompleteAs
    <3>5. n = Len(up') + 1 /\ b = Head(reports'[g])
      BY <3>1, <3>3
    <3> QED
      BY <3>4, <3>5
  <2> QED
    BY <2>1, <2>2
<1>5. work' = work /\ fullSeen' = fullSeen /\ up' = up
  OBVIOUS
<1> QED
  BY <1>2, <1>3, <1>4, <1>5 DEF PartsInv

\* The hub has taken the first message.
LEMMA GivenTaken ==
    ASSUME TypeInv, up # <<>>, up' = Tail(up), NEW i \in Nat, i >= 2, NEW Q, Given(i, Q),
           NEW n \in Nat, n + 1 = i,
           Begins(Head(up)) => DOMAIN Head(up).items \subseteq Upcoming',
           ~Ends(Head(up)) => Upcoming \subseteq Upcoming'
    PROVE  Given(n, Q)'
<1>1. /\ Len(up) \in Nat \ {0} /\ Len(up') = Len(up) - 1 /\ Head(up) = up[1]
      /\ \A k \in 1 .. Len(up') : k + 1 \in 1 .. Len(up) /\ up'[k] = up[k + 1]
  BY TailOf DEF TypeInv, NetOK
<1>2. ASSUME NEW j \in 1 .. Len(up), j < i, Begins(up[j]), Q \subseteq DOMAIN up[j].items,
             \A k \in 1 .. Len(up) : j < k /\ k < i => ~Ends(up[k])
      PROVE  Given(n, Q)'
  <2>1. CASE j = 1
    <3>1. Q \subseteq Upcoming'
      BY <1>1, <1>2, <2>1
    <3>2. ASSUME NEW k \in 1 .. Len(up'), k < n
          PROVE  ~Ends(up'[k])
      <4>1. k + 1 \in 1 .. Len(up) /\ j < k + 1 /\ k + 1 < i
        BY <1>1, <2>1, <3>2
      <4> QED
        BY <1>1, <1>2, <4>1
    <3> QED
      BY <3>1, <3>2 DEF Given, Ends
  <2>2. CASE j # 1
    <3>1. PICK l \in Nat : l + 1 = j
      BY <2>2
    <3>2. l \in 1 .. Len(up') /\ up'[l] = up[j] /\ l < n
      BY <1>1, <1>2, <2>2, <3>1
    <3>3. ASSUME NEW k \in 1 .. Len(up'), l < k, k < n
          PROVE  ~Ends(up'[k])
      <4>1. k + 1 \in 1 .. Len(up) /\ j < k + 1 /\ k + 1 < i
        BY <1>1, <3>1, <3>3
      <4> QED
        BY <1>1, <1>2, <4>1
    <3> QED
      BY <1>2, <3>2, <3>3 DEF Given, Ends, Begins
  <2> QED
    BY <2>1, <2>2
<1>3. ASSUME \A k \in 1 .. Len(up) : k < i => ~Ends(up[k]), Q \subseteq Upcoming
      PROVE  Given(n, Q)'
  <2>1. 1 \in 1 .. Len(up) /\ 1 < i
    BY <1>1
  <2>2. Q \subseteq Upcoming'
    BY <1>1, <1>3, <2>1
  <2>3. ASSUME NEW k \in 1 .. Len(up'), k < n
        PROVE  ~Ends(up'[k])
    <3>1. k + 1 \in 1 .. Len(up) /\ k + 1 < i
      BY <1>1, <2>3
    <3> QED
      BY <1>1, <1>3, <3>1
  <2> QED
    BY <2>2, <2>3 DEF Given, Ends
<1> QED
  BY <1>2, <1>3 DEF Given

LEMMA CompleteTaken ==
    ASSUME TypeInv, up # <<>>, up' = Tail(up), NEW i \in Nat, i >= 2, NEW b, Complete(i, b),
           NEW n \in Nat, n + 1 = i,
           Begins(Head(up)) => DOMAIN Head(up).items \subseteq Upcoming',
           ~Ends(Head(up)) => Upcoming \subseteq Upcoming'
    PROVE  Complete(n, b)'
<1>1. Given(i, Missing(b)) => Given(n, Missing(b))'
  BY GivenTaken
<1> QED
  BY <1>1 DEF Complete, Ends, Missing

LEMMA PartsTaken ==
    ASSUME TypeInv, PartsInv, up # <<>>, up' = Tail(up), reports' = reports, Unbroken,
           Begins(Head(up)) => DOMAIN Head(up).items \subseteq Upcoming',
           ~Ends(Head(up)) => Upcoming \subseteq Upcoming',
           DOMAIN work'.batch.items \subseteq work'.seen \cup work'.todo \cup {work'.path},
           work'.batch.full /\ work'.batch.final =>
               work'.batch.all \subseteq fullSeen' \cup DOMAIN work'.batch.items
    PROVE  PartsInv'
<1>1. /\ Len(up) \in Nat \ {0} /\ Len(up') = Len(up) - 1 /\ Head(up) = up[1]
      /\ \A k \in 1 .. Len(up') : k + 1 \in 1 .. Len(up) /\ up'[k] = up[k + 1]
  BY TailOf DEF TypeInv, NetOK
<1>2. \A i \in 1 .. Len(up) : Complete(i, up[i])
  BY DEF PartsInv
<1>3. \A g \in Goroutines : reports[g] # <<>> => Complete(Len(up) + 1, Head(reports[g]))
  BY DEF PartsInv
<1>4. ASSUME NEW n \in 1 .. Len(up')
      PROVE  Complete(n, up[n])'
  <2>1. PICK i \in Nat : i = n + 1
    OBVIOUS
  <2>2. i \in 1 .. Len(up) /\ i >= 2 /\ up'[n] = up[i]
    BY <1>1, <2>1
  <2>3. PICK b : b = up[i]
    OBVIOUS
  <2>4. Complete(n, b)'
    BY <1>2, <2>1, <2>2, <2>3, CompleteTaken
  <2> QED
    BY <2>2, <2>3, <2>4 DEF Complete, Given, Ends, Missing
<1>5. ASSUME NEW g \in Goroutines, reports[g] # <<>>
      PROVE  Complete(Len(up) + 1, Head(reports[g]))'
  <2>1. PICK n \in Nat : n = Len(up)
    <3>1. Len(up) \in Nat
      BY <1>1
    <3> QED
      BY <3>1, Zenon
  <2>2. PICK i \in Nat : i = n + 1
    OBVIOUS
  <2>3. PICK b : b = Head(reports[g])
    OBVIOUS
  <2>4. Complete(n, b)'
    <3>1. Complete(i, b) /\ i >= 2 /\ n + 1 = i
      BY <1>1, <1>3, <1>5, <2>1, <2>2, <2>3
    <3> QED
      BY <3>1, CompleteTaken
  <2>5. n = Len(up') + 1 /\ b = Head(reports'[g])
    BY <1>1, <2>1, <2>3
  <2> QED
    BY <2>4, <2>5
<1> QED
  BY <1>4, <1>5 DEF PartsInv

\* A report leaves the queue, or an acknowledgement.
LEMMA PartsTakeReport ==
    ASSUME TypeInv, PartsInv, TakeReport
    PROVE  PartsInv'
<1> SUFFICES ASSUME Unbroken' PROVE PartsInv'
  BY DEF PartsInv
<1>1. Unbroken /\ UNCHANGED <<fullSeen, reports>> /\ up # <<>> /\ up' = Tail(up) /\ work = NoWork
  BY DEF Unbroken, TakeReport, history, agent
<1>2. work'.batch = Head(up) /\ work'.todo = DOMAIN Head(up).items
  BY DEF TakeReport, NoWork
<1>3. Upcoming = fullSeen
  BY <1>1 DEF Upcoming, NoWork, NoBatch
<1>4. Head(up).kind = "report" /\ Head(up) = up[1] /\ 1 \in 1 .. Len(up)
  BY <1>1, TailOf DEF TakeReport, TypeInv, NetOK
<1>5. Begins(Head(up)) => DOMAIN Head(up).items \subseteq Upcoming'
  BY <1>2 DEF Upcoming, Begins
<1>6. ~Ends(Head(up)) => Upcoming \subseteq Upcoming'
  BY <1>1, <1>2, <1>3, <1>4 DEF Upcoming, Ends
<1>7. DOMAIN work'.batch.items \subseteq work'.seen \cup work'.todo \cup {work'.path}
  BY <1>2
<1>8. ASSUME work'.batch.full, work'.batch.final
      PROVE  work'.batch.all \subseteq fullSeen' \cup DOMAIN work'.batch.items
  <2>1. Ends(up[1]) /\ Complete(1, up[1])
    BY <1>1, <1>2, <1>4, <1>8 DEF Ends, PartsInv
  <2>2. Missing(up[1]) # {} => Missing(up[1]) \subseteq fullSeen
    <3>1. ~ \E j \in 1 .. Len(up) : j < 1
      BY <1>1, TailOf DEF TypeInv, NetOK
    <3> QED
      BY <1>3, <2>1, <3>1 DEF Complete, Given
  <2> QED
    BY <1>1, <1>2, <1>4, <2>2 DEF Missing
<1> QED
  BY <1>1, <1>5, <1>6, <1>7, <1>8, PartsTaken

LEMMA PartsTakeAck ==
    ASSUME TypeInv, PartsInv, TakeAck
    PROVE  PartsInv'
<1> SUFFICES ASSUME Unbroken' PROVE PartsInv'
  BY DEF PartsInv
<1>1. Unbroken /\ UNCHANGED <<fullSeen, reports, work>> /\ up # <<>> /\ up' = Tail(up)
      /\ Head(up).kind = "ack"
  BY DEF Unbroken, TakeAck, history, agent
<1>2. ~Begins(Head(up)) /\ Upcoming \subseteq Upcoming'
  BY <1>1 DEF Begins, Upcoming
<1>3. /\ DOMAIN work'.batch.items \subseteq work'.seen \cup work'.todo \cup {work'.path}
      /\ work'.batch.full /\ work'.batch.final =>
             work'.batch.all \subseteq fullSeen' \cup DOMAIN work'.batch.items
  BY <1>1 DEF PartsInv
<1> QED
  BY <1>1, <1>2, <1>3, PartsTaken

\* A message is put at the end of the queue.
LEMMA GivenSent ==
    ASSUME TypeInv, NEW m \in Batch \cup Ack, up' = Append(up, m), Upcoming' = Upcoming,
           NEW i \in 1 .. Len(up) + 1, NEW Q, Given(i, Q)
    PROVE  Given(i, Q)' /\ (~Ends(m) /\ i = Len(up) + 1 => Given(i + 1, Q)')
<1>1. /\ Len(up) \in Nat /\ Len(up') = Len(up) + 1
      /\ \A k \in 1 .. Len(up) : k \in 1 .. Len(up') /\ up'[k] = up[k]
      /\ \A k \in 1 .. Len(up') : (k = Len(up) + 1 /\ up'[k] = m) \/ (k \in 1 .. Len(up) /\ up'[k] = up[k])
  BY AppendAt DEF TypeInv, NetOK
<1>2. \A b : (Ends(b)' <=> Ends(b)) /\ (Begins(b)' <=> Begins(b))
  BY DEF Ends, Begins
<1>3. ASSUME NEW n \in {i, i + 1}, n = i + 1 => ~Ends(m) /\ i = Len(up) + 1
      PROVE  Given(n, Q)'
  <2>1. ASSUME NEW k \in 1 .. Len(up'), k < n
        PROVE  (up'[k] = m /\ ~Ends(m)) \/ (k \in 1 .. Len(up) /\ k < i /\ up'[k] = up[k])
    BY <1>1, <1>3, <2>1
  <2>2. ASSUME NEW j \in 1 .. Len(up), j < i
        PROVE  j \in 1 .. Len(up') /\ j < n /\ up'[j] = up[j]
    BY <1>1, <1>3, <2>2
  <2>3. ASSUME NEW j \in 1 .. Len(up), j < i, Begins(up[j]), Q \subseteq DOMAIN up[j].items,
               \A k \in 1 .. Len(up) : j < k /\ k < i => ~Ends(up[k])
        PROVE  Given(n, Q)'
    <3>1. \A k \in 1 .. Len(up') : j < k /\ k < n => ~Ends(up'[k])
      BY <2>1, <2>3
    <3> QED
      BY <2>2, <2>3, <3>1 DEF Given, Ends, Begins
  <2>4. ASSUME \A k \in 1 .. Len(up) : k < i => ~Ends(up[k]), Q \subseteq Upcoming
        PROVE  Given(n, Q)'
    <3>1. \A k \in 1 .. Len(up') : k < n => ~Ends(up'[k])
      BY <2>1, <2>4
    <3> QED
      BY <2>4, <3>1 DEF Given, Ends
  <2> QED
    BY <2>3, <2>4 DEF Given
<1>4. i # i + 1
  BY <1>1
<1>5. Given(i, Q)'
  BY <1>3, <1>4
<1>6. PICK n : n = i + 1
  OBVIOUS
<1>7. ~Ends(m) /\ i = Len(up) + 1 => Given(n, Q)'
  BY <1>3, <1>6
<1> QED
  BY <1>5, <1>6, <1>7

LEMMA CompleteSent ==
    ASSUME TypeInv, NEW m \in Batch \cup Ack, up' = Append(up, m), Upcoming' = Upcoming,
           NEW i \in 1 .. Len(up) + 1, NEW b, Complete(i, b)
    PROVE  Complete(i, b)' /\ (~Ends(m) /\ i = Len(up) + 1 => Complete(i + 1, b)')
<1>1. Given(i, Missing(b)) =>
          Given(i, Missing(b))' /\ (~Ends(m) /\ i = Len(up) + 1 => Given(i + 1, Missing(b))')
  BY GivenSent
<1> QED
  BY <1>1 DEF Complete, Ends, Missing

\* What a goroutine still has to send of a full report fits what is sent now: the last part of
\* it is not behind another full report's last part, nor parted from the first.
Fits(m, b) ==
    \/ ~(Ends(b) /\ Missing(b) # {})
    \/ Begins(m) /\ Missing(b) \subseteq DOMAIN m.items

LEMMA PartsSent ==
    ASSUME TypeInv, PartsInv, Unbroken, NEW m \in Batch \cup Ack, up' = Append(up, m),
           UNCHANGED <<work, fullSeen>>, Complete(Len(up) + 1, m),
           \A g \in Goroutines : reports'[g] # <<>> =>
               Fits(m, Head(reports'[g])) \/ (reports'[g] = reports[g] /\ ~Ends(m))
    PROVE  PartsInv'
<1>1. Upcoming' = Upcoming
  BY DEF Upcoming
<1>2. /\ Len(up) \in Nat /\ Len(up') = Len(up) + 1 /\ up'[Len(up) + 1] = m
      /\ Len(up) + 1 \in 1 .. Len(up')
      /\ \A k \in 1 .. Len(up') : k = Len(up) + 1 \/ (k \in 1 .. Len(up) /\ up'[k] = up[k])
  BY AppendAt DEF TypeInv, NetOK
<1>3. \A i \in 1 .. Len(up) : Complete(i, up[i])
  BY DEF PartsInv
<1>4. \A g \in Goroutines : reports[g] # <<>> => Complete(Len(up) + 1, Head(reports[g]))
  BY DEF PartsInv
<1>5. ASSUME NEW n \in 1 .. Len(up')
      PROVE  Complete(n, up[n])'
  <2>1. PICK b : b = up'[n]
    OBVIOUS
  <2>2. n \in 1 .. Len(up) + 1 /\ Complete(n, b)
    BY <1>2, <1>3, <2>1
  <2>3. Complete(n, b)'
    BY <1>1, <2>2, CompleteSent
  <2> QED
    BY <2>1, <2>3
<1>6. ASSUME NEW g \in Goroutines, reports'[g] # <<>>
      PROVE  Complete(Len(up) + 1, Head(reports[g]))'
  <2>1. PICK i : i = Len(up) + 1
    OBVIOUS
  <2>2. i \in 1 .. Len(up) + 1 /\ i \in Nat
    BY <1>2, <2>1
  <2>3. PICK n : n = i + 1
    OBVIOUS
  <2>4. n = Len(up') + 1
    BY <1>2, <2>1, <2>3
  <2>5. PICK b : b = Head(reports'[g])
    OBVIOUS
  <2>6. CASE reports'[g] = reports[g] /\ ~Ends(m)
    <3>1. Complete(i, b)
      BY <1>4, <1>6, <2>1, <2>5, <2>6
    <3>2. Complete(i + 1, b)'
      BY <1>1, <2>1, <2>2, <2>6, <3>1, CompleteSent
    <3> QED
      BY <2>3, <2>4, <2>5, <3>2
  <2>7. CASE ~(Ends(b) /\ Missing(b) # {})
    BY <2>5, <2>7 DEF Complete, Ends, Missing
  <2>8. CASE Begins(m) /\ Missing(b) \subseteq DOMAIN m.items
    <3>1. i \in 1 .. Len(up') /\ i < n /\ up'[i] = m
      BY <1>2, <2>1, <2>2, <2>3
    <3>2. \A k \in 1 .. Len(up') : ~(i < k /\ k < n)
      BY <2>2, <2>3
    <3>3. Given(n, Missing(b))'
      BY <2>8, <3>1, <3>2 DEF Given, Begins, Ends, Missing
    <3> QED
      BY <2>4, <2>5, <3>3 DEF Complete
  <2> QED
    BY <1>6, <2>5, <2>6, <2>7, <2>8 DEF Fits
<1>7. work' = work /\ fullSeen' = fullSeen
  OBVIOUS
<1> QED
  BY <1>5, <1>6, <1>7 DEF PartsInv

LEMMA PartsSendBatch ==
    ASSUME TypeInv, PartsInv, NEW g \in Goroutines, SendBatch(g)
    PROVE  PartsInv'
<1> SUFFICES ASSUME Unbroken' PROVE PartsInv'
  BY DEF PartsInv
<1> DEFINE bs == reports[g]
           m == Head(bs)
<1>1. Unbroken /\ UNCHANGED <<work, fullSeen>> /\ mishaps \subseteq mishaps'
  BY DEF Unbroken, SendBatch, hub
<1>2. Parts(bs) /\ bs # <<>> /\ reports \in [Goroutines -> Seq(Batch)]
  BY DEF TypeInv, AgentOK, SendBatch
<1>3. CASE ~online
  <2>1. up' = up /\ reports' = [reports EXCEPT ![g] = <<>>]
    BY <1>2, <1>3 DEF SendBatch, ToHub
  <2>2. PICK b : b = <<>>
    OBVIOUS
  <2>3. Parts(b) /\ reports' = [reports EXCEPT ![g] = b] /\ ~(b # <<>>)
    BY <2>1, <2>2, NoParts
  <2> QED
    BY <1>1, <2>1, <2>3, PartsScanned
<1>4. CASE online
  <2>1. up' = Append(up, m) /\ reports' = [reports EXCEPT ![g] = Tail(bs)]
    BY <1>2, <1>4 DEF SendBatch, ToHub
  <2>2. /\ Parts(Tail(bs)) /\ m = bs[1] /\ m \in Batch
        /\ Tail(bs) # <<>> => Len(bs) = 2 /\ Head(Tail(bs)) = bs[2]
    BY <1>2, TailParts
  <2>3. Complete(Len(up) + 1, m)
    BY <1>1, <1>2 DEF PartsInv
  <2>4. ASSUME NEW h \in Goroutines, reports'[h] # <<>>
        PROVE  Fits(m, Head(reports'[h])) \/ (reports'[h] = reports[h] /\ ~Ends(m))
    <3>1. CASE h = g
      <4>1. reports'[h] = Tail(bs)
        BY <1>2, <2>1, <3>1
      <4>2. Len(bs) = 2 /\ Head(reports'[h]) = bs[2]
        BY <2>2, <2>4, <4>1
      <4>3. Fits(bs[1], bs[2])
        <5>1. m.kind = "report"
          BY <2>2, BatchIs
        <5> QED
          BY <1>2, <2>2, <4>2, <5>1 DEF Parts, Fits, Begins, Ends, Missing
      <4> QED
        BY <2>2, <4>2, <4>3
    <3>2. CASE h # g
      <4>1. reports'[h] = reports[h]
        BY <1>2, <2>1, <3>2
      <4>2. m.full => ~HalfSent(h)
        BY <3>2 DEF SendBatch, Unbroken
      <4>3. ASSUME Ends(m)
            PROVE  ~(Ends(Head(reports[h])) /\ Missing(Head(reports[h])) # {})
        BY <2>4, <4>1, <4>2, <4>3 DEF HalfSent, Ends, Missing
      <4> QED
        BY <4>1, <4>3 DEF Fits
    <3> QED
      BY <3>1, <3>2
  <2> QED
    BY <1>1, <2>1, <2>2, <2>3, <2>4, PartsSent
<1> QED
  BY <1>3, <1>4 DEF TypeInv, NetOK

LEMMA PartsSendAck ==
    ASSUME TypeInv, PartsInv, SendAck
    PROVE  PartsInv'
<1> SUFFICES ASSUME Unbroken' PROVE PartsInv'
  BY DEF PartsInv
<1>1. Unbroken /\ UNCHANGED <<work, fullSeen, reports>> /\ mishaps \subseteq mishaps'
  BY DEF Unbroken, SendAck, hub, Note
<1>2. CASE ~online
  <2>1. up' = up
    BY <1>2 DEF SendAck, ToHub
  <2> QED
    BY <1>1, <2>1, PartsStay
<1>3. CASE online
  <2>1. up' = Append(up, due) /\ due \in Ack
    BY <1>3 DEF SendAck, ToHub, TypeInv, AgentOK
  <2>2. due.kind = "ack"
    BY <2>1 DEF Ack
  <2>3. ~Ends(due)
    BY <2>2 DEF Ends
  <2>4. Complete(Len(up) + 1, due)
    BY <2>3 DEF Complete
  <2> QED
    BY <1>1, <2>1, <2>3, <2>4, PartsSent
<1> QED
  BY <1>2, <1>3 DEF TypeInv, NetOK

\* The hub works on a batch.
LEMMA PartsWorked ==
    ASSUME PartsInv, Unbroken, UNCHANGED <<up, reports>>, Upcoming \subseteq Upcoming',
           DOMAIN work'.batch.items \subseteq work'.seen \cup work'.todo \cup {work'.path},
           work'.batch.full /\ work'.batch.final =>
               work'.batch.all \subseteq fullSeen' \cup DOMAIN work'.batch.items
    PROVE  PartsInv'
<1>1. \A i, b : Complete(i, b) => Complete(i, b)'
  BY CompleteAs
<1>2. \A i \in 1 .. Len(up) : Complete(i, up[i])'
  BY <1>1 DEF PartsInv
<1>3. ASSUME NEW g \in Goroutines, reports[g] # <<>>
      PROVE  Complete(Len(up) + 1, Head(reports[g]))'
  <2>1. PICK n, b : n = Len(up) + 1 /\ b = Head(reports[g])
    OBVIOUS
  <2>2. Complete(n, b)'
    BY <1>1, <1>3, <2>1 DEF PartsInv
  <2>3. n = Len(up') + 1 /\ b = Head(reports'[g])
    BY <2>1
  <2> QED
    BY <2>2, <2>3
<1> QED
  BY <1>2, <1>3 DEF PartsInv

LEMMA PartsFindEvent ==
    ASSUME TypeInv, PartsInv, NEW p \in Paths, FindEvent(p)
    PROVE  PartsInv'
<1> SUFFICES ASSUME Unbroken' PROVE PartsInv'
  BY DEF PartsInv
<1>1. /\ Unbroken /\ UNCHANGED <<up, reports, fullSeen>>
  BY DEF Unbroken, FindEvent, history, agent, net
<1>2. /\ work'.batch = work.batch /\ work'.seen = work.seen
      /\ work'.todo = work.todo \ {p} /\ work'.path = p /\ work.path = None
  BY DEF FindEvent, TypeInv, WorkOK
<1>3. Upcoming \subseteq Upcoming'
  BY <1>1, <1>2 DEF Upcoming
<1>4. None \notin DOMAIN work.batch.items
  <2>1. DOMAIN work.batch.items \subseteq Paths
    BY BatchIs, ItemsAre DEF TypeInv, WorkOK
  <2> QED
    BY <2>1, DriftInboxAssumption
<1>5. DOMAIN work'.batch.items \subseteq work'.seen \cup work'.todo \cup {work'.path}
  BY <1>1, <1>2, <1>4 DEF PartsInv
<1> QED
  BY <1>1, <1>2, <1>3, <1>5, PartsWorked DEF PartsInv

LEMMA PartsSaveEvent ==
    ASSUME TypeInv, PartsInv, SaveEvent
    PROVE  PartsInv'
<1> SUFFICES ASSUME Unbroken' PROVE PartsInv'
  BY DEF PartsInv
<1> DEFINE es == Saved(work.path, work.batch.items[work.path])
           seen == work.seen \cup {work.path}
<1>1. /\ Unbroken /\ UNCHANGED <<up, reports>> /\ Continue(es, seen)
  BY DEF Unbroken, SaveEvent, history, agent, net, Saved
<1>2. /\ DOMAIN work.batch.items \subseteq seen \cup work.todo
      /\ work.batch.full /\ work.batch.final =>
             work.batch.all \subseteq fullSeen \cup DOMAIN work.batch.items
  BY <1>1 DEF PartsInv
<1> HIDE DEF es, seen
<1>3. CASE work.todo # {}
  <2>1. /\ work' = [work EXCEPT !.seen = seen, !.path = None, !.event = 0] /\ fullSeen' = fullSeen
    BY <1>1, <1>3 DEF Continue
  <2>2. work'.batch = work.batch /\ work'.seen = seen /\ work'.todo = work.todo
    BY <2>1 DEF TypeInv, WorkOK
  <2>3. Upcoming \subseteq Upcoming'
    BY <2>1, <2>2 DEF Upcoming
  <2> QED
    BY <1>1, <1>2, <2>1, <2>2, <2>3, PartsWorked
<1>4. CASE work.todo = {}
  <2>1. /\ work' = NoWork
        /\ fullSeen' = CASE ~work.batch.full -> fullSeen
                         [] work.batch.full /\ work.batch.final -> {}
                         [] OTHER -> fullSeen \cup seen
    BY <1>1, <1>4 DEF Continue, AllSeen
  <2>2. DOMAIN work'.batch.items = {} /\ ~work'.batch.full
    BY <2>1 DEF NoWork, NoBatch
  <2>3. work.batch.full \in BOOLEAN /\ work.batch.final \in BOOLEAN
    BY BatchIs DEF TypeInv, WorkOK
  <2>4. Upcoming' = fullSeen'
    BY <2>2 DEF Upcoming
  <2>5. Upcoming \subseteq fullSeen'
    <3>1. CASE ~work.batch.full
      <4>1. fullSeen' = fullSeen
        BY <2>1, <2>3, <3>1
      <4> QED
        BY <3>1, <4>1 DEF Upcoming
    <3>2. CASE work.batch.full /\ work.batch.final
      BY <3>2 DEF Upcoming
    <3>3. CASE work.batch.full /\ ~work.batch.final
      <4>1. fullSeen' = fullSeen \cup seen
        BY <2>1, <2>3, <3>3
      <4>2. DOMAIN work.batch.items \subseteq seen
        BY <1>2, <1>4
      <4> QED
        BY <3>3, <4>1, <4>2 DEF Upcoming
    <3> QED
      BY <2>3, <3>1, <3>2, <3>3
  <2> QED
    BY <1>1, <2>2, <2>4, <2>5, PartsWorked
<1> QED
  BY <1>3, <1>4

\* The queue is lost without a report in it.
LEMMA PartsBroken ==
    ASSUME TypeInv, PartsInv, Unbroken, ~ReportIn(up), up' = <<>>, reports' = reports,
           Upcoming \subseteq Upcoming',
           DOMAIN work'.batch.items \subseteq work'.seen \cup work'.todo \cup {work'.path},
           work'.batch.full /\ work'.batch.final =>
               work'.batch.all \subseteq fullSeen' \cup DOMAIN work'.batch.items
    PROVE  PartsInv'
<1>1. Len(up') = 0
  OBVIOUS
<1>2. ASSUME NEW g \in Goroutines, reports[g] # <<>>
      PROVE  Complete(Len(up) + 1, Head(reports[g]))'
  <2>1. PICK n, b : n = Len(up) + 1 /\ b = Head(reports[g])
    OBVIOUS
  <2>2. Complete(n, b)
    BY <1>2, <2>1 DEF PartsInv
  <2>3. Given(n, Missing(b)) => Missing(b) \subseteq Upcoming
    BY DEF Given, Begins, ReportIn
  <2>4. PICK i : i = Len(up') + 1
    OBVIOUS
  <2>5. \A k \in 1 .. Len(up') : FALSE
    BY <1>1
  <2>6. Complete(i, b)'
    BY <2>2, <2>3, <2>5 DEF Complete, Given, Ends, Missing
  <2>7. b = Head(reports'[g])
    BY <2>1
  <2> QED
    BY <2>4, <2>6, <2>7
<1>3. \A i \in 1 .. Len(up') : Complete(i, up[i])'
  BY <1>1
<1> QED
  BY <1>2, <1>3 DEF PartsInv

LEMMA PartsFaults ==
    ASSUME TypeInv, PartsInv, Disconnect \/ Restart
    PROVE  PartsInv'
<1> SUFFICES ASSUME Unbroken' PROVE PartsInv'
  BY DEF PartsInv
<1>1. Unbroken /\ ~ReportIn(up) /\ up' = <<>> /\ reports' = reports
  BY DEF Unbroken, Disconnect, Restart, agent
<1>2. CASE Disconnect
  <2>1. UNCHANGED <<work, fullSeen>>
    BY <1>2 DEF Disconnect
  <2>2. Upcoming \subseteq Upcoming'
    BY <2>1 DEF Upcoming
  <2> QED
    BY <1>1, <2>1, <2>2, PartsBroken DEF PartsInv
<1>3. CASE Restart
  <2>1. work = NoWork /\ fullSeen = {} /\ work' = NoWork /\ fullSeen' = {}
    BY <1>3 DEF Restart, Unbroken
  <2>2. Upcoming \subseteq Upcoming' /\ DOMAIN work'.batch.items = {} /\ ~work'.batch.full
    BY <2>1 DEF Upcoming, NoWork, NoBatch
  <2> QED
    BY <1>1, <2>2, PartsBroken
<1> QED
  BY <1>2, <1>3

LEMMA PartsReported ==
    ASSUME TypeInv, PartsInv, Survey \/ \E full \in BOOLEAN, T \in SUBSET Paths : Scan(full, T)
    PROVE  PartsInv'
<1>1. UNCHANGED <<work, fullSeen, up>> /\ mishaps \subseteq mishaps'
  BY DEF Survey, Scan, hub, net, history
<1>2. ASSUME NEW full \in BOOLEAN, NEW T \in SUBSET Paths, Scan(full, T)
      PROVE  PartsInv'
  <2>1. PICK bs \in BatchesOf(disk, Differing \ T, full) : reports' = [reports EXCEPT !["watcher"] = bs]
    BY <1>2 DEF Scan
  <2>2. disk \in Files /\ Differing \ T \in SUBSET Paths /\ "watcher" \in Goroutines
    BY DriftsKnown DEF TypeInv, AgentOK, Differing, Drifted, Goroutines
  <2>3. Parts(bs) /\ (bs # <<>> /\ bs[1].full => DOMAIN bs[1].items = bs[1].all \/ ~bs[1].final)
    BY <2>1, <2>2, BatchesTyped
  <2> QED
    BY <1>1, <2>1, <2>2, <2>3, PartsScanned
<1>3. CASE Survey
  <2>1. PICK bs \in BatchesOf(disk, Drifted(disk, base', ignored'), TRUE) :
            reports' = [reports EXCEPT !["handler"] = bs]
    BY <1>3 DEF Survey
  <2>2. disk \in Files /\ Drifted(disk, base', ignored') \in SUBSET Paths /\ "handler" \in Goroutines
    BY DEF TypeInv, AgentOK, Drifted, Goroutines
  <2>3. Parts(bs) /\ (bs # <<>> /\ bs[1].full => DOMAIN bs[1].items = bs[1].all \/ ~bs[1].final)
    BY <2>1, <2>2, BatchesTyped
  <2> QED
    BY <1>1, <2>1, <2>2, <2>3, PartsScanned
<1> QED
  BY <1>2, <1>3

LEMMA NextParts == TypeInv /\ PartsInv /\ [Next]_vars => PartsInv'
<1> SUFFICES ASSUME TypeInv, PartsInv, [Next]_vars PROVE PartsInv'
  OBVIOUS
<1>1. CASE UNCHANGED <<work, fullSeen, up, reports>> /\ mishaps \subseteq mishaps'
  BY <1>1, PartsStay
<1>2. CASE PassOver
  <2>1. ~Unbroken'
    BY <1>2 DEF PassOver, Unbroken
  <2> QED
    BY <2>1 DEF PartsInv
<1>3. CASE \/ TakeReport \/ SaveEvent \/ TakeAck \/ SendAck \/ Disconnect \/ Restart \/ Survey
           \/ \E T \in SUBSET Paths : Scan(FALSE, T)
           \/ Scan(TRUE, {})
           \/ \E g \in Goroutines : SendBatch(g)
           \/ \E p \in Paths : FindEvent(p)
  BY <1>3, PartsTakeReport, PartsSaveEvent, PartsTakeAck, PartsSendAck, PartsFaults, PartsReported,
     PartsSendBatch, PartsFindEvent
<1>4. CASE \/ \E D \in SUBSET Paths : ApplyFails(D)
           \/ \E ok \in BOOLEAN : RestoreFiles(ok)
           \/ Apply \/ IgnoreFiles \/ ReloadWatcher
  BY <1>1, <1>4 DEF ApplyFails, RestoreFiles, Apply, IgnoreFiles, ReloadWatcher, hub, net, history, Note
<1>5. CASE \/ \E p \in Paths : \/ Remanage(p)
                               \/ \E c \in Contents \cup {None} : Edit(p, c) \/ Publish(p, c)
           \/ \E E \in SUBSET Ids : StartAdopt(E) \/ Restore(E)
           \/ \E e \in Ids, scope \in {"own", "global"} : Ignore(e, scope)
           \/ \E m \in Modes : Assign(m)
           \/ MarkAdopted \/ ReadMode \/ ReadHead \/ SendSnapshot \/ Reconnect
  BY <1>1, <1>5 DEF Remanage, Edit, Publish, StartAdopt, Restore, Ignore, Assign, MarkAdopted, ReadMode,
                    ReadHead, SendSnapshot, Reconnect, Note, hub, net, history, agent
<1>6. CASE UNCHANGED vars
  BY <1>1, <1>6 DEF vars, hub, net, history, agent
<1> QED
  BY <1>2, <1>3, <1>4, <1>5, <1>6 DEF Next, User, Agent, Hub

\* What one step of the hub closes, it has not been shown by the report.
LEMMA ClosedWere ==
    ASSUME TypeInv, PartsInv, Unbroken', SaveEvent, NEW e \in 1 .. Len(events),
           events[e].state = "open", events'[e].state = "superseded"
    PROVE  events[e].path \notin work.batch.all
<1> DEFINE p == work.path
           c == work.batch.items[work.path]
           es == Saved(p, c)
           seen == work.seen \cup {work.path}
<1>1. Continue(es, seen) /\ Unbroken /\ work.path # None
  BY DEF SaveEvent, Saved, Unbroken, history
<1>2. /\ es \in Seq(Event) /\ Len(events) <= Len(es) /\ Len(events) \in Nat
  BY <1>1, SavedTyped DEF TypeInv, EventsOK
<1>3. es[e].state = "open" /\ es[e].path = events[e].path
  <2>1. events \in Seq(Event) /\ Single(events)
    BY DEF TypeInv, EventsOK
  <2>2. CASE work.event = 0
    <3>1. es = Append(events, [path |-> p, content |-> c, state |-> "open"])
      BY <2>2 DEF Saved
    <3>2. es[e] = events[e]
      BY <2>1, <3>1
    <3> QED
      BY <3>2
  <2>3. CASE work.event # 0
    <3>1. PICK n : n = work.event
      OBVIOUS
    <3>2. n \in 1 .. Len(events)
      BY <1>2, <2>3, <3>1 DEF TypeInv, WorkOK
    <3>3. PICK d \in Contents \cup {None} : d = c
      <4>1. p \in DOMAIN work.batch.items /\ work.batch \in Batch
        BY <1>1 DEF TypeInv, WorkOK
      <4>2. c \in Contents \cup {None}
        BY <4>1, BatchIs, ItemsAre DEF Found
      <4> QED
        BY <4>2
    <3>4. es = Rewritten(events, n, d)
      BY <2>3, <3>1, <3>3 DEF Saved, Rewritten
    <3> HIDE DEF es, p, c
    <3>5. Rewritten(events, n, d)[e].path = events[e].path /\ Rewritten(events, n, d)[e].state = events[e].state
      BY <2>1, <3>2, RewrittenKeeps
    <3> QED
      BY <3>4, <3>5
  <2> QED
    BY <2>2, <2>3
<1> HIDE DEF es, p, c
<1>4. e \in DOMAIN es
  BY <1>2
<1>5. work.todo = {} /\ work.batch.full /\ work.batch.final /\ e \in Vanished(es, seen)
  <2>1. events' # es
    BY <1>3
  <2>2. /\ work.todo = {} /\ work.batch.full /\ work.batch.final
        /\ events' = Closed(es, Vanished(es, seen), "superseded")
    BY <1>1, <2>1 DEF Continue
  <2>3. e \in Vanished(es, seen)
    BY <1>3, <1>4, <2>2 DEF Closed
  <2> QED
    BY <2>2, <2>3
<1>6. events[e].path \notin fullSeen \cup seen
  BY <1>3, <1>5 DEF Vanished, AllSeen
<1>7. work.batch.all \subseteq fullSeen \cup DOMAIN work.batch.items /\ DOMAIN work.batch.items \subseteq seen
  BY <1>1, <1>5 DEF PartsInv
<1> QED
  BY <1>6, <1>7

\* The other steps close events without a report, or as something else.
LEMMA OthersClose ==
    ASSUME TypeInv, Unbroken', [Next]_vars, ~SaveEvent, work # NoWork, NEW e \in 1 .. Len(events),
           events[e].state = "open"
    PROVE  events'[e].state # "superseded"
<1>1. DOMAIN events = 1 .. Len(events)
  BY DEF TypeInv, EventsOK
<1>2. CASE UNCHANGED events
  BY <1>2
<1>3. CASE PassOver
  BY <1>3 DEF PassOver, Unbroken
<1>4. CASE MarkAdopted \/ \E d \in Ids, scope \in {"own", "global"} : Ignore(d, scope)
  <2>1. PICK E, s : events' = Closed(events, E, s) /\ s \in {"adopted", "ignored"}
    <3>1. CASE MarkAdopted
      <4>1. events' = Closed(events, adopting, "adopted")
        BY <3>1 DEF MarkAdopted
      <4> QED
        BY <4>1, Zenon
    <3>2. ASSUME NEW d \in Ids, NEW scope \in {"own", "global"}, Ignore(d, scope)
          PROVE  \E E, s : events' = Closed(events, E, s) /\ s \in {"adopted", "ignored"}
      <4>1. events' = Closed(events, {d}, "ignored")
        BY <3>2 DEF Ignore
      <4> QED
        BY <4>1, Zenon
    <3> QED
      BY <1>4, <3>1, <3>2
  <2>2. events'[e] = events[e] \/ events'[e] = [events[e] EXCEPT !.state = s]
    BY <1>1, <2>1 DEF Closed
  <2>3. events[e] \in Event
    BY DEF TypeInv, EventsOK
  <2>4. PICK v \in Event : v = events[e]
    BY <2>3
  <2>5. [v EXCEPT !.state = s].state = s
    BY DEF Event
  <2> QED
    BY <2>1, <2>2, <2>4, <2>5
<1>5. CASE Agent
  BY <1>2, <1>5 DEF Agent, Scan, SendBatch, ApplyFails, RestoreFiles, Survey, Apply, IgnoreFiles,
                    ReloadWatcher, SendAck, hub
<1>6. CASE \/ \E p \in Paths : \/ Remanage(p)
                               \/ \E c \in Contents \cup {None} : Edit(p, c) \/ Publish(p, c)
           \/ \E E \in SUBSET Ids : StartAdopt(E) \/ Restore(E)
           \/ \E m \in Modes : Assign(m)
  BY <1>2, <1>6 DEF Remanage, Edit, Publish, StartAdopt, Restore, Assign, hub
<1>7. CASE \/ TakeReport \/ TakeAck \/ ReadMode \/ ReadHead \/ SendSnapshot \/ \E p \in Paths : FindEvent(p)
  <2>1. ~TakeReport /\ ~TakeAck
    BY DEF TakeReport, TakeAck
  <2>2. ASSUME NEW p \in Paths, FindEvent(p)
        PROVE  UNCHANGED events
    BY <2>2 DEF FindEvent
  <2>3. CASE ReadMode \/ ReadHead \/ SendSnapshot
    BY <2>3 DEF ReadMode, ReadHead, SendSnapshot
  <2> QED
    BY <1>2, <1>7, <2>1, <2>2, <2>3
<1>8. CASE Disconnect \/ Reconnect \/ Restart \/ UNCHANGED vars
  BY <1>2, <1>8 DEF Disconnect, Reconnect, Restart, vars, hub
<1> QED
  BY <1>3, <1>4, <1>5, <1>6, <1>7, <1>8 DEF Next, User, Hub

\* A full report closes the events of paths its scan has not found, whatever else is reported and
\* closed between its parts (drift/service.go, HandleReport and closeVanished): what it found is
\* in the paths seen before or in its last part, on the agent, on the way and at the hub.
THEOREM ClosedWasGone == Spec => ClosedHadVanished
<1>1. TypeInv /\ PartsInv /\ [Next]_vars =>
          [\A e \in Ids : events[e].state = "open" /\ events'[e].state = "superseded"
                            /\ work # NoWork /\ mishaps' \cap {"failed", "torn", "mixed"} = {} =>
               events[e].path \notin work.batch.all]_vars
  BY ClosedWere, OthersClose DEF Ids, Unbroken
<1>2. Spec => [](TypeInv /\ PartsInv)
  BY TypesStay, InitParts, NextParts, PTL DEF Spec
<1> QED
  BY <1>1, <1>2, PTL DEF Spec, ClosedHadVanished

=============================================================================
