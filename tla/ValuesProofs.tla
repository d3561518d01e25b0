---------------------------- MODULE ValuesProofs ----------------------------
(***************************************************************************)
(* Proofs about Values: types, that a machine which has been told holds    *)
(* the values of the hub, and that a report puts the placeholders back.    *)
(***************************************************************************)
EXTENDS Values, SequenceTheorems, FiniteSetTheorems, TLAPS

-----------------------------------------------------------------------------
(* Types.                                                                  *)

Heads == [file : Files, bound : BOOLEAN]
MaybeKeys == Keys \cup {None}
MaybeTexts == Texts \cup {None}

Idle == [at : {"none", "notify", "publish"}, was : {None}, in : {None}, new : {None}, tell : {FALSE}]
Saving == [at : {"save"}, was : Records, in : Forms, new : Records, tell : BOOLEAN]
Faults == {"none", "ErrBindingMissing", "ErrAgentTooOld", "ErrEndpointMissing", "ErrNoKey"}
Assembling == [at : {"provider"}, head : Heads, var : MaybeTexts]
Answering == [at : {"answer"}, fault : Faults, snap : Snapshots]
Messages == [kind : {"notice"}, snap : {None}] \cup [kind : {"snapshot"}, snap : Snapshots]

HubOK == prov \in Records /\ var \in MaybeTexts /\ head \in Heads /\ old \in BOOLEAN
CallsOK == call \in [Calls -> Idle \cup Saving]
AsmOK == asm \in [Links -> {NoAsm} \cup Assembling \cup Answering]
NetOK ==
    /\ down \in Seq(Messages) /\ up \in [Links -> Seq({"pull", "ack"})]
    /\ link \in Links \cup {0} /\ online \in BOOLEAN /\ session \in BOOLEAN
    /\ online => link \in Links
    /\ session => online
AgentOK ==
    /\ cache \in Lookups /\ pending \in Snapshots \cup {None} /\ rec \in Entries \cup {None}
    /\ sec \in Lookups /\ applied \in Files \cup {None}
RestOK == assign \in {"pending", "aligned", "failed"} /\ mishaps \subseteq {"untold", "raced", "overtaken", "mixed", "early"}

TypeInv == HubOK /\ CallsOK /\ AsmOK /\ NetOK /\ AgentOK /\ RestOK

LEMMA TypesAll == TypeInv => TypeOK
BY DEF TypeInv, TypeOK, HubOK, AgentOK, NetOK, RestOK, Heads, MaybeTexts

LEMMA EndpointKnown == \A r \in ProviderKeys : EndpointOf(r) \in Endpoints
BY DEF EndpointOf, Endpoints, ProviderKeys, SecretKeys

LEMMA KeyTyped == ASSUME NEW p \in Records, NEW e \in Endpoints
                  PROVE  Key(p, e) \in MaybeKeys /\ p.end[e].url \in MaybeTexts
BY DEF Records, Endpoint, Key, MaybeKeys, MaybeTexts

LEMMA ValueTyped ==
    ASSUME NEW p \in Records, NEW r \in ProviderKeys
    PROVE  ValueOf(p, r) \in MaybeTexts
<1>1. MaybeKeys \subseteq MaybeTexts
  BY ValuesAssumption DEF MaybeKeys, MaybeTexts
<1>2. EndpointOf(r) \in Endpoints /\ "claude" \in Endpoints
  BY EndpointKnown DEF Endpoints
<1>3. Key(p, EndpointOf(r)) \in MaybeKeys /\ p.end["claude"].url \in MaybeTexts
  BY <1>2, KeyTyped
<1> QED
  BY <1>1, <1>3 DEF ValueOf

LEMMA SnapshotTyped ==
    ASSUME NEW h \in Heads, NEW v \in MaybeTexts, NEW p \in Records
    PROVE  Snapshot(h, v, p) \in Snapshots
<1> DEFINE look == [r \in Refs |-> CASE r = "machine" -> MachineName
                                     [] r = "var" -> IF r \in RefsOf(h.file) THEN v ELSE None
                                     [] OTHER -> IF r \in RefsOf(h.file) THEN ValueOf(p, r) ELSE None]
<1>1. ASSUME NEW r \in Refs
      PROVE  look[r] \in MaybeTexts
  <2>1. CASE r = "machine"
    BY <2>1, ValuesAssumption DEF MaybeTexts
  <2>2. CASE r = "var"
    BY <2>2 DEF MaybeTexts
  <2>3. CASE r \notin {"machine", "var"}
    <3>1. r \in ProviderKeys
      BY <2>3 DEF Refs
    <3>2. ValueOf(p, r) \in MaybeTexts
      BY <3>1, ValueTyped
    <3> QED
      BY <2>3, <3>2 DEF MaybeTexts
  <2> QED
    BY <2>1, <2>2, <2>3
<1>2. look \in Lookups
  BY <1>1 DEF Lookups, MaybeTexts
<1>3. h.file \in Files
  BY DEF Heads
<1> HIDE DEF look
<1>4. [file |-> h.file, look |-> look] \in Snapshots
  BY <1>2, <1>3 DEF Snapshots
<1> QED
  BY <1>4 DEF Snapshot, look

LEMMA RenderTyped ==
    ASSUME NEW file \in Files, NEW look \in Lookups, Renders(file, look)
    PROVE  Render(file, look) \in Contents
<1>1. ASSUME NEW s \in Slots
      PROVE  (IF file[s] \in Refs THEN look[file[s]] ELSE file[s]) \in Texts
  <2>1. file[s] \in Refs \cup Texts
    BY DEF Files
  <2>2. CASE file[s] \in Refs
    <3>1. file[s] \in RefsOf(file)
      BY <2>2 DEF RefsOf
    <3> QED
      BY <2>2, <3>1 DEF Renders, Lookups
  <2> QED
    BY <2>1, <2>2
<1> QED
  BY <1>1 DEF Render, Contents

-----------------------------------------------------------------------------
(* The record of the provider.                                             *)

\* A record put together from its columns.
Made(k, own, end) == [key |-> k, own |-> own, end |-> end]

LEMMA MadeIs ==
    ASSUME NEW k, NEW own, NEW end
    PROVE  /\ Made(k, own, end).key = k /\ Made(k, own, end).own = own /\ Made(k, own, end).end = end
           /\ k \in MaybeKeys /\ own \in [Endpoints -> MaybeKeys] /\ end \in [Endpoints -> Endpoint] =>
                  Made(k, own, end) \in Records
BY DEF Made, Records, MaybeKeys

\* One column is set.
WithEnd(p, x) == [p EXCEPT !.end = x]
WithOwn(p, x) == [p EXCEPT !.own = x]

LEMMA MadeWith ==
    ASSUME NEW k, NEW own, NEW end, NEW x
    PROVE  /\ WithEnd(Made(k, own, end), x) = Made(k, own, x)
           /\ WithOwn(Made(k, own, end), x) = Made(k, x, end)
BY DEF Made, WithEnd, WithOwn

LEMMA RecordIs ==
    ASSUME NEW p \in Records
    PROVE  /\ p = Made(p.key, p.own, p.end)
           /\ p.key \in MaybeKeys /\ p.own \in [Endpoints -> MaybeKeys] /\ p.end \in [Endpoints -> Endpoint]
BY DEF Made, Records, MaybeKeys

LEMMA FormIs ==
    ASSUME NEW in \in Forms
    PROVE  /\ in.key \in MaybeKeys \cup {"keep"} /\ in.own \in [Endpoints -> MaybeKeys \cup {"keep"}]
           /\ in.url \in [Endpoints -> MaybeTexts]
BY DEF Forms, MaybeKeys, MaybeTexts

LEMMA StampIs ==
    ASSUME NEW k \in MaybeKeys, NEW own \in [Endpoints -> MaybeKeys], NEW end \in [Endpoints -> Endpoint]
    PROVE  /\ StampLast4(Made(k, own, end)) \in Records
           /\ StampLast4(Made(k, own, end)).key = k /\ StampLast4(Made(k, own, end)).own = own
<1> DEFINE p == Made(k, own, end)
           end2 == [e \in Endpoints |-> [url |-> p.end[e].url, last4 |-> Key(p, e)]]
<1>1. p.end = end /\ p.own = own /\ p.key = k /\ p \in Records
  BY MadeIs
<1>2. StampLast4(p) = Made(k, own, end2)
  <2>1. StampLast4(p) = WithEnd(p, end2)
    BY DEF StampLast4, WithEnd
  <2> HIDE DEF end2
  <2>2. WithEnd(p, end2) = Made(k, own, end2)
    BY MadeWith
  <2> QED
    BY <2>1, <2>2
<1> HIDE DEF p
<1>3. ASSUME NEW e \in Endpoints
      PROVE  [url |-> p.end[e].url, last4 |-> Key(p, e)] \in Endpoint
  <2>1. Key(p, e) \in MaybeKeys /\ p.end[e].url \in MaybeTexts
    BY <1>1, KeyTyped
  <2> QED
    BY <2>1 DEF Endpoint, MaybeKeys, MaybeTexts
<1>4. end2 \in [Endpoints -> Endpoint]
  BY <1>3
<1> HIDE DEF end2
<1>5. /\ Made(k, own, end2) \in Records
      /\ Made(k, own, end2).key = k /\ Made(k, own, end2).own = own
  BY <1>4, MadeIs
<1> QED
  BY <1>2, <1>5 DEF p

LEMMA ApplyKeyTyped ==
    ASSUME NEW was \in MaybeKeys, NEW in \in MaybeKeys \cup {"keep"}
    PROVE  ApplyKey(was, in) \in MaybeKeys
BY DEF ApplyKey

LEMMA ApplyInputTyped ==
    ASSUME NEW p \in Records, NEW in \in Forms
    PROVE  /\ ApplyInput(p, in) \in Records
           /\ ApplyInput(p, in).key = ApplyKey(p.key, in.key)
           /\ ApplyInput(p, in).own = [e \in Endpoints |-> ApplyKey(p.own[e], in.own[e])]
<1> DEFINE k == ApplyKey(p.key, in.key)
           own == [e \in Endpoints |-> ApplyKey(p.own[e], in.own[e])]
           end == [e \in Endpoints |-> [url |-> in.url[e], last4 |-> None]]
<1>1. k \in MaybeKeys
  BY RecordIs, FormIs, ApplyKeyTyped
<1>2. own \in [Endpoints -> MaybeKeys]
  <2>1. \A e \in Endpoints : p.own[e] \in MaybeKeys /\ in.own[e] \in MaybeKeys \cup {"keep"}
    BY RecordIs, FormIs
  <2>2. \A e \in Endpoints : ApplyKey(p.own[e], in.own[e]) \in MaybeKeys
    BY <2>1, ApplyKeyTyped
  <2> QED
    BY <2>2
<1>3. end \in [Endpoints -> Endpoint]
  BY FormIs DEF Endpoint, MaybeTexts
<1>4. ApplyInput(p, in) = StampLast4(Made(k, own, end))
  BY DEF ApplyInput, Made
<1> HIDE DEF k, own, end
<1>5. /\ StampLast4(Made(k, own, end)) \in Records
      /\ StampLast4(Made(k, own, end)).key = k /\ StampLast4(Made(k, own, end)).own = own
  BY <1>1, <1>2, <1>3, StampIs
<1> QED
  BY <1>4, <1>5 DEF k, own

LEMMA NoProviderTyped == NoProvider \in Records
BY DEF NoProvider, Records, Endpoint

LEMMA ExtractIs ==
    ASSUME NEW p \in Records, NEW e \in Endpoints, NEW k \in Keys
    PROVE  /\ SetEndpointKey(p, e, k) \in Records
           /\ SetEndpointKey(p, e, k).key = p.key
           /\ SetEndpointKey(p, e, k).own = [p.own EXCEPT ![e] = k]
           /\ \A f \in Endpoints : SetEndpointKey(p, e, k).end[f].url = p.end[f].url
           /\ KeyInput(p, e, k) \in Forms
<1> DEFINE own == [p.own EXCEPT ![e] = k]
           end == [p.end EXCEPT ![e].last4 = k]
<1>1. p.own \in [Endpoints -> MaybeKeys] /\ p.end \in [Endpoints -> Endpoint] /\ p.key \in MaybeKeys
  BY RecordIs
<1>2. own \in [Endpoints -> MaybeKeys]
  BY <1>1 DEF MaybeKeys
<1>3. end \in [Endpoints -> Endpoint] /\ \A f \in Endpoints : end[f].url = p.end[f].url
  <2>1. p.end[e] \in Endpoint
    BY <1>1
  <2>2. [p.end[e] EXCEPT !.last4 = k] \in Endpoint /\ [p.end[e] EXCEPT !.last4 = k].url = p.end[e].url
    BY <2>1 DEF Endpoint
  <2>3. end = [p.end EXCEPT ![e] = [p.end[e] EXCEPT !.last4 = k]]
    OBVIOUS
  <2> HIDE DEF end
  <2> QED
    BY <1>1, <2>2, <2>3
<1>4. SetEndpointKey(p, e, k) = Made(p.key, own, end)
  <2>1. p = Made(p.key, p.own, p.end)
    BY RecordIs
  <2>2. PICK q : q = WithOwn(p, own)
    OBVIOUS
  <2>3. q = Made(p.key, own, p.end)
    <3> HIDE DEF own
    <3> QED
      BY <2>1, <2>2, MadeWith
  <2>4. q.end = p.end
    BY <2>3, MadeIs
  <2>5. SetEndpointKey(p, e, k) = [q EXCEPT !.end[e].last4 = k]
    BY <2>2 DEF SetEndpointKey, WithOwn
  <2>6. [q EXCEPT !.end[e].last4 = k] = WithEnd(q, end)
    BY <2>4 DEF WithEnd
  <2>7. WithEnd(q, end) = Made(p.key, own, end)
    <3> HIDE DEF own, end
    <3> QED
      BY <2>3, MadeWith
  <2> QED
    BY <2>5, <2>6, <2>7
<1>5. KeyInput(p, e, k) \in Forms
  BY <1>1 DEF KeyInput, Forms, Endpoint
<1> HIDE DEF own, end
<1> QED
  BY <1>1, <1>2, <1>3, <1>4, <1>5, MadeIs DEF own

LEMMA SaveIs ==
    ASSUME NEW now \in Records, NEW was \in Records, NEW in \in Forms, NEW new \in Records
    PROVE  Save(now, was, in, new) \in Records
<1>1. \A x \in MaybeKeys, y, z \in MaybeKeys \cup {"keep"} : SaveKey(x, y, z) \in MaybeKeys
  BY DEF SaveKey
<1>2. SaveKey(now.key, was.key, in.key) \in MaybeKeys
  BY <1>1, RecordIs, FormIs
<1>3. [e \in Endpoints |-> SaveKey(now.own[e], was.own[e], in.own[e])] \in [Endpoints -> MaybeKeys]
  <2>1. \A e \in Endpoints : now.own[e] \in MaybeKeys /\ was.own[e] \in MaybeKeys
                             /\ in.own[e] \in MaybeKeys \cup {"keep"}
    BY RecordIs, FormIs
  <2> QED
    BY <1>1, <2>1
<1>4. [e \in Endpoints |-> IF new.end[e] = was.end[e] THEN now.end[e] ELSE new.end[e]]
      \in [Endpoints -> Endpoint]
  BY RecordIs
<1> QED
  BY <1>2, <1>3, <1>4, MadeIs DEF Save, Made

-----------------------------------------------------------------------------
(* Every step keeps the types.                                             *)

LEMMA NoCallTyped == NoCall \in Idle /\ \A at \in {"notify", "publish"} : [NoCall EXCEPT !.at = at] \in Idle
BY DEF NoCall, Idle

LEMMA NoValuesTyped == NoValues \in Lookups
BY DEF NoValues, Lookups

LEMMA NoticeTyped == Notice \in Messages
BY DEF Notice, Msg, Messages

LEMMA TookOf ==
    ASSUME NEW S, NEW q \in Seq(S), q # <<>>
    PROVE  /\ Tail(q) \in Seq(S) /\ Len(q) \in Nat \ {0} /\ Len(Tail(q)) = Len(q) - 1
           /\ Head(q) = q[1] /\ Head(q) \in S /\ 1 \in 1 .. Len(q)
           /\ \A i \in 1 .. Len(Tail(q)) : i + 1 \in 1 .. Len(q) /\ Tail(q)[i] = q[i + 1]
           /\ DOMAIN q = 1 .. Len(q) /\ DOMAIN Tail(q) = 1 .. Len(Tail(q))
BY HeadTailProperties, EmptySeq

LEMMA PutAt ==
    ASSUME NEW S, NEW q \in Seq(S), NEW m \in S
    PROVE  /\ Append(q, m) \in Seq(S) /\ Len(q) \in Nat /\ Len(Append(q, m)) = Len(q) + 1
           /\ DOMAIN q = 1 .. Len(q) /\ DOMAIN Append(q, m) = 1 .. Len(q) + 1
           /\ Append(q, m)[Len(q) + 1] = m /\ Append(q, m) # <<>>
           /\ \A i \in 1 .. Len(q) : Append(q, m)[i] = q[i]
BY EmptySeq

LEMMA InitTyped == Init => TypeInv
<1> SUFFICES ASSUME Init PROVE TypeInv
  OBVIOUS
<1>1. HubOK
  <2>1. prov \in Records
    <3>1. PICK in \in Inputs : prov = ApplyInput(NoProvider, in)
      BY DEF Init
    <3>2. in \in Forms
      BY ValuesAssumption
    <3> QED
      BY <3>1, <3>2, ApplyInputTyped, NoProviderTyped
  <2>2. head \in Heads
    BY ValuesAssumption DEF Init, Heads
  <2> QED
    BY <2>1, <2>2 DEF Init, HubOK, MaybeTexts
<1>2. CallsOK
  BY NoCallTyped DEF Init, CallsOK
<1>3. AsmOK
  BY DEF Init, AsmOK
<1>4. NetOK
  BY EmptySeq DEF Init, NetOK
<1>5. RestOK
  BY DEF Init, RestOK
<1>6. AgentOK
  BY NoValuesTyped DEF Init, AgentOK
<1> QED
  BY <1>1, <1>2, <1>3, <1>4, <1>5, <1>6 DEF TypeInv

LEMMA HubStays == ASSUME HubOK, UNCHANGED hub PROVE HubOK'
BY DEF HubOK, hub

LEMMA AgentStays == ASSUME AgentOK, UNCHANGED agent PROVE AgentOK'
BY DEF AgentOK, agent

LEMMA NetStays == ASSUME NetOK, UNCHANGED <<down, up, net>> PROVE NetOK'
BY DEF NetOK, net

LEMMA RestStays == ASSUME RestOK, UNCHANGED <<assign, mishaps>> PROVE RestOK'
BY DEF RestOK

LEMMA AsmStays == ASSUME AsmOK, UNCHANGED asm PROVE AsmOK'
BY DEF AsmOK

LEMMA AsmSet ==
    ASSUME AsmOK, NEW l, NEW v \in {NoAsm} \cup Assembling \cup Answering, asm' = [asm EXCEPT ![l] = v]
    PROVE  AsmOK'
BY DEF AsmOK

LEMMA UpSet ==
    ASSUME NetOK, NEW l, NEW q \in Seq({"pull", "ack"}), up' = [up EXCEPT ![l] = q], UNCHANGED <<down, net>>
    PROVE  NetOK'
BY DEF NetOK, net

\* What a read loop takes is the first message of its connection.
LEMMA PoppedIs ==
    ASSUME NetOK, NEW l \in Links, NEW k, Reads(l, k), Popped(l), UNCHANGED <<down, net>>
    PROVE  NetOK'
<1>1. up[l] \in Seq({"pull", "ack"}) /\ up[l] # <<>>
  BY DEF NetOK, Reads
<1>2. Tail(up[l]) \in Seq({"pull", "ack"})
  BY <1>1, TookOf
<1>3. up' = [up EXCEPT ![l] = Tail(up[l])]
  BY DEF Popped
<1> QED
  BY <1>2, <1>3, UpSet

LEMMA CallsSet ==
    ASSUME CallsOK, NEW c, NEW v \in Idle \cup Saving, call' = [call EXCEPT ![c] = v]
    PROVE  CallsOK'
BY DEF CallsOK

LEMMA Told ==
    ASSUME NetOK, RestOK, Tell, UNCHANGED <<up, net, assign>>
    PROVE  NetOK' /\ RestOK'
<1>1. down' \in Seq(Messages)
  BY NoticeTyped DEF NetOK, Tell, Send
<1> QED
  BY <1>1 DEF NetOK, RestOK, Tell, net

LEMMA StartTyped ==
    ASSUME TypeInv, NEW c \in Calls, StartUpdate(c) \/ StartExtract(c)
    PROVE  TypeInv'
<1>1. HubOK' /\ AsmOK' /\ NetOK' /\ AgentOK' /\ RestOK'
  BY HubStays, AgentStays, NetStays, RestStays, AsmStays DEF TypeInv, StartUpdate, StartExtract
<1>2. PICK in \in Forms, new \in Records, tell \in BOOLEAN :
          call' = [call EXCEPT ![c] = [at |-> "save", was |-> prov, in |-> in, new |-> new, tell |-> tell]]
  <2>1. prov \in Records
    BY DEF TypeInv, HubOK
  <2>2. CASE StartUpdate(c)
    <3>1. PICK in \in Inputs :
              call' = [call EXCEPT ![c] = [at |-> "save", was |-> prov, in |-> in,
                                           new |-> ApplyInput(prov, in), tell |-> TRUE]]
      BY <2>2 DEF StartUpdate
    <3>2. in \in Forms
      BY ValuesAssumption
    <3>3. ApplyInput(prov, in) \in Records
      BY <2>1, <3>2, ApplyInputTyped
    <3> QED
      BY <3>1, <3>2, <3>3
  <2>3. CASE StartExtract(c)
    <3>1. PICK e \in Endpoints, k \in Keys :
              call' = [call EXCEPT ![c] = [at |-> "save", was |-> prov, in |-> KeyInput(prov, e, k),
                                           new |-> SetEndpointKey(prov, e, k), tell |-> FALSE]]
      BY <2>3 DEF StartExtract
    <3>2. KeyInput(prov, e, k) \in Forms /\ SetEndpointKey(prov, e, k) \in Records
      BY <2>1, ExtractIs
    <3> QED
      BY <3>1, <3>2
  <2> QED
    BY <2>2, <2>3
<1>3. [at |-> "save", was |-> prov, in |-> in, new |-> new, tell |-> tell] \in Idle \cup Saving
  BY DEF TypeInv, HubOK, Saving
<1>4. CallsOK'
  BY <1>2, <1>3, CallsSet DEF TypeInv
<1> QED
  BY <1>1, <1>4 DEF TypeInv

LEMMA SavingIs ==
    ASSUME CallsOK, NEW c \in Calls, call[c].at = "save"
    PROVE  call[c] \in Saving /\ call[c].was \in Records /\ call[c].in \in Forms /\ call[c].new \in Records
           /\ call[c].tell \in BOOLEAN
<1>1. call[c] \in Saving
  BY DEF CallsOK, Idle
<1> QED
  BY <1>1 DEF Saving

LEMMA SaveTyped ==
    ASSUME TypeInv, NEW c \in Calls, SaveProvider(c)
    PROVE  TypeInv'
<1>1. AsmOK' /\ NetOK' /\ AgentOK' /\ RestOK'
  BY AgentStays, NetStays, AsmStays DEF TypeInv, SaveProvider, RestOK
<1>2. call[c].was \in Records /\ call[c].in \in Forms /\ call[c].new \in Records
  BY SavingIs DEF TypeInv, SaveProvider
<1>3. prov' \in Records
  BY <1>2, SaveIs DEF TypeInv, HubOK, SaveProvider
<1>4. HubOK'
  BY <1>3 DEF TypeInv, HubOK, SaveProvider
<1>5. CallsOK'
  <2>1. PICK v \in {NoCall, [NoCall EXCEPT !.at = "notify"]} : call' = [call EXCEPT ![c] = v]
    BY DEF SaveProvider
  <2>2. v \in Idle \cup Saving
    BY NoCallTyped
  <2> QED
    BY <2>1, <2>2, CallsSet DEF TypeInv
<1> QED
  BY <1>1, <1>4, <1>5 DEF TypeInv

LEMMA NotifyTyped ==
    ASSUME TypeInv, NEW c \in Calls, NotifyProvider(c) \/ NotifySet(c)
    PROVE  TypeInv'
<1>1. HubOK' /\ AsmOK' /\ AgentOK'
  BY HubStays, AgentStays, AsmStays DEF TypeInv, NotifyProvider, NotifySet
<1>2. CallsOK'
  BY NoCallTyped, CallsSet DEF TypeInv, NotifyProvider, NotifySet
<1>3. NetOK' /\ RestOK'
  BY Told, NetStays, RestStays DEF TypeInv, NotifyProvider, NotifySet
<1> QED
  BY <1>1, <1>2, <1>3 DEF TypeInv

LEMMA PublishTyped ==
    ASSUME TypeInv, NEW c \in Calls, Publish(c)
    PROVE  TypeInv'
<1>1. AsmOK' /\ AgentOK' /\ NetOK' /\ RestOK'
  BY AgentStays, AsmStays, NetStays, RestStays DEF TypeInv, Publish
<1>2. CallsOK'
  BY NoCallTyped, CallsSet DEF TypeInv, Publish
<1>3. HubOK'
  BY ValuesAssumption DEF TypeInv, HubOK, Publish, Heads
<1> QED
  BY <1>1, <1>2, <1>3 DEF TypeInv

LEMMA SetVariableTyped ==
    ASSUME TypeInv, SetVariable
    PROVE  TypeInv'
<1>1. CallsOK' /\ AsmOK' /\ AgentOK' /\ NetOK'
  BY AgentStays, AsmStays, NetStays DEF TypeInv, SetVariable, CallsOK
<1>2. HubOK' /\ RestOK'
  BY ValuesAssumption DEF TypeInv, HubOK, RestOK, SetVariable, MaybeTexts
<1> QED
  BY <1>1, <1>2 DEF TypeInv

LEMMA PullTyped ==
    ASSUME TypeInv, NEW l \in Links, Pull(l)
    PROVE  TypeInv'
<1>1. HubOK' /\ CallsOK' /\ AgentOK' /\ RestOK'
  BY HubStays, AgentStays, RestStays DEF TypeInv, Pull, CallsOK
<1>2. PICK v : v = [at |-> "provider", head |-> head, var |-> var]
  OBVIOUS
<1>3. v \in Assembling /\ asm' = [asm EXCEPT ![l] = v]
  BY <1>2 DEF TypeInv, HubOK, Pull, Assembling
<1>4. AsmOK'
  BY <1>3, AsmSet DEF TypeInv
<1>5. NetOK'
  BY PoppedIs DEF TypeInv, Pull
<1> QED
  BY <1>1, <1>4, <1>5 DEF TypeInv

LEMMA AsmIs ==
    ASSUME AsmOK, NEW l \in Links
    PROVE  /\ asm[l].at = "provider" => asm[l].head \in Heads /\ asm[l].var \in MaybeTexts
           /\ asm[l].at = "answer" => asm[l].fault \in Faults /\ asm[l].snap \in Snapshots
<1>1. asm[l] \in {NoAsm} \cup Assembling \cup Answering
  BY DEF AsmOK
<1> QED
  BY <1>1 DEF NoAsm, Assembling, Answering

LEMMA FaultTyped == \A h, p, aged : Fault(h, p, aged) \in Faults
BY DEF Fault, Faults

\* What Assemble leaves behind.
LEMMA AssembledIs ==
    ASSUME TypeInv, NEW l \in Links, Assemble(l)
    PROVE  \E v \in Answering :
               /\ asm' = [asm EXCEPT ![l] = v] /\ v.at = "answer"
               /\ v.fault = Fault(asm[l].head, prov, old)
               /\ v.snap = Snapshot(asm[l].head, asm[l].var, prov)
<1>1. asm[l].head \in Heads /\ asm[l].var \in MaybeTexts
  BY AsmIs DEF TypeInv, Assemble
<1>2. PICK f \in Faults : f = Fault(asm[l].head, prov, old)
  BY FaultTyped
<1>3. PICK snap \in Snapshots : snap = Snapshot(asm[l].head, asm[l].var, prov)
  BY <1>1, SnapshotTyped DEF TypeInv, HubOK
<1>4. PICK v \in Answering : v = [at |-> "answer", fault |-> f, snap |-> snap]
  BY DEF Answering
<1>5. asm' = [asm EXCEPT ![l] = v]
  BY <1>2, <1>3, <1>4 DEF Assemble
<1> QED
  BY <1>2, <1>3, <1>4, <1>5

LEMMA AssembleTyped ==
    ASSUME TypeInv, NEW l \in Links, Assemble(l)
    PROVE  TypeInv'
<1>1. HubOK' /\ CallsOK' /\ AgentOK' /\ NetOK' /\ RestOK'
  BY HubStays, AgentStays, NetStays, RestStays DEF TypeInv, Assemble, CallsOK
<1>2. AsmOK'
  BY AssembledIs, AsmSet DEF TypeInv
<1> QED
  BY <1>1, <1>2 DEF TypeInv

LEMMA AnswerTyped ==
    ASSUME TypeInv, NEW l \in Links, Answer(l)
    PROVE  TypeInv'
<1>1. HubOK' /\ CallsOK' /\ AgentOK' /\ RestOK'
  BY HubStays, AgentStays DEF TypeInv, Answer, CallsOK, RestOK
<1>2. AsmOK'
  BY AsmSet DEF TypeInv, Answer
<1>3. PICK m \in Messages : m = Msg("snapshot", asm[l].snap)
  BY AsmIs DEF TypeInv, Answer, Msg, Messages
<1>4. down' \in Seq(Messages)
  <2>1. down' = down \/ down' = Append(down, m)
    BY <1>3 DEF Answer, Send
  <2>2. down \in Seq(Messages)
    BY DEF TypeInv, NetOK
  <2>3. Append(down, m) \in Seq(Messages)
    BY <2>2, PutAt
  <2> QED
    BY <2>1, <2>2, <2>3
<1>5. NetOK'
  BY <1>4 DEF TypeInv, NetOK, Answer, net
<1> QED
  BY <1>1, <1>2, <1>5 DEF TypeInv

LEMMA ApplyAckTyped ==
    ASSUME TypeInv, NEW l \in Links, ApplyAck(l)
    PROVE  TypeInv'
<1>1. HubOK' /\ CallsOK' /\ AgentOK' /\ AsmOK'
  BY HubStays, AgentStays, AsmStays DEF TypeInv, ApplyAck, CallsOK
<1>2. NetOK'
  BY PoppedIs DEF TypeInv, ApplyAck
<1>3. RestOK'
  BY DEF TypeInv, RestOK, ApplyAck
<1> QED
  BY <1>1, <1>2, <1>3 DEF TypeInv

LEMMA OldLoopEndsTyped ==
    ASSUME TypeInv, NEW l \in Links, OldLoopEnds(l)
    PROVE  TypeInv'
<1>1. HubOK' /\ CallsOK' /\ AgentOK' /\ AsmOK' /\ RestOK'
  BY HubStays, AgentStays, AsmStays, RestStays DEF TypeInv, OldLoopEnds, CallsOK
<1>2. NetOK'
  BY EmptySeq, UpSet DEF TypeInv, OldLoopEnds
<1> QED
  BY <1>1, <1>2 DEF TypeInv

\* What the agent sends goes onto the connection that is up.
LEMMA Replied ==
    ASSUME TypeInv, NEW m \in {"pull", "ack"}, Reply(m), UNCHANGED net
    PROVE  /\ up' \in [Links -> Seq({"pull", "ack"})] /\ mishaps' \subseteq mishaps \cup {"early"}
           /\ mishaps' = {} => mishaps = {} /\ (online => session)
           /\ session => link \in Links /\ up' = [up EXCEPT ![link] = Append(up[link], m)]
           /\ ~session => up' = up
<1>1. CASE session
  <2>1. link \in Links /\ up[link] \in Seq({"pull", "ack"})
    BY <1>1 DEF TypeInv, NetOK
  <2>2. Append(up[link], m) \in Seq({"pull", "ack"})
    BY <2>1
  <2>3. up' = [up EXCEPT ![link] = Append(up[link], m)]
    BY <1>1 DEF Reply
  <2> QED
    BY <1>1, <2>1, <2>2, <2>3 DEF Reply, TypeInv, NetOK
<1>2. CASE ~session
  BY <1>2 DEF Reply, TypeInv, NetOK
<1> QED
  BY <1>1, <1>2 DEF TypeInv, NetOK

LEMMA OnNoticeTyped ==
    ASSUME TypeInv, OnNotice
    PROVE  TypeInv'
<1>1. HubOK' /\ CallsOK' /\ AgentOK' /\ AsmOK'
  BY HubStays, AgentStays, AsmStays DEF TypeInv, OnNotice, CallsOK
<1>2. RestOK' /\ up' \in [Links -> Seq({"pull", "ack"})]
  BY Replied DEF TypeInv, RestOK, OnNotice
<1>3. down' \in Seq(Messages)
  BY TookOf DEF TypeInv, NetOK, OnNotice
<1>4. NetOK'
  BY <1>2, <1>3 DEF TypeInv, NetOK, OnNotice, net
<1> QED
  BY <1>1, <1>2, <1>4 DEF TypeInv

LEMMA OnSnapshotTyped ==
    ASSUME TypeInv, OnSnapshot
    PROVE  TypeInv' /\ Head(down).snap \in Snapshots
<1>1. HubOK' /\ CallsOK' /\ AsmOK' /\ RestOK'
  BY HubStays, AsmStays, RestStays DEF TypeInv, OnSnapshot, CallsOK
<1>2. down' \in Seq(Messages) /\ Head(down) \in Messages
  BY TookOf DEF TypeInv, NetOK, OnSnapshot
<1>3. NetOK'
  BY <1>2 DEF TypeInv, NetOK, OnSnapshot, net
<1>4. Head(down).snap \in Snapshots
  BY <1>2 DEF OnSnapshot, Messages
<1>5. AgentOK'
  BY <1>4 DEF TypeInv, AgentOK, OnSnapshot, Snapshots
<1> QED
  BY <1>1, <1>3, <1>4, <1>5 DEF TypeInv

LEMMA ApplyPendingTyped ==
    ASSUME TypeInv, ApplyPending
    PROVE  TypeInv'
<1>1. HubOK' /\ CallsOK' /\ AsmOK' /\ RestOK'
  BY HubStays, AsmStays, Replied DEF TypeInv, ApplyPending, CallsOK, RestOK
<1>2. NetOK'
  BY Replied DEF TypeInv, NetOK, ApplyPending, net
<1>3. pending.file \in Files /\ cache \in Lookups
  BY DEF TypeInv, AgentOK, ApplyPending, Snapshots
<1>4. AgentOK'
  <2>1. rec' \in Entries \cup {None}
    <3>1. CASE Renders(pending.file, cache) /\ (rec = None \/ Render(pending.file, cache) # rec.content)
      <4>1. Render(pending.file, cache) \in Contents
        BY <1>3, <3>1, RenderTyped
      <4>2. rec' = [template |-> pending.file, content |-> Render(pending.file, cache)]
        BY <3>1 DEF ApplyPending
      <4> QED
        BY <1>3, <4>1, <4>2 DEF Entries
    <3>2. CASE ~(Renders(pending.file, cache) /\ (rec = None \/ Render(pending.file, cache) # rec.content))
      <4>1. rec' = rec
        BY <3>2 DEF ApplyPending
      <4> QED
        BY <4>1 DEF TypeInv, AgentOK
    <3> QED
      BY <3>1, <3>2
  <2>2. applied' \in Files \cup {None}
    BY <1>3 DEF TypeInv, AgentOK, ApplyPending
  <2> QED
    BY <1>3, <2>1, <2>2 DEF TypeInv, AgentOK, ApplyPending
<1> QED
  BY <1>1, <1>2, <1>4 DEF TypeInv

LEMMA FaultsTyped ==
    ASSUME TypeInv, Drop \/ Restart \/ Connect \/ StoreSession
    PROVE  TypeInv'
<1>1. CallsOK' /\ AsmOK'
  BY AsmStays DEF TypeInv, Drop, Restart, Connect, StoreSession, CallsOK
<1>2. HubOK'
  BY DEF TypeInv, Drop, Restart, Connect, StoreSession, HubOK, hub
<1>3. NetOK'
  <2>1. <<Notice>> \in Seq(Messages) /\ <<>> \in Seq(Messages)
    BY NoticeTyped, EmptySeq
  <2>2. PICK n \in Seq(Messages) : n = <<Notice>>
    BY <2>1
  <2>3. CASE Drop
    BY <2>1, <2>3 DEF TypeInv, Drop, NetOK
  <2>4. CASE Connect
    BY <2>2, <2>4 DEF TypeInv, Connect, NetOK
  <2>5. CASE Restart
    BY <2>5, NetStays DEF TypeInv, Restart
  <2>6. CASE StoreSession
    <3>1. UNCHANGED <<down, up, link, online>> /\ online /\ session' = TRUE
      BY <2>6 DEF StoreSession
    <3> QED
      BY <3>1 DEF TypeInv, NetOK
  <2> QED
    BY <2>3, <2>4, <2>5, <2>6
<1>4. AgentOK'
  BY NoValuesTyped DEF TypeInv, Drop, Restart, Connect, StoreSession, AgentOK, agent
<1>5. RestOK'
  BY DEF TypeInv, Drop, Restart, Connect, StoreSession, RestOK
<1> QED
  BY <1>1, <1>2, <1>3, <1>4, <1>5 DEF TypeInv

LEMMA NextTyped == TypeInv /\ [Next]_vars => TypeInv'
<1> SUFFICES ASSUME TypeInv, [Next]_vars PROVE TypeInv'
  OBVIOUS
<1>1. CASE UNCHANGED vars
  BY <1>1, HubStays, AgentStays, AsmStays, NetStays, RestStays DEF TypeInv, vars, CallsOK
<1>2. CASE \E c \in Calls : StartUpdate(c) \/ StartExtract(c) \/ SaveProvider(c) \/ NotifyProvider(c)
                            \/ Publish(c) \/ NotifySet(c)
  BY <1>2, StartTyped, SaveTyped, NotifyTyped, PublishTyped
<1>3. CASE \E l \in Links : Pull(l) \/ Assemble(l) \/ Answer(l) \/ ApplyAck(l) \/ OldLoopEnds(l)
  BY <1>3, PullTyped, AssembleTyped, AnswerTyped, ApplyAckTyped, OldLoopEndsTyped
<1> QED
  BY <1>1, <1>2, <1>3, SetVariableTyped, OnNoticeTyped, OnSnapshotTyped, ApplyPendingTyped, FaultsTyped DEF Next

LEMMA TypesStay == Spec => []TypeInv
<1> QED
  BY InitTyped, NextTyped, PTL DEF Spec

\* Whatever calls overlap, every record, message and lookup has its shape: a value is a text, a key
\* is one of the keys, and what the agent has written holds no placeholder (secrets/secrets.go,
\* render/render.go, providers/store.go).
THEOREM TypeCorrect == Spec => []TypeOK
BY TypesStay, TypesAll, PTL

-----------------------------------------------------------------------------
(* What a report names.                                                    *)

\* Where the last file that could be rendered has plain text, the contents have that text: they
\* were made from it, or were the same as it makes.
RecInv == rec # None => \A s \in Slots : applied[s] \notin Refs => rec.content[s] = applied[s]

LEMMA InitRec == Init => RecInv
BY DEF Init, RecInv

LEMMA NextRec == RecInv /\ [Next]_vars => RecInv'
<1> SUFFICES ASSUME RecInv, [Next]_vars PROVE RecInv'
  OBVIOUS
<1>1. CASE UNCHANGED <<rec, applied>>
  BY <1>1 DEF RecInv
<1>2. CASE ApplyPending
  <2> DEFINE new == Render(pending.file, cache)
  <2>1. CASE Renders(pending.file, cache)
    <3>1. applied' = pending.file
      BY <1>2, <2>1 DEF ApplyPending
    <3>2. rec' # None => rec'.content = new
      BY <1>2, <2>1 DEF ApplyPending
    <3>3. \A s \in Slots : pending.file[s] \notin Refs => new[s] = pending.file[s]
      BY DEF Render
    <3> HIDE DEF new
    <3> QED
      BY <3>1, <3>2, <3>3 DEF RecInv
  <2>2. CASE ~Renders(pending.file, cache)
    BY <1>1, <1>2, <2>2 DEF ApplyPending
  <2> QED
    BY <2>1, <2>2
<1>3. CASE \/ \E c \in Calls : StartUpdate(c) \/ StartExtract(c) \/ SaveProvider(c) \/ NotifyProvider(c)
                               \/ Publish(c) \/ NotifySet(c)
           \/ \E l \in Links : Pull(l) \/ Assemble(l) \/ Answer(l) \/ ApplyAck(l) \/ OldLoopEnds(l)
           \/ SetVariable \/ UNCHANGED vars
  BY <1>1, <1>3 DEF StartUpdate, StartExtract, SaveProvider, NotifyProvider, Publish, NotifySet, SetVariable,
                    Pull, Assemble, Answer, ApplyAck, OldLoopEnds, agent, vars
<1>4. CASE OnNotice \/ OnSnapshot \/ Drop \/ Restart \/ Connect \/ StoreSession
  BY <1>1, <1>4 DEF OnNotice, OnSnapshot, Drop, Restart, Connect, StoreSession, agent
<1> QED
  BY <1>2, <1>3, <1>4 DEF Next

LEMMA KeptIn ==
    ASSUME NEW bucket, bucket # {}, bucket \subseteq ProviderKeys \cup {"var"}
    PROVE  Kept(bucket) \in bucket
BY DEF Kept, ProviderKeys, SecretKeys

\* A place that no longer holds the value: as many places as the variable has hold it, and one of
\* them is not of the variable.
LEMMA Elsewhere ==
    ASSUME NEW file, NEW disk, NEW r, NEW x, NEW s \in Slots, disk[s] = x, file[s] # r,
           Cardinality(Holding(disk, x)) = Cardinality(Holding(file, r))
    PROVE  \E q \in Holding(file, r) : disk[q] # x
<1> SUFFICES ASSUME \A q \in Holding(file, r) : disk[q] = x
             PROVE  FALSE
  OBVIOUS
<1>1. Holding(file, r) \in SUBSET Holding(disk, x)
  BY DEF Holding
<1>2. IsFiniteSet(Holding(disk, x))
  BY FS_Subset, ValuesAssumption DEF Holding
<1>3. Holding(disk, x) = Holding(file, r)
  BY <1>1, <1>2, FS_Subset
<1>4. s \in Holding(disk, x) /\ s \notin Holding(file, r)
  BY DEF Holding
<1> QED
  BY <1>3, <1>4

LEMMA Faithful == TypeInv /\ RecInv => RestoreFaithful
<1> SUFFICES ASSUME TypeInv, RecInv, rec # None, NEW disk \in Contents \ {rec.content},
                    ~Partial(disk, rec.template, sec),
                    NEW s \in Slots, disk[s] = rec.content[s]
             PROVE  \/ RestoreWord(sec, disk[s]) = applied[s]
                    \/ applied[s] = "machine"
                    \/ applied[s] \in Refs /\ sec[applied[s]] # disk[s]
                    \/ \E r \in Refs \ {applied[s]} :
                          /\ sec[r] = disk[s]
                          /\ \/ {r, applied[s]} \subseteq Refs \/ r \in SecretKeys
                             \/ rec.template[s] = r
                             \/ \E q \in Holding(rec.template, r) : disk[q] # sec[r]
  BY DEF RestoreFaithful
<1> DEFINE word == applied[s]
           x == disk[s]
           secrets == SecretBucket(sec, x)
           variables == VarBucket(sec, x)
<1>1. /\ secrets \subseteq SecretKeys /\ variables \subseteq {"var", "claude.base_url"}
      /\ secrets \subseteq Refs /\ variables \subseteq Refs
      /\ secrets \cup variables \subseteq ProviderKeys \cup {"var"}
      /\ \A r \in secrets \cup variables : sec[r] = x
  BY DEF SecretBucket, VarBucket, Refs, ProviderKeys
<1>2. x \in Texts /\ s \in Holding(disk, x)
  BY DEF Contents, Holding
<1>3. CASE secrets # {}
  <2>1. Kept(secrets) \in secrets
    BY <1>1, <1>3, KeptIn
  <2>2. RestoreWord(sec, x) = Kept(secrets)
    BY <1>3 DEF RestoreWord
  <2> HIDE DEF secrets, variables, x, word
  <2>3. Kept(secrets) = word \/ (Kept(secrets) \in Refs \ {word} /\ Kept(secrets) \in SecretKeys
                                 /\ sec[Kept(secrets)] = x)
    BY <1>1, <2>1
  <2> QED
    BY <2>2, <2>3 DEF x, word
<1>4. CASE secrets = {} /\ variables # {}
  <2> DEFINE k == Kept(variables)
  <2>1. k \in variables /\ k \in Refs /\ sec[k] = x
    BY <1>1, <1>4, KeptIn
  <2>2. x \notin Short /\ Cardinality(Holding(disk, x)) = Cardinality(Holding(rec.template, k))
    BY <1>2, <1>4 DEF Partial
  <2>3. RestoreWord(sec, x) = k
    BY <1>4, <2>2 DEF RestoreWord
  <2>4. rec.template[s] # k => \E q \in Holding(rec.template, k) : disk[q] # x
    BY <2>2, Elsewhere
  <2> HIDE DEF secrets, variables, x, word, k
  <2>5. CASE k = word
    BY <2>3, <2>5 DEF x, word
  <2>6. CASE k # word
    <3>1. k \in Refs \ {word} /\ sec[k] = x
      BY <2>1, <2>6
    <3>2. rec.template[s] = k \/ \E q \in Holding(rec.template, k) : disk[q] # sec[k]
      BY <2>1, <2>4
    <3> QED
      BY <3>1, <3>2 DEF x, word
  <2> QED
    BY <2>5, <2>6
<1>5. CASE secrets = {} /\ variables = {}
  <2>1. RestoreWord(sec, x) = x
    BY <1>5 DEF RestoreWord
  <2>2. CASE word \in Refs
    <3>1. word = "machine" \/ word \in SecretKeys \cup {"var", "claude.base_url"}
      BY <2>2 DEF Refs, ProviderKeys
    <3>2. word \in SecretKeys \cup {"var", "claude.base_url"} => sec[word] # x
      BY <1>5 DEF SecretBucket, VarBucket
    <3> QED
      BY <2>2, <3>1, <3>2
  <2>3. CASE word \notin Refs
    <3>1. x = word
      BY <2>3 DEF RecInv
    <3> QED
      BY <2>1, <3>1
  <2> QED
    BY <2>2, <2>3
<1> QED
  BY <1>3, <1>4, <1>5

\* Whatever the user makes of the file and whichever template, values and contents the agent holds,
\* what a report names is what was published, or the report asks for a review, with the exceptions
\* stated (render/restore.go, RestoreWithBase).
THEOREM ReportsAreFaithful == Spec => []RestoreFaithful
<1>1. Spec => [](TypeInv /\ RecInv)
  BY TypesStay, InitRec, NextRec, PTL DEF Spec
<1> QED
  BY <1>1, Faithful, PTL

-----------------------------------------------------------------------------
(* Keys.                                                                   *)

\* As long as no two calls have overlapped, an endpoint with an address has a key: each call has
\* checked it, or gives it one, and saves what it has checked.
KeysInv ==
    /\ "raced" \notin mishaps => HasItsKeys(prov)
    /\ \A c \in Calls : call[c].at = "save" =>
          /\ Save(call[c].was, call[c].was, call[c].in, call[c].new) = call[c].new
          /\ HasItsKeys(call[c].was) => HasItsKeys(call[c].new)

LEMMA SavedAsMade ==
    ASSUME NEW was \in Records, NEW in \in Forms, NEW new \in Records,
           new.key = SaveKey(was.key, was.key, in.key),
           \A e \in Endpoints : new.own[e] = SaveKey(was.own[e], was.own[e], in.own[e])
    PROVE  Save(was, was, in, new) = new
<1> DEFINE own == [e \in Endpoints |-> SaveKey(was.own[e], was.own[e], in.own[e])]
           end == [e \in Endpoints |-> IF new.end[e] = was.end[e] THEN was.end[e] ELSE new.end[e]]
<1>1. own = new.own
  BY RecordIs
<1>2. end = new.end
  <2>1. new.end = [e \in Endpoints |-> new.end[e]]
    BY RecordIs
  <2>2. \A e \in Endpoints : (IF new.end[e] = was.end[e] THEN was.end[e] ELSE new.end[e]) = new.end[e]
    OBVIOUS
  <2> QED
    BY <2>1, <2>2
<1>3. Save(was, was, in, new) = Made(new.key, own, end)
  BY DEF Save, Made
<1> HIDE DEF own, end
<1> QED
  BY <1>1, <1>2, <1>3, RecordIs

LEMMA UpdateSaves ==
    ASSUME NEW p \in Records, NEW in \in Forms
    PROVE  Save(p, p, in, ApplyInput(p, in)) = ApplyInput(p, in)
<1>1. \A was, x : ApplyKey(was, x) = SaveKey(was, was, x)
  BY DEF ApplyKey, SaveKey
<1>2. PICK new \in Records : new = ApplyInput(p, in)
  BY ApplyInputTyped
<1>3. /\ new.key = ApplyKey(p.key, in.key)
      /\ new.own = [e \in Endpoints |-> ApplyKey(p.own[e], in.own[e])]
  BY <1>2, ApplyInputTyped
<1>4. \A e \in Endpoints : new.own[e] = ApplyKey(p.own[e], in.own[e])
  BY <1>3
<1> QED
  BY <1>1, <1>2, <1>3, <1>4, SavedAsMade

LEMMA ExtractSaves ==
    ASSUME NEW p \in Records, NEW e \in Endpoints, NEW k \in Keys
    PROVE  /\ Save(p, p, KeyInput(p, e, k), SetEndpointKey(p, e, k)) = SetEndpointKey(p, e, k)
           /\ HasItsKeys(p) => HasItsKeys(SetEndpointKey(p, e, k))
<1> DEFINE new == SetEndpointKey(p, e, k)
           in == KeyInput(p, e, k)
<1>1. k # "keep" /\ k # None
  BY ValuesAssumption
<1>2. /\ new \in Records /\ in \in Forms /\ new.key = p.key /\ new.own = [p.own EXCEPT ![e] = k]
      /\ \A f \in Endpoints : new.end[f].url = p.end[f].url
  BY ExtractIs
<1>3. in.key = "keep" /\ \A f \in Endpoints : in.own[f] = IF f = e THEN k ELSE "keep"
  BY DEF KeyInput
<1>4. \A f \in Endpoints : new.own[f] = IF f = e THEN k ELSE p.own[f]
  BY <1>2, RecordIs
<1> HIDE DEF new, in
<1>5. /\ new.key = SaveKey(p.key, p.key, in.key)
      /\ \A f \in Endpoints : new.own[f] = SaveKey(p.own[f], p.own[f], in.own[f])
  BY <1>1, <1>2, <1>3, <1>4 DEF SaveKey
<1>6. Save(p, p, in, new) = new
  BY <1>2, <1>5, SavedAsMade
<1>7. HasItsKeys(p) => HasItsKeys(new)
  BY <1>1, <1>2, <1>4 DEF HasItsKeys, Configured, Key
<1> QED
  BY <1>6, <1>7 DEF new, in

LEMMA InitKeys == Init => KeysInv
BY DEF Init, KeysInv, NoCall

LEMMA KeysStay ==
    ASSUME KeysInv, UNCHANGED <<prov, call>>, "raced" \in mishaps => "raced" \in mishaps'
    PROVE  KeysInv'
BY DEF KeysInv

\* A call that has no more to save, or has nothing to save yet.
LEMMA KeysCall ==
    ASSUME TypeInv, KeysInv, "raced" \notin mishaps' => HasItsKeys(prov'), NEW c \in Calls, NEW v,
           call' = [call EXCEPT ![c] = v],
           v.at = "save" => /\ Save(v.was, v.was, v.in, v.new) = v.new
                            /\ HasItsKeys(v.was) => HasItsKeys(v.new)
    PROVE  KeysInv'
<1>1. \A d \in Calls : call'[d] = IF d = c THEN v ELSE call[d]
  BY DEF TypeInv, CallsOK
<1> QED
  BY <1>1 DEF KeysInv

LEMMA NextKeys == TypeInv /\ KeysInv /\ [Next]_vars => KeysInv'
<1> SUFFICES ASSUME TypeInv, KeysInv, [Next]_vars PROVE KeysInv'
  OBVIOUS
<1>1. ASSUME NEW c \in Calls, StartUpdate(c) \/ StartExtract(c)
      PROVE  KeysInv'
  <2>1. prov \in Records /\ prov' = prov /\ mishaps' = mishaps
    BY <1>1 DEF TypeInv, HubOK, StartUpdate, StartExtract, hub
  <2>2. "raced" \notin mishaps' => HasItsKeys(prov')
    BY <2>1 DEF KeysInv
  <2>3. CASE StartUpdate(c)
    <3>1. PICK in \in Inputs :
              /\ HasItsKeys(ApplyInput(prov, in))
              /\ call' = [call EXCEPT ![c] = [at |-> "save", was |-> prov, in |-> in,
                                              new |-> ApplyInput(prov, in), tell |-> TRUE]]
      BY <2>3 DEF StartUpdate
    <3>2. PICK new : new = ApplyInput(prov, in)
      OBVIOUS
    <3>3. in \in Forms
      BY ValuesAssumption
    <3>4. Save(prov, prov, in, new) = new
      BY <2>1, <3>2, <3>3, UpdateSaves
    <3>5. PICK v : v = [at |-> "save", was |-> prov, in |-> in, new |-> new, tell |-> TRUE]
      OBVIOUS
    <3>6. v.was = prov /\ v.in = in /\ v.new = new
      BY <3>5
    <3> QED
      BY <2>2, <3>1, <3>2, <3>4, <3>5, <3>6, KeysCall
  <2>4. CASE StartExtract(c)
    <3>1. PICK e \in Endpoints, k \in Keys :
              call' = [call EXCEPT ![c] = [at |-> "save", was |-> prov, in |-> KeyInput(prov, e, k),
                                           new |-> SetEndpointKey(prov, e, k), tell |-> FALSE]]
      BY <2>4 DEF StartExtract
    <3>2. PICK in, new : in = KeyInput(prov, e, k) /\ new = SetEndpointKey(prov, e, k)
      OBVIOUS
    <3>3. Save(prov, prov, in, new) = new /\ (HasItsKeys(prov) => HasItsKeys(new))
      BY <2>1, <3>2, ExtractSaves
    <3>4. PICK v : v = [at |-> "save", was |-> prov, in |-> in, new |-> new, tell |-> FALSE]
      OBVIOUS
    <3>5. v.was = prov /\ v.in = in /\ v.new = new
      BY <3>4
    <3> QED
      BY <2>2, <3>1, <3>2, <3>3, <3>4, <3>5, KeysCall
  <2> QED
    BY <1>1, <2>3, <2>4
<1>2. ASSUME NEW c \in Calls, SaveProvider(c)
      PROVE  KeysInv'
  <2>1. PICK v \in {NoCall, [NoCall EXCEPT !.at = "notify"]} : call' = [call EXCEPT ![c] = v]
    BY <1>2 DEF SaveProvider
  <2>2. v.at # "save"
    BY DEF NoCall
  <2>3. ASSUME "raced" \notin mishaps'
        PROVE  HasItsKeys(prov')
    <3>1. prov = call[c].was /\ "raced" \notin mishaps /\ call[c].at = "save"
          /\ prov' = Save(prov, call[c].was, call[c].in, call[c].new)
      BY <1>2, <2>3 DEF SaveProvider
    <3> QED
      BY <3>1 DEF KeysInv
  <2> QED
    BY <2>1, <2>2, <2>3, KeysCall
<1>3. ASSUME NEW c \in Calls, NotifyProvider(c) \/ NotifySet(c) \/ Publish(c)
      PROVE  KeysInv'
  <2>1. PICK v \in {NoCall, [NoCall EXCEPT !.at = "publish"]} : call' = [call EXCEPT ![c] = v]
    BY <1>3 DEF NotifyProvider, NotifySet, Publish
  <2>2. v.at # "save"
    BY DEF NoCall
  <2>3. prov' = prov /\ ("raced" \notin mishaps' => "raced" \notin mishaps)
    BY <1>3 DEF NotifyProvider, NotifySet, Publish, Tell, hub
  <2>4. "raced" \notin mishaps' => HasItsKeys(prov')
    BY <2>3 DEF KeysInv
  <2> QED
    BY <2>1, <2>2, <2>4, KeysCall
<1>4. CASE \/ \E l \in Links : Pull(l) \/ Assemble(l) \/ Answer(l) \/ ApplyAck(l) \/ OldLoopEnds(l)
           \/ SetVariable \/ OnNotice \/ OnSnapshot \/ ApplyPending \/ Drop \/ Restart \/ Connect
           \/ StoreSession \/ UNCHANGED vars
  <2>1. UNCHANGED <<prov, call>> /\ ("raced" \in mishaps => "raced" \in mishaps')
    BY <1>4 DEF SetVariable, Pull, Assemble, Answer, ApplyAck, OldLoopEnds, OnNotice, OnSnapshot,
                ApplyPending, Reply, Drop, Restart, Connect, StoreSession, vars, hub
  <2> QED
    BY <2>1, KeysStay
<1> QED
  BY <1>1, <1>2, <1>3, <1>4 DEF Next

-----------------------------------------------------------------------------
(* A machine that is told catches up.                                      *)

Faulty(f) == f # "none"

\* A provider whose endpoints have their keys fails for a reason the assignment shows, or not at all.
LEMMA FaultShown ==
    ASSUME NEW h \in Heads, NEW p \in Records, NEW aged, HasItsKeys(p)
    PROVE  Faulty(Fault(h, p, aged)) => IsBindingFault(Fault(h, p, aged))
<1>1. CASE ProviderRefs(h) = {}
  BY <1>1 DEF Fault, Faulty
<1>2. CASE ProviderRefs(h) # {} /\ ~h.bound
  BY <1>2 DEF Fault, IsBindingFault
<1>3. CASE ProviderRefs(h) # {} /\ h.bound /\ aged
  BY <1>3 DEF Fault, IsBindingFault
<1>4. CASE ProviderRefs(h) # {} /\ h.bound /\ ~aged /\ \E r \in ProviderRefs(h) : ~Configured(p, EndpointOf(r))
  BY <1>4 DEF Fault, IsBindingFault
<1>5. CASE ProviderRefs(h) # {} /\ h.bound /\ ~aged /\ \A r \in ProviderRefs(h) : Configured(p, EndpointOf(r))
  <2>1. \A r \in ProviderRefs(h) : Key(p, EndpointOf(r)) # None
    BY <1>5, EndpointKnown DEF ProviderRefs, HasItsKeys
  <2>2. Fault(h, p, aged) = "none"
    BY <1>5, <2>1 DEF Fault
  <2> QED
    BY <2>2 DEF Faulty
<1>6. h.bound \in BOOLEAN
  BY DEF Heads
<1> QED
  BY <1>1, <1>2, <1>3, <1>4, <1>5, <1>6

\* What is not bound to a provider does not depend on it.
LEMMA UnboundIs ==
    ASSUME NEW h, NEW v, NEW p, NEW q, NEW aged, ~h.bound
    PROVE  /\ Fault(h, p, aged) = Fault(h, q, aged)
           /\ ~Faulty(Fault(h, p, aged)) => Snapshot(h, v, p) = Snapshot(h, v, q)
<1>1. CASE ProviderRefs(h) # {}
  <2>1. \A x : Fault(h, x, aged) = "ErrBindingMissing"
    BY <1>1 DEF Fault
  <2> QED
    BY <2>1 DEF Faulty
<1>2. CASE ProviderRefs(h) = {}
  <2>1. \A x : Fault(h, x, aged) = "none"
    BY <1>2 DEF Fault
  <2>2. \A r \in Refs : r \in {"machine", "var"} \/ r \notin RefsOf(h.file)
    BY <1>2 DEF ProviderRefs, Refs
  <2>3. \A r \in Refs :
            (CASE r = "machine" -> MachineName
               [] r = "var" -> IF r \in RefsOf(h.file) THEN v ELSE None
               [] OTHER -> IF r \in RefsOf(h.file) THEN ValueOf(p, r) ELSE None) =
            (CASE r = "machine" -> MachineName
               [] r = "var" -> IF r \in RefsOf(h.file) THEN v ELSE None
               [] OTHER -> IF r \in RefsOf(h.file) THEN ValueOf(q, r) ELSE None)
    BY <2>2
  <2>4. Snapshot(h, v, p) = Snapshot(h, v, q)
    BY <2>3 DEF Snapshot
  <2> QED
    BY <2>1, <2>4
<1> QED
  BY <1>1, <1>2

\* The machine will pull, or be told to.
Noticed(q) == \E i \in DOMAIN q : q[i].kind = "notice"
Asking(q) == \E i \in DOMAIN q : q[i] = "pull"
ToTell(v) == v.at = "publish" \/ (v.at = "notify" /\ head.bound)
Coming == Noticed(down) \/ Asking(up[link]) \/ \E c \in Calls : ToTell(call[c])

Trouble == Fault(head, prov, old)
Now == Snapshot(head, var, prov)

\* What has been sent last and has not been applied.
Latest == IF down # <<>> THEN down[Len(down)].snap ELSE pending
Written ==
    /\ cache = Now.look
    /\ Renders(head.file, cache) => rec # None /\ rec.content = Render(head.file, cache)
    /\ assign = "aligned" \/ \E i \in DOMAIN up[link] : up[link][i] = "ack"

\* The last answer to a pull is what the hub would answer now.
Answered ==
    IF Faulty(Trouble) THEN assign = "failed"
    ELSE IF down # <<>> \/ pending # None THEN Latest = Now ELSE Written

\* What is being put together will be what the hub would answer now.
UpToDate(a) ==
    \/ a.at = "provider" /\ a.head = head /\ a.var = var
    \/ a.at = "answer" /\ a.fault = Trouble /\ (~Faulty(Trouble) => a.snap = Now)

\* When nothing is still to tell, the answer that the read loop of the present connection is putting
\* together, or the last one, is up to date.
Informed ==
    /\ pending # None => cache = pending.look
    /\ online /\ mishaps = {} /\ ~Coming =>
          IF asm[link] # NoAsm THEN UpToDate(asm[link]) ELSE Answered

LEMMA InitInformed == Init => Informed
BY DEF Init, Informed

LEMMA InformedCatchesUp == TypeInv /\ Informed => CaughtUp
<1> SUFFICES ASSUME TypeInv, Informed, Quiet, mishaps = {} PROVE
        \/ Trouble # "none" /\ assign = "failed"
        \/ /\ Trouble = "none" /\ assign = "aligned" /\ cache = Now.look
           /\ Renders(Now.file, Now.look) => rec # None /\ rec.content = Render(Now.file, Now.look)
  BY DEF CaughtUp, Trouble, Now
<1>1. DOMAIN down = {} /\ DOMAIN up[link] = {} /\ asm[link] = NoAsm
  BY DEF Quiet, TypeInv, NetOK
<1>2. ~Coming
  BY <1>1 DEF Coming, Noticed, Asking, ToTell, Quiet
<1>3. Answered
  BY <1>1, <1>2 DEF Informed, Quiet
<1>4. CASE Trouble # "none"
  BY <1>3, <1>4 DEF Answered, Faulty
<1>5. CASE Trouble = "none"
  <2>1. Written
    BY <1>3, <1>5 DEF Answered, Faulty, Quiet
  <2>2. Now.file = head.file
    BY DEF Now, Snapshot
  <2> QED
    BY <1>1, <1>5, <2>1, <2>2 DEF Written
<1> QED
  BY <1>4, <1>5

\* Nothing that the agent or the answer rests on changes.
LEMMA InformedAs ==
    ASSUME Informed, UNCHANGED <<prov, var, head, old, assign, down, link, online, cache, pending, rec>>,
           online => asm'[link] = asm[link] /\ up'[link] = up[link],
           mishaps' = {} => mishaps = {}, Coming => Coming'
    PROVE  Informed'
BY DEF Informed, Answered, UpToDate, Latest, Written, Now, Trouble

\* Whoever is still to be told makes up for everything.
LEMMA InformedComing ==
    ASSUME pending' # None => cache' = pending'.look, mishaps' = {} /\ online' => Coming'
    PROVE  Informed'
BY DEF Informed

LEMMA CallIs ==
    ASSUME TypeInv, NEW c \in Calls, NEW v, call' = [call EXCEPT ![c] = v]
    PROVE  \A d \in Calls : call'[d] = IF d = c THEN v ELSE call[d]
BY DEF TypeInv, CallsOK

LEMMA CallComing ==
    ASSUME TypeInv, NEW c \in Calls, NEW v, call' = [call EXCEPT ![c] = v], UNCHANGED <<head, down, up, link>>,
           ToTell(call[c]) => ToTell(v)
    PROVE  Coming => Coming'
BY CallIs DEF Coming, ToTell

LEMMA NoticeComes ==
    ASSUME TypeInv, down' = Append(down, Notice)
    PROVE  Coming'
<1>1. PICK n \in Nat : n = Len(down)
  BY PutAt, NoticeTyped DEF TypeInv, NetOK
<1>2. DOMAIN down' = 1 .. n + 1 /\ down'[n + 1] = Notice /\ n + 1 \in 1 .. n + 1
  BY <1>1, PutAt, NoticeTyped DEF TypeInv, NetOK
<1> QED
  BY <1>2 DEF Coming, Noticed, Notice, Msg

LEMMA InformedTold ==
    ASSUME TypeInv, Informed, Tell, UNCHANGED <<cache, pending, online>>
    PROVE  Informed'
BY NoticeComes, InformedComing DEF Tell, Send, Informed

LEMMA InformedStart ==
    ASSUME TypeInv, Informed, NEW c \in Calls, StartUpdate(c) \/ StartExtract(c)
    PROVE  Informed'
<1>1. PICK v : v.at = "save" /\ call' = [call EXCEPT ![c] = v]
  <2>1. CASE StartUpdate(c)
    <3>1. PICK in \in Inputs :
              call' = [call EXCEPT ![c] = [at |-> "save", was |-> prov, in |-> in,
                                           new |-> ApplyInput(prov, in), tell |-> TRUE]]
      BY <2>1 DEF StartUpdate
    <3> QED
      BY <3>1
  <2>2. CASE StartExtract(c)
    <3>1. PICK e \in Endpoints, k \in Keys :
              call' = [call EXCEPT ![c] = [at |-> "save", was |-> prov, in |-> KeyInput(prov, e, k),
                                           new |-> SetEndpointKey(prov, e, k), tell |-> FALSE]]
      BY <2>2 DEF StartExtract
    <3> QED
      BY <3>1
  <2> QED
    BY <2>1, <2>2
<1>2. ~ToTell(call[c])
  BY DEF StartUpdate, StartExtract, ToTell, NoCall
<1>3. /\ UNCHANGED <<prov, var, head, old, assign, asm, down, up, link, online, cache, pending, rec>>
      /\ mishaps' = mishaps
  BY DEF StartUpdate, StartExtract, hub, net, agent
<1> QED
  BY <1>1, <1>2, <1>3, CallComing, InformedAs

LEMMA InformedSave ==
    ASSUME TypeInv, Informed, NEW c \in Calls, SaveProvider(c)
    PROVE  Informed'
<1>1. SUFFICES ASSUME mishaps' = {}
               PROVE  Informed'
  BY DEF Informed, SaveProvider, agent
<1>2. mishaps = {} /\ call[c].tell
  BY <1>1 DEF SaveProvider
<1>3. PICK v : v = [NoCall EXCEPT !.at = "notify"]
  OBVIOUS
<1>4. v.at = "notify" /\ call' = [call EXCEPT ![c] = v]
  BY <1>2, <1>3 DEF SaveProvider, NoCall
<1>5. UNCHANGED <<var, head, old, assign, asm, down, up, link, online, cache, pending, rec>>
  BY DEF SaveProvider, net, agent
<1>6. CASE head.bound
  <2>1. Coming'
    <3>1. call'[c] = v
      BY <1>4 DEF TypeInv, CallsOK
    <3>2. call'[c].at = "notify" /\ head'.bound
      BY <1>4, <1>5, <1>6, <3>1
    <3> QED
      BY <3>2 DEF Coming, ToTell
  <2> QED
    BY <1>5, <2>1, InformedComing DEF Informed
<1>7. CASE ~head.bound
  <2>1. Coming => Coming'
    <3>1. call[c].at = "save"
      BY DEF SaveProvider
    <3> QED
      BY <1>4, <1>5, <3>1, CallComing DEF ToTell
  <2>2. Fault(head, prov, old) = Fault(head, prov', old)
        /\ (~Faulty(Fault(head, prov, old)) => Snapshot(head, var, prov) = Snapshot(head, var, prov'))
    BY <1>7, UnboundIs
  <2>3. Trouble' = Trouble /\ (~Faulty(Trouble) => Now' = Now)
    BY <1>5, <2>2 DEF Trouble, Now
  <2>4. (Answered => Answered') /\ (UpToDate(asm[link]) => UpToDate(asm[link])')
    BY <1>5, <2>3 DEF Answered, Latest, Written, UpToDate
  <2> QED
    BY <1>2, <1>5, <2>1, <2>4 DEF Informed
<1> QED
  BY <1>6, <1>7

LEMMA InformedNotify ==
    ASSUME TypeInv, Informed, NEW c \in Calls, NotifyProvider(c) \/ NotifySet(c) \/ Publish(c)
    PROVE  Informed'
<1>1. UNCHANGED <<prov, var, old, assign, asm, up, link, online, cache, pending, rec>>
  BY DEF NotifyProvider, NotifySet, Publish, hub, net, agent
<1>2. CASE NotifySet(c) \/ (NotifyProvider(c) /\ head.bound)
  BY <1>1, <1>2, InformedTold DEF NotifySet, NotifyProvider
<1>3. CASE NotifyProvider(c) /\ ~head.bound
  <2>1. UNCHANGED <<head, down, mishaps>> /\ call' = [call EXCEPT ![c] = NoCall] /\ ~ToTell(call[c])
    BY <1>3 DEF NotifyProvider, hub, ToTell
  <2> QED
    BY <1>1, <2>1, CallComing, InformedAs
<1>4. CASE Publish(c)
  <2>1. call'[c].at = "publish"
    <3>1. PICK v : v = [NoCall EXCEPT !.at = "publish"]
      OBVIOUS
    <3>2. v.at = "publish" /\ call' = [call EXCEPT ![c] = v]
      BY <1>4, <3>1 DEF Publish, NoCall
    <3> QED
      BY <3>2 DEF TypeInv, CallsOK
  <2>2. Coming'
    BY <2>1 DEF Coming, ToTell
  <2> QED
    BY <1>1, <2>2, InformedComing DEF Informed
<1> QED
  BY <1>2, <1>3, <1>4

LEMMA InformedPull ==
    ASSUME TypeInv, Informed, NEW l \in Links, Pull(l)
    PROVE  Informed'
<1>1. UNCHANGED <<prov, var, head, old, assign, call, down, link, online, cache, pending, rec, mishaps>>
  BY DEF Pull, hub, net, agent
<1>2. PICK v : v = [at |-> "provider", head |-> head, var |-> var]
  OBVIOUS
<1>3. asm' = [asm EXCEPT ![l] = v] /\ v.at = "provider" /\ v.head = head /\ v.var = var
  BY <1>2 DEF Pull
<1>4. CASE l = link
  <2>1. asm'[link] = v /\ v # NoAsm
    BY <1>3, <1>4 DEF TypeInv, AsmOK, NoAsm
  <2>2. UpToDate(asm[link])'
    BY <1>1, <1>3, <2>1 DEF UpToDate
  <2> QED
    BY <1>1, <2>1, <2>2 DEF Informed
<1>5. CASE l # link
  <2>1. online => link \in Links
    BY DEF TypeInv, NetOK
  <2>2. online => asm'[link] = asm[link] /\ up'[link] = up[link]
    BY <1>3, <1>5, <2>1 DEF TypeInv, AsmOK, NetOK, Pull, Popped
  <2>3. online /\ Coming => Coming'
    BY <1>1, <2>2 DEF Coming, ToTell
  <2> QED
    BY <1>1, <2>2, <2>3, InformedAs DEF Informed
<1> QED
  BY <1>4, <1>5

LEMMA InformedAssemble ==
    ASSUME TypeInv, Informed, NEW l \in Links, Assemble(l)
    PROVE  Informed'
<1>1. UNCHANGED <<prov, var, head, old, assign, call, down, up, link, online, cache, pending, rec, mishaps>>
  BY DEF Assemble, hub, net, agent
<1>2. Coming => Coming'
  BY <1>1 DEF Coming, ToTell
<1>3. PICK v \in Answering :
          /\ asm' = [asm EXCEPT ![l] = v] /\ v.at = "answer"
          /\ v.fault = Fault(asm[l].head, prov, old)
          /\ v.snap = Snapshot(asm[l].head, asm[l].var, prov)
  BY AssembledIs
<1>4. CASE l = link
  <2>1. asm'[link] = v /\ v # NoAsm /\ asm[link] # NoAsm /\ asm[link].at = "provider"
    BY <1>3, <1>4 DEF TypeInv, AsmOK, NoAsm, Assemble
  <2>2. UpToDate(asm[link]) => UpToDate(asm[link])'
    BY <1>1, <1>3, <1>4, <2>1 DEF UpToDate, Trouble, Now
  <2> QED
    BY <1>1, <1>2, <2>1, <2>2 DEF Informed
<1>5. CASE l # link
  <2>1. online => asm'[link] = asm[link]
    BY <1>3, <1>5 DEF TypeInv, AsmOK, NetOK
  <2> QED
    BY <1>1, <1>2, <2>1, InformedAs
<1> QED
  BY <1>4, <1>5

LEMMA InformedAnswer ==
    ASSUME TypeInv, KeysInv, Informed, NEW l \in Links, Answer(l)
    PROVE  Informed'
<1>1. UNCHANGED <<prov, var, head, old, call, up, link, online, cache, pending, rec>>
      /\ asm' = [asm EXCEPT ![l] = NoAsm] /\ asm[l] # NoAsm /\ asm[l].at = "answer"
  BY DEF Answer, hub, net, agent, NoAsm
<1>2. SUFFICES ASSUME online, mishaps' = {}, ~Coming'
               PROVE  asm'[link] = NoAsm /\ Answered'
  BY <1>1 DEF Informed
<1>3. l = link /\ mishaps = {} /\ asm'[link] = NoAsm
  BY <1>1, <1>2 DEF Answer, TypeInv, AsmOK
<1>4. PICK f \in Faults, snap \in Snapshots : f = asm[l].fault /\ snap = asm[l].snap
  BY <1>1, AsmIs DEF TypeInv
<1>5. \/ f = "none" /\ down' = Append(down, Msg("snapshot", snap)) /\ assign' = assign
      \/ f # "none" /\ assign' = (IF IsBindingFault(f) THEN "failed" ELSE assign) /\ down' = down
  BY <1>2, <1>4 DEF Answer, Send
<1>6. PICK m \in Messages : m = Msg("snapshot", snap)
  BY DEF Msg, Messages
<1>7. m.kind = "snapshot" /\ m.snap = snap
  BY <1>6 DEF Msg
<1>8. PICK n \in Nat : n = Len(down)
  BY PutAt, NoticeTyped DEF TypeInv, NetOK
<1>9. /\ DOMAIN down = 1 .. n
      /\ f = "none" => /\ DOMAIN down' = 1 .. n + 1 /\ Len(down') = n + 1 /\ down' # <<>>
                       /\ down'[n + 1] = m /\ \A i \in 1 .. n : down'[i] = down[i]
  BY <1>5, <1>6, <1>8, PutAt DEF TypeInv, NetOK
<1>10. ~Coming
  <2>1. Noticed(down) => Noticed(down')
    BY <1>5, <1>9 DEF Noticed
  <2> QED
    BY <1>1, <1>2, <2>1 DEF Coming, ToTell
<1>11. UpToDate(asm[l])
  BY <1>1, <1>2, <1>3, <1>10 DEF Informed
<1>12. f = Trouble /\ (~Faulty(Trouble) => snap = Now) /\ Trouble' = Trouble /\ Now' = Now
  BY <1>1, <1>4, <1>11 DEF UpToDate, Trouble, Now
<1>13. CASE f = "none"
  <2>1. Latest' = snap /\ down' # <<>>
    BY <1>7, <1>9, <1>13 DEF Latest
  <2> QED
    BY <1>3, <1>12, <1>13, <2>1 DEF Answered, Faulty
<1>14. CASE f # "none"
  <2>1. HasItsKeys(prov)
    BY <1>3 DEF KeysInv
  <2>2. IsBindingFault(f)
    BY <1>12, <1>14, <2>1, FaultShown DEF TypeInv, HubOK, Faulty, Trouble
  <2> QED
    BY <1>3, <1>5, <1>12, <1>14, <2>2 DEF Answered, Faulty
<1> QED
  BY <1>13, <1>14

LEMMA InformedAck ==
    ASSUME TypeInv, Informed, NEW l \in Links, ApplyAck(l)
    PROVE  Informed'
<1>1. UNCHANGED <<prov, var, head, old, call, down, link, online, cache, pending, rec, asm>>
      /\ Reads(l, "ack") /\ Popped(l) /\ assign' = "aligned"
  BY DEF ApplyAck, hub, net, agent
<1>2. SUFFICES ASSUME online, mishaps' = {}, ~Coming'
               PROVE  IF asm[link] # NoAsm THEN UpToDate(asm[link])' ELSE Answered'
  BY <1>1 DEF Informed
<1>3. mishaps = {} /\ (assign = "failed" => ~Faulty(Trouble))
  BY <1>2 DEF ApplyAck, Faulty, Trouble
<1>4. ~Coming
  <2>1. Asking(up[link]) => Asking(up'[link])
    <3>1. CASE l = link
      <4>1. PICK q : q = up[link]
        OBVIOUS
      <4>2. q \in Seq({"pull", "ack"}) /\ q # <<>> /\ Head(q) = "ack" /\ up'[link] = Tail(q)
        BY <1>1, <3>1, <4>1 DEF TypeInv, NetOK, Reads, Popped
      <4>3. PICK n \in Nat : n = Len(q)
        BY <4>2, TookOf
      <4>4. /\ DOMAIN q = 1 .. n /\ DOMAIN Tail(q) = 1 .. n - 1 /\ q[1] = "ack"
            /\ \A i \in 1 .. n - 1 : Tail(q)[i] = q[i + 1]
        BY <4>2, <4>3, TookOf
      <4>5. ASSUME NEW i \in 1 .. n, q[i] = "pull"
            PROVE  Asking(Tail(q))
        <5>1. PICK j \in 1 .. n - 1 : i = j + 1
          BY <4>4, <4>5
        <5>2. Tail(q)[j] = "pull"
          BY <4>4, <4>5, <5>1
        <5> QED
          BY <4>4, <5>2 DEF Asking
      <4> QED
        BY <4>1, <4>2, <4>4, <4>5 DEF Asking
    <3>2. CASE l # link
      BY <1>1, <1>2, <3>2 DEF TypeInv, NetOK, Popped
    <3> QED
      BY <3>1, <3>2
  <2> QED
    BY <1>1, <1>2, <2>1 DEF Coming, ToTell
<1>5. IF asm[link] # NoAsm THEN UpToDate(asm[link]) ELSE Answered
  BY <1>2, <1>3, <1>4 DEF Informed
<1>6. Trouble' = Trouble /\ Now' = Now /\ Latest' = Latest
  BY <1>1 DEF Trouble, Now, Latest
<1>7. CASE asm[link] # NoAsm
  BY <1>1, <1>5, <1>6, <1>7 DEF UpToDate
<1>8. CASE asm[link] = NoAsm
  <2>1. ~Faulty(Trouble)
    BY <1>3, <1>5, <1>8 DEF Answered
  <2>2. Written => Written'
    BY <1>1, <1>6 DEF Written
  <2> QED
    BY <1>1, <1>5, <1>6, <1>8, <2>1, <2>2 DEF Answered
<1> QED
  BY <1>7, <1>8

LEMMA InformedOld ==
    ASSUME TypeInv, Informed, NEW l \in Links, OldLoopEnds(l)
    PROVE  Informed'
<1>1. UNCHANGED <<prov, var, head, old, assign, asm, call, down, link, online, cache, pending, rec, mishaps>>
  BY DEF OldLoopEnds, hub, net, agent
<1>2. online => up'[link] = up[link]
  BY DEF OldLoopEnds, TypeInv, NetOK
<1>3. online /\ Coming => Coming'
  BY <1>1, <1>2 DEF Coming, ToTell
<1> QED
  BY <1>1, <1>2, <1>3, InformedAs DEF Informed

LEMMA InformedNotice ==
    ASSUME TypeInv, Informed, OnNotice
    PROVE  Informed'
<1>1. SUFFICES ASSUME mishaps' = {}, online'
               PROVE  Coming'
  BY InformedComing DEF Informed, OnNotice, agent
<1>2. online /\ link' = link
  BY <1>1 DEF OnNotice, net
<1>3. link \in Links /\ up' = [up EXCEPT ![link] = Append(up[link], "pull")]
  BY <1>1, <1>2, Replied DEF OnNotice
<1>4. PICK q \in Seq({"pull", "ack"}) : q = up[link]
  BY <1>3 DEF TypeInv, NetOK
<1>5. up'[link] = Append(q, "pull")
  BY <1>3, <1>4 DEF TypeInv, NetOK
<1>6. PICK n \in Nat : n = Len(q)
  BY PutAt
<1>7. n + 1 \in DOMAIN Append(q, "pull") /\ Append(q, "pull")[n + 1] = "pull"
  BY <1>6, PutAt
<1>8. Asking(up'[link])
  BY <1>5, <1>7 DEF Asking
<1> QED
  BY <1>2, <1>8 DEF Coming

LEMMA InformedSnapshot ==
    ASSUME TypeInv, Informed, OnSnapshot
    PROVE  Informed'
<1>1. PICK m \in Messages : m = Head(down)
  BY TookOf DEF TypeInv, NetOK, OnSnapshot
<1>2. /\ UNCHANGED <<prov, var, head, old, call, up, link, online, rec, assign, mishaps, asm>>
      /\ down # <<>> /\ down' = Tail(down) /\ m.kind = "snapshot" /\ pending' = m.snap /\ cache' = m.snap.look
  BY <1>1 DEF OnSnapshot, hub, net
<1>3. m.snap \in Snapshots /\ m.snap # None
  <2>1. m \in [kind : {"snapshot"}, snap : Snapshots]
    BY <1>2 DEF Messages
  <2> QED
    BY <2>1, ValuesAssumption
<1>4. PICK n \in Nat : n = Len(down)
  BY <1>2, TookOf DEF TypeInv, NetOK
<1>5. /\ DOMAIN down = 1 .. n /\ Len(down') = n - 1 /\ DOMAIN down' = 1 .. n - 1 /\ down[1] = m /\ n > 0
      /\ \A i \in 1 .. n - 1 : down'[i] = down[i + 1]
      /\ down' \in Seq(Messages)
  BY <1>1, <1>2, <1>4, TookOf DEF TypeInv, NetOK
<1>6. Coming => Coming'
  <2>1. ASSUME NEW i \in 1 .. n, down[i].kind = "notice"
        PROVE  Noticed(down')
    <3>1. i # 1
      BY <1>2, <1>5, <2>1
    <3>2. PICK j \in 1 .. n - 1 : i = j + 1
      BY <3>1
    <3>3. down'[j].kind = "notice"
      BY <1>5, <2>1, <3>2
    <3> QED
      BY <1>5, <3>3 DEF Noticed
  <2>2. Noticed(down) => Noticed(down')
    BY <1>5, <2>1 DEF Noticed
  <2> QED
    BY <1>2, <2>2 DEF Coming, ToTell
<1>7. Trouble' = Trouble /\ Now' = Now /\ Latest' = Latest
  <2>1. Latest = down[n].snap
    BY <1>2, <1>4 DEF Latest
  <2>2. CASE n = 1
    <3>1. down' = <<>>
      BY <1>5, <2>2, EmptySeq
    <3> QED
      BY <1>2, <1>5, <2>1, <2>2, <3>1 DEF Trouble, Now, Latest
  <2>3. CASE n # 1
    <3>1. down' # <<>> /\ n - 1 \in 1 .. n - 1
      BY <1>5, <2>3, EmptySeq
    <3>2. down'[n - 1] = down[n]
      BY <1>5, <3>1
    <3> QED
      BY <1>2, <1>5, <2>1, <3>1, <3>2 DEF Trouble, Now, Latest
  <2> QED
    BY <2>2, <2>3
<1>8. (Answered => Answered') /\ (UpToDate(asm[link]) => UpToDate(asm[link])')
  BY <1>2, <1>3, <1>7 DEF Answered, UpToDate
<1>9. pending' # None => cache' = pending'.look
  <2>1. PICK x : x = m.snap
    OBVIOUS
  <2> QED
    BY <1>2, <2>1
<1> QED
  BY <1>2, <1>6, <1>8, <1>9 DEF Informed

LEMMA InformedApplied ==
    ASSUME TypeInv, Informed, ApplyPending
    PROVE  Informed'
<1>1. /\ UNCHANGED <<prov, var, head, old, call, down, link, online, cache, assign, asm>>
      /\ pending # None /\ pending' = None /\ Reply("ack")
      /\ cache = pending.look
  BY DEF ApplyPending, hub, net, Informed
<1>2. SUFFICES ASSUME online, mishaps' = {}, ~Coming'
               PROVE  IF asm[link] # NoAsm THEN UpToDate(asm[link])' ELSE Answered'
  BY <1>1 DEF Informed
<1>3. mishaps = {} /\ link \in Links /\ up' = [up EXCEPT ![link] = Append(up[link], "ack")]
  BY <1>1, <1>2, Replied DEF ApplyPending
<1>4. /\ \E i \in DOMAIN up'[link] : up'[link][i] = "ack"
      /\ Asking(up[link]) => Asking(up'[link])
  <2>1. PICK q \in Seq({"pull", "ack"}) : q = up[link]
    BY <1>3 DEF TypeInv, NetOK
  <2>2. up'[link] = Append(q, "ack")
    BY <1>3, <2>1 DEF TypeInv, NetOK
  <2>3. PICK n \in Nat : n = Len(q)
    BY PutAt
  <2>4. /\ DOMAIN q = 1 .. n /\ DOMAIN Append(q, "ack") = 1 .. n + 1 /\ Append(q, "ack")[n + 1] = "ack"
        /\ n + 1 \in 1 .. n + 1 /\ \A i \in 1 .. n : i \in 1 .. n + 1 /\ Append(q, "ack")[i] = q[i]
    BY <2>3, PutAt
  <2> QED
    BY <2>1, <2>2, <2>4 DEF Asking
<1>5. Trouble' = Trouble /\ Now' = Now /\ (down # <<>> => Latest' = Latest)
  BY <1>1 DEF Trouble, Now, Latest
<1>6. ASSUME Answered
      PROVE  Answered'
  <2>1. CASE Faulty(Trouble) \/ down # <<>>
    BY <1>1, <1>5, <1>6, <2>1 DEF Answered
  <2>2. CASE ~Faulty(Trouble) /\ down = <<>>
    <3>1. pending = Now
      BY <1>1, <1>6, <2>2 DEF Answered, Latest
    <3>2. PICK s \in Snapshots : s = pending
      BY <1>1 DEF TypeInv, AgentOK
    <3>3. s.file = head.file /\ s.look = cache /\ cache = Now.look /\ s.file \in Files /\ cache \in Lookups
      BY <1>1, <3>1, <3>2 DEF Now, Snapshot, Snapshots
    <3>4. ASSUME Renders(head.file, cache)
          PROVE  rec' # None /\ rec'.content = Render(head.file, cache)
      <4>1. PICK new \in Contents : new = Render(head.file, cache)
        BY <3>3, <3>4, RenderTyped
      <4>2. IF rec = None \/ new # rec.content THEN rec' = [template |-> head.file, content |-> new]
            ELSE rec' = rec
        BY <3>2, <3>3, <3>4, <4>1 DEF ApplyPending
      <4>3. [template |-> head.file, content |-> new] \in Entries
        BY <3>3 DEF Entries
      <4>4. PICK e \in Entries : e = [template |-> head.file, content |-> new]
        BY <4>3
      <4>5. e # None /\ e.content = new
        BY <4>4, ValuesAssumption
      <4> QED
        BY <4>1, <4>2, <4>4, <4>5
    <3>5. Written'
      BY <1>1, <1>4, <1>5, <3>3, <3>4 DEF Written
    <3> QED
      BY <1>1, <1>5, <2>2, <3>5 DEF Answered
  <2> QED
    BY <2>1, <2>2
<1>7. ~Coming
  BY <1>1, <1>2, <1>4 DEF Coming, ToTell
<1>8. IF asm[link] # NoAsm THEN UpToDate(asm[link]) ELSE Answered
  BY <1>2, <1>3, <1>7 DEF Informed
<1>9. UpToDate(asm[link]) => UpToDate(asm[link])'
  BY <1>1, <1>5 DEF UpToDate
<1> QED
  BY <1>6, <1>8, <1>9

LEMMA NextInformed == TypeInv /\ KeysInv /\ Informed /\ [Next]_vars => Informed'
<1> SUFFICES ASSUME TypeInv, KeysInv, Informed, [Next]_vars PROVE Informed'
  OBVIOUS
<1>1. ASSUME NEW c \in Calls, StartUpdate(c) \/ StartExtract(c) \/ SaveProvider(c) \/ NotifyProvider(c)
                              \/ Publish(c) \/ NotifySet(c)
      PROVE  Informed'
  BY <1>1, InformedStart, InformedSave, InformedNotify
<1>2. CASE SetVariable
  BY <1>2, InformedComing DEF SetVariable, Informed, agent
<1>3. CASE \E l \in Links : Pull(l) \/ Assemble(l) \/ Answer(l) \/ ApplyAck(l) \/ OldLoopEnds(l)
  BY <1>3, InformedPull, InformedAssemble, InformedAnswer, InformedAck, InformedOld
<1>4. CASE OnNotice \/ OnSnapshot \/ ApplyPending
  BY <1>4, InformedNotice, InformedSnapshot, InformedApplied
<1>5. CASE Drop \/ Restart
  BY <1>5 DEF Drop, Restart, Informed, agent, net
<1>6. CASE Connect
  <2>1. Coming'
    BY <1>6 DEF Connect, Coming, Noticed, Notice, Msg
  <2> QED
    BY <1>6, <2>1, InformedComing DEF Connect, Informed
<1>7. CASE StoreSession \/ UNCHANGED vars
  <2>1. UNCHANGED <<prov, var, head, old, assign, call, asm, down, up, link, online, cache, pending, rec, mishaps>>
    BY <1>7 DEF StoreSession, vars, hub, net, agent
  <2>2. Coming => Coming'
    BY <2>1 DEF Coming, ToTell
  <2> QED
    BY <2>1, <2>2, InformedAs
<1> QED
  BY <1>1, <1>2, <1>3, <1>4, <1>5, <1>6, <1>7 DEF Next

\* For every number of calls and whatever they change: when everything has arrived and no mishap
\* stands in the way, the machine holds the hub's values, or the assignment says that it failed
\* (hub/providers.go: UpdateProvider and what it tells the machines).
THEOREM MachineCatchesUp == Spec => []CaughtUp
<1>1. Spec => [](TypeInv /\ KeysInv)
  BY TypesStay, InitKeys, NextKeys, PTL DEF Spec
<1>2. Spec => []Informed
  BY <1>1, InitInformed, NextInformed, PTL DEF Spec
<1> QED
  BY <1>1, <1>2, InformedCatchesUp, PTL

=============================================================================
