---------------------------- MODULE EnrollProofs ----------------------------
(***************************************************************************)
(* Proofs about enrolment: type correctness, that a token registers one    *)
(* key, that who is refused is not registered, and that an installer which *)
(* reports success leaves a home the hub knows.                            *)
(***************************************************************************)
EXTENDS Enroll, TLAPS

USE EnrollAssumption

-----------------------------------------------------------------------------
(* The invariant.                                                          *)

\* A token is consumed once: what it granted, to whom, and the record it points to.
TokenInv ==
    /\ \A m \in machines : m.id <= made
    /\ \A t \in Tokens : /\ token[t].machine <= made
                         /\ token[t].state # "used" => token[t].machine = 0
    /\ \A g \in granted :
        /\ token[g[1]].state \in {"used", "gone"}
        /\ \A m \in machines : m.id = token[g[1]].machine => m.key = g[2]
    /\ TokenEnrollsOne

\* An installer has a key from its start on.
KeyInv == \A h \in Homes : proc[h] # Idle => key[h] \in Keys

\* The record an answer names is that of the key, or it is gone and any other is younger.
Named(h, id) ==
    /\ id \in 1..made
    /\ \A m \in machines : /\ m.id = id => m.key = key[h]
                           /\ m.key = key[h] => m.id >= id

AnswerInv(h) ==
    /\ proc[h].at \in {"answered", "save", "done"} /\ proc[h].answer.ok =>
           Named(h, proc[h].answer.id) /\ proc[h].answer.hubKey \in 1..hubKey
    /\ proc[h].at \in {"save", "done"} =>
           /\ proc[h].answer.ok /\ pin[h] = proc[h].answer.hubKey
           /\ proc[h].expect \in {0, pin[h]}
    /\ proc[h].at = "done" => config[h] = proc[h].answer.id

\* A token that refused a key is used up or too old, and points to another's record if to any.
Barred(h, t) ==
    /\ ~Consumable(t) /\ token[t].state # "none"
    /\ \A m \in machines : m.id = token[t].machine => m.key # key[h]

RefusalInv(h) ==
    proc[h].at = "refused" \/ (proc[h].at = "answered" /\ ~proc[h].answer.ok) =>
        Barred(h, proc[h].token)

StartedInv == \A h \in Homes : proc[h] # Idle => token[proc[h].token].state # "none"
HomeInv == \A h \in Homes : proc[h] # Idle => AnswerInv(h) /\ RefusalInv(h)
Inv == TypeOK /\ TokenInv /\ KeyInv /\ StartedInv /\ HomeInv

-----------------------------------------------------------------------------
(* One transaction.                                                        *)

\* What a consumed token does: the record is that of the key, old or new.
Consumes(t, k, m, answer) ==
    /\ m \in Records /\ m.key = k
    /\ \/ m \in machines /\ made' = made
       \/ m.id = made + 1 /\ made' = made + 1 /\ \A n \in machines : n.key # k
    /\ machines' = machines \cup {m}
    /\ token' = [token EXCEPT ![t].state = "used", ![t].machine = m.id]
    /\ granted' = granted \cup {<<t, k>>}
    /\ answer = Ok(m)

LEMMA TxConsumes ==
    ASSUME TypeOK, TokenInv, NEW t \in Tokens, NEW k \in Keys, NEW answer,
           EnrollTx(t, k, answer), Consumable(t)
    PROVE  \E m \in Records : Consumes(t, k, m, answer)
<1> DEFINE m == UpsertMachine(k)
<1>1. /\ m.id <= MaxRecords /\ machines' = machines \cup {m}
      /\ made' = (IF m.id > made THEN m.id ELSE made)
      /\ token' = [token EXCEPT ![t].state = "used", ![t].machine = m.id]
      /\ granted' = granted \cup {<<t, k>>} /\ answer = Ok(m)
  BY DEF EnrollTx
<1>2. CASE Known(k) # {}
  <2>1. m \in Known(k)
    BY <1>2 DEF UpsertMachine
  <2>2. m \in machines /\ m.key = k /\ m \in Records /\ m.id <= made
    BY <2>1 DEF Known, TypeOK, TokenInv
  <2>3. made' = made
    BY <1>1, <2>2 DEF TypeOK, Records
  <2> HIDE DEF m
  <2> QED
    BY <1>1, <2>2, <2>3 DEF Consumes
<1>3. CASE Known(k) = {}
  <2>1. m = [id |-> made + 1, key |-> k]
    BY <1>3 DEF UpsertMachine
  <2>2. m \in Records /\ m.key = k /\ m.id = made + 1
    BY <1>1, <2>1 DEF TypeOK, Records
  <2>3. made' = made + 1 /\ \A n \in machines : n.key # k
    BY <1>1, <1>3, <2>2 DEF TypeOK, Known
  <2> HIDE DEF m
  <2> QED
    BY <1>1, <2>2, <2>3 DEF Consumes
<1> QED
  BY <1>2, <1>3

\* A token that is not consumed answers its own key, or nobody.
Replays(t, k, answer) ==
    /\ UNCHANGED <<token, machines, made>>
    /\ \E m \in machines : /\ token[t].state = "used" /\ m.id = token[t].machine /\ m.key = k
                           /\ answer = Ok(m)
    /\ granted' = granted \cup {<<t, k>>}

Refuses(t, k, answer) ==
    /\ UNCHANGED <<token, machines, made, granted>>
    /\ ~Consumable(t) /\ answer = NoAnswer
    /\ \A m \in machines : token[t].state = "used" /\ m.id = token[t].machine => m.key # k

LEMMA TxCases ==
    ASSUME TypeOK, TokenInv, NEW t \in Tokens, NEW k \in Keys, NEW answer, EnrollTx(t, k, answer)
    PROVE  \/ \E m \in Records : Consumes(t, k, m, answer) /\ Consumable(t)
           \/ Replays(t, k, answer)
           \/ Refuses(t, k, answer)
<1>1. CASE Consumable(t)
  BY <1>1, TxConsumes
<1>2. CASE ~Consumable(t) /\ Replay(t, k) # {}
  BY <1>2 DEF EnrollTx, Replay, Replays
<1>3. CASE ~Consumable(t) /\ Replay(t, k) = {}
  BY <1>3 DEF EnrollTx, Replay, Refuses
<1> QED
  BY <1>1, <1>2, <1>3

HubTypes ==
    /\ token \in [Tokens -> TokenRows]
    /\ machines \subseteq Records
    /\ \A m, n \in machines : (m.id = n.id) = (m.key = n.key)
    /\ made \in 0..MaxRecords
    /\ granted \subseteq Tokens \X Keys

LEMMA TxHub ==
    ASSUME TypeOK, TokenInv, NEW t \in Tokens, NEW k \in Keys, NEW answer, EnrollTx(t, k, answer)
    PROVE  HubTypes' /\ TokenInv'
<1>0. HubTypes
  BY DEF HubTypes, TypeOK
<1>1. ASSUME NEW m \in Records, Consumes(t, k, m, answer), Consumable(t) PROVE HubTypes' /\ TokenInv'
  <2> USE <1>1
  <2>1. made' \in 0..MaxRecords /\ made <= made' /\ m.id <= made'
    BY <1>0 DEF Consumes, HubTypes, Records, TokenInv
  <2>2. /\ token' \in [Tokens -> TokenRows]
        /\ token'[t].state = "used" /\ token'[t].machine = m.id
        /\ \A s \in Tokens \ {t} : token'[s] = token[s]
    <3>1. token[t] \in TokenRows /\ m.id \in 0..MaxRecords
      BY <1>0 DEF HubTypes, Records
    <3>2. [token[t] EXCEPT !.state = "used", !.machine = m.id] \in TokenRows
      BY <3>1 DEF TokenRows
    <3>3. token' = [token EXCEPT ![t] = [token[t] EXCEPT !.state = "used", !.machine = m.id]]
      BY <1>0 DEF Consumes, HubTypes
    <3>4. [token[t] EXCEPT !.state = "used", !.machine = m.id].state = "used"
          /\ [token[t] EXCEPT !.state = "used", !.machine = m.id].machine = m.id
      BY <3>1 DEF TokenRows
    <3> QED
      BY <1>0, <3>2, <3>3, <3>4 DEF HubTypes
  <2>3. \A g \in granted : g \in Tokens \X Keys /\ g[1] # t
    BY <1>0 DEF TokenInv, Consumable, HubTypes
  <2>4. \A n \in machines' : n \in machines \/ n = m
    BY DEF Consumes
  <2>5. \A n \in machines : (n.id = m.id) = (n.key = m.key)
    BY <1>0 DEF Consumes, HubTypes, TokenInv, Records
  <2>6. HubTypes'
    BY <1>0, <2>1, <2>2, <2>4, <2>5 DEF Consumes, HubTypes
  <2>7. \A n \in machines' : n.id <= made'
    BY <1>0, <2>1, <2>4 DEF TokenInv, HubTypes, Records
  <2>8. \A s \in Tokens : token'[s].machine <= made' /\ (token'[s].state # "used" => token'[s].machine = 0)
    BY <1>0, <2>1, <2>2 DEF TokenInv, HubTypes, TokenRows
  <2>9. ASSUME NEW g \in granted'
        PROVE  /\ token'[g[1]].state \in {"used", "gone"}
               /\ \A n \in machines' : n.id = token'[g[1]].machine => n.key = g[2]
    <3>1. CASE g \in granted
      <4>1. g[1] \in Tokens \ {t} /\ token'[g[1]] = token[g[1]]
        BY <2>2, <2>3, <3>1
      <4>2. m.id = token[g[1]].machine => m \in machines
        BY <1>0, <4>1 DEF Consumes, TokenInv, HubTypes, TokenRows
      <4> QED
        BY <2>4, <3>1, <4>1, <4>2 DEF TokenInv
    <3>2. CASE g = <<t, k>>
      <4>1. g[1] = t /\ g[2] = k
        BY <3>2
      <4> QED
        BY <2>2, <2>4, <2>5, <4>1 DEF Consumes
    <3> QED
      BY <2>9, <3>1, <3>2 DEF Consumes
  <2>10. TokenEnrollsOne'
    BY <2>3 DEF TokenEnrollsOne, TokenInv, Consumes
  <2> QED
    BY <2>6, <2>7, <2>8, <2>9, <2>10 DEF TokenInv
<1>2. CASE Replays(t, k, answer)
  <2>1. PICK m \in machines : token[t].state = "used" /\ m.id = token[t].machine /\ m.key = k
    BY <1>2 DEF Replays
  <2>2. HubTypes'
    BY <1>0, <1>2 DEF Replays, HubTypes
  <2>3. \A g \in granted : g[1] = t => g[2] = k
    BY <2>1 DEF TokenInv
  <2>4. TokenEnrollsOne'
    BY <1>2, <2>3 DEF Replays, TokenEnrollsOne, TokenInv
  <2>5. \A n \in machines : n.id = token[t].machine => n.key = k
    BY <1>0, <2>1 DEF HubTypes
  <2>6. ASSUME NEW g \in granted'
        PROVE  /\ token'[g[1]].state \in {"used", "gone"}
               /\ \A n \in machines' : n.id = token'[g[1]].machine => n.key = g[2]
    <3>1. CASE g \in granted
      BY <1>2, <3>1 DEF Replays, TokenInv
    <3>2. CASE g = <<t, k>>
      <4>1. g[1] = t /\ g[2] = k
        BY <3>2
      <4> QED
        BY <1>2, <2>1, <2>5, <4>1 DEF Replays
    <3> QED
      BY <1>2, <2>6, <3>1, <3>2 DEF Replays
  <2> QED
    BY <1>2, <2>2, <2>4, <2>6 DEF TokenInv, Replays
<1>3. CASE Refuses(t, k, answer)
  BY <1>0, <1>3 DEF Refuses, HubTypes, TokenInv, TokenEnrollsOne
<1> QED
  BY <1>1, <1>2, <1>3, TxCases

\* What is known of a home that does not take part stays so.
LEMMA TxKeepsNames ==
    ASSUME TypeOK, TokenInv, NEW t \in Tokens, NEW k \in Keys, NEW answer, EnrollTx(t, k, answer),
           NEW g \in Homes, key'[g] = key[g], NEW id, Named(g, id)
    PROVE  Named(g, id)'
<1>0. made \in Nat /\ machines \subseteq Records
  BY DEF TypeOK
<1>1. ASSUME NEW m \in Records, Consumes(t, k, m, answer) PROVE Named(g, id)'
  <2>1. m \in machines \/ m.id = made + 1
    BY <1>1 DEF Consumes
  <2>2. made' = made \/ made' = made + 1
    BY <1>1 DEF Consumes
  <2>3. id \in 1..made'
    BY <1>0, <2>2 DEF Named
  <2>4. \A n \in machines' : n \in machines \/ n = m
    BY <1>1 DEF Consumes
  <2> QED
    BY <1>0, <2>1, <2>3, <2>4 DEF Named
<1>2. CASE Replays(t, k, answer) \/ Refuses(t, k, answer)
  BY <1>2 DEF Replays, Refuses, Named
<1> QED
  BY <1>1, <1>2, TxCases

LEMMA TxKeepsBarred ==
    ASSUME TypeOK, TokenInv, NEW t \in Tokens, NEW k \in Keys, NEW answer, EnrollTx(t, k, answer),
           NEW g \in Homes, key'[g] = key[g], NEW u \in Tokens, Barred(g, u)
    PROVE  Barred(g, u)'
<1>0. made \in Nat /\ machines \subseteq Records /\ token \in [Tokens -> TokenRows]
  BY DEF TypeOK
<1>1. ASSUME NEW m \in Records, Consumes(t, k, m, answer), Consumable(t) PROVE Barred(g, u)'
  <2>1. u # t
    BY <1>1 DEF Barred
  <2>2. token'[u] = token[u]
    BY <1>0, <1>1, <2>1 DEF Consumes
  <2>3. m \in machines \/ m.id # token[u].machine
    BY <1>0, <1>1 DEF Consumes, TokenInv, TokenRows
  <2>4. \A n \in machines' : n \in machines \/ n = m
    BY <1>1 DEF Consumes
  <2> QED
    BY <2>2, <2>3, <2>4 DEF Barred, Consumable
<1>2. CASE Replays(t, k, answer) \/ Refuses(t, k, answer)
  BY <1>2 DEF Replays, Refuses, Barred, Consumable
<1> QED
  BY <1>1, <1>2, TxCases

LEMMA TxKeepsStates ==
    ASSUME TypeOK, TokenInv, NEW t \in Tokens, NEW k \in Keys, NEW answer, EnrollTx(t, k, answer),
           NEW u \in Tokens, token[u].state # "none"
    PROVE  token'[u].state # "none"
<1>0. token \in [Tokens -> TokenRows] /\ TokenRows # {}
  BY DEF TypeOK
<1>1. ASSUME NEW m \in Records, Consumes(t, k, m, answer) PROVE token'[u].state # "none"
  <2>1. CASE u = t
    BY <1>0, <1>1, <2>1 DEF Consumes, TokenRows
  <2>2. CASE u # t
    BY <1>0, <1>1, <2>2 DEF Consumes
  <2> QED
    BY <2>1, <2>2
<1>2. CASE Replays(t, k, answer) \/ Refuses(t, k, answer)
  BY <1>2 DEF Replays, Refuses
<1> QED
  BY <1>1, <1>2, TxCases

\* The home that is answered: the answer names its record, or its token is barred to it.
LEMMA TxAnswers ==
    ASSUME TypeOK, TokenInv, NEW t \in Tokens, NEW h \in Homes, key[h] \in Keys, key' = key,
           NEW answer, EnrollTx(t, key[h], answer), token[t].state # "none"
    PROVE  /\ answer.ok => Named(h, answer.id)' /\ answer.hubKey = hubKey
           /\ ~answer.ok => Barred(h, t)'
<1> DEFINE k == key[h]
<1>0. /\ made \in Nat /\ machines \subseteq Records /\ hubKey \in 1..MaxHubKeys
      /\ \A m, n \in machines : (m.id = n.id) = (m.key = n.key)
      /\ \A n \in machines : n.id \in 1..made
  BY DEF TypeOK, TokenInv, Records
<1>1. ASSUME NEW m \in Records, Consumes(t, k, m, answer)
      PROVE  answer.ok /\ Named(h, answer.id)' /\ answer.hubKey = hubKey
  <2>1. answer.ok /\ answer.id = m.id /\ answer.hubKey = hubKey
    BY <1>1 DEF Consumes, Ok
  <2>2. m.id \in 1..made' /\ m.key = k
    BY <1>0, <1>1 DEF Consumes
  <2>3. \A n \in machines : (n.id = m.id) = (n.key = m.key)
    BY <1>0, <1>1 DEF Consumes
  <2>4. \A n \in machines' : n \in machines \/ n = m
    BY <1>1 DEF Consumes
  <2>5. \A n \in machines' : (n.id = m.id) = (n.key = k)
    BY <2>2, <2>3, <2>4
  <2>6. \A n \in machines' : n.key = k => n.id >= m.id
    BY <2>2, <2>5
  <2> QED
    BY <2>1, <2>2, <2>5, <2>6 DEF Named
<1>2. ASSUME Replays(t, k, answer)
      PROVE  answer.ok /\ Named(h, answer.id)' /\ answer.hubKey = hubKey
  <2>1. PICK m \in machines : m.key = k /\ answer = Ok(m)
    BY <1>2 DEF Replays
  <2>2. answer.ok /\ answer.id = m.id /\ answer.hubKey = hubKey
    BY <2>1 DEF Ok
  <2>3. \A n \in machines : (n.id = m.id) = (n.key = k)
    BY <1>0, <2>1
  <2>4. machines' = machines /\ made' = made
    BY <1>2 DEF Replays
  <2>5. \A n \in machines : n.key = k => n.id >= m.id
    BY <1>0, <2>3
  <2> QED
    BY <1>0, <2>2, <2>3, <2>4, <2>5 DEF Named
<1>3. ASSUME Refuses(t, k, answer) PROVE ~answer.ok /\ Barred(h, t)'
  <2>1. ~answer.ok /\ UNCHANGED <<token, machines>> /\ ~Consumable(t)
    BY <1>3 DEF Refuses, NoAnswer
  <2>2. \A m \in machines : m.id = token[t].machine => m.key # k
    BY <1>0, <1>3 DEF Refuses, TokenInv
  <2> QED
    BY <2>1, <2>2 DEF Barred, Consumable
<1> HIDE DEF k
<1>4. EnrollTx(t, k, answer) /\ k \in Keys
  BY DEF k
<1> QED
  BY <1>1, <1>2, <1>3, <1>4, TxCases

-----------------------------------------------------------------------------
(* The installers.                                                         *)

ProcSet == {Idle} \cup UNION {Procs(t) : t \in Tokens}
ProcTypes ==
    /\ key \in [Homes -> Keys \cup {NoKey}]
    /\ pin \in [Homes -> 0..MaxHubKeys]
    /\ config \in [Homes -> 0..MaxRecords]
    /\ proc \in [Homes -> ProcSet]

LEMMA TypesSplit ==
    TypeOK <=> /\ HubTypes /\ ProcTypes /\ hubKey \in 1..MaxHubKeys
               /\ late \subseteq [token : Tokens, key : Keys]
BY DEF TypeOK, HubTypes, ProcTypes, ProcSet

LEMMA TypesJoined ==
    ASSUME HubTypes', ProcTypes', (hubKey \in 1..MaxHubKeys)',
           (late \subseteq [token : Tokens, key : Keys])'
    PROVE  TypeOK'
BY DEF TypeOK, HubTypes, ProcTypes, ProcSet

LEMMA StartedTyped ==
    ASSUME ProcTypes, NEW h \in Homes, proc[h] # Idle
    PROVE  /\ proc[h].token \in Tokens /\ proc[h] \in Procs(proc[h].token)
           /\ proc[h].at \in {"wait", "answered", "save", "refused", "failed", "done"}
<1>1. PICK t \in Tokens : proc[h] \in Procs(t)
  BY DEF ProcTypes, ProcSet
<1> QED
  BY <1>1 DEF Procs, Running, Ended

LEMMA IdleAt == ASSUME NEW h \in Homes, proc[h] = Idle PROVE proc[h].at = "idle"
BY DEF Idle

LEMMA ProcTyped ==
    ASSUME ProcTypes, NEW h \in Homes, NEW t \in Tokens, NEW p \in Procs(t)
    PROVE  [proc EXCEPT ![h] = p] \in [Homes -> ProcSet]
BY DEF ProcTypes, ProcSet

\* The state of an installer when only its own part changes.
HomesInv == KeyInv /\ StartedInv /\ HomeInv

LEMMA OthersKept ==
    ASSUME Inv, NEW h \in Homes, UNCHANGED <<token, machines, made, hubKey>>,
           \A g \in Homes \ {h} : proc'[g] = proc[g] /\ key'[g] = key[g] /\ pin'[g] = pin[g]
                                   /\ config'[g] = config[g],
           proc'[h] # Idle => /\ key'[h] \in Keys /\ token[proc'[h].token].state # "none"
                              /\ AnswerInv(h)' /\ RefusalInv(h)'
    PROVE  HomesInv'
<1>1. KeyInv' /\ StartedInv'
  BY DEF Inv, KeyInv, StartedInv
<1>2. ASSUME NEW g \in Homes \ {h}, proc[g] # Idle PROVE AnswerInv(g)' /\ RefusalInv(g)'
  BY <1>2 DEF Inv, HomeInv, AnswerInv, RefusalInv, Named, Barred, Consumable
<1>3. HomeInv'
  BY <1>2 DEF HomeInv
<1> QED
  BY <1>1, <1>3 DEF HomesInv

LEMMA HubStepKept ==
    ASSUME Inv, UNCHANGED <<home, proc>>, hubKey' \in Nat, hubKey <= hubKey',
           \A g \in Homes : \A id \in 1..made : Named(g, id) => Named(g, id)',
           \A g \in Homes : \A t \in Tokens : Barred(g, t) => Barred(g, t)',
           \A t \in Tokens : token[t].state # "none" => token'[t].state # "none"
    PROVE  HomesInv'
<1>0. ProcTypes /\ hubKey \in Nat
  BY TypesSplit DEF Inv
<1>1. KeyInv'
  BY DEF Inv, KeyInv, home
<1>2. StartedInv'
  BY <1>0, StartedTyped DEF Inv, StartedInv
<1>3. ASSUME NEW g \in Homes, proc[g] # Idle PROVE AnswerInv(g)'
  <2>1. AnswerInv(g)
    BY <1>3 DEF Inv, HomeInv
  <2>2. \A id \in 1..made : Named(g, id) => Named(g, id)'
    OBVIOUS
  <2>3. proc[g].at \in {"answered", "save", "done"} /\ proc[g].answer.ok =>
            /\ Named(g, proc[g].answer.id) /\ proc[g].answer.id \in 1..made
            /\ proc[g].answer.hubKey \in 1..hubKey'
    BY <1>0, <2>1 DEF AnswerInv, Named
  <2>4. \A id : id \in 1..made /\ Named(g, id) => Named(g, id)'
    BY <2>2
  <2>5. proc[g].at \in {"answered", "save", "done"} /\ proc[g].answer.ok =>
            Named(g, proc[g].answer.id)'
    BY <2>3, <2>4 DEF home, Named
  <2> QED
    BY <2>1, <2>3, <2>5 DEF AnswerInv, home
<1>4. ASSUME NEW g \in Homes, proc[g] # Idle PROVE RefusalInv(g)'
  <2>1. RefusalInv(g) /\ proc[g].token \in Tokens
    BY <1>0, <1>4, StartedTyped DEF Inv, HomeInv
  <2>2. Barred(g, proc[g].token) => Barred(g, proc[g].token)'
    BY <2>1 DEF Barred, Consumable
  <2> QED
    BY <2>1, <2>2 DEF RefusalInv
<1> QED
  BY <1>1, <1>2, <1>3, <1>4 DEF HomesInv, HomeInv

-----------------------------------------------------------------------------
(* The steps of the hub.                                                   *)

LEMMA IssueKept == ASSUME Inv, NEW t \in Tokens, IssueToken(t) PROVE Inv'
<1>0. HubTypes /\ ProcTypes /\ hubKey \in 1..MaxHubKeys /\ late \subseteq [token : Tokens, key : Keys]
  BY TypesSplit DEF Inv
<1> USE DEF IssueToken, home
<1> DEFINE row == [token[t] EXCEPT !.state = "open", !.hubKey = hubKey]
<1>1. token' = [token EXCEPT ![t] = row] /\ row \in TokenRows /\ row.state = "open"
      /\ row.machine = token[t].machine
  <2>1. token[t] \in TokenRows /\ hubKey \in 0..MaxHubKeys
    BY <1>0 DEF HubTypes
  <2>2. row \in TokenRows /\ row.state = "open" /\ row.machine = token[t].machine
    BY <2>1 DEF TokenRows
  <2>3. token' = [token EXCEPT ![t] = row]
    BY <1>0 DEF HubTypes
  <2> QED
    BY <2>2, <2>3
<1> HIDE DEF row
<1>2. /\ token' \in [Tokens -> TokenRows] /\ token'[t].state = "open" /\ token'[t].machine = token[t].machine
      /\ \A s \in Tokens \ {t} : token'[s] = token[s]
  BY <1>0, <1>1 DEF HubTypes
<1>3. TypeOK'
  BY <1>0, <1>2, TypesJoined DEF HubTypes, ProcTypes
<1>4. TokenInv'
  <2>1. \A g \in granted : g[1] \in Tokens /\ token'[g[1]] = token[g[1]]
    BY <1>0, <1>2 DEF Inv, TokenInv, HubTypes
  <2>2. token[t].machine = 0
    BY DEF Inv, TokenInv
  <2> QED
    BY <1>2, <2>1, <2>2 DEF Inv, TokenInv, TokenEnrollsOne
<1>5. HomesInv'
  <2>1. \A g \in Homes : \A id \in 1..made : Named(g, id) => Named(g, id)'
    BY DEF Named
  <2>2. ASSUME NEW g \in Homes, NEW s \in Tokens, Barred(g, s) PROVE Barred(g, s)'
    BY <1>2, <2>2 DEF Barred, Consumable
  <2>3. \A s \in Tokens : token[s].state # "none" => token'[s].state # "none"
    BY <1>2
  <2>4. UNCHANGED <<home, proc>> /\ hubKey' \in Nat /\ hubKey <= hubKey'
    BY <1>0
  <2> QED
    BY <2>1, <2>2, <2>3, <2>4, HubStepKept
<1> QED
  BY <1>3, <1>4, <1>5 DEF Inv, HomesInv

LEMMA ExpireKept == ASSUME Inv, NEW t \in Tokens, Expire(t) PROVE Inv'
<1>0. HubTypes /\ ProcTypes /\ hubKey \in 1..MaxHubKeys /\ late \subseteq [token : Tokens, key : Keys]
  BY TypesSplit DEF Inv
<1> USE DEF Expire, home
<1>1. /\ token[t] \in TokenRows /\ token' = [token EXCEPT ![t] = [token[t] EXCEPT !.expired = TRUE]]
      /\ [token[t] EXCEPT !.expired = TRUE] \in TokenRows
      /\ [token[t] EXCEPT !.expired = TRUE].machine = token[t].machine
      /\ [token[t] EXCEPT !.expired = TRUE].state = token[t].state
      /\ [token[t] EXCEPT !.expired = TRUE].expired
  BY <1>0 DEF HubTypes, TokenRows
<1>2. /\ token' \in [Tokens -> TokenRows] /\ token'[t].expired
      /\ \A s \in Tokens : token'[s].state = token[s].state /\ token'[s].machine = token[s].machine
      /\ \A s \in Tokens \ {t} : token'[s] = token[s]
  BY <1>0, <1>1 DEF HubTypes
<1>3. TypeOK'
  BY <1>0, <1>2, TypesJoined DEF HubTypes, ProcTypes
<1>4. TokenInv'
  <2>1. \A g \in granted : g[1] \in Tokens
    BY <1>0 DEF HubTypes
  <2> QED
    BY <1>2, <2>1 DEF Inv, TokenInv, TokenEnrollsOne
<1>5. HomesInv'
  <2>1. \A g \in Homes : \A id \in 1..made : Named(g, id) => Named(g, id)'
    BY DEF Named
  <2>2. ASSUME NEW g \in Homes, NEW s \in Tokens, Barred(g, s) PROVE Barred(g, s)'
    BY <1>2, <2>2 DEF Barred, Consumable
  <2>3. \A s \in Tokens : token[s].state # "none" => token'[s].state # "none"
    BY <1>2
  <2> QED
    BY <1>0, <2>1, <2>2, <2>3, HubStepKept
<1> QED
  BY <1>3, <1>4, <1>5 DEF Inv, HomesInv

LEMMA PurgeKept == ASSUME Inv, PurgeExpiredTokens PROVE Inv'
<1>0. HubTypes /\ ProcTypes /\ hubKey \in 1..MaxHubKeys /\ late \subseteq [token : Tokens, key : Keys]
  BY TypesSplit DEF Inv
<1> USE DEF home
<1>1. PICK old \in SUBSET {t \in Tokens : token[t].expired /\ token[t].state # "gone"} :
          token' = [t \in Tokens |-> IF t \in old
                      THEN [token[t] EXCEPT !.state = "gone", !.machine = 0] ELSE token[t]]
  BY DEF PurgeExpiredTokens
<1>2. UNCHANGED <<hubKey, machines, made, home, proc, late, granted>>
  BY DEF PurgeExpiredTokens
<1>3. ASSUME NEW t \in Tokens
      PROVE  /\ token'[t] \in TokenRows
             /\ token'[t] = token[t] \/ (token'[t].state = "gone" /\ token'[t].machine = 0)
  <2>1. token[t] \in TokenRows /\ 0 \in 0..MaxRecords
    BY <1>0 DEF HubTypes
  <2>2. /\ [token[t] EXCEPT !.state = "gone", !.machine = 0] \in TokenRows
        /\ [token[t] EXCEPT !.state = "gone", !.machine = 0].state = "gone"
        /\ [token[t] EXCEPT !.state = "gone", !.machine = 0].machine = 0
    BY <2>1 DEF TokenRows
  <2> QED
    BY <1>1, <2>1, <2>2
<1>4. TypeOK'
  <2>1. token' \in [Tokens -> TokenRows]
    BY <1>1, <1>3
  <2> QED
    BY <1>0, <1>2, <2>1, TypesJoined DEF HubTypes, ProcTypes
<1>5. TokenInv'
  <2>1. \A g \in granted : g[1] \in Tokens
    BY <1>0 DEF HubTypes
  <2>2. made \in Nat /\ \A m \in machines : m.id # 0
    BY <1>0 DEF HubTypes, Records
  <2> QED
    BY <1>2, <1>3, <2>1, <2>2 DEF Inv, TokenInv, TokenEnrollsOne
<1>6. HomesInv'
  <2>1. \A g \in Homes : \A id \in 1..made : Named(g, id) => Named(g, id)'
    BY <1>2 DEF Named
  <2>2. ASSUME NEW g \in Homes, NEW s \in Tokens, Barred(g, s) PROVE Barred(g, s)'
    <3>1. \A m \in machines : m.id # 0
      BY <1>0 DEF HubTypes, Records
    <3> QED
      BY <1>2, <1>3, <2>2, <3>1 DEF Barred, Consumable
  <2>3. \A s \in Tokens : token[s].state # "none" => token'[s].state # "none"
    BY <1>3
  <2> QED
    BY <1>0, <1>2, <2>1, <2>2, <2>3, HubStepKept
<1> QED
  BY <1>4, <1>5, <1>6 DEF Inv, HomesInv

LEMMA DeleteKept == ASSUME Inv, NEW m, Delete(m) PROVE Inv'
<1>0. HubTypes /\ ProcTypes /\ hubKey \in 1..MaxHubKeys /\ late \subseteq [token : Tokens, key : Keys]
  BY TypesSplit DEF Inv
<1> USE DEF Delete, home
<1>1. ASSUME NEW t \in Tokens
      PROVE  /\ token'[t] \in TokenRows /\ token'[t].state = token[t].state
             /\ token'[t].expired = token[t].expired
             /\ token'[t].machine \in {0, token[t].machine}
  BY <1>0 DEF HubTypes, TokenRows
<1>2. TypeOK'
  <2>1. token' \in [Tokens -> TokenRows]
    BY <1>1
  <2> QED
    BY <1>0, <2>1, TypesJoined DEF HubTypes, ProcTypes
<1>3. \A n \in machines : n.id # 0
  BY <1>0 DEF HubTypes, Records
<1>4. TokenInv'
  <2>1. \A g \in granted : g[1] \in Tokens
    BY <1>0 DEF HubTypes
  <2>2. made \in Nat
    BY <1>0 DEF HubTypes
  <2> QED
    BY <1>1, <1>3, <2>1, <2>2 DEF Inv, TokenInv, TokenEnrollsOne
<1>5. HomesInv'
  <2>1. \A g \in Homes : \A id \in 1..made : Named(g, id) => Named(g, id)'
    BY DEF Named
  <2>2. ASSUME NEW g \in Homes, NEW s \in Tokens, Barred(g, s) PROVE Barred(g, s)'
    BY <1>1, <1>3, <2>2 DEF Barred, Consumable
  <2>3. \A s \in Tokens : token[s].state # "none" => token'[s].state # "none"
    BY <1>1
  <2> QED
    BY <1>0, <2>1, <2>2, <2>3, HubStepKept
<1> QED
  BY <1>2, <1>4, <1>5 DEF Inv, HomesInv

LEMMA HubLosesKeyKept == ASSUME Inv, HubLosesKey PROVE Inv'
<1>0. HubTypes /\ ProcTypes /\ hubKey \in 1..MaxHubKeys /\ late \subseteq [token : Tokens, key : Keys]
  BY TypesSplit DEF Inv
<1> USE DEF HubLosesKey, home
<1>1. TypeOK'
  BY <1>0, TypesJoined DEF HubTypes, ProcTypes
<1>2. TokenInv'
  BY DEF Inv, TokenInv, TokenEnrollsOne
<1>3. HomesInv'
  <2>1. \A g \in Homes : \A id \in 1..made : Named(g, id) => Named(g, id)'
    BY DEF Named
  <2>2. \A g \in Homes : \A s \in Tokens : Barred(g, s) => Barred(g, s)'
    BY DEF Barred, Consumable
  <2> QED
    BY <1>0, <2>1, <2>2, HubStepKept
<1> QED
  BY <1>1, <1>2, <1>3 DEF Inv, HomesInv

LEMMA ServeLateKept == ASSUME Inv, NEW r, ServeLate(r) PROVE Inv'
<1>0. HubTypes /\ ProcTypes /\ hubKey \in 1..MaxHubKeys /\ late \subseteq [token : Tokens, key : Keys]
  BY TypesSplit DEF Inv
<1> USE DEF ServeLate, home
<1>1. r.token \in Tokens /\ r.key \in Keys
  BY <1>0
<1>2. PICK answer \in Answers : EnrollTx(r.token, r.key, answer)
  BY DEF ServeLate
<1>3. HubTypes' /\ TokenInv'
  BY <1>1, <1>2, TxHub DEF Inv
<1>4. TypeOK'
  BY <1>0, <1>3, TypesJoined DEF ProcTypes
<1>5. HomesInv'
  <2>1. \A g \in Homes : \A id \in 1..made : Named(g, id) => Named(g, id)'
    BY <1>1, <1>2, TxKeepsNames DEF Inv
  <2>2. \A g \in Homes : \A s \in Tokens : Barred(g, s) => Barred(g, s)'
    BY <1>1, <1>2, TxKeepsBarred DEF Inv
  <2>3. \A s \in Tokens : token[s].state # "none" => token'[s].state # "none"
    BY <1>1, <1>2, TxKeepsStates DEF Inv
  <2> QED
    BY <1>0, <2>1, <2>2, <2>3, HubStepKept
<1> QED
  BY <1>3, <1>4, <1>5 DEF Inv, HomesInv

-----------------------------------------------------------------------------
(* The steps of an installer.                                              *)

LEMMA StartKept ==
    ASSUME Inv, NEW h \in Homes, NEW t \in Tokens, NEW checked \in BOOLEAN, Start(h, t, checked)
    PROVE  Inv'
<1>0. HubTypes /\ ProcTypes /\ hubKey \in 1..MaxHubKeys /\ late \subseteq [token : Tokens, key : Keys]
  BY TypesSplit DEF Inv
<1> DEFINE p == [at |-> "wait", token |-> t, attempt |-> 0, answer |-> NoAnswer,
                 expect |-> IF checked THEN token[t].hubKey ELSE 0]
<1>1. PICK k \in LoadOrCreate(h) : key' = [key EXCEPT ![h] = k]
  BY DEF Start
<1>2. k \in Keys
  BY <1>0, <1>1 DEF LoadOrCreate, ProcTypes
<1>3. p \in Procs(t) /\ p.at = "wait" /\ p.token = t
  BY <1>0 DEF Procs, Answers, NoAnswer, Running, Ended, HubTypes, TokenRows
<1>4. proc' = [proc EXCEPT ![h] = p] /\ token[t].state # "none"
      /\ UNCHANGED <<hub, pin, config, late, granted>>
  BY DEF Start
<1> HIDE DEF p
<1>5. ProcTypes'
  BY <1>0, <1>1, <1>2, <1>3, <1>4, ProcTyped DEF ProcTypes
<1>6. TypeOK' /\ TokenInv'
  BY <1>0, <1>4, <1>5, TypesJoined DEF HubTypes, hub, Inv, TokenInv, TokenEnrollsOne
<1>7. proc'[h] = p /\ key'[h] \in Keys
      /\ \A g \in Homes \ {h} : proc'[g] = proc[g] /\ key'[g] = key[g]
  BY <1>0, <1>1, <1>2, <1>4 DEF ProcTypes
<1>8. AnswerInv(h)' /\ RefusalInv(h)'
  BY <1>3, <1>7 DEF AnswerInv, RefusalInv
<1>9. HomesInv'
  BY <1>3, <1>4, <1>7, <1>8, OthersKept DEF hub
<1> QED
  BY <1>6, <1>9 DEF Inv, HomesInv

LEMMA ServeKept == ASSUME Inv, NEW h \in Homes, Serve(h) PROVE Inv'
<1>0. HubTypes /\ ProcTypes /\ hubKey \in 1..MaxHubKeys /\ late \subseteq [token : Tokens, key : Keys]
  BY TypesSplit DEF Inv
<1>t. PICK t : t = proc[h].token
  OBVIOUS
<1>1. PICK answer \in Answers :
          /\ EnrollTx(t, key[h], answer)
          /\ proc' = [proc EXCEPT ![h].at = "answered", ![h].answer = answer]
  BY <1>t DEF Serve
<1>2. UNCHANGED <<hubKey, key, pin, config, late>> /\ proc[h].at = "wait"
  BY DEF Serve, home
<1>3. proc[h] # Idle /\ t \in Tokens /\ proc[h] \in Procs(t) /\ key[h] \in Keys
      /\ token[t].state # "none"
  BY <1>t, <1>0, <1>2, IdleAt, StartedTyped DEF Inv, KeyInv, StartedInv
<1>4. HubTypes' /\ TokenInv'
  BY <1>1, <1>3, TxHub DEF Inv
<1> DEFINE p == [proc[h] EXCEPT !.at = "answered", !.answer = answer]
<1>5. p \in Procs(t) /\ p.at = "answered" /\ p.answer = answer /\ p.token = t
  BY <1>3 DEF Procs, Running, Ended
<1>6. proc' = [proc EXCEPT ![h] = p]
  BY <1>0, <1>1 DEF ProcTypes
<1> HIDE DEF p
<1>7. TypeOK'
  BY <1>0, <1>2, <1>3, <1>4, <1>5, <1>6, ProcTyped, TypesJoined DEF ProcTypes
<1>8. proc'[h] = p /\ \A g \in Homes \ {h} : proc'[g] = proc[g]
  BY <1>0, <1>6 DEF ProcTypes
<1>9. \A s \in Tokens : token[s].state # "none" => token'[s].state # "none"
  BY <1>1, <1>3, TxKeepsStates DEF Inv
<1>10. /\ answer.ok => Named(h, answer.id)' /\ answer.hubKey = hubKey
       /\ ~answer.ok => Barred(h, t)'
  BY <1>1, <1>2, <1>3, TxAnswers DEF Inv
<1>11. AnswerInv(h)' /\ RefusalInv(h)'
  BY <1>0, <1>2, <1>5, <1>8, <1>10 DEF AnswerInv, RefusalInv, Named, Barred, Consumable
<1>12. ASSUME NEW g \in Homes \ {h}, proc[g] # Idle
       PROVE  AnswerInv(g)' /\ RefusalInv(g)' /\ token'[proc[g].token].state # "none"
  <2>1. AnswerInv(g) /\ RefusalInv(g) /\ proc[g].token \in Tokens
    BY <1>0, <1>12, StartedTyped DEF Inv, HomeInv
  <2>2. \A id : Named(g, id) => Named(g, id)'
    BY <1>1, <1>2, <1>3, TxKeepsNames DEF Inv
  <2>3. Barred(g, proc[g].token) => Barred(g, proc[g].token)'
    <3>1. \A s \in Tokens : Barred(g, s) => Barred(g, s)'
      BY <1>1, <1>2, <1>3, TxKeepsBarred DEF Inv
    <3>2. \A s \in Tokens : s = proc[g].token /\ Barred(g, s)' => Barred(g, proc[g].token)'
      BY <1>8, <1>12 DEF Barred, Consumable
    <3> QED
      BY <2>1, <3>1, <3>2
  <2>4. AnswerInv(g)'
    BY <1>2, <1>8, <2>1, <2>2 DEF AnswerInv, Named
  <2>5. RefusalInv(g)'
    BY <1>2, <1>8, <2>1, <2>3 DEF RefusalInv, Barred, Consumable
  <2>6. token'[proc[g].token].state # "none"
    BY <1>9, <1>12, <2>1 DEF Inv, StartedInv
  <2> QED
    BY <2>4, <2>5, <2>6
<1>13. KeyInv' /\ StartedInv'
  BY <1>2, <1>3, <1>5, <1>8, <1>9, <1>12 DEF Inv, KeyInv, StartedInv
<1>14. HomeInv'
  BY <1>8, <1>11, <1>12 DEF HomeInv
<1> QED
  BY <1>4, <1>7, <1>13, <1>14 DEF Inv

\* A step of the installer at h that leaves the hub alone.
LEMMA OwnStep ==
    ASSUME Inv, NEW h \in Homes, UNCHANGED <<hub, granted>>, ProcTypes',
           late' \subseteq [token : Tokens, key : Keys],
           \A g \in Homes \ {h} : proc'[g] = proc[g] /\ key'[g] = key[g] /\ pin'[g] = pin[g]
                                   /\ config'[g] = config[g],
           proc'[h] # Idle => /\ key'[h] \in Keys /\ token[proc'[h].token].state # "none"
                              /\ AnswerInv(h)' /\ RefusalInv(h)'
    PROVE  Inv'
<1>1. HubTypes /\ hubKey \in 1..MaxHubKeys
  BY TypesSplit DEF Inv
<1>2. TypeOK' /\ TokenInv'
  BY <1>1, TypesJoined DEF HubTypes, hub, Inv, TokenInv, TokenEnrollsOne
<1>3. HomesInv'
  BY OthersKept DEF hub
<1> QED
  BY <1>2, <1>3 DEF Inv, HomesInv

\* What is known of a running installer.
LEMMA RunningFacts ==
    ASSUME Inv, NEW h \in Homes, proc[h] # Idle
    PROVE  /\ proc[h].token \in Tokens /\ proc[h] \in Procs(proc[h].token)
           /\ key[h] \in Keys /\ token[proc[h].token].state # "none"
           /\ AnswerInv(h) /\ RefusalInv(h)
BY TypesSplit, StartedTyped DEF Inv, KeyInv, StartedInv, HomeInv

\* It goes on at another place, and nothing else of it changes.
LEMMA Moves ==
    ASSUME Inv, NEW h \in Homes, proc[h] # Idle, NEW place \in {"refused", "failed", "save", "done"},
           proc' = [proc EXCEPT ![h].at = place]
    PROVE  /\ proc'[h].at = place /\ proc'[h].token = proc[h].token /\ proc'[h].answer = proc[h].answer
           /\ proc'[h].expect = proc[h].expect
           /\ proc' \in [Homes -> ProcSet]
           /\ \A g \in Homes \ {h} : proc'[g] = proc[g]
<1> DEFINE p == [proc[h] EXCEPT !.at = place]
<1>0. ProcTypes
  BY TypesSplit DEF Inv
<1>1. proc[h].token \in Tokens /\ proc[h] \in Procs(proc[h].token)
  BY RunningFacts
<1>2. p \in Procs(proc[h].token) /\ p.at = place /\ p.token = proc[h].token
      /\ p.answer = proc[h].answer /\ p.expect = proc[h].expect
  BY <1>1 DEF Procs, Running, Ended
<1>3. proc' = [proc EXCEPT ![h] = p]
  BY <1>0 DEF ProcTypes
<1> HIDE DEF p
<1>4. proc'[h] = p /\ \A g \in Homes \ {h} : proc'[g] = proc[g]
  BY <1>0, <1>3 DEF ProcTypes
<1> QED
  BY <1>0, <1>1, <1>2, <1>3, <1>4, ProcTyped

LEMMA LateTyped ==
    ASSUME Inv, NEW h \in Homes, proc[h] # Idle, Abandon(h)
    PROVE  late' \subseteq [token : Tokens, key : Keys]
BY RunningFacts DEF Abandon, Inv, TypeOK

LEMMA RetryKept == ASSUME Inv, NEW h \in Homes, Retry(h) PROVE Inv'
<1>0. ProcTypes
  BY TypesSplit DEF Inv
<1>1. proc[h] # Idle
  BY IdleAt DEF Retry
<1>2. /\ proc[h].token \in Tokens /\ proc[h] \in Procs(proc[h].token)
      /\ key[h] \in Keys /\ token[proc[h].token].state # "none"
  BY <1>1, RunningFacts
<1>3. PICK p \in Procs(proc[h].token) :
          /\ proc' = [proc EXCEPT ![h] = p] /\ p.at \in {"wait", "failed"}
          /\ p.token = proc[h].token
  <2>1. proc[h].attempt \in 0..Retries /\ NoAnswer \in Answers
    BY <1>2 DEF Procs, NoAnswer, Answers
  <2>2. CASE proc[h].attempt < Retries
    <3> DEFINE p == [proc[h] EXCEPT !.at = "wait", !.attempt = @ + 1, !.answer = NoAnswer]
    <3>1. proc[h].attempt + 1 \in 0..Retries
      BY <2>1, <2>2
    <3>2. p \in Procs(proc[h].token) /\ p.at = "wait" /\ p.token = proc[h].token
      BY <1>2, <2>1, <3>1 DEF Procs, Running, Ended
    <3>3. proc' = [proc EXCEPT ![h] = p]
      BY <1>0, <2>2 DEF Retry, ProcTypes
    <3> QED
      BY <3>2, <3>3
  <2>3. CASE ~(proc[h].attempt < Retries)
    <3> DEFINE p == [proc[h] EXCEPT !.at = "failed", !.answer = NoAnswer]
    <3>1. p \in Procs(proc[h].token) /\ p.at = "failed" /\ p.token = proc[h].token
      BY <1>2, <2>1 DEF Procs, Running, Ended
    <3>2. proc' = [proc EXCEPT ![h] = p]
      BY <1>0, <2>3 DEF Retry, ProcTypes
    <3> QED
      BY <3>1, <3>2
  <2> QED
    BY <2>2, <2>3
<1>4. UNCHANGED <<hub, key, pin, config, granted>> /\ Abandon(h)
  BY DEF Retry, home
<1>5. proc'[h] = p /\ \A g \in Homes \ {h} : proc'[g] = proc[g]
  BY <1>0, <1>3 DEF ProcTypes
<1>6. ProcTypes'
  BY <1>0, <1>2, <1>3, <1>4, ProcTyped DEF ProcTypes
<1>7. AnswerInv(h)' /\ RefusalInv(h)'
  BY <1>3, <1>5 DEF AnswerInv, RefusalInv
<1>8. late' \subseteq [token : Tokens, key : Keys]
  BY <1>1, <1>4, LateTyped
<1> QED
  BY <1>2, <1>3, <1>4, <1>5, <1>6, <1>7, <1>8, OwnStep

LEMMA RefusedKept == ASSUME Inv, NEW h \in Homes, Refused(h) PROVE Inv'
<1>0. ProcTypes /\ late \subseteq [token : Tokens, key : Keys]
  BY TypesSplit DEF Inv
<1>1. proc[h] # Idle /\ proc' = [proc EXCEPT ![h].at = "refused"]
      /\ UNCHANGED <<hub, key, pin, config, late, granted>>
  BY IdleAt DEF Refused, home
<1>2. proc'[h].at = "refused" /\ proc'[h].token = proc[h].token /\ proc' \in [Homes -> ProcSet]
      /\ \A g \in Homes \ {h} : proc'[g] = proc[g]
  BY <1>1, Moves
<1>3. key[h] \in Keys /\ token[proc[h].token].state # "none" /\ RefusalInv(h)
  BY <1>1, RunningFacts
<1>4. AnswerInv(h)'
  BY <1>2 DEF AnswerInv
<1>5. RefusalInv(h)'
  BY <1>1, <1>2, <1>3 DEF RefusalInv, Barred, Consumable, Refused, hub
<1> QED
  BY <1>0, <1>1, <1>2, <1>3, <1>4, <1>5, OwnStep DEF ProcTypes

LEMMA MismatchKept == ASSUME Inv, NEW h \in Homes, HubKeyMismatch(h) PROVE Inv'
<1>0. ProcTypes /\ late \subseteq [token : Tokens, key : Keys]
  BY TypesSplit DEF Inv
<1>1. proc[h] # Idle /\ proc' = [proc EXCEPT ![h].at = "failed"]
      /\ UNCHANGED <<hub, key, pin, config, late, granted>>
  BY IdleAt DEF HubKeyMismatch, home
<1>2. proc'[h].at = "failed" /\ proc'[h].token = proc[h].token /\ proc' \in [Homes -> ProcSet]
      /\ \A g \in Homes \ {h} : proc'[g] = proc[g]
  BY <1>1, Moves
<1>3. key[h] \in Keys /\ token[proc[h].token].state # "none"
  BY <1>1, RunningFacts
<1>4. AnswerInv(h)' /\ RefusalInv(h)'
  BY <1>2 DEF AnswerInv, RefusalInv
<1> QED
  BY <1>0, <1>1, <1>2, <1>3, <1>4, OwnStep DEF ProcTypes

LEMMA PinKept == ASSUME Inv, NEW h \in Homes, PinHubKey(h) PROVE Inv'
<1>0. ProcTypes /\ late \subseteq [token : Tokens, key : Keys] /\ hubKey \in 1..MaxHubKeys
  BY TypesSplit DEF Inv
<1>1. proc[h] # Idle /\ proc' = [proc EXCEPT ![h].at = "save"]
      /\ pin' = [pin EXCEPT ![h] = proc[h].answer.hubKey]
      /\ UNCHANGED <<hub, key, config, late, granted>>
      /\ proc[h].at = "answered" /\ proc[h].answer.ok /\ Expected(h)
  BY IdleAt DEF PinHubKey
<1>2. proc'[h].at = "save" /\ proc'[h].token = proc[h].token /\ proc'[h].answer = proc[h].answer
      /\ proc'[h].expect = proc[h].expect /\ proc' \in [Homes -> ProcSet]
      /\ \A g \in Homes \ {h} : proc'[g] = proc[g]
  BY <1>1, Moves
<1>3. key[h] \in Keys /\ token[proc[h].token].state # "none" /\ AnswerInv(h)
  BY <1>1, RunningFacts
<1>4. proc[h].answer.hubKey \in 1..hubKey /\ Named(h, proc[h].answer.id)
  BY <1>1, <1>3 DEF AnswerInv
<1>5. pin' \in [Homes -> 0..MaxHubKeys] /\ pin'[h] = proc[h].answer.hubKey
      /\ \A g \in Homes \ {h} : pin'[g] = pin[g]
  BY <1>0, <1>1, <1>4 DEF ProcTypes
<1>6. Named(h, proc[h].answer.id)'
  BY <1>1, <1>2, <1>4 DEF Named, hub
<1>7. AnswerInv(h)'
  BY <1>1, <1>2, <1>4, <1>5, <1>6 DEF AnswerInv, Expected, hub, Named
<1>8. RefusalInv(h)'
  BY <1>2 DEF RefusalInv
<1> QED
  BY <1>0, <1>1, <1>2, <1>3, <1>5, <1>7, <1>8, OwnStep DEF ProcTypes

LEMMA SaveKept == ASSUME Inv, NEW h \in Homes, SaveConfig(h) PROVE Inv'
<1>0. ProcTypes /\ late \subseteq [token : Tokens, key : Keys] /\ made \in 0..MaxRecords
  BY TypesSplit DEF Inv, HubTypes
<1>1. proc[h] # Idle /\ proc' = [proc EXCEPT ![h].at = "done"]
      /\ config' = [config EXCEPT ![h] = proc[h].answer.id]
      /\ UNCHANGED <<hub, key, pin, late, granted>> /\ proc[h].at = "save"
  BY IdleAt DEF SaveConfig
<1>2. proc'[h].at = "done" /\ proc'[h].token = proc[h].token /\ proc'[h].answer = proc[h].answer
      /\ proc'[h].expect = proc[h].expect /\ proc' \in [Homes -> ProcSet]
      /\ \A g \in Homes \ {h} : proc'[g] = proc[g]
  BY <1>1, Moves
<1>3. key[h] \in Keys /\ token[proc[h].token].state # "none" /\ AnswerInv(h)
  BY <1>1, RunningFacts
<1>4. Named(h, proc[h].answer.id) /\ proc[h].answer.ok
  BY <1>1, <1>3 DEF AnswerInv
<1>5. config' \in [Homes -> 0..MaxRecords] /\ config'[h] = proc[h].answer.id
      /\ \A g \in Homes \ {h} : config'[g] = config[g]
  BY <1>0, <1>1, <1>4 DEF ProcTypes, Named
<1>6. AnswerInv(h)'
  BY <1>1, <1>2, <1>3, <1>4, <1>5 DEF AnswerInv, hub, Named
<1>7. RefusalInv(h)'
  BY <1>2 DEF RefusalInv
<1> QED
  BY <1>0, <1>1, <1>2, <1>3, <1>5, <1>6, <1>7, OwnStep DEF ProcTypes

LEMMA DieKept == ASSUME Inv, NEW h \in Homes, Die(h) PROVE Inv'
<1>0. ProcTypes
  BY TypesSplit DEF Inv
<1>1. proc[h] # Idle /\ proc' = [proc EXCEPT ![h] = Idle] /\ Abandon(h)
      /\ UNCHANGED <<hub, key, pin, config, granted>>
  BY IdleAt DEF Die, Running, home
<1>2. proc'[h] = Idle /\ ProcTypes' /\ \A g \in Homes \ {h} : proc'[g] = proc[g]
  BY <1>0, <1>1 DEF ProcTypes, ProcSet
<1>3. late' \subseteq [token : Tokens, key : Keys]
  BY <1>1, LateTyped
<1> QED
  BY <1>1, <1>2, <1>3, OwnStep

LEMMA RemoveKept == ASSUME Inv, NEW h \in Homes, RemoveIdentity(h) PROVE Inv'
<1>0. ProcTypes /\ late \subseteq [token : Tokens, key : Keys]
  BY TypesSplit DEF Inv
<1>1. /\ key' = [key EXCEPT ![h] = NoKey] /\ pin' = [pin EXCEPT ![h] = 0]
      /\ proc' = [proc EXCEPT ![h] = Idle] /\ UNCHANGED <<hub, config, late, granted>>
  BY DEF RemoveIdentity
<1>2. proc'[h] = Idle /\ ProcTypes'
      /\ \A g \in Homes \ {h} : proc'[g] = proc[g] /\ key'[g] = key[g] /\ pin'[g] = pin[g]
  BY <1>0, <1>1 DEF ProcTypes, ProcSet
<1> QED
  BY <1>0, <1>1, <1>2, OwnStep

-----------------------------------------------------------------------------
(* The theorems.                                                           *)

LEMMA InitInv == Init => Inv
<1> SUFFICES ASSUME Init PROVE Inv
  OBVIOUS
<1>1. TypeOK
  BY DEF Init, TypeOK, TokenRows
<1>2. TokenInv /\ KeyInv /\ StartedInv /\ HomeInv
  BY DEF Init, TokenInv, TokenEnrollsOne, KeyInv, StartedInv, HomeInv
<1> QED
  BY <1>1, <1>2 DEF Inv

LEMMA StepInv == Inv /\ [Next]_vars => Inv'
<1> SUFFICES ASSUME Inv, [Next]_vars PROVE Inv'
  OBVIOUS
<1>1. ASSUME NEW t \in Tokens, IssueToken(t) \/ Expire(t) PROVE Inv'
  BY <1>1, IssueKept, ExpireKept
<1>2. CASE PurgeExpiredTokens \/ HubLosesKey
  BY <1>2, PurgeKept, HubLosesKeyKept
<1>3. ASSUME NEW m \in machines, Delete(m) PROVE Inv'
  BY <1>3, DeleteKept
<1>4. ASSUME NEW r \in late, ServeLate(r) PROVE Inv'
  BY <1>4, ServeLateKept
<1>5. ASSUME NEW h \in Homes, NEW t \in Tokens, NEW checked \in BOOLEAN, Start(h, t, checked)
      PROVE  Inv'
  BY <1>5, StartKept
<1>6. ASSUME NEW h \in Homes, Serve(h) \/ Retry(h) \/ Refused(h) \/ HubKeyMismatch(h) PROVE Inv'
  BY <1>6, ServeKept, RetryKept, RefusedKept, MismatchKept
<1>7. ASSUME NEW h \in Homes, PinHubKey(h) \/ SaveConfig(h) \/ Die(h) \/ RemoveIdentity(h) PROVE Inv'
  BY <1>7, PinKept, SaveKept, DieKept, RemoveKept
<1>8. CASE UNCHANGED vars
  <2>1. TypeOK' /\ TokenInv' /\ KeyInv' /\ StartedInv'
    BY <1>8 DEF Inv, vars, hub, home, TypeOK, TokenInv, TokenEnrollsOne, KeyInv, StartedInv
  <2>2. HomeInv'
    BY <1>8 DEF Inv, vars, hub, home, HomeInv, AnswerInv, RefusalInv, Named, Barred, Consumable
  <2> QED
    BY <2>1, <2>2 DEF Inv
<1> QED
  BY <1>1, <1>2, <1>3, <1>4, <1>5, <1>6, <1>7, <1>8 DEF Next

LEMMA Invariant == Spec => []Inv
BY InitInv, StepInv, PTL DEF Spec

\* Every value has its type, a record its own key, and an installer that runs one of the tokens.
THEOREM TypeCorrect == Spec => []TypeOK
<1>1. Inv => TypeOK
  BY DEF Inv
<1> QED
  BY <1>1, Invariant, PTL

\* consume.go: the conditional UPDATE and the comparison of keys in a replay let one key pass for
\* a token, in whatever order requests, repetitions, late arrivals and deletions come.
THEOREM OneKeyPerToken == Spec => []TokenEnrollsOne
<1>1. Inv => TokenEnrollsOne
  BY DEF Inv, TokenInv
<1> QED
  BY <1>1, Invariant, PTL

\* consume.go against the retries of enroll.go: whoever is refused was not registered with this
\* token, so an installer whose answer was lost is not turned away.
THEOREM RefusedNotRegistered == Spec => []RefusedIsUnknown
<1>1. Inv => RefusedIsUnknown
  <2> SUFFICES ASSUME Inv, NEW h \in Homes, proc[h].at = "refused"
               PROVE  \A m \in machines : m.id = token[proc[h].token].machine => m.key # key[h]
    BY DEF RefusedIsUnknown
  <2>1. RefusalInv(h)
    BY IdleAt, RunningFacts
  <2> QED
    BY <2>1 DEF RefusalInv, Barred
<1> QED
  BY <1>1, Invariant, PTL

\* enroll.go: an installer that reports success leaves the id of the record of its key, and the
\* hub's key it was told to expect.
THEOREM SuccessIsRegistered == Spec => []DoneIsKnown
<1>1. Inv => DoneIsKnown
  <2> SUFFICES ASSUME Inv, NEW h \in Homes, proc[h].at = "done"
               PROVE  /\ config[h] \in 1..made
                      /\ \A m \in machines : /\ m.id = config[h] => m.key = key[h]
                                             /\ m.key = key[h] => m.id >= config[h]
                      /\ pin[h] \in 1..hubKey
                      /\ proc[h].expect \in {0, pin[h]}
    BY DEF DoneIsKnown
  <2>1. AnswerInv(h)
    BY IdleAt, RunningFacts
  <2> QED
    BY <2>1 DEF AnswerInv, Named
<1> QED
  BY <1>1, Invariant, PTL

=============================================================================
