------------------------------- MODULE Enroll -------------------------------
(***************************************************************************)
(* How a machine becomes known to the hub.  A superuser has the hub issue  *)
(* a token that is good for one registration and for a quarter of an hour. *)
(* The installer on the machine makes a key pair, posts its public half    *)
(* with the token, tries again when the answer does not come, pins the key *)
(* the hub answers with, and writes agent.yml.  The hub consumes the token *)
(* and makes or updates the record of the machine in one transaction.      *)
(*                                                                         *)
(* A request the installer no longer waits for may still reach the hub     *)
(* (late).  A key stands for the key pair, its public half and its         *)
(* fingerprint.  Requests whose fields do not parse are left out.          *)
(***************************************************************************)
EXTENDS Integers, FiniteSets

CONSTANTS
    Homes,      \* the accounts agents are installed in
    Tokens,
    Keys,       \* the key pairs that are ever generated
    NoKey,
    Retries,    \* how often a post is tried again
    MaxHubKeys, \* bound: keys the hub has in its life
    MaxRecords  \* bound: records of machines ever made

ASSUME EnrollAssumption == /\ NoKey \notin Keys
                           /\ {Retries, MaxRecords} \subseteq Nat /\ MaxHubKeys \in Nat \ {0}

VARIABLES
    hubKey,     \* the number of the hub's own key
    token,      \* the rows of enroll_tokens
    machines,   \* the records of machines
    made,       \* how many records were ever made: the last id
    key,        \* of every home: identity/agent.key
    pin,        \* identity/hub.pub, 0 when there is none
    config,     \* the machine id in agent.yml, 0 when there is none
    proc,       \* the installer of every home
    late,       \* requests nobody waits for, still on their way
    granted     \* history: the tokens and keys that were answered with OK

hub == <<hubKey, token, machines, made>>
home == <<key, pin, config>>
vars == <<hub, home, proc, late, granted>>

Records == [id : 1..MaxRecords, key : Keys]
TokenRows == [state : {"none", "open", "used", "gone"}, expired : BOOLEAN,
              machine : 0..MaxRecords, hubKey : 0..MaxHubKeys]
Answers == [ok : BOOLEAN, id : 0..MaxRecords, hubKey : 0..MaxHubKeys]
NoAnswer == [ok |-> FALSE, id |-> 0, hubKey |-> 0]
Idle == [at |-> "idle"]
Running == {"wait", "answered", "save"}
Ended == {"idle", "refused", "failed", "done"}
Procs(t) == [at : (Running \cup Ended) \ {"idle"}, token : {t}, attempt : 0..Retries,
             expect : 0..MaxHubKeys, answer : Answers]

TypeOK ==
    /\ hubKey \in 1..MaxHubKeys
    /\ token \in [Tokens -> TokenRows]
    /\ machines \subseteq Records
    /\ \A m, n \in machines : (m.id = n.id) = (m.key = n.key)
    /\ made \in 0..MaxRecords
    /\ key \in [Homes -> Keys \cup {NoKey}]
    /\ pin \in [Homes -> 0..MaxHubKeys]
    /\ config \in [Homes -> 0..MaxRecords]
    /\ proc \in [Homes -> {Idle} \cup UNION {Procs(t) : t \in Tokens}]
    /\ late \subseteq [token : Tokens, key : Keys]
    /\ granted \subseteq Tokens \X Keys

Init ==
    /\ hubKey = 1
    /\ token = [t \in Tokens |-> [state |-> "none", expired |-> FALSE, machine |-> 0, hubKey |-> 0]]
    /\ machines = {} /\ made = 0
    /\ key = [h \in Homes |-> NoKey]
    /\ pin = [h \in Homes |-> 0]
    /\ config = [h \in Homes |-> 0]
    /\ proc = [h \in Homes |-> Idle]
    /\ late = {} /\ granted = {}

-----------------------------------------------------------------------------
(* The hub *)

\* POST enroll-tokens: the install command carries the token and the
\* fingerprint of the hub's key at this time.
IssueToken(t) ==
    /\ token[t].state = "none"
    /\ token' = [token EXCEPT ![t].state = "open", ![t].hubKey = hubKey]
    /\ UNCHANGED <<hubKey, machines, made, home, proc, late, granted>>

\* expires_at passes.
Expire(t) ==
    /\ token[t].state # "none" /\ ~token[t].expired
    /\ token' = [token EXCEPT ![t].expired = TRUE]
    /\ UNCHANGED <<hubKey, machines, made, home, proc, late, granted>>

\* The hourly task deletes the tokens that expired a day ago.
PurgeExpiredTokens ==
    /\ \E old \in SUBSET {t \in Tokens : token[t].expired /\ token[t].state # "gone"} :
        /\ old # {}
        /\ token' = [t \in Tokens |-> IF t \in old
                        THEN [token[t] EXCEPT !.state = "gone", !.machine = 0] ELSE token[t]]
    /\ UNCHANGED <<hubKey, machines, made, home, proc, late, granted>>

\* A record is deleted: the token that made it points nowhere.
Delete(m) ==
    /\ m \in machines
    /\ machines' = machines \ {m}
    /\ token' = [t \in Tokens |->
                    IF token[t].machine = m.id THEN [token[t] EXCEPT !.machine = 0] ELSE token[t]]
    /\ UNCHANGED <<hubKey, made, home, proc, late, granted>>

\* The hub starts on a data directory without its key file, and makes a key.
HubLosesKey ==
    /\ hubKey < MaxHubKeys
    /\ hubKey' = hubKey + 1
    /\ UNCHANGED <<token, machines, made, home, proc, late, granted>>

\* The conditional UPDATE changes a row only of an unused token in its time.
Consumable(t) == token[t].state = "open" /\ ~token[t].expired

\* A mutant: a record for every registration.
UpsertInserts(k) == [id |-> made + 1, key |-> k]

\* The record of the machine that already has this fingerprint, or a new one.
Known(k) == {m \in machines : m.key = k}
UpsertMachine(k) ==
    IF Known(k) # {} THEN CHOOSE m \in Known(k) : TRUE ELSE [id |-> made + 1, key |-> k]

\* Mutants: the token alone decides; a used token is refused.
ReplayToken(t, k) == {m \in machines : token[t].state = "used" /\ m.id = token[t].machine}
ReplayNone(t, k) == {}

\* A used token answers the key it registered once more, and nobody else.
Replay(t, k) == {m \in machines : token[t].state = "used" /\ m.id = token[t].machine /\ m.key = k}

Ok(m) == [ok |-> TRUE, id |-> m.id, hubKey |-> hubKey]

\* One transaction, with what it answers.
EnrollTx(t, k, answer) ==
    \/ /\ Consumable(t)
       /\ LET m == UpsertMachine(k) IN
          /\ m.id <= MaxRecords
          /\ machines' = machines \cup {m}
          /\ made' = IF m.id > made THEN m.id ELSE made
          /\ token' = [token EXCEPT ![t].state = "used", ![t].machine = m.id]
          /\ granted' = granted \cup {<<t, k>>}
          /\ answer = Ok(m)
    \/ /\ ~Consumable(t)
       /\ \E m \in Replay(t, k) : answer = Ok(m)
       /\ granted' = granted \cup {<<t, k>>}
       /\ UNCHANGED <<token, machines, made>>
    \/ /\ ~Consumable(t) /\ Replay(t, k) = {}
       /\ answer = NoAnswer
       /\ UNCHANGED <<token, machines, made, granted>>

\* The hub handles the request a home waits for, or one nobody waits for.
Serve(h) ==
    /\ proc[h].at = "wait"
    /\ \E answer \in Answers :
        /\ EnrollTx(proc[h].token, key[h], answer)
        /\ proc' = [proc EXCEPT ![h].at = "answered", ![h].answer = answer]
    /\ UNCHANGED <<hubKey, home, late>>

ServeLate(r) ==
    /\ r \in late
    /\ \E answer \in Answers : EnrollTx(r.token, r.key, answer)
    /\ late' = late \ {r}
    /\ UNCHANGED <<hubKey, home, proc>>

-----------------------------------------------------------------------------
(* The installer *)

\* LoadOrCreate: the key on the disk, or a fresh one.
LoadOrCreate(h) ==
    IF key[h] # NoKey THEN {key[h]}
    ELSE {k \in Keys : /\ k \notin {key[g] : g \in Homes} \cup {m.key : m \in machines}
                    /\ k \notin {r.key : r \in late} \cup {g[2] : g \in granted}}

\* With the token, and with --hub-key or without, the installer starts.
Start(h, t, checked) ==
    /\ proc[h].at \in Ended /\ token[t].state # "none"
    /\ \E k \in LoadOrCreate(h) : key' = [key EXCEPT ![h] = k]
    /\ proc' = [proc EXCEPT ![h] =
                  [at |-> "wait", token |-> t, attempt |-> 0, answer |-> NoAnswer,
                   expect |-> IF checked THEN token[t].hubKey ELSE 0]]
    /\ UNCHANGED <<hub, pin, config, late, granted>>

\* What becomes of a request that is given up: it was answered, it is lost,
\* or it will still arrive.
Abandon(h) ==
    \/ late' = late
    \/ proc[h].at = "wait" /\ late' = late \cup {[token |-> proc[h].token, key |-> key[h]]}

\* No answer in ten seconds, a broken connection, or a 5xx: try again, or
\* give up after the last attempt.
Retry(h) ==
    /\ proc[h].at \in {"wait", "answered"}
    /\ Abandon(h)
    /\ proc' = IF proc[h].attempt < Retries
               THEN [proc EXCEPT ![h].at = "wait", ![h].attempt = @ + 1, ![h].answer = NoAnswer]
               ELSE [proc EXCEPT ![h].at = "failed", ![h].answer = NoAnswer]
    /\ UNCHANGED <<hub, home, granted>>

\* A 4xx is final.
Refused(h) ==
    /\ proc[h].at = "answered" /\ ~proc[h].answer.ok
    /\ proc' = [proc EXCEPT ![h].at = "refused"]
    /\ UNCHANGED <<hub, home, late, granted>>

\* A mutant: --hub-key is not compared.
ExpectedAnything(h) == TRUE

\* With --hub-key the answer must be of that hub.
Expected(h) == proc[h].expect \in {0, proc[h].answer.hubKey}

HubKeyMismatch(h) ==
    /\ proc[h].at = "answered" /\ proc[h].answer.ok /\ ~Expected(h)
    /\ proc' = [proc EXCEPT ![h].at = "failed"]
    /\ UNCHANGED <<hub, home, late, granted>>

PinHubKey(h) ==
    /\ proc[h].at = "answered" /\ proc[h].answer.ok /\ Expected(h)
    /\ pin' = [pin EXCEPT ![h] = proc[h].answer.hubKey]
    /\ proc' = [proc EXCEPT ![h].at = "save"]
    /\ UNCHANGED <<hub, key, config, late, granted>>

SaveConfig(h) ==
    /\ proc[h].at = "save"
    /\ config' = [config EXCEPT ![h] = proc[h].answer.id]
    /\ proc' = [proc EXCEPT ![h].at = "done"]
    /\ UNCHANGED <<hub, key, pin, late, granted>>

\* A file cannot be written, or the installer is killed.
Die(h) ==
    /\ proc[h].at \in Running
    /\ Abandon(h)
    /\ proc' = [proc EXCEPT ![h] = Idle]
    /\ UNCHANGED <<hub, home, granted>>

\* Somebody removes the identity directory.
RemoveIdentity(h) ==
    /\ proc[h].at \in Ended /\ key[h] # NoKey
    /\ key' = [key EXCEPT ![h] = NoKey]
    /\ pin' = [pin EXCEPT ![h] = 0]
    /\ proc' = [proc EXCEPT ![h] = Idle]
    /\ UNCHANGED <<hub, config, late, granted>>

Next ==
    \/ \E t \in Tokens : IssueToken(t) \/ Expire(t)
    \/ PurgeExpiredTokens \/ HubLosesKey
    \/ \E m \in machines : Delete(m)
    \/ \E r \in late : ServeLate(r)
    \/ \E h \in Homes :
        \/ \E t \in Tokens, checked \in BOOLEAN : Start(h, t, checked)
        \/ Serve(h) \/ Retry(h) \/ Refused(h) \/ HubKeyMismatch(h)
        \/ PinHubKey(h) \/ SaveConfig(h) \/ Die(h) \/ RemoveIdentity(h)

Spec == Init /\ [][Next]_vars

-----------------------------------------------------------------------------
\* A token registers one key, whoever else posts it and however often the
\* request is repeated or comes late (hub/internal/enroll/consume.go: the
\* conditional UPDATE is the only arbiter, a replay is known by its key).
TokenEnrollsOne == \A g1, g2 \in granted : g1[1] = g2[1] => g1[2] = g2[2]

\* Who is refused was not registered: when an answer is lost, or the
\* installer dies after the hub committed, the next post of the same key is
\* a replay and succeeds, so no machine is stuck with a used token.
RefusedIsUnknown ==
    \A h \in Homes : proc[h].at = "refused" =>
        \A m \in machines : m.id = token[proc[h].token].machine => m.key # key[h]

\* An installer that reports success leaves a home the hub knows: the id in
\* agent.yml is that of the record of its key, unless somebody deleted that
\* record since, after which a request that came late may have made a later
\* one; and the key it pinned is the one the install command announced.
DoneIsKnown ==
    \A h \in Homes : proc[h].at = "done" =>
        /\ config[h] \in 1..made
        /\ \A m \in machines : /\ m.id = config[h] => m.key = key[h]
                               /\ m.key = key[h] => m.id >= config[h]
        /\ pin[h] \in 1..hubKey
        /\ proc[h].expect \in {0, pin[h]}
=============================================================================
