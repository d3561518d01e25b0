------------------------------- MODULE Values -------------------------------
(***************************************************************************)
(* The values behind the placeholders of a file: the keys and addresses of *)
(* a provider and the variables of a machine, from the hub's records       *)
(* through the snapshot (providers/store.go, variables/variables.go,       *)
(* configsync/provider.go, configsync/notify.go) to the agent, which puts  *)
(* them into the file and, when the file was edited, takes them out again  *)
(* (agent/internal/secrets, agent/internal/render, protocol/placeholder.go)*)
(*                                                                         *)
(* One config set of one file, one provider, one machine.  A text is a     *)
(* fixed row of slots, and a slot holds one word: a placeholder or plain   *)
(* text.  Words do not run into each other and hold no braces, so that     *)
(* every known value is found and Restore is always safe.                  *)
(*                                                                         *)
(* Calls run concurrently: a call reads the provider, and saves the fields *)
(* it changed as they were when it read them.  So do the read loops of the *)
(* hub, one for every connection: the loop of a broken connection may      *)
(* still be putting an answer together when the next one is up, and        *)
(* answers on the connection there is.                                     *)
(***************************************************************************)
EXTENDS Naturals, Sequences, FiniteSets

CONSTANTS
    Slots,
    Texts,          \* plain words; the values of placeholders are among them
    Keys,           \* texts that serve as keys
    Short,          \* texts below MinVarLen
    MachineName,    \* the value of {{machine.name}}
    Templates,      \* the files that are published
    Inputs,         \* the forms that UpdateProvider is called with
    Calls,          \* slots for calls that run at the same time
    None,
    Variables,      \* texts the variable is set to
    MaxChanges,     \* bound on the calls
    MaxDrops        \* bound on the breaks of the connection and the restarts

\* The connections of the machine, numbered: each break is followed by at most one.
Links == 1 .. (MaxDrops + 1)

Endpoints == {"claude", "openai"}
SecretKeys == {"claude.auth_token", "openai.api_key"}
ProviderKeys == SecretKeys \cup {"claude.base_url"}
Refs == ProviderKeys \cup {"var", "machine"}
Files == [Slots -> Refs \cup Texts]
Contents == [Slots -> Texts]
Lookups == [Refs -> Texts \cup {None}]
\* An endpoint is configured when it has an address; it shows the last characters of its key.
Endpoint == [url : Texts \cup {None}, last4 : Keys \cup {None}]
Records == [key : Keys \cup {None},                  \* key_cipher, of the platform
            own : [Endpoints -> Keys \cup {None}],   \* claude_key_cipher, openai_key_cipher
            end : [Endpoints -> Endpoint]]           \* the claude and openai columns

\* What UpdateProvider may be called with; "keep" leaves a key as it is.
Forms == [key : Keys \cup {None, "keep"}, own : [Endpoints -> Keys \cup {None, "keep"}],
          url : [Endpoints -> Texts \cup {None}]]
Snapshots == [file : Files, look : Lookups]
Entries == [template : Files, content : Contents]

ASSUME ValuesAssumption ==
    /\ IsFiniteSet(Slots) /\ MaxDrops \in Nat
    /\ Keys \subseteq Texts \ Short /\ Short \subseteq Texts /\ MachineName \in Texts
    /\ Variables \subseteq Texts
    /\ Templates \subseteq Files /\ Inputs \subseteq Forms
    /\ {None, "keep"} \cap Texts = {} /\ None # "keep"
    /\ None \notin Snapshots /\ None \notin Entries

VARIABLES
    prov,       \* the record of the provider
    var,        \* the variable of the machine
    head,       \* the published revision: its file, and whether it binds the provider
    old,        \* the agent is older than MinProviderAgentVersion
    assign,     \* "pending", "failed" or "aligned"
    call,       \* what each running call is at
    asm,        \* of each connection's read loop: the answer being put together
    up,         \* of each connection: messages the hub has not read
    link,       \* the last connection
    online,     \* whether it is up
    session,    \* whether the Syncer has it to send on
    down,       \* messages the agent has not read
    cache,      \* secrets.json of the agent
    pending,    \* the snapshot to be applied
    rec,        \* what state.json records of the file: template and contents
    sec,        \* the values the watcher restores with
    applied,    \* history: the last template that could be rendered
    mishaps,    \* history: what may keep the machine behind
    left        \* changes and disturbances left

hub == <<prov, var, head, old>>
agent == <<cache, pending, rec, sec, applied>>
net == <<link, online, session>>
vars == <<hub, assign, call, asm, down, up, net, agent, mishaps, left>>

NoCall == [at |-> "none", was |-> None, in |-> None, new |-> None, tell |-> FALSE]
NoAsm == [at |-> "none"]
NoValues == [r \in Refs |-> None]

-----------------------------------------------------------------------------
(* Placeholders.                                                           *)

EndpointOf(r) == CASE r = "openai.api_key" -> "openai"
                   [] r \in ProviderKeys \ {"openai.api_key"} -> "claude"
                   [] OTHER -> None

RefsOf(file) == {file[s] : s \in Slots} \cap Refs

\* A file can be rendered when every placeholder in it has a value.
Renders(file, look) == \A r \in RefsOf(file) : look[r] # None
Render(file, look) == [s \in Slots |-> IF file[s] \in Refs THEN look[file[s]] ELSE file[s]]

\* The two buckets of Restore. machine.name is in neither.
SecretBucket(look, x) == {r \in SecretKeys : look[r] = x}
VarBucket(look, x) == {r \in {"var", "claude.base_url"} : look[r] = x}

\* Of placeholders with one value the one of lower rank is put in: a variable before what a
\* provider holds, and that in the order of ProviderKeys.
Kept(bucket) ==
    CASE "var" \in bucket -> "var"
      [] "var" \notin bucket /\ "claude.base_url" \in bucket -> "claude.base_url"
      [] bucket \cap {"var", "claude.base_url"} = {} /\ "claude.auth_token" \in bucket -> "claude.auth_token"
      [] OTHER -> "openai.api_key"

RestoreWord(look, x) ==
    CASE SecretBucket(look, x) # {} -> Kept(SecretBucket(look, x))
      [] SecretBucket(look, x) = {} /\ VarBucket(look, x) # {} /\ x \notin Short -> Kept(VarBucket(look, x))
      [] OTHER -> x

Restore(content, look) == [s \in Slots |-> RestoreWord(look, content[s])]

Holding(file, w) == {s \in Slots : file[s] = w}

\* Mutant of Partial: only short values ask for a review.
PartialIfShort(content, template, look) ==
    \E s \in Slots : content[s] \in Short /\ SecretBucket(look, content[s]) = {}
                    /\ VarBucket(look, content[s]) # {}

\* A short value was found, or a value more or less often than the template names it.
Partial(content, template, look) ==
    \E x \in Texts :
        /\ SecretBucket(look, x) = {} /\ VarBucket(look, x) # {} /\ Holding(content, x) # {}
        /\ \/ x \in Short
           \/ Cardinality(Holding(content, x)) # Cardinality(Holding(template, Kept(VarBucket(look, x))))

-----------------------------------------------------------------------------
(* The provider and the snapshot.                                          *)

\* The key of an endpoint: its own, or that of the platform.
Key(p, e) == IF p.own[e] # None THEN p.own[e] ELSE p.key
Configured(p, e) == p.end[e].url # None

\* An endpoint with an address needs a key; each endpoint shows the key that it uses.
StampLast4(p) == [p EXCEPT !.end = [e \in Endpoints |-> [url |-> p.end[e].url, last4 |-> Key(p, e)]]]
HasItsKeys(p) == \A e \in Endpoints : Configured(p, e) => Key(p, e) # None

\* The form gives every address anew, and of every key: "keep", None to clear it, or a value.
ApplyKey(was, in) == IF in = "keep" THEN was ELSE in
ApplyInput(p, in) ==
    StampLast4([key |-> ApplyKey(p.key, in.key),
                own |-> [e \in Endpoints |-> ApplyKey(p.own[e], in.own[e])],
                end |-> [e \in Endpoints |-> [url |-> in.url[e], last4 |-> None]]])

\* Create applies the form to an empty record.
NoProvider == [key |-> None, own |-> [e \in Endpoints |-> None],
               end |-> [e \in Endpoints |-> [url |-> None, last4 |-> None]]]

\* SetEndpointKey writes the key and, with the endpoint as it was read, its last characters.
KeyInput(p, e, k) == [key |-> "keep", own |-> [f \in Endpoints |-> IF f = e THEN k ELSE "keep"],
                      url |-> [f \in Endpoints |-> p.end[f].url]]
SetEndpointKey(p, e, k) == [p EXCEPT !.own[e] = k, !.end[e].last4 = k]

\* A save writes the columns that changed.  A key that is given is always one: it is encrypted
\* anew.  Address and last characters of an endpoint are one column.
SaveKey(now, was, in) == IF in = "keep" \/ (in = None /\ was = None) THEN now ELSE in
Save(now, was, in, new) ==
    [key |-> SaveKey(now.key, was.key, in.key),
     own |-> [e \in Endpoints |-> SaveKey(now.own[e], was.own[e], in.own[e])],
     end |-> [e \in Endpoints |-> IF new.end[e] = was.end[e] THEN now.end[e] ELSE new.end[e]]]

ProviderRefs(h) == RefsOf(h.file) \cap ProviderKeys

\* Why the provider's values cannot be put together, "none" when they can.
Fault(h, p, aged) ==
    CASE ProviderRefs(h) = {} -> "none"
      [] ProviderRefs(h) # {} /\ ~h.bound -> "ErrBindingMissing"
      [] ProviderRefs(h) # {} /\ h.bound /\ aged -> "ErrAgentTooOld"
      [] OTHER ->
            CASE \E r \in ProviderRefs(h) : ~Configured(p, EndpointOf(r)) -> "ErrEndpointMissing"
              [] \A r \in ProviderRefs(h) : Configured(p, EndpointOf(r))
                    /\ (r \in SecretKeys => Key(p, EndpointOf(r)) # None) -> "none"
              [] OTHER -> "ErrNoKey"

\* Mutant of IsBindingFault: an endpoint that is not configured is only logged.
IsBindingFaultOnly(f) == f \in {"ErrAgentTooOld", "ErrBindingMissing"}

IsBindingFault(f) == f \in {"ErrAgentTooOld", "ErrBindingMissing", "ErrEndpointMissing"}

ValueOf(p, r) == IF r \in SecretKeys THEN Key(p, EndpointOf(r)) ELSE p.end["claude"].url

\* Only the values that the revision names; a variable without a value is passed over.
Snapshot(h, v, p) ==
    [file |-> h.file,
     look |-> [r \in Refs |-> CASE r = "machine" -> MachineName
                                [] r = "var" -> IF r \in RefsOf(h.file) THEN v ELSE None
                                [] OTHER -> IF r \in RefsOf(h.file) THEN ValueOf(p, r) ELSE None]]

Msg(kind, snap) == [kind |-> kind, snap |-> snap]
Notice == Msg("notice", None)

-----------------------------------------------------------------------------
Init ==
    /\ \E in \in Inputs : HasItsKeys(ApplyInput(NoProvider, in)) /\ prov = ApplyInput(NoProvider, in)
    /\ var = None
    /\ head \in [file : Templates, bound : {TRUE}]
    /\ cache = NoValues /\ sec = NoValues /\ rec = None /\ applied = None
    /\ old = FALSE /\ assign = "pending" /\ call = [c \in Calls |-> NoCall]
    /\ asm = [l \in Links |-> NoAsm] /\ up = [l \in Links |-> <<>>]
    /\ down = <<>> /\ link = 0 /\ online = FALSE /\ session = FALSE /\ pending = None
    /\ mishaps = {} /\ left = [changes |-> MaxChanges, drops |-> MaxDrops]

\* SendTo: onto the connection that is up.
Send(m) == down' = IF online THEN Append(down, m) ELSE down
\* Whoever is told, and can answer, makes up for what was missed.
Tell == Send(Notice) /\ mishaps' = mishaps \ {"untold", "mixed", "early"}
Spend(what) == left[what] > 0 /\ left' = [left EXCEPT ![what] = @ - 1]

(* The hub's calls. *)

\* UpdateProvider reads the record and checks what it would become.
StartUpdate(c) ==
    /\ call[c] = NoCall /\ Spend("changes")
    /\ \E in \in Inputs :
           /\ HasItsKeys(ApplyInput(prov, in))
           /\ call' = [call EXCEPT ![c] = [at |-> "save", was |-> prov, in |-> in,
                                           new |-> ApplyInput(prov, in), tell |-> TRUE]]
    /\ UNCHANGED <<hub, assign, asm, down, up, net, agent, mishaps>>

\* SetEndpointKey, after a key found in a draft or in a drift: it tells no machine.
StartExtract(c) ==
    /\ call[c] = NoCall /\ Spend("changes")
    /\ \E e \in Endpoints, k \in Keys :
           call' = [call EXCEPT ![c] = [at |-> "save", was |-> prov, in |-> KeyInput(prov, e, k),
                                        new |-> SetEndpointKey(prov, e, k), tell |-> FALSE]]
    /\ UNCHANGED <<hub, assign, asm, down, up, net, agent, mishaps>>

SaveProvider(c) ==
    /\ call[c].at = "save"
    /\ prov' = Save(prov, call[c].was, call[c].in, call[c].new)
    /\ call' = [call EXCEPT ![c] = IF @.tell THEN [NoCall EXCEPT !.at = "notify"] ELSE NoCall]
    /\ mishaps' = mishaps \cup (IF call[c].tell THEN {} ELSE {"untold"})
                          \cup (IF prov # call[c].was THEN {"raced"} ELSE {})
    /\ UNCHANGED <<var, head, old, assign, asm, down, up, net, agent, left>>

\* The machines of the sets whose head is bound to the provider.
NotifyProvider(c) ==
    /\ call[c].at = "notify"
    /\ call' = [call EXCEPT ![c] = NoCall]
    /\ IF head.bound THEN Tell ELSE UNCHANGED <<down, mishaps>>
    /\ UNCHANGED <<hub, assign, asm, up, net, agent, left>>

SetVariable ==
    /\ Spend("changes")
    /\ var' \in Variables \ {var}
    /\ mishaps' = mishaps \cup {"untold"}
    /\ UNCHANGED <<prov, head, old, assign, call, asm, down, up, net, agent>>

\* The head moves and then the machines are told.
Publish(c) ==
    /\ call[c] = NoCall /\ Spend("changes")
    /\ head' \in [file : Templates, bound : BOOLEAN]
    /\ call' = [call EXCEPT ![c] = [NoCall EXCEPT !.at = "publish"]]
    /\ UNCHANGED <<prov, var, old, assign, asm, down, up, net, agent, mishaps>>

NotifySet(c) ==
    /\ call[c].at = "publish"
    /\ call' = [call EXCEPT ![c] = NoCall]
    /\ Tell
    /\ UNCHANGED <<hub, assign, asm, up, net, agent, left>>

(* The read loops of the hub. *)

Reads(l, k) == asm[l] = NoAsm /\ up[l] # <<>> /\ Head(up[l]) = k
Popped(l) == up' = [up EXCEPT ![l] = Tail(@)]

\* ConfigPull reads the head and the variable ...
Pull(l) ==
    /\ Reads(l, "pull") /\ Popped(l)
    /\ asm' = [asm EXCEPT ![l] = [at |-> "provider", head |-> head, var |-> var]]
    /\ UNCHANGED <<hub, assign, call, down, net, agent, mishaps, left>>

\* ... and then the provider ...
Assemble(l) ==
    /\ asm[l].at = "provider"
    /\ asm' = [asm EXCEPT ![l] = [at |-> "answer", fault |-> Fault(@.head, prov, old),
                                  snap |-> Snapshot(@.head, @.var, prov)]]
    /\ UNCHANGED <<hub, assign, call, down, up, net, agent, mishaps, left>>

\* ... and answers; of the faults some are shown at the assignment.
Answer(l) ==
    /\ asm[l].at = "answer" /\ asm' = [asm EXCEPT ![l] = NoAsm]
    /\ \/ asm[l].fault = "none" /\ Send(Msg("snapshot", asm[l].snap)) /\ UNCHANGED assign
       \/ /\ asm[l].fault # "none"
          /\ assign' = IF IsBindingFault(asm[l].fault) THEN "failed" ELSE assign
          /\ UNCHANGED down
    /\ mishaps' = mishaps \cup (IF online /\ l # link THEN {"mixed"} ELSE {})
    /\ UNCHANGED <<hub, call, up, net, agent, left>>

\* An acknowledgement may be that of an earlier snapshot than the pull that failed.
ApplyAck(l) ==
    /\ Reads(l, "ack") /\ Popped(l) /\ assign' = "aligned"
    /\ mishaps' = IF assign = "failed" /\ Fault(head, prov, old) # "none" THEN mishaps \cup {"overtaken"} ELSE mishaps
    /\ UNCHANGED <<hub, call, asm, down, net, agent, left>>

\* The read loop of a broken connection ends: what it had not read is lost.
OldLoopEnds(l) ==
    /\ l # link \/ ~online
    /\ up[l] # <<>> /\ up' = [up EXCEPT ![l] = <<>>]
    /\ UNCHANGED <<hub, assign, call, asm, down, net, agent, mishaps, left>>

(* The agent. *)

\* Syncer.Deps.Send: refused as long as there is no session to send on.
Reply(m) ==
    /\ up' = IF session THEN [up EXCEPT ![link] = Append(@, m)] ELSE up
    /\ mishaps' = IF online /\ ~session THEN mishaps \cup {"early"} ELSE mishaps

OnNotice ==
    /\ down # <<>> /\ Head(down).kind = "notice"
    /\ down' = Tail(down) /\ Reply("pull")
    /\ UNCHANGED <<hub, assign, call, asm, net, agent, left>>

\* The values are kept before the snapshot is applied, which may wait for contents.
OnSnapshot ==
    /\ down # <<>> /\ Head(down).kind = "snapshot"
    /\ down' = Tail(down)
    /\ pending' = Head(down).snap /\ cache' = Head(down).snap.look
    /\ UNCHANGED <<hub, assign, call, asm, up, net, rec, sec, applied, mishaps, left>>

\* A file that misses a value is passed over, one whose contents would stay is not written and
\* keeps its record; in every case the apply is acknowledged and the watcher takes the values.
ApplyPending ==
    /\ pending # None
    /\ LET new == Render(pending.file, cache)
       IN  IF Renders(pending.file, cache) /\ (rec = None \/ new # rec.content)
           THEN rec' = [template |-> pending.file, content |-> new]
           ELSE UNCHANGED rec
    /\ applied' = IF Renders(pending.file, cache) THEN pending.file ELSE applied
    /\ sec' = cache /\ pending' = None
    /\ Reply("ack")
    /\ UNCHANGED <<hub, assign, call, asm, down, net, cache, left>>

\* The connection breaks.  What was sent to the agent is lost; what the agent sent may still be read.
Drop ==
    /\ online /\ Spend("drops")
    /\ online' = FALSE /\ session' = FALSE /\ down' = <<>>
    /\ UNCHANGED <<hub, assign, call, asm, up, link, agent, mishaps>>

\* The agent ends and starts again, with what it kept; the program may be another one.
Restart ==
    /\ ~online /\ Spend("drops")
    /\ pending' = None /\ old' \in BOOLEAN
    /\ UNCHANGED <<prov, var, head, assign, call, asm, down, up, net, cache, rec, sec, applied, mishaps>>

\* A connection has a Syncer and a watcher of its own, which know of no values before the first
\* apply; the hub tells a machine that has come online.
Connect ==
    /\ ~online /\ online' = TRUE
    /\ link + 1 \in Links /\ link' = link + 1
    /\ pending' = None /\ sec' = NoValues
    /\ down' = <<Notice>> /\ mishaps' = mishaps \ {"untold", "mixed", "early"}
    /\ UNCHANGED <<hub, assign, call, asm, up, session, cache, rec, applied, left>>

\* run.go: Connect returns, and the Syncer can send.
StoreSession ==
    /\ online /\ ~session /\ session' = TRUE
    /\ UNCHANGED <<hub, assign, call, asm, down, up, link, online, agent, mishaps, left>>

Next ==
    \/ \E c \in Calls : StartUpdate(c) \/ StartExtract(c) \/ SaveProvider(c) \/ NotifyProvider(c)
                        \/ Publish(c) \/ NotifySet(c)
    \/ \E l \in Links : Pull(l) \/ Assemble(l) \/ Answer(l) \/ ApplyAck(l) \/ OldLoopEnds(l)
    \/ SetVariable \/ OnNotice \/ OnSnapshot \/ ApplyPending \/ Drop \/ Restart
    \/ Connect \/ StoreSession

Spec == Init /\ [][Next]_vars

-----------------------------------------------------------------------------
(* Properties.                                                             *)

TypeOK ==
    /\ prov \in Records /\ var \in Texts \cup {None} /\ old \in BOOLEAN
    /\ link \in Links \cup {0} /\ online \in BOOLEAN /\ session \in BOOLEAN
    /\ head \in [file : Files, bound : BOOLEAN] /\ assign \in {"pending", "aligned", "failed"}
    /\ cache \in Lookups /\ sec \in Lookups /\ applied \in Files \cup {None}
    /\ rec \in Entries \cup {None}
    /\ mishaps \subseteq {"untold", "raced", "overtaken", "mixed", "early"}

\* Nothing is on its way to the machine or back.
Quiet ==
    /\ online /\ down = <<>> /\ pending = None
    /\ \A l \in Links : up[l] = <<>> /\ asm[l] = NoAsm
    /\ \A c \in Calls : call[c].at \notin {"notify", "publish"}

\* UpdateProvider "然后立即重注入全机队" (hub/providers.go:35) and a publication reaches the
\* machine: once all messages have arrived the machine holds the values of the hub, and its file
\* was written with them if they suffice, or the assignment says that it failed.  Except: a message
\* that the agent met before it could answer is lost until the next, a key
\* taken out of a draft or a drift and a variable are told to no machine, two calls that overlap
\* may leave an endpoint without a key, an acknowledgement may overtake a failure, and what the read
\* loop of a broken connection had begun may be answered after the answer of the present one: until
\* the machine is told again, it may stay with older values, or the assignment with an older fault.
CaughtUp ==
    Quiet /\ mishaps = {} =>
        \/ Fault(head, prov, old) # "none" /\ assign = "failed"
        \/ LET s == Snapshot(head, var, prov)
           IN  /\ Fault(head, prov, old) = "none" /\ assign = "aligned" /\ cache = s.look
               /\ Renders(s.file, s.look) => rec # None /\ rec.content = Render(s.file, s.look)

\* Whatever the user makes of the file, what the agent reports names each placeholder that the
\* edit did not touch, or the report asks for a review: adopting it changes nothing but what the
\* user changed.  Except: the machine's own name is not taken out again, of placeholders with one
\* value one is named for all, and the watcher may have other values than the file was written
\* with, or, from a new connection to its first apply, none.  Plain text that happens to be a
\* variable's value asks for a review too, unless one of the places of the variable holds something
\* else, or the template on record has the variable there: it is that of an earlier revision when
\* the last one did not change the contents.
RestoreFaithful ==
    rec # None => \A disk \in Contents \ {rec.content} :
        \/ \A s \in {q \in Slots : disk[q] = rec.content[q]} :
              LET word == applied[s]
              IN  \/ RestoreWord(sec, disk[s]) = word
                  \/ word = "machine"
                  \/ word \in Refs /\ sec[word] # disk[s]
                  \/ \E r \in Refs \ {word} :
                        /\ sec[r] = disk[s]
                        /\ \/ {r, word} \subseteq Refs \/ r \in SecretKeys
                           \/ rec.template[s] = r
                           \/ \E q \in Holding(rec.template, r) : disk[q] # sec[r]
        \/ Partial(disk, rec.template, sec)

\* "还原、离线自愈、对账都依赖它" (agent/internal/syncer/syncer.go:153): a key that the agent has in
\* secrets.json and has written into the file is not reported as plain text.
KeptKeysAreNamed ==
    rec # None => \A s \in Slots :
        applied[s] \in SecretKeys /\ cache[applied[s]] = rec.content[s] =>
            RestoreWord(sec, rec.content[s]) # rec.content[s]
=============================================================================
