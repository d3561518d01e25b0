------------------------------ MODULE MCValues ------------------------------
(***************************************************************************)
(* Values on a small instance: a text of three slots, two keys, a short and *)
(* a long plain word; the short one is the name of the machine.            *)
(***************************************************************************)
EXTENDS Values, TLC

CONSTANTS k1, k2, u, w, c1, c2

MCSlots == 1 .. 3
MCTexts == {k1, k2, u, w}

\* The files: a secret, an address, and plain text that may be the same as the address; another
\* secret and the address twice; a variable twice and the machine's name, which may be its value.
MCTemplates == {<<"claude.auth_token", "claude.base_url", u>>,
                <<"openai.api_key", "claude.base_url", "claude.base_url">>,
                <<"var", "machine", "var">>}

MCCalls == {c1, c2}
Alike == Permutations(MCCalls)

NoKeys == [e \in Endpoints |-> "keep"]
Urls(c, o) == [e \in Endpoints |-> IF e = "claude" THEN c ELSE o]

\* A platform key for both endpoints; both with the keys there are; a key of its own for the
\* second endpoint alone.
MCInputs == {[key |-> k2, own |-> NoKeys, url |-> Urls(u, u)],
             [key |-> "keep", own |-> [NoKeys EXCEPT !["claude"] = None], url |-> Urls(u, u)],
             [key |-> None, own |-> [NoKeys EXCEPT !["openai"] = k2], url |-> Urls(None, u)]}
=============================================================================
