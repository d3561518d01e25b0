------------------------------ MODULE MCEnroll ------------------------------
(***************************************************************************)
(* The instance: two homes, two tokens, and a bound on how often somebody  *)
(* starts an installer, intervenes, or something goes wrong.               *)
(***************************************************************************)
EXTENDS Enroll, TLC

CONSTANTS k1, k2, k3, MaxEvents

VARIABLE events     \* how much has been asked for, or has gone wrong
mcVars == <<vars, events>>

MCInit == Init /\ events = 0

Spend(n) == events' = events + n /\ events' <= MaxEvents

\* The home of an installer is as good as the other, and so is a fresh key.
KeysInOrder == \A k, l \in Keys :
    (\E h \in Homes : key[h] = NoKey /\ key'[h] = l) /\ <<k, l>> \in {<<k1, k2>>, <<k2, k3>>}
        => k \in {key[h] : h \in Homes} \cup {g[2] : g \in granted} \cup {r.key : r \in late}

MCNext ==
    \/ \E t \in Tokens : IssueToken(t) /\ Spend(0)
    \/ \E t \in Tokens : Expire(t) /\ Spend(1)
    \/ (PurgeExpiredTokens \/ HubLosesKey) /\ Spend(1)
    \/ \E m \in machines : Delete(m) /\ Spend(1)
    \/ \E r \in late : ServeLate(r) /\ Spend(0)
    \/ \E h \in Homes :
        \/ \E t \in Tokens, checked \in BOOLEAN : Start(h, t, checked) /\ KeysInOrder /\ Spend(1)
        \/ (Serve(h) \/ Refused(h) \/ HubKeyMismatch(h) \/ PinHubKey(h) \/ SaveConfig(h)) /\ Spend(0)
        \/ (Retry(h) \/ Die(h) \/ RemoveIdentity(h)) /\ Spend(1)

Alike == Permutations(Homes) \cup Permutations(Tokens)

MCSpec == MCInit /\ [][MCNext]_mcVars
=============================================================================
