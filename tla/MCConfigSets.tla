---------------------------- MODULE MCConfigSets ----------------------------
(***************************************************************************)
(* The instance: two paths, two contents, calls that overlap in pairs, and *)
(* a bound on how many are made.                                           *)
(***************************************************************************)
EXTENDS ConfigSets, TLC

CONSTANT MaxCalls

VARIABLE made   \* how many calls have begun; a new set and a crash count as one
mcVars == <<vars, made>>

\* A config set that is new, or one with a bound revision whose draft is as published; another
\* one beside it may have one file with another content.
Established(v, files) ==
    /\ set = [draft |-> files, binding |-> v, head |-> 1, provider |-> v]
    /\ revs = <<[files |-> files, binding |-> v]>>
    /\ other \in FileLists /\ blobs = ContentsOf(other) \cup ContentsOf(files)
    /\ drift = NoFiles /\ provs = Providers
    /\ call = [c \in Calls |-> NoCall]
    /\ told = 1 /\ adopted = NoFiles /\ mishaps = {}

MCInit ==
    /\ \/ Init /\ made = 1
       \/ /\ \E v \in Providers, p \in Paths, b \in Contents :
                Established(v, [NoFiles EXCEPT ![p] = b])
          /\ made = 0
    /\ \/ other = NoFiles
       \/ \E p \in Paths, b \in Contents :
              set.draft[p] = None
                /\ b \notin ContentsOf(set.draft) /\ other = [NoFiles EXCEPT ![p] = b]

MCStart(c) ==
    /\ made < MaxCalls
    /\ Start(c)
    /\ made' = made + 1

MCProceed(c) == Proceed(c) /\ UNCHANGED made

MCCrash == made < MaxCalls /\ Crash /\ made' = made + 1

MCNext == (\E c \in Calls : MCStart(c) \/ MCProceed(c)) \/ MCCrash
MCSpec == MCInit /\ [][MCNext]_mcVars

Alike == Permutations(Paths) \cup Permutations(Calls) \cup Permutations(Contents)

=============================================================================
