-------------------------------- MODULE Merge3 --------------------------------
(***************************************************************************)
(* The three-way merge of text files (hub/internal/merge3), line by line.  *)
(*                                                                         *)
(* Both sides are described by their hunks against the base.  The merge    *)
(* walks along the base, gathers the hunks of both sides that overlap into *)
(* one group, and takes the side that changed the group; when both did,    *)
(* and not in the same way, it takes mine and reports a conflict.          *)
(* The alignment is difflib's: the longest matching block, the earliest of *)
(* the longest, and then what lies before and after it.                    *)
(***************************************************************************)
EXTENDS Integers, Sequences, FiniteSets, SequencesExt, FiniteSetsExt

-----------------------------------------------------------------------------
(* difflib, which is not part of the repository.                            *)

\* A block: a[i+1..i+n] = b[j+1..j+n].  Positions are those between lines.
Matches(a, b, i, j, n) == \A k \in 1..n : a[i + k] = b[j + k]

MatchesIn(a, b, lo, hi, jlo, jhi) ==
    {m \in [i : lo..hi, j : jlo..jhi, n : 1..(hi - lo)] :
        /\ m.i + m.n <= hi /\ m.j + m.n <= jhi
        /\ Matches(a, b, m.i, m.j, m.n)}

\* The longest block, the first in a among them, the first in b among those.
Better(m, o) ==
    \/ m.n > o.n
    \/ m.n = o.n /\ m.i < o.i
    \/ m.n = o.n /\ m.i = o.i /\ m.j <= o.j

\* The gaps between the matching blocks: what a diff reports as not equal.
Gaps(a, b) ==
    LET gaps[lo \in 0..Len(a), hi \in 0..Len(a), jlo \in 0..Len(b), jhi \in 0..Len(b)] ==
            LET ms == MatchesIn(a, b, lo, hi, jlo, jhi)
            IN IF ms = {}
               THEN IF lo = hi /\ jlo = jhi THEN <<>>
                    ELSE <<[start |-> lo, end |-> hi, repl |-> SubSeq(b, jlo + 1, jhi)]>>
               ELSE LET m == CHOOSE m \in ms : \A o \in ms : Better(m, o)
                    IN gaps[lo, m.i, jlo, m.j] \o gaps[m.i + m.n, hi, m.j + m.n, jhi]
    IN gaps[0, Len(a), 0, Len(b)]

-----------------------------------------------------------------------------

\* Two neighbouring blocks leave no gap, so a hunk never touches the next one.
hunksOf(base, other) == Gaps(base, other)

\* What one side says of base[start:end): its hunks there, the base between them.
applyIn(base, hs, start, end) ==
    LET walk[k \in 0..Len(hs)] ==
            IF k = 0 THEN [out |-> <<>>, pos |-> start]
            ELSE LET w == walk[k - 1]
                 IN [out |-> w.out \o SubSeq(base, w.pos + 1, hs[k].start) \o hs[k].repl,
                     pos |-> hs[k].end]
        last == walk[Len(hs)]
    IN last.out \o SubSeq(base, last.pos + 1, end)

\* A hunk belongs to the group that begins at start and so far ends at end
\* when it overlaps it strictly, or begins where the group begins: two changes
\* of neighbouring lines are two groups.
Joins(h, start, end) == h.start < end \/ h.start = start

\* How many of the hunks hs, from k on, belong to the group.
Upto(hs, k, start, end) ==
    k + Cardinality({j \in (k + 1)..Len(hs) : Joins(hs[j], start, end)})

\* The group grows by the hunks of both sides until nothing joins it any more.
Group(hm, ht, a, b, start, size) ==
    LET grown[n \in 0..size] ==
            IF n = 0 THEN [ma |-> a, mb |-> b, end |-> start]
            ELSE LET g == grown[n - 1]
                     ma == Upto(hm, a, start, g.end)
                     mb == Upto(ht, b, start, g.end)
                     ends == {hm[j].end : j \in (a + 1)..ma} \cup {ht[j].end : j \in (b + 1)..mb}
                 IN [ma |-> ma, mb |-> mb, end |-> Max(ends \cup {start})]
    IN grown[size]

\* What a group of hunks contributes: the side that changed it, or mine.
Resolve(mine, theirs, byMine, byTheirs) ==
    CASE ~byMine -> [lines |-> theirs, conflict |-> FALSE]
      [] ~byTheirs -> [lines |-> mine, conflict |-> FALSE]
      [] OTHER -> [lines |-> mine, conflict |-> mine # theirs]

\* The loop of the merge, from the hunks a and b on, i lines of base consumed.
MergeHunks(base, hm, ht) ==
    LET next(a, b) == Min((IF a < Len(hm) THEN {hm[a + 1].start} ELSE {})
                          \cup (IF b < Len(ht) THEN {ht[b + 1].start} ELSE {}))
        side(hs, k, to, start, end) == applyIn(base, SubSeq(hs, k + 1, to), start, end)
        from[a \in 0..Len(hm), b \in 0..Len(ht), i \in 0..Len(base)] ==
            LET joined(r, rest, start) ==
                    [lines |-> SubSeq(base, i + 1, start) \o r.lines \o rest.lines,
                     conflict |-> r.conflict \/ rest.conflict]
                after(start, g) ==
                    joined(Resolve(side(hm, a, g.ma, start, g.end), side(ht, b, g.mb, start, g.end),
                                   g.ma > a, g.mb > b),
                           from[g.ma, g.mb, g.end], start)
            IN IF a = Len(hm) /\ b = Len(ht)
               THEN [lines |-> SubSeq(base, i + 1, Len(base)), conflict |-> FALSE]
               ELSE after(next(a, b), Group(hm, ht, a, b, next(a, b), Len(base) + 2))
    IN from[0, 0, 0]

Merge(base, mine, theirs) == MergeHunks(base, hunksOf(base, mine), hunksOf(base, theirs))

-----------------------------------------------------------------------------
(* The hunks a user selects (hub/internal/overrides/synth.go): the gaps of  *)
(* the diff with Context lines around them, joined where these meet.        *)

Hunks(base, cur, Context) ==
    LET gaps == Gaps(base, cur)
        \* A gap begins a new hunk when more than 2 * Context equal lines precede it.
        far(k) == k = 1 \/ gaps[k].start - gaps[k - 1].end > 2 * Context
    IN [k \in {j \in 1..Len(gaps) : far(j)} |->
            {j \in k..Len(gaps) : \A l \in (k + 1)..j : ~far(l)}]

\* The base with the selected hunks: the gaps of the others are left out, and
\* the context lines are the same on both sides.
SynthesizeMine(base, cur, keep, Context) ==
    LET gaps == Gaps(base, cur)
        kept == UNION {Hunks(base, cur, Context)[k] : k \in keep}
        hs == [j \in 1..Len(gaps) |->
                IF j \in kept THEN gaps[j]
                ELSE [gaps[j] EXCEPT !.repl = SubSeq(base, gaps[j].start + 1, gaps[j].end)]]
    IN applyIn(base, hs, 0, Len(base))

=============================================================================
