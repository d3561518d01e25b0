--------------------------- MODULE OverridesProofs ---------------------------
(***************************************************************************)
(* Proofs about Overrides: types, that the records of a path do not        *)
(* contradict each other, and that a machine hears of what it is served.   *)
(* The merge of a JSON object goes through the selectors one by one: what  *)
(* it does to all of them follows by induction over their number.          *)
(***************************************************************************)
EXTENDS Overrides, WellFoundedInduction, TLAPS

-----------------------------------------------------------------------------
(* Induction.                                                              *)

\* A set of natural numbers that is not empty has a least one.
LEMMA Least ==
    ASSUME NEW T \in SUBSET Nat, T # {}
    PROVE  \E n \in T : \A m \in T : n <= m
<1> DEFINE R == {ss \in Nat \X Nat : ss[1] < ss[2]}
<1>1. IsWellFoundedOn(R, Nat)
  BY NatLessThanWellFounded, Zenon DEF OpToRel
<1>2. \E n \in T : \A m \in T : <<m, n>> \notin R
  <2> HIDE DEF R
  <2> QED
    BY <1>1, WFMin
<1>3. PICK n \in T : \A m \in T : <<m, n>> \notin R
  BY <1>2
<1>4. ASSUME NEW m \in T
      PROVE  n <= m
  <2>1. m \in Nat /\ n \in Nat
    OBVIOUS
  <2>2. ~(m < n)
    BY <1>3, <2>1
  <2> QED
    BY <2>1, <2>2
<1> QED
  BY <1>4

\* A set that holds 0, and with each number the next one, holds them all.
LEMMA Inductive ==
    ASSUME NEW T \in SUBSET Nat, 0 \in T, \A n \in T : n + 1 \in T
    PROVE  T = Nat
<1>1. SUFFICES ASSUME Nat \ T # {}
               PROVE  FALSE
  OBVIOUS
<1>2. PICK n \in Nat \ T : \A m \in Nat \ T : n <= m
  BY <1>1, Least
<1>3. n # 0 /\ n - 1 \in Nat /\ n - 1 + 1 = n
  BY <1>2
<1>4. n - 1 \in T
  BY <1>2, <1>3
<1> QED
  BY <1>2, <1>3, <1>4

-----------------------------------------------------------------------------
(* The merge of a JSON object, point by point.                             *)

Start(recs, tree) == [recs |-> recs, out |-> tree, stuck |-> FALSE]

\* f is the merge of the first n selectors.
Merging(recs, tree, n, f) ==
    f = [k \in 0 .. n |-> IF k = 0 THEN Start(recs, tree)
                          ELSE mergePoint(recs, tree, f[k - 1], SelOrder[k])]

LEMMA MergingStep ==
    ASSUME NEW recs, NEW tree, NEW n \in Nat, NEW f, Merging(recs, tree, n, f)
    PROVE  \E h : Merging(recs, tree, n + 1, h)
<1> DEFINE next(x) == mergePoint(recs, tree, x, SelOrder[n + 1])
           h == [k \in 0 .. n + 1 |-> IF k = n + 1 THEN next(f[n]) ELSE f[k]]
<1>1. f[0] = Start(recs, tree) /\ \A k \in 1 .. n : f[k] = mergePoint(recs, tree, f[k - 1], SelOrder[k])
  BY DEF Merging
<1>2. h[0] = Start(recs, tree)
  BY <1>1
<1>3. ASSUME NEW k \in 1 .. n + 1
      PROVE  h[k] = mergePoint(recs, tree, h[k - 1], SelOrder[k])
  <2>1. h[k - 1] = f[k - 1]
    OBVIOUS
  <2>2. CASE k = n + 1
    BY <2>1, <2>2
  <2>3. CASE k # n + 1
    <3>1. k \in 1 .. n /\ h[k] = f[k]
      BY <2>3
    <3> QED
      BY <1>1, <2>1, <3>1
  <2> QED
    BY <2>2, <2>3
<1>4. h = [k \in 0 .. n + 1 |-> h[k]]
  OBVIOUS
<1> HIDE DEF h
<1>5. \A k \in 0 .. n + 1 : h[k] = IF k = 0 THEN Start(recs, tree)
                                 ELSE mergePoint(recs, tree, h[k - 1], SelOrder[k])
  BY <1>2, <1>3
<1>6. Merging(recs, tree, n + 1, h)
  BY <1>4, <1>5 DEF Merging
<1> QED
  BY <1>6

LEMMA MergingExists ==
    ASSUME NEW recs, NEW tree, NEW n \in Nat
    PROVE  \E f : Merging(recs, tree, n, f)
<1> DEFINE T == {m \in Nat : \E f : Merging(recs, tree, m, f)}
<1>1. 0 \in T
  <2>1. Merging(recs, tree, 0, [k \in 0 .. 0 |-> Start(recs, tree)])
    BY DEF Merging
  <2> QED
    BY <2>1
<1>2. \A m \in T : m + 1 \in T
  BY MergingStep
<1>3. T = Nat
  <2>1. T \in SUBSET Nat
    OBVIOUS
  <2> HIDE DEF T
  <2> QED
    BY <1>1, <1>2, <2>1, Inductive
<1> QED
  BY <1>3

LEMMA MergeIs ==
    ASSUME NEW recs, NEW tree
    PROVE  \E f : /\ f[0] = Start(recs, tree) /\ mergeJSON(recs, tree) = f[Len(SelOrder)]
                  /\ \A k \in 1 .. Len(SelOrder) : f[k] = mergePoint(recs, tree, f[k - 1], SelOrder[k])
<1> DEFINE N == Len(SelOrder)
           P(f) == Merging(recs, tree, N, f)
           c == CHOOSE f : P(f)
<1>1. N \in Nat
  BY LeavesAssumption
<1>2. \E f : P(f)
  BY <1>1, MergingExists
<1>3. P(c)
  <2> HIDE DEF P
  <2> QED
    BY <1>2
<1>4. mergeJSON(recs, tree) = c[N]
  BY DEF mergeJSON, Merging, Start
<1> HIDE DEF c
<1>5. /\ c[0] = Start(recs, tree)
      /\ \A k \in 1 .. N : c[k] = mergePoint(recs, tree, c[k - 1], SelOrder[k])
  BY <1>1, <1>3 DEF Merging
<1> QED
  BY <1>4, <1>5

-----------------------------------------------------------------------------
(* Types.  What a merge makes of the lines of a text stays open: nothing    *)
(* rests on it.                                                            *)

Scalars == Leaves \cup {None}

IsDoc(d) == d.kind = "json" => d.tree \in Trees
MaybeDoc(d) == d # None => IsDoc(d)

HasShape(r) == r = [base |-> r.base, mine |-> r.mine, attention |-> r.attention, shadow |-> r.shadow]
Settled(r) == r.attention = "none" => r.shadow = None
PointOK(sel, r) == r \in Records /\ (Len(sel) = 2 => r.mine \in Scalars)
WholeOK(r) == HasShape(r) /\ r.attention \in {"none", "merge_conflict", "path_gone"}
RecordOK(sel, r) ==
    /\ Settled(r)
    /\ sel = Whole => WholeOK(r)
    /\ sel # Whole => PointOK(sel, r)

RecordsOK(recs) ==
    /\ recs = [sel \in DOMAIN recs |-> recs[sel]]
    /\ DOMAIN recs \subseteq Selectors \cup {Whole}
    /\ \A sel \in DOMAIN recs : RecordOK(sel, recs[sel])

\* The same points, with the same contents: only the flags may differ.
SamePoints(recs, others) ==
    /\ DOMAIN recs = DOMAIN others
    /\ \A sel \in DOMAIN recs : recs[sel].base = others[sel].base /\ recs[sel].mine = others[sel].mine

LEMMA SelectorIs ==
    ASSUME NEW sel \in Selectors
    PROVE  \/ sel = <<sel[1]>> /\ Len(sel) = 1 /\ sel[1] \in Tops
           \/ sel = <<sel[1], sel[2]>> /\ Len(sel) = 2 /\ sel[1] \in Tops /\ sel[2] \in Subs
BY DEF Selectors

LEMMA SelectorNotWhole == ASSUME NEW sel \in Selectors PROVE sel # Whole
BY DEF Selectors, Whole

LEMMA ScalarsAre == Scalars \cap Inner = {} /\ Scalars \subseteq Values /\ Inner \subseteq Values /\ None \in Scalars
BY LeavesAssumption DEF Scalars, Values

LEMMA AtTyped ==
    ASSUME NEW tree \in Trees, NEW sel \in Selectors
    PROVE  At(tree, sel) \in Values /\ (Len(sel) = 2 => At(tree, sel) \in Scalars)
<1>1. sel[1] \in Tops /\ tree[sel[1]] \in Values
  BY SelectorIs DEF Trees, Values
<1>2. CASE Len(sel) = 1
  BY <1>1, <1>2 DEF At
<1>3. CASE Len(sel) = 2 /\ IsObj(tree[sel[1]])
  <2>1. sel[2] \in Subs
    BY <1>3, SelectorIs
  <2>2. PICK o \in Inner : o = tree[sel[1]]
    BY <1>3 DEF IsObj
  <2>3. o[sel[2]] \in Scalars
    BY <2>1, <2>2 DEF Inner, Scalars
  <2> QED
    BY <1>3, <2>2, <2>3, ScalarsAre DEF At
<1>4. CASE Len(sel) = 2 /\ ~IsObj(tree[sel[1]])
  BY <1>4, ScalarsAre DEF At
<1> QED
  BY <1>2, <1>3, <1>4, SelectorIs

LEMMA PutTyped ==
    ASSUME NEW tree \in Trees, NEW sel \in Selectors, NEW v \in Values, Len(sel) = 2 => v \in Scalars
    PROVE  Put(tree, sel, v) \in Trees
<1>1. sel[1] \in Tops /\ \A w \in Values : [tree EXCEPT ![sel[1]] = w] \in Trees
  BY SelectorIs DEF Trees, Values
<1>2. CASE Len(sel) = 1
  BY <1>1, <1>2 DEF Put
<1>3. CASE Len(sel) = 2
  <2>1. sel[2] \in Subs /\ v \in Scalars
    BY <1>3, SelectorIs
  <2>2. CASE IsObj(tree[sel[1]])
    <3>1. PICK o \in Inner : o = tree[sel[1]]
      BY <2>2 DEF IsObj
    <3>2. [o EXCEPT ![sel[2]] = v] \in Values
      BY <2>1, ScalarsAre DEF Inner, Scalars
    <3>3. Put(tree, sel, v) = [tree EXCEPT ![sel[1]] = [o EXCEPT ![sel[2]] = v]]
      BY <1>3, <2>2, <3>1 DEF Put
    <3> QED
      BY <1>1, <3>2, <3>3
  <2>3. CASE ~IsObj(tree[sel[1]])
    <3>1. [s \in Subs |-> IF s = sel[2] THEN v ELSE None] \in Values
      BY <2>1, ScalarsAre DEF Inner, Scalars
    <3> QED
      BY <1>1, <1>3, <2>3, <3>1 DEF Put
  <2> QED
    BY <2>2, <2>3
<1> QED
  BY <1>2, <1>3, SelectorIs

LEMMA FlagIs ==
    ASSUME NEW r, HasShape(r), NEW attention, NEW shadow
    PROVE  /\ Flag(r, attention, shadow) =
                  [base |-> r.base, mine |-> r.mine, attention |-> attention,
                   shadow |-> IF attention = "none" THEN None ELSE shadow]
           /\ HasShape(Flag(r, attention, shadow)) /\ Settled(Flag(r, attention, shadow))
           /\ Flag(r, attention, shadow).base = r.base /\ Flag(r, attention, shadow).mine = r.mine
           /\ Flag(r, attention, shadow).attention = attention
<1> DEFINE x == IF attention = "none" THEN None ELSE shadow
           f == [base |-> r.base, mine |-> r.mine, attention |-> attention, shadow |-> x]
<1>1. PICK b, m, a, s : r = [base |-> b, mine |-> m, attention |-> a, shadow |-> s]
  BY DEF HasShape
<1>2. r.base = b /\ r.mine = m
  BY <1>1
<1>3. Flag(r, attention, shadow) = f
  <2>1. PICK q : q = [r EXCEPT !.attention = attention]
    OBVIOUS
  <2>2. q = [base |-> b, mine |-> m, attention |-> attention, shadow |-> s]
    BY <1>1, <2>1
  <2>3. Flag(r, attention, shadow) = [q EXCEPT !.shadow = x]
    BY <2>1 DEF Flag
  <2> HIDE DEF x
  <2>4. [q EXCEPT !.shadow = x] = [base |-> b, mine |-> m, attention |-> attention, shadow |-> x]
    BY <2>2
  <2> QED
    BY <1>2, <2>3, <2>4
<1>4. /\ f.base = r.base /\ f.mine = r.mine /\ f.attention = attention /\ f.shadow = x
      /\ HasShape(f) /\ Settled(f)
  BY DEF HasShape, Settled
<1> QED
  BY <1>3, <1>4

LEMMA PointShape == ASSUME NEW r \in Records PROVE HasShape(r)
BY DEF Records, HasShape

LEMMA FlagTyped ==
    ASSUME NEW sel, NEW r, RecordOK(sel, r), NEW attention, NEW shadow,
           IF sel = Whole THEN attention \in {"none", "merge_conflict", "path_gone"}
           ELSE attention \in {"none", "hub_changed", "path_gone", "unmergeable"} /\ shadow \in Values
    PROVE  /\ RecordOK(sel, Flag(r, attention, shadow))
           /\ Flag(r, attention, shadow).base = r.base /\ Flag(r, attention, shadow).mine = r.mine
<1>1. HasShape(r)
  BY PointShape DEF RecordOK, PointOK, WholeOK
<1>2. PICK f : f = Flag(r, attention, shadow)
  OBVIOUS
<1>3. /\ f = [base |-> r.base, mine |-> r.mine, attention |-> attention,
              shadow |-> IF attention = "none" THEN None ELSE shadow]
      /\ HasShape(f) /\ Settled(f) /\ f.base = r.base /\ f.mine = r.mine /\ f.attention = attention
  BY <1>1, <1>2, FlagIs
<1>4. CASE sel = Whole
  BY <1>2, <1>3, <1>4 DEF RecordOK, WholeOK
<1>5. CASE sel # Whole
  <2>1. r.base \in Values /\ r.mine \in Values /\ (Len(sel) = 2 => r.mine \in Scalars)
    BY <1>5 DEF RecordOK, PointOK, Records
  <2>2. (IF attention = "none" THEN None ELSE shadow) \in Values
    BY <1>5, ScalarsAre
  <2>3. f \in Records
    BY <1>3, <1>5, <2>1, <2>2 DEF Records
  <2> QED
    BY <1>2, <1>3, <1>5, <2>1, <2>3 DEF RecordOK, PointOK
<1> QED
  BY <1>4, <1>5

\* What a merge leaves of the records.
Flagged(recs, others) == RecordsOK(others) /\ SamePoints(recs, others)

LEMMA FlagOne ==
    ASSUME NEW recs, NEW others, Flagged(recs, others), NEW sel \in DOMAIN recs, NEW attention, NEW shadow,
           RecordOK(sel, recs[sel]),
           IF sel = Whole THEN attention \in {"none", "merge_conflict", "path_gone"}
           ELSE attention \in {"none", "hub_changed", "path_gone", "unmergeable"} /\ shadow \in Values
    PROVE  Flagged(recs, [others EXCEPT ![sel] = Flag(recs[sel], attention, shadow)])
<1>1. PICK f : f = Flag(recs[sel], attention, shadow)
  OBVIOUS
<1>2. RecordOK(sel, f) /\ f.base = recs[sel].base /\ f.mine = recs[sel].mine
  BY <1>1, FlagTyped
<1>3. PICK new : new = [others EXCEPT ![sel] = f]
  OBVIOUS
<1>4. /\ DOMAIN new = DOMAIN others /\ new = [s \in DOMAIN new |-> new[s]]
      /\ \A s \in DOMAIN others : new[s] = IF s = sel THEN f ELSE others[s]
  BY <1>3
<1>5. DOMAIN others = DOMAIN recs
  BY DEF Flagged, SamePoints
<1>6. RecordsOK(new)
  BY <1>2, <1>4 DEF Flagged, RecordsOK
<1>7. SamePoints(recs, new)
  BY <1>2, <1>4, <1>5 DEF Flagged, SamePoints
<1> QED
  BY <1>1, <1>3, <1>6, <1>7 DEF Flagged

LEMMA FlagAllIs ==
    ASSUME NEW recs, RecordsOK(recs), NEW attention,
           attention = "path_gone" \/ (attention = "unmergeable" /\ Whole \notin DOMAIN recs)
    PROVE  Flagged(recs, FlagAll(recs, attention))
<1>1. PICK new : new = FlagAll(recs, attention)
  OBVIOUS
<1>2. /\ DOMAIN new = DOMAIN recs /\ new = [s \in DOMAIN new |-> new[s]]
      /\ \A s \in DOMAIN recs : new[s] = Flag(recs[s], attention, None)
  BY <1>1 DEF FlagAll
<1>3. ASSUME NEW s \in DOMAIN recs
      PROVE  RecordOK(s, new[s]) /\ new[s].base = recs[s].base /\ new[s].mine = recs[s].mine
  <2>1. RecordOK(s, recs[s])
    BY DEF RecordsOK
  <2>2. None \in Values
    BY ScalarsAre
  <2>3. /\ RecordOK(s, Flag(recs[s], attention, None))
        /\ Flag(recs[s], attention, None).base = recs[s].base
        /\ Flag(recs[s], attention, None).mine = recs[s].mine
    <3>1. CASE s = Whole
      <4>1. attention \in {"none", "merge_conflict", "path_gone"}
        BY <3>1
      <4> QED
        BY <2>1, <3>1, <4>1, FlagTyped
    <3>2. CASE s # Whole
      <4>1. attention \in {"none", "hub_changed", "path_gone", "unmergeable"}
        OBVIOUS
      <4> QED
        BY <2>1, <2>2, <3>2, <4>1, FlagTyped
    <3> QED
      BY <3>1, <3>2
  <2> QED
    BY <1>2, <2>3
<1>4. RecordsOK(new) /\ SamePoints(recs, new)
  BY <1>2, <1>3 DEF RecordsOK, SamePoints
<1> QED
  BY <1>1, <1>4 DEF Flagged

\* A merge in progress.
MergeOK(recs, m) ==
    /\ m = [recs |-> m.recs, out |-> m.out, stuck |-> m.stuck]
    /\ Flagged(recs, m.recs) /\ m.out \in Trees

LEMMA PointMerges ==
    ASSUME NEW recs, RecordsOK(recs), Whole \notin DOMAIN recs, NEW tree \in Trees, NEW m, MergeOK(recs, m),
           NEW sel \in Selectors
    PROVE  MergeOK(recs, mergePoint(recs, tree, m, sel))
<1>1. CASE m.stuck \/ sel \notin DOMAIN recs
  BY <1>1 DEF mergePoint
<1>2. CASE ~m.stuck /\ sel \in DOMAIN recs
  <2>1. PICK r, seen : r = recs[sel] /\ seen = At(tree, sel)
    OBVIOUS
  <2>2. RecordOK(sel, r) /\ sel # Whole
    BY <1>2, <2>1, SelectorNotWhole DEF RecordsOK
  <2>3. r.mine \in Values /\ (Len(sel) = 2 => r.mine \in Scalars)
    BY <2>2 DEF RecordOK, PointOK, Records
  <2>4. seen \in Values /\ None \in Values
    BY <2>1, AtTyped, ScalarsAre
  <2>5. PICK flagged : flagged = IF seen = r.base THEN Flag(r, "none", None) ELSE Flag(r, "hub_changed", seen)
    OBVIOUS
  <2>6. Flagged(recs, [m.recs EXCEPT ![sel] = flagged])
    <3>1. CASE seen = r.base
      BY <1>2, <2>1, <2>2, <2>4, <2>5, <3>1, FlagOne DEF MergeOK
    <3>2. CASE seen # r.base
      BY <1>2, <2>1, <2>2, <2>4, <2>5, <3>2, FlagOne DEF MergeOK
    <3> QED
      BY <3>1, <3>2
  <2>7. PICK out, stuck : /\ out = IF CannotSet(m.out, sel, r.mine) THEN m.out ELSE Put(m.out, sel, r.mine)
                          /\ stuck = CannotSet(m.out, sel, r.mine)
    OBVIOUS
  <2>8. out \in Trees
    BY <2>3, <2>7, PutTyped DEF MergeOK
  <2>9. PICK new : new = [recs |-> [m.recs EXCEPT ![sel] = flagged], out |-> out, stuck |-> stuck]
    OBVIOUS
  <2>10. mergePoint(recs, tree, m, sel) = new
    BY <1>2, <2>1, <2>5, <2>7, <2>9 DEF mergePoint
  <2>11. new.recs = [m.recs EXCEPT ![sel] = flagged] /\ new.out = out /\ new.stuck = stuck
    BY <2>9
  <2>12. MergeOK(recs, new)
    BY <2>6, <2>8, <2>9, <2>11 DEF MergeOK
  <2> QED
    BY <2>10, <2>12
<1> QED
  BY <1>1, <1>2

LEMMA SelOrderIs == Len(SelOrder) \in Nat /\ \A k \in 1 .. Len(SelOrder) : SelOrder[k] \in Selectors
BY LeavesAssumption

LEMMA JsonMerges ==
    ASSUME NEW recs, RecordsOK(recs), Whole \notin DOMAIN recs, NEW tree \in Trees
    PROVE  MergeOK(recs, mergeJSON(recs, tree))
<1>1. PICK f : /\ f[0] = Start(recs, tree) /\ mergeJSON(recs, tree) = f[Len(SelOrder)]
               /\ \A k \in 1 .. Len(SelOrder) : f[k] = mergePoint(recs, tree, f[k - 1], SelOrder[k])
  BY MergeIs
<1>2. PICK N \in Nat : N = Len(SelOrder)
  BY SelOrderIs
<1> DEFINE T == {k \in Nat : k <= N => MergeOK(recs, f[k])}
<1>3. 0 \in T
  <2>1. SamePoints(recs, recs)
    BY DEF SamePoints
  <2>2. PICK s : s = Start(recs, tree)
    OBVIOUS
  <2>3. s.recs = recs /\ s.out = tree /\ s = [recs |-> s.recs, out |-> s.out, stuck |-> s.stuck]
    BY <2>2 DEF Start
  <2>4. MergeOK(recs, s)
    BY <2>1, <2>3 DEF MergeOK, Flagged
  <2> QED
    BY <1>1, <2>2, <2>4
<1>4. ASSUME NEW k \in T
      PROVE  k + 1 \in T
  <2>1. SUFFICES ASSUME k + 1 <= N
                 PROVE  MergeOK(recs, f[k + 1])
    OBVIOUS
  <2>2. MergeOK(recs, f[k]) /\ k + 1 \in 1 .. N /\ k + 1 - 1 = k
    BY <2>1
  <2>3. SelOrder[k + 1] \in Selectors
    BY <1>2, <2>2, SelOrderIs
  <2>4. f[k + 1] = mergePoint(recs, tree, f[k], SelOrder[k + 1])
    BY <1>1, <1>2, <2>2
  <2> HIDE DEF T
  <2> QED
    BY <2>2, <2>3, <2>4, PointMerges
<1>5. T = Nat
  <2>1. T \in SUBSET Nat
    OBVIOUS
  <2> HIDE DEF T
  <2> QED
    BY <1>3, <1>4, <2>1, Inductive
<1>6. MergeOK(recs, f[N])
  <2>1. N \in T
    BY <1>5
  <2> QED
    BY <2>1
<1> QED
  BY <1>1, <1>2, <1>6

-----------------------------------------------------------------------------
(* What a snapshot serves.                                                 *)

LEMMA DocsAre == \A d \in Docs : IsDoc(d)
BY LeavesAssumption DEF Docs, IsDoc, Json, Text

LEMMA AsDocIs == ASSUME NEW lines PROVE IsDoc(AsDoc(lines))
BY DEF AsDoc, IsDoc, Json, Text

LEMMA JsonIs == ASSUME NEW tree \in Trees PROVE IsDoc(Json(tree))
BY DEF IsDoc, Json

LEMMA ApplyTyped ==
    ASSUME NEW recs, RecordsOK(recs), NEW doc, MaybeDoc(doc)
    PROVE  Flagged(recs, Apply(recs, doc).recs) /\ MaybeDoc(Apply(recs, doc).out)
<1>0. PICK a : a = Apply(recs, doc)
  OBVIOUS
<1>1. CASE DOMAIN recs = {}
  <2>1. a = [recs |-> recs, out |-> doc, stuck |-> FALSE]
    BY <1>0, <1>1 DEF Apply
  <2>2. a.recs = recs /\ a.out = doc
    BY <2>1
  <2> QED
    BY <1>0, <2>2 DEF Flagged, SamePoints
<1>2. CASE DOMAIN recs # {} /\ doc = None
  <2>1. a = [recs |-> FlagAll(recs, "path_gone"), out |-> doc, stuck |-> FALSE]
    BY <1>0, <1>2 DEF Apply
  <2>2. a.recs = FlagAll(recs, "path_gone") /\ a.out = doc
    BY <2>1
  <2>3. Flagged(recs, FlagAll(recs, "path_gone"))
    BY FlagAllIs
  <2> QED
    BY <1>0, <2>2, <2>3
<1>3. CASE doc # None /\ Whole \in DOMAIN recs
  <2>1. PICK m : m = mergeText(recs, doc)
    OBVIOUS
  <2>2. a = [m EXCEPT !.out = AsDoc(@)]
    BY <1>0, <1>3, <2>1 DEF Apply
  <2>3. PICK r, flagged, lines, mm :
            /\ r = recs[Whole] /\ mm = Merge(Lines(r.base), Lines(r.mine), Lines(doc)) /\ lines = mm.lines
            /\ flagged = IF mm.conflict THEN Flag(r, "merge_conflict", doc) ELSE Flag(r, "none", None)
    OBVIOUS
  <2>4. m = [recs |-> [recs EXCEPT ![Whole] = flagged], out |-> lines, stuck |-> FALSE]
    BY <2>1, <2>3 DEF mergeText
  <2>5. m.recs = [recs EXCEPT ![Whole] = flagged] /\ m.out = lines
    BY <2>4
  <2>6. a.recs = [recs EXCEPT ![Whole] = flagged] /\ a.out = AsDoc(lines)
    BY <2>2, <2>4, <2>5
  <2>7. RecordOK(Whole, recs[Whole]) /\ Flagged(recs, recs)
    BY <1>3 DEF RecordsOK, Flagged, SamePoints
  <2>8. Flagged(recs, [recs EXCEPT ![Whole] = flagged])
    <3>1. CASE mm.conflict
      BY <1>3, <2>3, <2>7, <3>1, FlagOne
    <3>2. CASE ~mm.conflict
      BY <1>3, <2>3, <2>7, <3>2, FlagOne
    <3> QED
      BY <3>1, <3>2
  <2> QED
    BY <1>0, <2>6, <2>8, AsDocIs DEF MaybeDoc
<1>4. CASE doc # None /\ Whole \notin DOMAIN recs /\ DOMAIN recs # {} /\ doc.kind # "json"
  <2>1. a = [recs |-> FlagAll(recs, "unmergeable"), out |-> doc, stuck |-> FALSE]
    BY <1>0, <1>4 DEF Apply
  <2>2. a.recs = FlagAll(recs, "unmergeable") /\ a.out = doc
    BY <2>1
  <2>3. Flagged(recs, FlagAll(recs, "unmergeable"))
    BY <1>4, FlagAllIs
  <2> QED
    BY <1>0, <2>2, <2>3
<1>5. CASE doc # None /\ Whole \notin DOMAIN recs /\ DOMAIN recs # {} /\ doc.kind = "json"
  <2>1. PICK m : m = mergeJSON(recs, doc.tree)
    OBVIOUS
  <2>2. a = [m EXCEPT !.out = Json(@)]
    BY <1>0, <1>5, <2>1 DEF Apply
  <2>3. doc.tree \in Trees
    BY <1>5 DEF MaybeDoc, IsDoc
  <2>4. MergeOK(recs, m)
    BY <1>5, <2>1, <2>3, JsonMerges
  <2>5. a.recs = m.recs /\ a.out = Json(m.out)
    <3>1. PICK x, y, z : m = [recs |-> x, out |-> y, stuck |-> z]
      BY <2>4 DEF MergeOK
    <3>2. m.recs = x /\ m.out = y
      BY <3>1
    <3> QED
      BY <2>2, <3>1, <3>2
  <2>6. Flagged(recs, m.recs) /\ m.out \in Trees
    BY <2>4 DEF MergeOK
  <2> QED
    BY <1>0, <2>5, <2>6, JsonIs DEF MaybeDoc
<1> QED
  BY <1>1, <1>2, <1>3, <1>4, <1>5

\* A point is laid over the head in the same way whatever its flag.
LEMMA PointSame ==
    ASSUME NEW recs, NEW others, SamePoints(recs, others), NEW tree, NEW m, NEW n, NEW sel,
           m.out = n.out, m.stuck = n.stuck
    PROVE  /\ mergePoint(recs, tree, m, sel).out = mergePoint(others, tree, n, sel).out
           /\ mergePoint(recs, tree, m, sel).stuck = mergePoint(others, tree, n, sel).stuck
<1>1. CASE m.stuck \/ sel \notin DOMAIN recs
  <2>1. mergePoint(recs, tree, m, sel) = m
    BY <1>1 DEF mergePoint
  <2>2. mergePoint(others, tree, n, sel) = n
    BY <1>1 DEF mergePoint, SamePoints
  <2> QED
    BY <2>1, <2>2
<1>2. CASE ~m.stuck /\ sel \in DOMAIN recs
  <2>1. recs[sel].mine = others[sel].mine /\ sel \in DOMAIN others
    BY <1>2 DEF SamePoints
  <2>2. PICK mine : mine = recs[sel].mine
    OBVIOUS
  <2>3. PICK out, stuck : /\ out = IF CannotSet(m.out, sel, mine) THEN m.out ELSE Put(m.out, sel, mine)
                          /\ stuck = CannotSet(m.out, sel, mine)
    OBVIOUS
  <2>4. \E x : mergePoint(recs, tree, m, sel) = [recs |-> x, out |-> out, stuck |-> stuck]
    BY <1>2, <2>2, <2>3 DEF mergePoint
  <2>5. \E x : mergePoint(others, tree, n, sel) = [recs |-> x, out |-> out, stuck |-> stuck]
    BY <1>2, <2>1, <2>2, <2>3 DEF mergePoint
  <2> QED
    BY <2>4, <2>5
<1> QED
  BY <1>1, <1>2

LEMMA JsonSame ==
    ASSUME NEW recs, NEW others, SamePoints(recs, others), NEW tree
    PROVE  mergeJSON(recs, tree).out = mergeJSON(others, tree).out
<1>1. PICK f : /\ f[0] = Start(recs, tree) /\ mergeJSON(recs, tree) = f[Len(SelOrder)]
               /\ \A k \in 1 .. Len(SelOrder) : f[k] = mergePoint(recs, tree, f[k - 1], SelOrder[k])
  BY MergeIs
<1>2. PICK g : /\ g[0] = Start(others, tree) /\ mergeJSON(others, tree) = g[Len(SelOrder)]
               /\ \A k \in 1 .. Len(SelOrder) : g[k] = mergePoint(others, tree, g[k - 1], SelOrder[k])
  BY MergeIs
<1>3. PICK N \in Nat : N = Len(SelOrder)
  BY SelOrderIs
<1> DEFINE T == {k \in Nat : k <= N => f[k].out = g[k].out /\ f[k].stuck = g[k].stuck}
<1>4. 0 \in T
  <2>1. f[0].out = g[0].out /\ f[0].stuck = g[0].stuck
    BY <1>1, <1>2 DEF Start
  <2> QED
    BY <2>1
<1>5. ASSUME NEW k \in T
      PROVE  k + 1 \in T
  <2>1. SUFFICES ASSUME k + 1 <= N
                 PROVE  f[k + 1].out = g[k + 1].out /\ f[k + 1].stuck = g[k + 1].stuck
    OBVIOUS
  <2>2. f[k].out = g[k].out /\ f[k].stuck = g[k].stuck /\ k + 1 \in 1 .. N /\ k + 1 - 1 = k
    BY <2>1
  <2>3. /\ f[k + 1] = mergePoint(recs, tree, f[k], SelOrder[k + 1])
        /\ g[k + 1] = mergePoint(others, tree, g[k], SelOrder[k + 1])
    BY <1>1, <1>2, <1>3, <2>2
  <2> HIDE DEF T
  <2> QED
    BY <2>2, <2>3, PointSame
<1>6. T = Nat
  <2>1. T \in SUBSET Nat
    OBVIOUS
  <2> HIDE DEF T
  <2> QED
    BY <1>4, <1>5, <2>1, Inductive
<1>7. f[N].out = g[N].out
  <2>1. N \in T
    BY <1>6
  <2> QED
    BY <2>1
<1> QED
  BY <1>1, <1>2, <1>3, <1>7

LEMMA ServedSame ==
    ASSUME NEW recs, RecordsOK(recs), NEW others, Flagged(recs, others), NEW doc, MaybeDoc(doc)
    PROVE  Served(recs, doc) = Served(others, doc)
<1>1. SamePoints(recs, others) /\ DOMAIN recs = DOMAIN others
  BY DEF Flagged, SamePoints
<1>2. CASE DOMAIN recs = {}
  BY <1>1, <1>2 DEF Served, Apply
<1>3. CASE DOMAIN recs # {} /\ doc = None
  BY <1>1, <1>3 DEF Served, Apply
<1>4. CASE doc # None /\ Whole \in DOMAIN recs
  <2>1. PICK lines : lines = Merge(Lines(recs[Whole].base), Lines(recs[Whole].mine), Lines(doc)).lines
    OBVIOUS
  <2>2. recs[Whole].base = others[Whole].base /\ recs[Whole].mine = others[Whole].mine
    BY <1>1, <1>4 DEF SamePoints
  <2>3. lines = Merge(Lines(others[Whole].base), Lines(others[Whole].mine), Lines(doc)).lines
    BY <2>1, <2>2
  <2>4. \E x : mergeText(recs, doc) = [recs |-> x, out |-> lines, stuck |-> FALSE]
    BY <2>1 DEF mergeText
  <2>5. \E x : mergeText(others, doc) = [recs |-> x, out |-> lines, stuck |-> FALSE]
    BY <2>3 DEF mergeText
  <2>6. Served(recs, doc) = AsDoc(lines)
    <3>1. PICK m : m = mergeText(recs, doc)
      OBVIOUS
    <3>2. Served(recs, doc) = [m EXCEPT !.out = AsDoc(@)].out
      BY <1>4, <3>1 DEF Served, Apply
    <3> QED
      BY <2>4, <3>1, <3>2
  <2>7. Served(others, doc) = AsDoc(lines)
    <3>1. PICK m : m = mergeText(others, doc)
      OBVIOUS
    <3>2. Served(others, doc) = [m EXCEPT !.out = AsDoc(@)].out
      BY <1>1, <1>4, <3>1 DEF Served, Apply
    <3> QED
      BY <2>5, <3>1, <3>2
  <2> QED
    BY <2>6, <2>7
<1>5. CASE doc # None /\ Whole \notin DOMAIN recs /\ DOMAIN recs # {} /\ doc.kind # "json"
  BY <1>1, <1>5 DEF Served, Apply
<1>6. CASE doc # None /\ Whole \notin DOMAIN recs /\ DOMAIN recs # {} /\ doc.kind = "json"
  <2>1. PICK m, n : m = mergeJSON(recs, doc.tree) /\ n = mergeJSON(others, doc.tree)
    OBVIOUS
  <2>2. m.out = n.out
    BY <1>1, <2>1, JsonSame
  <2>3. Served(recs, doc) = [m EXCEPT !.out = Json(@)].out /\ Served(others, doc) = [n EXCEPT !.out = Json(@)].out
    BY <1>1, <1>6, <2>1 DEF Served, Apply
  <2>4. MergeOK(recs, m) /\ MergeOK(others, n)
    <3>1. doc.tree \in Trees /\ RecordsOK(others)
      BY <1>6 DEF MaybeDoc, IsDoc, Flagged
    <3> QED
      BY <1>1, <1>6, <2>1, <3>1, JsonMerges
  <2>5. (\E x, y, z : m = [recs |-> x, out |-> y, stuck |-> z]) /\ (\E x, y, z : n = [recs |-> x, out |-> y, stuck |-> z])
    BY <2>4 DEF MergeOK
  <2> QED
    BY <2>2, <2>3, <2>5
<1> QED
  BY <1>2, <1>3, <1>4, <1>5, <1>6

-----------------------------------------------------------------------------
(* The calls.                                                              *)

\* No two of the selectors contradict each other.
Apart(sels) == \A a, b \in sels : a # b => ~selectorsOverlap(a, b) /\ Whole \notin {a, b}

HasCallShape(call) ==
    call = [pc |-> call.pc, points |-> call.points, todo |-> call.todo, base |-> call.base,
            json |-> call.json, fresh |-> call.fresh]
Overriding(call) ==
    /\ HasCallShape(call)
    /\ call.pc \in {"drop", "delete", "create"} /\ call.json \in BOOLEAN
    /\ RecordsOK(call.points) /\ Apart(DOMAIN call.points)
    /\ call.pc = "create" => call.todo \subseteq DOMAIN call.points
    /\ DOMAIN call.points \subseteq IF call.json THEN Selectors ELSE {Whole}
Ignoring(call) == call.pc = "clear" /\ call = [pc |-> "clear", todo |-> call.todo]
CallOK(call) == call \in {Idle, [pc |-> "tell"]} \/ Ignoring(call) \/ Overriding(call)
CallsOK ==
    /\ calls = [c \in Calls |-> calls[c]]
    /\ \A c \in Calls : CallOK(calls[c])

EventOK ==
    event # None => /\ event = [base |-> event.base, cur |-> event.cur, calls |-> event.calls]
                    /\ IsDoc(event.base) /\ MaybeDoc(event.cur)

TypeInv ==
    /\ head \in Docs \cup {None} /\ MaybeDoc(based) /\ MaybeDoc(disk)
    /\ RecordsOK(records) /\ EventOK /\ CallsOK
    /\ unmanaged \in BOOLEAN /\ notice \in BOOLEAN /\ raced \in BOOLEAN /\ failed \in BOOLEAN

LEMMA TypesAll == TypeInv => TypeOK
<1> SUFFICES ASSUME TypeInv PROVE TypeOK
  OBVIOUS
<1>1. \A c \in Calls : calls[c].pc \in {"idle", "drop", "delete", "create", "tell", "clear"}
  BY DEF TypeInv, CallsOK, CallOK, Overriding, Ignoring, Idle
<1>2. /\ DOMAIN records \subseteq Selectors \cup {Whole}
      /\ \A sel \in DOMAIN records \ {Whole} : records[sel] \in Records
      /\ Whole \in DOMAIN records => records[Whole].attention \in {"none", "merge_conflict", "path_gone"}
      /\ \A sel \in DOMAIN records : records[sel].attention = "none" => records[sel].shadow = None
  BY DEF TypeInv, RecordsOK, RecordOK, PointOK, WholeOK, Settled
<1> QED
  BY <1>1, <1>2 DEF TypeInv, TypeOK

LEMMA HeadIs == ASSUME head \in Docs \cup {None} PROVE MaybeDoc(head)
BY DocsAre DEF MaybeDoc

LEMMA OverlapIs ==
    ASSUME NEW a \in Selectors, NEW b \in Selectors, selectorsOverlap(a, b), a # b
    PROVE  a[1] = b[1] /\ ((Len(a) = 1 /\ Len(b) = 2) \/ (Len(a) = 2 /\ Len(b) = 1))
<1>1. IsPrefix(a, b) \/ IsPrefix(b, a)
  BY DEF selectorsOverlap
<1>2. \/ a = <<a[1]>> /\ Len(a) = 1 /\ a[1] \in Tops
      \/ a = <<a[1], a[2]>> /\ Len(a) = 2 /\ a[1] \in Tops /\ a[2] \in Subs
  BY SelectorIs
<1>3. \/ b = <<b[1]>> /\ Len(b) = 1 /\ b[1] \in Tops
      \/ b = <<b[1], b[2]>> /\ Len(b) = 2 /\ b[1] \in Tops /\ b[2] \in Subs
  BY SelectorIs
<1>4. CASE Len(a) = 1 /\ Len(b) = 1
  BY <1>1, <1>2, <1>3, <1>4 DEF IsPrefix
<1>5. CASE Len(a) = 2 /\ Len(b) = 2
  BY <1>1, <1>2, <1>3, <1>5 DEF IsPrefix
<1>6. CASE Len(a) = 1 /\ Len(b) = 2
  BY <1>1, <1>2, <1>3, <1>6 DEF IsPrefix
<1>7. CASE Len(a) = 2 /\ Len(b) = 1
  BY <1>1, <1>2, <1>3, <1>7 DEF IsPrefix
<1> QED
  BY <1>2, <1>3, <1>4, <1>5, <1>6, <1>7

\* The points in which two objects differ: below a key, or at it, but not both.
LEMMA SplitApart == ASSUME NEW base, NEW mine PROVE Split(base, mine) \subseteq Selectors /\ Apart(Split(base, mine))
<1>1. Split(base, mine) \subseteq Selectors
  BY DEF Split
<1>2. ASSUME NEW a \in Split(base, mine), NEW b \in Split(base, mine), a # b, selectorsOverlap(a, b)
      PROVE  FALSE
  <2>1. a \in Selectors /\ b \in Selectors
    BY <1>1
  <2>2. a[1] = b[1] /\ ((Len(a) = 1 /\ Len(b) = 2) \/ (Len(a) = 2 /\ Len(b) = 1))
    BY <1>2, <2>1, OverlapIs
  <2>3. PICK both : both = (IsObj(base[a[1]]) /\ IsObj(mine[a[1]]))
    OBVIOUS
  <2>4. (Len(a) = 1 => ~both) /\ (Len(a) = 2 => both) /\ (Len(b) = 1 => ~both) /\ (Len(b) = 2 => both)
    BY <2>2, <2>3 DEF Split
  <2> QED
    BY <2>2, <2>4
<1> QED
  BY <1>1, <1>2, SelectorNotWhole DEF Apart

LEMMA PointIs ==
    ASSUME NEW base, NEW mine
    PROVE  /\ HasShape(Point(base, mine)) /\ Settled(Point(base, mine))
           /\ Point(base, mine).attention = "none" /\ Point(base, mine).mine = mine
           /\ base \in Values /\ mine \in Values => Point(base, mine) \in Records
BY ScalarsAre DEF Point, HasShape, Settled, Records

LEMMA SelectionsTyped ==
    ASSUME NEW base, IsDoc(base), NEW cur, IsDoc(cur), NEW points \in Selections(base, cur)
    PROVE  /\ RecordsOK(points) /\ Apart(DOMAIN points)
           /\ DOMAIN points \subseteq IF BothObjects(base, cur) THEN Selectors ELSE {Whole}
<1>1. CASE BothObjects(base, cur)
  <2>1. PICK sels \in SUBSET Split(base.tree, cur.tree) :
            points = [sel \in sels |-> Point(At(base.tree, sel), At(cur.tree, sel))]
    BY <1>1 DEF Selections
  <2>2. DOMAIN points = sels /\ sels \subseteq Selectors /\ Apart(sels)
    BY <2>1, SplitApart DEF Apart
  <2>3. base.tree \in Trees /\ cur.tree \in Trees
    BY <1>1 DEF BothObjects, IsDoc
  <2>4. ASSUME NEW sel \in sels
        PROVE  RecordOK(sel, points[sel])
    <3>1. PICK x, y : x = At(base.tree, sel) /\ y = At(cur.tree, sel)
      OBVIOUS
    <3>2. x \in Values /\ y \in Values /\ (Len(sel) = 2 => y \in Scalars)
      BY <2>2, <2>3, <3>1, AtTyped
    <3>3. points[sel] = Point(x, y)
      BY <2>1, <3>1
    <3>4. sel # Whole
      BY <2>2, SelectorNotWhole
    <3> QED
      BY <3>2, <3>3, <3>4, PointIs DEF RecordOK, PointOK
  <2>5. points = [sel \in DOMAIN points |-> points[sel]]
    BY <2>1
  <2> QED
    BY <1>1, <2>2, <2>4, <2>5 DEF RecordsOK
<1>2. CASE ~BothObjects(base, cur)
  <2>1. PICK keep : points = [sel \in {Whole} |->
              Point(base, AsDoc(SynthesizeMine(Lines(base), Lines(cur), keep, Context)))]
    BY <1>2 DEF Selections
  <2>2. PICK mine : points = [sel \in {Whole} |-> Point(base, mine)]
    BY <2>1
  <2>3. DOMAIN points = {Whole} /\ points[Whole] = Point(base, mine) /\ points = [sel \in DOMAIN points |-> points[sel]]
    BY <2>2
  <2>4. RecordOK(Whole, points[Whole])
    BY <2>3, PointIs DEF RecordOK, WholeOK
  <2> QED
    BY <1>2, <2>3, <2>4 DEF RecordsOK, Apart
<1> QED
  BY <1>1, <1>2

-----------------------------------------------------------------------------
(* Every step keeps the types.                                             *)

LEMMA InitTyped == Init => TypeInv
<1> SUFFICES ASSUME Init PROVE TypeInv
  OBVIOUS
<1>1. head \in Docs /\ IsDoc(head)
  BY LeavesAssumption, DocsAre DEF Init
<1>2. RecordsOK(records)
  BY DEF Init, NoRecords, RecordsOK
<1>3. CallsOK
  BY DEF Init, CallsOK, CallOK
<1> QED
  BY <1>1, <1>2, <1>3 DEF Init, TypeInv, MaybeDoc, EventOK

LEMMA CallSet ==
    ASSUME CallsOK, NEW c \in Calls, NEW v, calls' = [calls EXCEPT ![c] = v]
    PROVE  \A d \in Calls : calls'[d] = IF d = c THEN v ELSE calls[d]
BY DEF CallsOK

LEMMA CallsSet ==
    ASSUME CallsOK, NEW c \in Calls, NEW v, CallOK(v), calls' = [calls EXCEPT ![c] = v]
    PROVE  CallsOK'
<1>1. calls' = [d \in Calls |-> calls'[d]]
  BY DEF CallsOK
<1>2. \A d \in Calls : calls'[d] = IF d = c THEN v ELSE calls[d]
  BY CallSet
<1>3. \A d \in Calls : CallOK(calls'[d])
  BY <1>2 DEF CallsOK
<1> QED
  BY <1>1, <1>3 DEF CallsOK, CallOK, Overriding, Ignoring, HasCallShape, RecordsOK, RecordOK, Apart

LEMMA Cleared == ASSUME TypeInv, event' = None PROVE EventOK'
BY DEF EventOK

LEMMA EventStays == ASSUME TypeInv, UNCHANGED event PROVE EventOK'
BY DEF TypeInv, EventOK

LEMMA EventClosed == ASSUME TypeInv, NEW c, event' = Closed(c) PROVE EventOK'
<1>1. event' = None \/ event' = event
  BY DEF Closed
<1> QED
  BY <1>1, Cleared, EventStays

LEMMA EventPlanned ==
    ASSUME TypeInv, event # None, NEW c, event' = [event EXCEPT !.calls = @ \cup {c}]
    PROVE  EventOK'
<1>1. PICK base, cur, open : event = [base |-> base, cur |-> cur, calls |-> open]
  BY DEF TypeInv, EventOK
<1>2. event.base = base /\ event.cur = cur
  BY <1>1
<1>3. \E more : event' = [base |-> base, cur |-> cur, calls |-> more]
  BY <1>1
<1>4. PICK more : event' = [base |-> base, cur |-> cur, calls |-> more]
  BY <1>3
<1>5. event'.base = base /\ event'.cur = cur /\ event'.calls = more
  BY <1>4
<1>6. IsDoc(base) /\ MaybeDoc(cur)
  BY <1>2 DEF TypeInv, EventOK
<1> QED
  BY <1>4, <1>5, <1>6 DEF EventOK

LEMMA DropTyped == ASSUME NEW recs, RecordsOK(recs), NEW sels PROVE RecordsOK(Drop(recs, sels))
<1>1. PICK new : new = Drop(recs, sels)
  OBVIOUS
<1>2. /\ DOMAIN new = DOMAIN recs \ sels /\ new = [sel \in DOMAIN new |-> new[sel]]
      /\ \A sel \in DOMAIN recs \ sels : new[sel] = recs[sel]
  BY <1>1 DEF Drop
<1> QED
  BY <1>1, <1>2 DEF RecordsOK

LEMMA AddTyped ==
    ASSUME NEW recs, RecordsOK(recs), NEW sel \in Selectors \cup {Whole}, NEW r, RecordOK(sel, r)
    PROVE  RecordsOK(Add(recs, sel, r)) /\ DOMAIN Add(recs, sel, r) = DOMAIN recs \cup {sel}
<1>1. PICK new : new = Add(recs, sel, r)
  OBVIOUS
<1>2. /\ DOMAIN new = DOMAIN recs \cup {sel} /\ new = [s \in DOMAIN new |-> new[s]]
      /\ \A s \in DOMAIN recs \cup {sel} : new[s] = IF s = sel THEN r ELSE recs[s]
  BY <1>1 DEF Add
<1> QED
  BY <1>1, <1>2 DEF RecordsOK

\* The steps of a call of Override change only where it is and what it has still to make.
LEMMA CallAt ==
    ASSUME NEW call, HasCallShape(call), NEW at, NEW new, new = [call EXCEPT !.pc = at]
    PROVE  new = [pc |-> at, points |-> call.points, todo |-> call.todo, base |-> call.base, json |-> call.json,
                  fresh |-> call.fresh]
<1>1. PICK pc, points, todo, base, json, fresh :
          call = [pc |-> pc, points |-> points, todo |-> todo, base |-> base, json |-> json, fresh |-> fresh]
  BY DEF HasCallShape
<1>2. /\ call.points = points /\ call.todo = todo /\ call.base = base /\ call.json = json /\ call.fresh = fresh
  BY <1>1
<1> QED
  BY <1>1, <1>2

LEMMA CallToDo ==
    ASSUME NEW call, HasCallShape(call), NEW todo, NEW new, new = [call EXCEPT !.todo = todo]
    PROVE  new = [pc |-> call.pc, points |-> call.points, todo |-> todo, base |-> call.base, json |-> call.json,
                  fresh |-> call.fresh]
<1>1. PICK pc, points, old, base, json, fresh :
          call = [pc |-> pc, points |-> points, todo |-> old, base |-> base, json |-> json, fresh |-> fresh]
  BY DEF HasCallShape
<1>2. /\ call.pc = pc /\ call.points = points /\ call.base = base /\ call.json = json /\ call.fresh = fresh
  BY <1>1
<1> QED
  BY <1>1, <1>2

LEMMA CallMoved ==
    ASSUME NEW call, Overriding(call), NEW at \in {"drop", "delete", "create"}, NEW todo,
           at = "create" => todo \subseteq DOMAIN call.points, NEW new,
           new = [pc |-> at, points |-> call.points, todo |-> todo, base |-> call.base, json |-> call.json,
                  fresh |-> call.fresh]
    PROVE  Overriding(new) /\ new.points = call.points /\ new.json = call.json /\ new.pc = at
<1>1. PICK points, base, json, fresh :
          points = call.points /\ base = call.base /\ json = call.json /\ fresh = call.fresh
  OBVIOUS
<1>2. new = [pc |-> at, points |-> points, todo |-> todo, base |-> base, json |-> json, fresh |-> fresh]
  BY <1>1
<1>3. /\ new.pc = at /\ new.points = points /\ new.todo = todo /\ new.base = base /\ new.json = json
      /\ new.fresh = fresh
  BY <1>2
<1>4. /\ json \in BOOLEAN /\ RecordsOK(points) /\ Apart(DOMAIN points)
      /\ DOMAIN points \subseteq IF json THEN Selectors ELSE {Whole}
  BY <1>1 DEF Overriding
<1>5. Overriding(new)
  BY <1>1, <1>2, <1>3, <1>4 DEF Overriding, HasCallShape
<1> QED
  BY <1>1, <1>3, <1>5

LEMMA IdleIs ==
    /\ CallOK(Idle) /\ CallOK([pc |-> "tell"])
    /\ Idle.pc = "idle" /\ [pc |-> "tell"].pc = "tell"
    /\ \A todo : CallOK([pc |-> "clear", todo |-> todo]) /\ [pc |-> "clear", todo |-> todo].pc = "clear"
BY DEF CallOK, Ignoring, Idle

LEMMA AtIs ==
    ASSUME TypeInv, NEW c \in Calls
    PROVE  calls[c].pc \in {"drop", "delete", "create"} => Overriding(calls[c])
BY IdleIs DEF TypeInv, CallsOK, CallOK, Ignoring

\* Call c goes on to `at', with `todo' left to do there.
WentOn(c, at, todo) == calls' = [calls EXCEPT ![c].pc = at, ![c].todo = todo]

\* A call goes on to its next place, with something new to do there.
LEMMA GoesOn ==
    ASSUME TypeInv, NEW c \in Calls, Overriding(calls[c]), NEW at \in {"drop", "delete", "create"}, NEW todo,
           at = "create" => todo \subseteq DOMAIN calls[c].points,
           WentOn(c, at, todo)
    PROVE  \E v : /\ calls' = [calls EXCEPT ![c] = v] /\ Overriding(v) /\ v.pc = at
                  /\ v.points = calls[c].points /\ v.json = calls[c].json /\ v.todo = todo
<1>1. PICK call : call = calls[c]
  OBVIOUS
<1>2. Overriding(call)
  BY <1>1
<1>3. PICK u : u = [call EXCEPT !.pc = at]
  OBVIOUS
<1>4. PICK v : v = [u EXCEPT !.todo = todo]
  OBVIOUS
<1>5. calls' = [calls EXCEPT ![c] = v]
  <2>1. PICK q : q = [calls EXCEPT ![c] = u]
    OBVIOUS
  <2>2. q[c] = u /\ q = [d \in Calls |-> IF d = c THEN u ELSE calls[d]]
    BY <2>1 DEF TypeInv, CallsOK
  <2>3. calls' = [q EXCEPT ![c].todo = todo]
    <3>1. [calls EXCEPT ![c].pc = at] = q
      BY <1>1, <1>3, <2>1
    <3> QED
      BY <3>1 DEF WentOn
  <2>4. calls' = [q EXCEPT ![c] = v]
    BY <1>4, <2>1, <2>2, <2>3
  <2>5. [q EXCEPT ![c] = v] = [d \in Calls |-> IF d = c THEN v ELSE calls[d]]
    BY <2>2
  <2>6. [calls EXCEPT ![c] = v] = [d \in Calls |-> IF d = c THEN v ELSE calls[d]]
    BY DEF TypeInv, CallsOK
  <2> QED
    BY <2>4, <2>5, <2>6
<1>6. v = [pc |-> at, points |-> call.points, todo |-> todo, base |-> call.base,
           json |-> call.json, fresh |-> call.fresh]
  <2>1. HasCallShape(call)
    BY <1>2 DEF Overriding
  <2>2. u = [pc |-> at, points |-> call.points, todo |-> call.todo, base |-> call.base, json |-> call.json,
             fresh |-> call.fresh]
    BY <1>3, <2>1, CallAt
  <2> QED
    BY <1>4, <2>2
<1>7. Overriding(v) /\ v.points = call.points /\ v.json = call.json /\ v.pc = at
  BY <1>1, <1>2, <1>6, CallMoved
<1>8. v.todo = todo
  BY <1>6
<1> QED
  BY <1>1, <1>5, <1>7, <1>8

LEMMA FindMoves ==
    ASSUME TypeInv, NEW c \in Calls, FindOld(c)
    PROVE  /\ \E v : /\ calls' = [calls EXCEPT ![c] = v] /\ Overriding(v) /\ v.pc = "delete"
                     /\ v.points = calls[c].points /\ v.todo = Replaced(calls[c])
           /\ Overriding(calls[c])
<1>1. Overriding(calls[c])
  BY AtIs DEF FindOld
<1>2. PICK todo : todo = Replaced(calls[c])
  OBVIOUS
<1>3. calls' = [calls EXCEPT ![c].pc = "delete", ![c].todo = todo]
  BY <1>2, Zenon DEF FindOld
<1>4. \E v : /\ calls' = [calls EXCEPT ![c] = v] /\ Overriding(v) /\ v.pc = "delete"
             /\ v.points = calls[c].points /\ v.json = calls[c].json /\ v.todo = todo
  <2>1. PICK at : at = "delete"
    OBVIOUS
  <2>2. WentOn(c, at, todo)
    BY <1>3, <2>1, Zenon DEF WentOn
  <2>3. at \in {"drop", "delete", "create"}
    BY <2>1
  <2>4. at = "create" => todo \subseteq DOMAIN calls[c].points
    BY <2>1
  <2>5. \E v : /\ calls' = [calls EXCEPT ![c] = v] /\ Overriding(v) /\ v.pc = at
               /\ v.points = calls[c].points /\ v.json = calls[c].json /\ v.todo = todo
    BY <1>1, <2>2, <2>3, <2>4, GoesOn
  <2> QED
    BY <2>1, <2>5
<1> QED
  BY <1>1, <1>2, <1>4

LEMMA DeletedMoves ==
    ASSUME TypeInv, NEW c \in Calls, OldDeleted(c)
    PROVE  /\ \E v : /\ calls' = [calls EXCEPT ![c] = v] /\ Overriding(v) /\ v.pc = "create"
                     /\ v.points = calls[c].points
           /\ calls[c].pc = "delete" /\ calls[c].todo = {}
<1>1. Overriding(calls[c]) /\ calls[c].pc = "delete" /\ calls[c].todo = {}
  BY AtIs DEF OldDeleted
<1>2. PICK todo : todo = DOMAIN calls[c].points
  OBVIOUS
<1>3. calls' = [calls EXCEPT ![c].pc = "create", ![c].todo = todo]
  BY <1>2, Zenon DEF OldDeleted
<1>4. \E v : /\ calls' = [calls EXCEPT ![c] = v] /\ Overriding(v) /\ v.pc = "create"
             /\ v.points = calls[c].points /\ v.json = calls[c].json /\ v.todo = todo
  <2>1. PICK at : at = "create"
    OBVIOUS
  <2>2. WentOn(c, at, todo)
    BY <1>3, <2>1, Zenon DEF WentOn
  <2>3. at \in {"drop", "delete", "create"}
    BY <2>1
  <2>4. at = "create" => todo \subseteq DOMAIN calls[c].points
    BY <1>2, <2>1
  <2>5. \E v : /\ calls' = [calls EXCEPT ![c] = v] /\ Overriding(v) /\ v.pc = at
               /\ v.points = calls[c].points /\ v.json = calls[c].json /\ v.todo = todo
    BY <1>1, <2>2, <2>3, <2>4, GoesOn
  <2> QED
    BY <2>1, <2>5
<1> QED
  BY <1>1, <1>4

\* A call that deletes what it has found stays where it is.
LEMMA DeleteMoves ==
    ASSUME TypeInv, NEW c \in Calls, NEW sel, DeleteOld(c, sel)
    PROVE  \E v : /\ calls' = [calls EXCEPT ![c] = v] /\ CallOK(v) /\ v.pc = calls[c].pc
                  /\ v.todo = calls[c].todo \ {sel}
                  /\ v.pc = "delete" => Overriding(v) /\ v.points = calls[c].points
<1>1. PICK call, v, todo : call = calls[c] /\ v = [call EXCEPT !.todo = todo] /\ todo = call.todo \ {sel}
  OBVIOUS
<1>2. calls' = [calls EXCEPT ![c] = v]
  BY <1>1 DEF DeleteOld
<1>3. CASE call.pc = "delete"
  <2>1. Overriding(call) /\ HasCallShape(call)
    BY <1>1, <1>3, AtIs DEF Overriding
  <2>2. v = [pc |-> "delete", points |-> call.points, todo |-> todo, base |-> call.base, json |-> call.json,
             fresh |-> call.fresh]
    BY <1>1, <1>3, <2>1, CallToDo
  <2>3. Overriding(v) /\ v.points = call.points /\ v.pc = "delete"
    BY <2>1, <2>2, CallMoved
  <2>4. v.todo = todo
    BY <2>2
  <2> QED
    BY <1>1, <1>2, <1>3, <2>3, <2>4 DEF CallOK
<1>4. CASE call.pc = "clear"
  <2>1. call = [pc |-> "clear", todo |-> call.todo]
    BY <1>1, <1>4, IdleIs DEF TypeInv, CallsOK, CallOK, Ignoring, Overriding
  <2>2. v = [pc |-> "clear", todo |-> todo]
    BY <1>1, <2>1
  <2> QED
    BY <1>1, <1>2, <1>4, <2>2, IdleIs
<1> QED
  BY <1>1, <1>3, <1>4 DEF DeleteOld

LEMMA CreateMoves ==
    ASSUME TypeInv, NEW c \in Calls, NEW sel, CreateRecord(c, sel)
    PROVE  /\ \E v : /\ calls' = [calls EXCEPT ![c] = v] /\ Overriding(v) /\ v.pc = "create"
                     /\ v.points = calls[c].points
           /\ Overriding(calls[c]) /\ sel \in DOMAIN calls[c].points /\ calls[c].pc = "create"
<1>1. Overriding(calls[c]) /\ calls[c].pc = "create" /\ sel \in DOMAIN calls[c].points
  <2>1. Overriding(calls[c]) /\ calls[c].pc = "create" /\ sel \in calls[c].todo
    BY AtIs DEF CreateRecord
  <2> QED
    BY <2>1 DEF Overriding
<1>2. PICK call, v : call = calls[c] /\ v = [call EXCEPT !.todo = @ \ {sel}]
  OBVIOUS
<1>3. calls' = [calls EXCEPT ![c] = v]
  BY <1>2 DEF CreateRecord
<1>4. Overriding(call) /\ call.pc = "create"
  BY <1>1, <1>2
<1>5. PICK todo : todo = call.todo \ {sel}
  OBVIOUS
<1>6. v = [pc |-> "create", points |-> call.points, todo |-> todo, base |-> call.base, json |-> call.json,
           fresh |-> call.fresh]
  <2>1. v = [call EXCEPT !.todo = todo]
    BY <1>2, <1>5
  <2>2. HasCallShape(call)
    BY <1>4 DEF Overriding
  <2>3. v = [pc |-> call.pc, points |-> call.points, todo |-> todo, base |-> call.base, json |-> call.json,
             fresh |-> call.fresh]
    BY <2>1, <2>2, CallToDo
  <2> QED
    BY <1>4, <2>3
<1>7. todo \subseteq DOMAIN call.points
  BY <1>4, <1>5 DEF Overriding
<1>8. Overriding(v) /\ v.points = call.points /\ v.pc = "create"
  BY <1>4, <1>6, <1>7, CallMoved
<1> QED
  BY <1>1, <1>2, <1>3, <1>8

LEMMA OverrideStarts ==
    ASSUME TypeInv, NEW c \in Calls, NEW points, Override(c, points)
    PROVE  \E v : calls' = [calls EXCEPT ![c] = v] /\ Overriding(v) /\ v.pc = "drop"
<1>1. PICK base, cur, json, fresh :
          base = event.base /\ cur = event.cur /\ json = BothObjects(base, cur) /\ fresh = (base = Served(records, head))
  OBVIOUS
<1>2. IsDoc(base) /\ IsDoc(cur)
  BY <1>1 DEF TypeInv, EventOK, MaybeDoc, Override
<1>3. points \in Selections(base, cur)
  BY <1>1 DEF Override
<1>4. /\ RecordsOK(points) /\ Apart(DOMAIN points)
      /\ DOMAIN points \subseteq IF json THEN Selectors ELSE {Whole}
  BY <1>1, <1>2, <1>3, SelectionsTyped
<1>5. PICK v : v = [pc |-> "drop", points |-> points, todo |-> {}, base |-> base, json |-> json, fresh |-> fresh]
  OBVIOUS
<1>6. calls' = [calls EXCEPT ![c] = v]
  BY <1>1, <1>5 DEF Override
<1>7. json \in BOOLEAN
  BY <1>1 DEF BothObjects
<1>8. /\ v.pc = "drop" /\ v.points = points /\ v.todo = {} /\ v.base = base /\ v.json = json /\ v.fresh = fresh
  BY <1>5
<1>9. Overriding(v)
  BY <1>4, <1>5, <1>7, <1>8 DEF Overriding, HasCallShape
<1> QED
  BY <1>6, <1>8, <1>9

\* KeepOverride takes the flag of one record away.
LEMMA KeepFlags == ASSUME TypeInv, NEW sel, Keep(sel) PROVE Flagged(records, records')
<1>1. Flagged(records, records) /\ RecordOK(sel, records[sel])
  BY DEF TypeInv, Flagged, SamePoints, RecordsOK, Keep
<1>2. records' = [records EXCEPT ![sel] = Flag(records[sel], "none", None)]
  BY DEF Keep
<1>3. sel \in DOMAIN records /\ None \in Values
  BY ScalarsAre DEF Keep
<1>4. CASE sel = Whole
  BY <1>1, <1>2, <1>3, <1>4, FlagOne
<1>5. CASE sel # Whole
  BY <1>1, <1>2, <1>3, <1>5, FlagOne
<1> QED
  BY <1>4, <1>5

LEMMA NextTyped == TypeInv /\ [Next]_vars => TypeInv'
<1> SUFFICES ASSUME TypeInv, [Next]_vars PROVE TypeInv'
  OBVIOUS
<1> USE DEF TypeInv
<1>1. ASSUME NEW doc \in Docs \cup {None}, Publish(doc) \/ Edit(doc)
      PROVE  TypeInv'
  <2>1. MaybeDoc(doc)
    BY DocsAre DEF MaybeDoc
  <2>2. RecordsOK(records)' /\ CallsOK' /\ EventOK'
    BY <1>1 DEF Publish, Edit, RecordsOK, CallsOK, EventOK
  <2>3. head' \in Docs \cup {None} /\ MaybeDoc(based') /\ MaybeDoc(disk')
    BY <1>1, <2>1 DEF Publish, Edit
  <2> QED
    BY <1>1, <2>2, <2>3 DEF Publish, Edit
<1>2. ASSUME NEW c \in Calls, NEW points, Override(c, points)
      PROVE  TypeInv'
  <2>1. CallsOK'
    BY <1>2, OverrideStarts, CallsSet DEF CallOK
  <2>2. EventOK'
    BY <1>2, EventPlanned DEF Override
  <2> QED
    BY <1>2, <2>1, <2>2 DEF Override
<1>3. ASSUME NEW c \in Calls, FindOld(c) \/ OldDeleted(c)
      PROVE  TypeInv'
  <2>1. CallsOK'
    BY <1>3, FindMoves, DeletedMoves, CallsSet DEF CallOK
  <2>2. RecordsOK(records') /\ EventOK'
    BY <1>3, EventStays DEF FindOld, OldDeleted
  <2> QED
    BY <1>3, <2>1, <2>2 DEF FindOld, OldDeleted
<1>14. ASSUME NEW c \in Calls, NEW sel, DeleteOld(c, sel)
       PROVE  TypeInv'
  <2>1. CallsOK'
    BY <1>14, DeleteMoves, CallsSet
  <2>2. RecordsOK(records')
    BY <1>14, DropTyped DEF DeleteOld
  <2>3. EventOK'
    BY <1>14, EventStays DEF DeleteOld
  <2> QED
    BY <1>14, <2>1, <2>2, <2>3 DEF DeleteOld
<1>4. ASSUME NEW c \in Calls, NEW sel, CreateRecord(c, sel)
      PROVE  TypeInv'
  <2>1. CallsOK'
    BY <1>4, CreateMoves, CallsSet DEF CallOK
  <2>2. RecordsOK(records')
    <3>1. RecordsOK(calls[c].points) /\ sel \in DOMAIN calls[c].points
      BY <1>4, CreateMoves DEF Overriding
    <3>2. RecordOK(sel, calls[c].points[sel]) /\ sel \in Selectors \cup {Whole}
      BY <3>1 DEF RecordsOK
    <3> QED
      BY <1>4, <3>2, AddTyped DEF CreateRecord
  <2>3. EventOK'
    BY <1>4, EventStays DEF CreateRecord
  <2> QED
    BY <1>4, <2>1, <2>2, <2>3 DEF CreateRecord
<1>5. ASSUME NEW c \in Calls, Finish(c) \/ MakeRule(c)
      PROVE  TypeInv'
  <2>1. CallsOK'
    BY <1>5, IdleIs, CallsSet DEF Finish, MakeRule
  <2>2. EventOK'
    BY <1>5, EventClosed DEF Finish, MakeRule
  <2> QED
    BY <1>5, <2>1, <2>2 DEF Finish, MakeRule
<1>6. ASSUME NEW c \in Calls, Fail(c) \/ Refused(c) \/ Tell(c)
      PROVE  TypeInv'
  <2>1. CallsOK'
    BY <1>6, IdleIs, CallsSet DEF Fail, Refused, Tell
  <2>2. EventOK'
    BY <1>6, EventStays DEF Fail, Refused, Tell
  <2> QED
    BY <1>6, <2>1, <2>2 DEF Fail, Refused, Tell
<1>7. ASSUME NEW c \in Calls, NEW sel, DropOverride(c, sel)
      PROVE  TypeInv'
  <2>1. CallsOK'
    BY <1>7, IdleIs, CallsSet DEF DropOverride
  <2>2. RecordsOK(records') /\ EventOK'
    BY <1>7, DropTyped, EventStays DEF DropOverride
  <2> QED
    BY <1>7, <2>1, <2>2 DEF DropOverride
<1>8. ASSUME NEW c \in Calls, Ignore(c)
      PROVE  TypeInv'
  <2>1. CallsOK'
    BY <1>8, IdleIs, CallsSet DEF Ignore
  <2>2. RecordsOK(records')
    BY <1>8 DEF Ignore
  <2>3. EventOK'
    BY <1>8, EventPlanned DEF Ignore
  <2> QED
    BY <1>8, <2>1, <2>2, <2>3 DEF Ignore
<1>9. ASSUME NEW sel, Keep(sel)
      PROVE  TypeInv'
  <2>1. Flagged(records, records')
    BY <1>9, KeepFlags
  <2>2. EventOK' /\ CallsOK'
    BY <1>9, EventStays DEF Keep, CallsOK
  <2> QED
    BY <1>9, <2>1, <2>2 DEF Keep, Flagged
<1>10. CASE Pull
  <2>1. RecordsOK(records') /\ MaybeDoc(Served(records, head))
    BY <1>10, ApplyTyped, HeadIs DEF Pull, Flagged, Served
  <2>2. EventOK'
    BY <1>10, EventStays, Cleared DEF Pull
  <2>3. CallsOK'
    BY <1>10 DEF Pull, CallsOK
  <2> QED
    BY <1>10, <2>1, <2>2, <2>3 DEF Pull
<1>11. CASE PullFails
  <2>1. RecordsOK(records')
    BY <1>11, ApplyTyped, HeadIs DEF PullFails, Flagged
  <2>2. EventOK' /\ CallsOK'
    BY <1>11, EventStays DEF PullFails, CallsOK
  <2> QED
    BY <1>11, <2>1, <2>2 DEF PullFails
<1>12. ASSUME NEW base \in Bases, Report(base)
       PROVE  TypeInv'
  <2>1. IsDoc(base)
    BY HeadIs DEF Bases, MaybeDoc, IsDoc, Text
  <2>2. EventOK'
    <3>1. CASE event' = None
      BY <3>1 DEF EventOK
    <3>2. CASE event' # None
      <4>1. PICK open : event' = [base |-> base, cur |-> disk, calls |-> open]
        BY <1>12, <3>2 DEF Report
      <4>2. event'.base = base /\ event'.cur = disk /\ event'.calls = open
        BY <4>1
      <4> QED
        BY <2>1, <4>1, <4>2 DEF EventOK
    <3> QED
      BY <3>1, <3>2
  <2>3. CallsOK'
    BY <1>12 DEF Report, CallsOK
  <2> QED
    BY <1>12, <2>2, <2>3 DEF Report
<1>13. CASE UNCHANGED vars
  BY <1>13 DEF vars, EventOK, CallsOK
<1> QED
  BY <1>1, <1>2, <1>3, <1>4, <1>5, <1>6, <1>7, <1>8, <1>9, <1>10, <1>11, <1>12, <1>13, <1>14 DEF Next

\* The state keeps its shape in every instance, whatever the merge makes of the lines of a text.
THEOREM TypeCorrect == Spec => []TypeOK
<1>1. Spec => []TypeInv
  BY InitTyped, NextTyped, PTL DEF Spec
<1> QED
  BY <1>1, TypesAll, PTL

-----------------------------------------------------------------------------
(* The records of a path do not contradict each other.                     *)

\* What a call has still to make fits with what is there, or will be once it has deleted what it
\* has found, unless another request has come between.
Stays(call) == IF call.pc = "delete" THEN DOMAIN records \ call.todo ELSE DOMAIN records
ApartInv ==
    ~raced => /\ Apart(DOMAIN records)
              /\ \A c \in Calls :
                    calls[c].pc \in {"delete", "create"} => Apart(Stays(calls[c]) \cup DOMAIN calls[c].points)

LEMMA ApartWithin == ASSUME NEW sels, Apart(sels), NEW less \in SUBSET sels PROVE Apart(less)
BY DEF Apart

LEMMA OverlapTurned == ASSUME NEW a, NEW b, ~selectorsOverlap(a, b) PROVE ~selectorsOverlap(b, a)
BY DEF selectorsOverlap

\* What is left when a call has dropped what it replaces does not contradict what it is to make.
LEMMA ReplacedApart ==
    ASSUME Apart(DOMAIN records), NEW call, Overriding(call)
    PROVE  Apart((DOMAIN records \ Replaced(call)) \cup DOMAIN call.points)
<1>1. Apart(DOMAIN call.points) /\ DOMAIN call.points \subseteq IF call.json THEN Selectors ELSE {Whole}
  BY DEF Overriding
<1>2. CASE ~call.json \/ Whole \in DOMAIN records
  <2>1. (DOMAIN records \ Replaced(call)) \cup DOMAIN call.points = DOMAIN call.points
    BY <1>2 DEF Replaced
  <2> QED
    BY <1>1, <2>1
<1>3. CASE call.json /\ Whole \notin DOMAIN records
  <2>1. PICK old, new : old = DOMAIN records \ Replaced(call) /\ new = DOMAIN call.points
    OBVIOUS
  <2>2. \A a \in old, b \in new : ~selectorsOverlap(a, b)
    BY <1>3, <2>1 DEF Replaced
  <2>3. Apart(old) /\ Apart(new) /\ Whole \notin old
    BY <1>1, <1>3, <2>1, ApartWithin
  <2>4. new \subseteq Selectors
    BY <1>1, <1>3, <2>1
  <2>5. Whole \notin new
    BY <2>4, SelectorNotWhole
  <2>6. ASSUME NEW a \in old \cup new, NEW b \in old \cup new, a # b
        PROVE  ~selectorsOverlap(a, b)
    <3>1. CASE a \in old /\ b \in old
      BY <2>3, <2>6, <3>1 DEF Apart
    <3>2. CASE a \in new /\ b \in new
      BY <2>3, <2>6, <3>2 DEF Apart
    <3>3. CASE a \in old /\ b \in new
      BY <2>2, <3>3
    <3>4. CASE a \in new /\ b \in old
      BY <2>2, <3>4, OverlapTurned
    <3> QED
      BY <3>1, <3>2, <3>3, <3>4
  <2>7. Apart(old \cup new)
    BY <2>3, <2>5, <2>6 DEF Apart
  <2> QED
    BY <2>1, <2>7
<1> QED
  BY <1>2, <1>3

\* A step that adds no record, and after which no call is newly to make its own.
LEMMA NothingAdded ==
    ASSUME ApartInv, raced => raced', DOMAIN records' \subseteq DOMAIN records,
           \A c \in Calls : calls'[c].pc \in {"delete", "create"} => calls'[c] = calls[c]
    PROVE  ApartInv'
<1> SUFFICES ASSUME ~raced' PROVE ApartInv'
  BY DEF ApartInv
<1>1. Apart(DOMAIN records)
  BY DEF ApartInv
<1>2. Apart(DOMAIN records')
  BY <1>1, ApartWithin
<1>3. ASSUME NEW c \in Calls, calls'[c].pc \in {"delete", "create"}
      PROVE  Apart(Stays(calls[c])' \cup DOMAIN calls'[c].points)
  <2>1. Apart(Stays(calls[c]) \cup DOMAIN calls[c].points) /\ calls'[c] = calls[c]
    BY <1>3 DEF ApartInv
  <2>2. Stays(calls[c])' \subseteq Stays(calls[c])
    BY <2>1 DEF Stays
  <2> QED
    BY <2>1, <2>2, ApartWithin
<1> QED
  BY <1>2, <1>3 DEF ApartInv, Apart

\* A step of a request to where it makes no record.
LEMMA Elsewhere ==
    ASSUME TypeInv, ApartInv, raced => raced', DOMAIN records' \subseteq DOMAIN records,
           NEW c \in Calls, NEW v, calls' = [calls EXCEPT ![c] = v], v.pc \notin {"delete", "create"}
    PROVE  ApartInv'
<1>1. \A d \in Calls : calls'[d] = IF d = c THEN v ELSE calls[d]
  BY CallSet DEF TypeInv
<1>2. \A d \in Calls : calls'[d].pc \in {"delete", "create"} => calls'[d] = calls[d]
  BY <1>1
<1> QED
  BY <1>2, NothingAdded

\* A step of the only request there is.
LEMMA OfItself ==
    ASSUME TypeInv, NEW c \in Calls, Alone(c), NEW v, calls' = [calls EXCEPT ![c] = v],
           Apart(DOMAIN records'), Apart(Stays(v)' \cup DOMAIN v.points)
    PROVE  ApartInv'
<1>1. \A d \in Calls : calls'[d] = IF d = c THEN v ELSE calls[d]
  BY CallSet DEF TypeInv
<1>2. \A d \in Calls \ {c} : calls'[d].pc = "idle"
  BY <1>1, IdleIs DEF Alone, Working
<1>3. \A d \in Calls : calls'[d].pc \in {"delete", "create"} => calls'[d] = v
  BY <1>1, <1>2
<1>4. ASSUME NEW d \in Calls, calls'[d].pc \in {"delete", "create"}
      PROVE  Apart(Stays(calls[d])' \cup DOMAIN calls'[d].points)
  <2>1. calls'[d] = v
    BY <1>3, <1>4
  <2>2. Stays(calls[d])' = Stays(v)'
    BY <2>1 DEF Stays
  <2> QED
    BY <2>1, <2>2
<1> QED
  BY <1>4 DEF ApartInv, Apart

\* A step of a request that changes no record.
LEMMA OfOne ==
    ASSUME TypeInv, ApartInv, ~raced, records' = records, NEW c \in Calls, NEW v,
           calls' = [calls EXCEPT ![c] = v], Apart(Stays(v) \cup DOMAIN v.points)
    PROVE  ApartInv'
<1>1. \A d \in Calls : calls'[d] = IF d = c THEN v ELSE calls[d]
  BY CallSet DEF TypeInv
<1>2. ASSUME NEW d \in Calls, calls'[d].pc \in {"delete", "create"}
      PROVE  Apart(Stays(calls[d])' \cup DOMAIN calls'[d].points)
  <2>1. CASE d = c
    <3>1. calls'[d] = v
      BY <1>1, <2>1
    <3>2. Stays(calls[d])' = Stays(v)
      BY <3>1 DEF Stays
    <3> QED
      BY <3>1, <3>2
  <2>2. CASE d # c
    <3>1. calls'[d] = calls[d]
      BY <1>1, <2>2
    <3>2. Stays(calls[d])' = Stays(calls[d])
      BY <3>1 DEF Stays
    <3> QED
      BY <1>2, <3>1, <3>2 DEF ApartInv
  <2> QED
    BY <2>1, <2>2
<1>3. Apart(DOMAIN records')
  BY DEF ApartInv
<1> QED
  BY <1>2, <1>3 DEF ApartInv, Apart

LEMMA DropLess == ASSUME NEW recs, NEW sels PROVE DOMAIN Drop(recs, sels) = DOMAIN recs \ sels
BY DEF Drop

LEMMA NextApart == TypeInv /\ ApartInv /\ [Next]_vars => ApartInv'
<1> SUFFICES ASSUME TypeInv, ApartInv, [Next]_vars PROVE ApartInv'
  OBVIOUS
<1>1. ASSUME NEW doc \in Docs \cup {None}, Publish(doc) \/ Edit(doc)
      PROVE  ApartInv'
  BY <1>1, NothingAdded DEF Publish, Edit
<1>2. ASSUME NEW c \in Calls, NEW points, Override(c, points)
      PROVE  ApartInv'
  <2>1. PICK v : calls' = [calls EXCEPT ![c] = v] /\ v.pc = "drop"
    BY <1>2, OverrideStarts
  <2> QED
    BY <1>2, <2>1, Elsewhere DEF Override
<1>3. ASSUME NEW c \in Calls, FindOld(c)
      PROVE  ApartInv'
  <2>1. CASE raced
    BY <1>3, <2>1 DEF FindOld, ApartInv
  <2>2. CASE ~raced
    <3>1. Apart(DOMAIN records) /\ records' = records
      BY <1>3, <2>2 DEF FindOld, ApartInv
    <3>2. PICK v : /\ calls' = [calls EXCEPT ![c] = v] /\ v.pc = "delete"
                   /\ v.points = calls[c].points /\ v.todo = Replaced(calls[c])
      BY <1>3, FindMoves
    <3>3. Overriding(calls[c])
      BY <1>3, FindMoves
    <3>4. Apart(Stays(v) \cup DOMAIN v.points)
      BY <3>1, <3>2, <3>3, ReplacedApart DEF Stays
    <3> QED
      BY <2>2, <3>1, <3>2, <3>4, OfOne
  <2> QED
    BY <2>1, <2>2
<1>12. ASSUME NEW c \in Calls, OldDeleted(c)
       PROVE  ApartInv'
  <2>1. CASE raced
    BY <1>12, <2>1 DEF OldDeleted, ApartInv
  <2>2. CASE ~raced
    <3>1. PICK v : calls' = [calls EXCEPT ![c] = v] /\ v.pc = "create" /\ v.points = calls[c].points
      BY <1>12, DeletedMoves
    <3>2. calls[c].pc = "delete" /\ calls[c].todo = {}
      BY <1>12, DeletedMoves
    <3>3. Apart(Stays(calls[c]) \cup DOMAIN calls[c].points) /\ Stays(calls[c]) = DOMAIN records
      BY <2>2, <3>2 DEF ApartInv, Stays
    <3>4. Apart(Stays(v) \cup DOMAIN v.points) /\ records' = records
      BY <1>12, <3>1, <3>3 DEF Stays, OldDeleted
    <3> QED
      BY <2>2, <3>1, <3>4, OfOne
  <2> QED
    BY <2>1, <2>2
<1>13. ASSUME NEW c \in Calls, NEW sel, DeleteOld(c, sel)
       PROVE  ApartInv'
  <2>1. CASE raced'
    BY <2>1 DEF ApartInv
  <2>2. CASE ~raced'
    <3>1. Alone(c) /\ ~raced /\ Apart(DOMAIN records)
      BY <1>13, <2>2 DEF DeleteOld, ApartInv
    <3>2. PICK v : /\ calls' = [calls EXCEPT ![c] = v] /\ v.pc = calls[c].pc
                   /\ v.todo = calls[c].todo \ {sel} /\ (v.pc = "delete" => v.points = calls[c].points)
      BY <1>13, DeleteMoves
    <3>3. DOMAIN records' = DOMAIN records \ {sel} /\ calls[c].pc \in {"delete", "clear"}
      BY <1>13, DropLess DEF DeleteOld
    <3>4. Apart(DOMAIN records')
      BY <3>1, <3>3, ApartWithin
    <3>5. CASE calls[c].pc = "clear"
      <4>1. DOMAIN records' \subseteq DOMAIN records /\ v.pc \notin {"delete", "create"}
        BY <3>2, <3>3, <3>5
      <4> QED
        BY <3>1, <3>2, <4>1, Elsewhere
    <3>6. CASE calls[c].pc = "delete"
      <4>1. Apart((DOMAIN records \ calls[c].todo) \cup DOMAIN calls[c].points)
        BY <3>1, <3>6 DEF ApartInv, Stays
      <4>2. Stays(v)' \subseteq DOMAIN records \ calls[c].todo
        BY <3>2, <3>3, <3>6 DEF Stays
      <4>3. Apart(Stays(v)' \cup DOMAIN v.points)
        BY <3>2, <3>6, <4>1, <4>2, ApartWithin
      <4> QED
        BY <3>1, <3>2, <3>4, <4>3, OfItself
    <3> QED
      BY <3>3, <3>5, <3>6
  <2> QED
    BY <2>1, <2>2
<1>4. ASSUME NEW c \in Calls, NEW sel, CreateRecord(c, sel)
      PROVE  ApartInv'
  <2>1. CASE raced'
    BY <2>1 DEF ApartInv
  <2>2. CASE ~raced'
    <3>1. Alone(c) /\ ~raced
      BY <1>4, <2>2 DEF CreateRecord
    <3>2. PICK v : calls' = [calls EXCEPT ![c] = v] /\ v.points = calls[c].points /\ v.pc = "create"
      BY <1>4, CreateMoves
    <3>3. sel \in DOMAIN calls[c].points /\ calls[c].pc = "create"
      BY <1>4, CreateMoves
    <3>4. DOMAIN records' = DOMAIN records \cup {sel}
      BY <1>4 DEF CreateRecord, Add
    <3>5. Apart(DOMAIN records \cup DOMAIN calls[c].points)
      BY <3>1, <3>3 DEF ApartInv, Stays
    <3>6. DOMAIN records' \cup DOMAIN calls[c].points = DOMAIN records \cup DOMAIN calls[c].points
      BY <3>3, <3>4
    <3>7. Apart(DOMAIN records') /\ Apart(Stays(v)' \cup DOMAIN v.points)
      BY <3>2, <3>5, <3>6, ApartWithin DEF Stays
    <3> QED
      BY <3>1, <3>2, <3>7, OfItself
  <2> QED
    BY <2>1, <2>2
<1>5. ASSUME NEW c \in Calls, Finish(c) \/ MakeRule(c) \/ Fail(c) \/ Refused(c) \/ Tell(c)
      PROVE  ApartInv'
  <2>1. calls' = [calls EXCEPT ![c] = Idle] /\ records' = records
    BY <1>5 DEF Finish, MakeRule, Fail, Refused, Tell
  <2>2. raced => raced'
    BY <1>5, Zenon DEF Finish, MakeRule, Fail, Refused, Tell
  <2> QED
    BY <2>1, <2>2, IdleIs, Elsewhere
<1>6. ASSUME NEW c \in Calls, NEW sel, DropOverride(c, sel)
      PROVE  ApartInv'
  <2>1. calls' = [calls EXCEPT ![c] = [pc |-> "tell"]] /\ (raced => raced')
    BY <1>6 DEF DropOverride
  <2>2. DOMAIN records' \subseteq DOMAIN records
    BY <1>6 DEF DropOverride, Drop
  <2> QED
    BY <2>1, <2>2, IdleIs, Elsewhere
<1>7. ASSUME NEW c \in Calls, Ignore(c)
      PROVE  ApartInv'
  <2>1. PICK todo : calls' = [calls EXCEPT ![c] = [pc |-> "clear", todo |-> todo]] /\ (raced => raced')
    BY <1>7 DEF Ignore
  <2>2. DOMAIN records' \subseteq DOMAIN records
    BY <1>7 DEF Ignore
  <2> QED
    BY <2>1, <2>2, IdleIs, Elsewhere
<1>8. ASSUME NEW sel, Keep(sel)
      PROVE  ApartInv'
  <2>1. DOMAIN records' = DOMAIN records /\ UNCHANGED <<calls, raced>>
    BY <1>8 DEF Keep
  <2> QED
    BY <2>1, NothingAdded
<1>9. CASE Pull \/ PullFails
  <2>1. DOMAIN records' = DOMAIN records
    <3>1. RecordsOK(records) /\ MaybeDoc(head) /\ records' = Apply(records, head).recs
      BY <1>9, HeadIs DEF TypeInv, Pull, PullFails
    <3>2. SamePoints(records, records')
      BY <3>1, ApplyTyped DEF Flagged
    <3> QED
      BY <3>2 DEF SamePoints
  <2> QED
    BY <1>9, <2>1, NothingAdded DEF Pull, PullFails
<1>10. ASSUME NEW base, Report(base)
       PROVE  ApartInv'
  BY <1>10, NothingAdded DEF Report
<1>11. CASE UNCHANGED vars
  BY <1>11, NothingAdded DEF vars
<1> QED
  BY <1>1, <1>2, <1>3, <1>4, <1>5, <1>6, <1>7, <1>8, <1>9, <1>10, <1>11, <1>12, <1>13 DEF Next

\* Unless two requests have changed the records of a path at the same time, they are of one kind and
\* no selector lies below another, so that the order of the merge does not matter: after every step
\* of every call, and also when a call has failed half-way (DropOverlapping in overrides/service.go).
THEOREM RecordsApart == Spec => []NoneOverlap
<1>1. Init => ApartInv
  <2> SUFFICES ASSUME Init PROVE ApartInv
    OBVIOUS
  <2>1. DOMAIN records = {} /\ \A c \in Calls : calls[c].pc = "idle"
    BY IdleIs DEF Init, NoRecords
  <2> QED
    BY <2>1 DEF ApartInv, Apart
<1>2. TypeInv /\ ApartInv => NoneOverlap
  BY DEF ApartInv, Apart, NoneOverlap
<1>3. TypeInv /\ ApartInv /\ [Next]_vars => TypeInv' /\ ApartInv'
  BY NextTyped, NextApart
<1> QED
  BY <1>1, <1>2, <1>3, InitTyped, PTL DEF Spec

-----------------------------------------------------------------------------
(* A machine hears of what it is served.                                   *)

\* A request that goes on is at work.
LEMMA StillWorking ==
    ASSUME TypeInv, NEW c \in Calls, NEW v, calls' = [calls EXCEPT ![c] = v], v.pc # "idle"
    PROVE  \E d \in Calls : Working(d)'
<1>1. calls'[c] = v
  <2>1. \A d \in Calls : calls'[d] = IF d = c THEN v ELSE calls[d]
    BY CallSet DEF TypeInv
  <2> QED
    BY <2>1
<1>2. v # Idle
  BY IdleIs
<1> QED
  BY <1>1, <1>2 DEF Working

\* A step that only touches the flags of the records, if them.
LEMMA SameServed ==
    ASSUME TypeInv, MachineIsTold, UNCHANGED <<head, unmanaged, notice, failed, calls, based>>,
           Flagged(records, records') \/ records' = records
    PROVE  MachineIsTold'
<1>1. Served(records, head) = Served(records', head')
  BY ServedSame, HeadIs DEF TypeInv
<1> QED
  BY <1>1 DEF MachineIsTold, Working

LEMMA NextTold == TypeInv /\ MachineIsTold /\ [Next]_vars => MachineIsTold'
<1> SUFFICES ASSUME TypeInv, MachineIsTold, [Next]_vars PROVE MachineIsTold'
  OBVIOUS
<1>1. ASSUME NEW doc \in Docs \cup {None}, Publish(doc)
      PROVE  MachineIsTold'
  BY <1>1 DEF Publish, MachineIsTold
<1>2. ASSUME NEW doc \in Docs \cup {None}, Edit(doc)
      PROVE  MachineIsTold'
  BY <1>2, SameServed DEF Edit
<1>3. ASSUME NEW c \in Calls, NEW points, Override(c, points)
      PROVE  MachineIsTold'
  <2>1. PICK v : calls' = [calls EXCEPT ![c] = v] /\ v.pc = "drop"
    BY <1>3, OverrideStarts
  <2> QED
    BY <2>1, StillWorking DEF MachineIsTold
<1>4. ASSUME NEW c \in Calls, FindOld(c) \/ OldDeleted(c)
      PROVE  MachineIsTold'
  <2>1. PICK v : calls' = [calls EXCEPT ![c] = v] /\ v.pc \in {"delete", "create"}
    BY <1>4, FindMoves, DeletedMoves
  <2> QED
    BY <2>1, StillWorking DEF MachineIsTold
<1>16. ASSUME NEW c \in Calls, NEW sel, DeleteOld(c, sel)
       PROVE  MachineIsTold'
  <2>1. PICK v : calls' = [calls EXCEPT ![c] = v] /\ v.pc = calls[c].pc
    BY <1>16, DeleteMoves
  <2>2. v.pc # "idle"
    BY <1>16, <2>1 DEF DeleteOld
  <2> QED
    BY <2>1, <2>2, StillWorking DEF MachineIsTold
<1>5. ASSUME NEW c \in Calls, NEW sel, CreateRecord(c, sel)
      PROVE  MachineIsTold'
  <2>1. PICK v : calls' = [calls EXCEPT ![c] = v] /\ v.pc = "create"
    BY <1>5, CreateMoves
  <2> QED
    BY <2>1, StillWorking DEF MachineIsTold
<1>6. ASSUME NEW c \in Calls, Finish(c) \/ Tell(c)
      PROVE  MachineIsTold'
  <2>1. notice'
    BY <1>6 DEF Finish, Tell
  <2> QED
    BY <2>1 DEF MachineIsTold
<1>7. ASSUME NEW c \in Calls, MakeRule(c)
      PROVE  MachineIsTold'
  BY <1>7 DEF MakeRule, MachineIsTold
<1>8. ASSUME NEW c \in Calls, Fail(c) \/ Refused(c)
      PROVE  MachineIsTold'
  <2>1. failed'
    BY <1>8 DEF Fail, Refused
  <2> QED
    BY <2>1 DEF MachineIsTold
<1>9. ASSUME NEW c \in Calls, NEW sel, DropOverride(c, sel)
      PROVE  MachineIsTold'
  <2>1. calls' = [calls EXCEPT ![c] = [pc |-> "tell"]]
    BY <1>9 DEF DropOverride
  <2> QED
    BY <2>1, IdleIs, StillWorking DEF MachineIsTold
<1>10. ASSUME NEW c \in Calls, Ignore(c)
       PROVE  MachineIsTold'
  <2>1. PICK todo : calls' = [calls EXCEPT ![c] = [pc |-> "clear", todo |-> todo]]
    BY <1>10 DEF Ignore
  <2> QED
    BY <2>1, IdleIs, StillWorking DEF MachineIsTold
<1>11. ASSUME NEW sel, Keep(sel)
       PROVE  MachineIsTold'
  <2>1. Flagged(records, records')
    BY <1>11, KeepFlags
  <2> QED
    BY <1>11, <2>1, SameServed DEF Keep
<1>12. CASE Pull
  <2>1. RecordsOK(records) /\ MaybeDoc(head) /\ records' = Apply(records, head).recs /\ head' = head
    BY <1>12, HeadIs DEF TypeInv, Pull
  <2>2. Flagged(records, records')
    BY <2>1, ApplyTyped
  <2>3. Served(records', head') = Served(records, head)
    BY <2>1, <2>2, ServedSame
  <2>4. unmanaged' = unmanaged /\ (unmanaged \/ based' = Served(records, head))
    BY <1>12 DEF Pull
  <2> QED
    BY <2>3, <2>4 DEF MachineIsTold
<1>13. CASE PullFails
  BY <1>13 DEF PullFails, MachineIsTold
<1>14. ASSUME NEW base, Report(base)
       PROVE  MachineIsTold'
  BY <1>14, SameServed DEF Report
<1>15. CASE UNCHANGED vars
  BY <1>15, SameServed DEF vars
<1> QED
  BY <1>1, <1>2, <1>3, <1>4, <1>5, <1>6, <1>7, <1>8, <1>9, <1>10, <1>11, <1>12, <1>13, <1>14, <1>15, <1>16 DEF Next

\* Whatever requests come between one another, a machine that would be served something else than
\* what it has applied has been, or is to be, told: every call that changes what is served ends with
\* a notice or an error (overrides, DropOverride in hub/api.go, drift/override.go), and what a
\* snapshot makes of the records, or KeepOverride of a reminder, changes nothing in what is served.
THEOREM NobodyForgotten == Spec => []MachineIsTold
<1>1. Init => MachineIsTold
  <2> SUFFICES ASSUME Init PROVE MachineIsTold
    OBVIOUS
  <2>1. DOMAIN records = {} /\ based = head
    BY DEF Init, NoRecords
  <2>2. Served(records, head) = head
    BY <2>1 DEF Served, Apply
  <2> QED
    BY <2>1, <2>2 DEF MachineIsTold
<1>2. TypeInv /\ MachineIsTold /\ [Next]_vars => TypeInv' /\ MachineIsTold'
  BY NextTyped, NextTold
<1> QED
  BY <1>1, <1>2, InitTyped, PTL DEF Spec

=============================================================================
