----------------------------- MODULE MCOverrides -----------------------------
(***************************************************************************)
(* A settings file with one object below its top, and the same file as a   *)
(* text of three lines.                                                    *)
(***************************************************************************)
EXTENDS Overrides

CONSTANTS u, v, arr, t, x, y, l1, l2, l3, m1, m3

Obj(a, b) == [s \in Subs |-> IF s = x THEN a ELSE b]
Top(val) == [k \in Tops |-> val]

MCSelOrder == <<<<t>>, <<t, x>>, <<t, y>>>>
MCObjects == {Top(Obj(u, u)), Top(Obj(v, u)), Top(Obj(v, v)), Top(Obj(u, None)), Top(arr)}
MCTexts == {<<l1, l2, l3>>, <<m1, l2, l3>>, <<m1, l2, m3>>}
TextFirst == {Text(<<l1, l2, l3>>)}
MCFirsts == {Json(Top(Obj(u, u)))} \cup TextFirst

Budget(p, e, o, d, f) ==
    [publishes |-> p, edits |-> e, overrides |-> o, drops |-> d, faults |-> f]
\* An override beside publishes and drops; two of them, of two edits or of one
\* that was interrupted.
MCBudgets == {Budget(1, 1, 1, 1, 0), Budget(0, 2, 2, 0, 0), Budget(0, 1, 2, 0, 1)}

\* Two overrides and nothing published; an override and a publish.
TwoOverrides == {Budget(0, 2, 2, 0, 0)}
OneOfEach == {Budget(1, 1, 1, 0, 0)}

=============================================================================
