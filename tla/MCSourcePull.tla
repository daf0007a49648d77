---------------------------- MODULE MCSourcePull ----------------------------
(* Instances of SourcePull for TLC. *)
EXTENDS SourcePull, TLC

CONSTANTS s1, s2, i1, i2, i3, o1, o2, o3, d1, d2, pdf, pipe

Deal(d, l, f, over, fetch) ==
    [data |-> d, listed |-> l, found |-> f, over |-> over, fetch |-> fetch]
Table(t, v, capped) == [type |-> t, view |-> v, capped |-> capped]
Mode(dry, limit, refetch) == [dry |-> dry, limit |-> limit, refetch |-> refetch]
Canonical(d, t, v) == [data |-> d, type |-> t, view |-> v]

\* A source of two items, the first of which may fail, leave its source or end
\* the pull before the other, whose type nobody knows, and a source of one item
\* that a table may refuse; tables that are corrected; pulls of one
\* registration, pulls that fetch again, dry runs.
TwoSources == <<s1, s2>>
TwoAndOne == s1 :> <<i1, i2>> @@ s2 :> <<i3>>
Distinct == i1 :> o1 @@ i2 :> o2 @@ i3 :> o3
PullOffers ==
    i1 :> {Deal(d1, pdf, Unknown, FALSE, "ok"), Deal(d2, Unknown, pdf, TRUE, "fails"),
           Deal(d1, pdf, Unknown, FALSE, "unavailable"),
           Deal(d1, pdf, Unknown, FALSE, "raises")} @@
    i2 :> {Deal(d1, Unknown, Unknown, FALSE, "ok")} @@
    i3 :> {Deal(d2, pdf, Unknown, FALSE, "ok")}
PullTables == {Table(Unknown, Unknown, TRUE), Table(pdf, pipe, FALSE)}
PullModes == {Mode(FALSE, 1, FALSE), Mode(FALSE, NoLimit, TRUE), Mode(TRUE, NoLimit, FALSE)}
PullByHand == {<<Canonical(d1, pdf, Unknown), o1>>}
=============================================================================
