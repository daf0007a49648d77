----------------------------- MODULE MCMigration -----------------------------
EXTENDS Migration, TLC
CONSTANTS c, d, e, s, l, m, h, p
MCNeeds ==
    c :> {} @@ d :> {c} @@ e :> {c, d}
    @@ s :> {} @@ l :> {s} @@ m :> {s} @@ h :> {l, m} @@ p :> {c, l}
All == {c, d, e, s, l, m, h, p}
Start(blocks, superseded, missing) ==
    [held |-> blocks, withdrawn |-> superseded, gone |-> missing]
MCStarts ==
    {Start(All, {}, {}), Start(All \ {e}, {s}, {}), Start(All, {}, {d})}
=============================================================================
