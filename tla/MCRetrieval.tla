---------------------------- MODULE MCRetrieval ----------------------------
EXTENDS Retrieval, TLC
CONSTANTS m1, m2, a, b, s, c
MCHome == a :> m1 @@ b :> m1 @@ s :> m2 @@ c :> m2
MCStarts == {{a, s}}
MCForeign == {{a, c}, {b, c}}
MCOrder == <<m1, m2>>
MCDeclared == [hash_map |-> {m1}, inverted |-> {m1, m2}, graph |-> {m1, m2},
               bitmap |-> {m1}]
MCEdges == {<<a, b>>, <<a, s>>, <<c, a>>}
MCRankings == {a :> 1 @@ b :> 2 @@ s :> 3 @@ c :> 4,
               a :> 4 @@ b :> 2 @@ s :> 1 @@ c :> 3}
Ask == [text |-> TRUE, subject |-> FALSE, scopes |-> {}, mode |-> "auto",
        depth |-> 0, limit |-> 1, superseded |-> FALSE]
MCQueries ==
    {Ask, [Ask EXCEPT !.depth = 1],
     [Ask EXCEPT !.subject = TRUE, !.depth = 2, !.mode = "associative"],
     [Ask EXCEPT !.text = FALSE, !.subject = TRUE, !.limit = 2],
     [Ask EXCEPT !.text = FALSE, !.superseded = TRUE],
     [Ask EXCEPT !.mode = "semantic", !.limit = 2, !.superseded = TRUE],
     [Ask EXCEPT !.mode = "lexical", !.scopes = {m2}],
     [Ask EXCEPT !.mode = "exact"]}
=============================================================================
