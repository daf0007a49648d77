----------------------------- MODULE Retrieval -----------------------------
(***************************************************************************)
(* What a query over the brain of VectorLayer answers: the plans the       *)
(* planner may choose and what its executor makes of one (planner.py,      *)
(* templates.py, cost.py, execute.py, fusion.py).  A query reads one       *)
(* composition and changes nothing, so its answer is a function of the     *)
(* state.  The indices other than the vectors are rebuilt when the brain   *)
(* opens and hold what is readable; the vectors may be anything            *)
(* VectorLayer reaches.                                                    *)
(*                                                                         *)
(* Costs and recalls are numbers measured on a machine: every plan the     *)
(* validity rule lets through may win.  So may every ranking, but an       *)
(* identity match comes first.  One text, one subject and one label stand  *)
(* for all; date scans and the catalogue's classes are not modelled.       *)
(* Queries are asked of brains at most MaxAsked commands old.              *)
(***************************************************************************)
EXTENDS VectorLayer, Sequences

CONSTANTS
    ModuleOrder,   \* the modules by name
    Declared,      \* of each other kind of index, the modules that have one
    Large,         \* the modules with more vectors than are compared one by one
    Says,          \* the blocks that contain the text
    Labelled,      \* the blocks the text is a label of
    Fits,          \* the blocks of the subject
    Superseded, Edges,
    Queries, Overfetches, ExpandLimit, Rankings, MaxAsked

Modes == {"auto", "exact", "lexical", "semantic", "associative"}

\* Two candidates are never in the same place: ties go by identity.
ASSUME RetrievalAssumption ==
    /\ ModuleOrder \in Seq(Modules)
    /\ \A m \in Modules : \E n \in DOMAIN ModuleOrder : ModuleOrder[n] = m
    /\ Declared \in [{"hash_map", "inverted", "graph", "bitmap"} -> SUBSET Modules]
    /\ Large \subseteq Modules
    /\ Says \cup Labelled \cup Fits \cup Superseded \subseteq Blocks
    /\ Edges \subseteq Blocks \X Blocks
    /\ IsFiniteSet(Blocks)
    /\ Queries \subseteq [text : BOOLEAN, subject : BOOLEAN, scopes : SUBSET Modules,
                        mode : Modes, depth : Nat, limit : Nat \ {0},
                        superseded : BOOLEAN]
    /\ Overfetches \subseteq Nat \ {0} /\ ExpandLimit \in Nat \ {0}
    /\ Rankings \subseteq [Blocks -> Nat]
    /\ \A rank \in Rankings : \A b, c \in Blocks : rank[b] = rank[c] => b = c

Generators == {"TermScan", "VectorSearch", "GraphExpand"}
IndexOf == [TermScan |-> "inverted", VectorSearch |-> "vector",
            BruteVector |-> "vector", GraphExpand |-> "graph"]

----------------------------------------------------------------------------
(* Planning *)

\* The modules whose index of this kind holds something and describes them.
Capable(kind) ==
    IF kind = "vector" THEN {m \in Modules : Rankable(m) # {}}
    ELSE {m \in Declared[kind] : Readable(m) # {}}

Scopes(q) == {m \in Modules : Composition(m) # {} /\ (q.scopes = {} \/ m \in q.scopes)}

\* The generators the installed indices could supply.
Supplied(q) ==
    {g \in Generators : /\ g = "GraphExpand" => q.depth > 0
                        /\ Scopes(q) \cap Capable(IndexOf[g]) # {}}

\* What the mode permits; filters without a text are no ranking.
Permitted(q) ==
    CASE q.mode = "exact" -> {}
      [] q.mode = "lexical" -> {"TermScan", "GraphExpand"}
      [] q.mode = "auto" /\ ~q.text /\ q.subject -> {"GraphExpand"}
      [] OTHER -> Generators
Mandatory(q) ==
    CASE q.mode = "semantic" -> {"VectorSearch"}
      [] q.mode = "associative" -> {"GraphExpand"}
      [] OTHER -> {}

\* The combinations that are costed; the exhaustive scan is always one.
GeneratorSets(q) ==
    LET available == Supplied(q) \cap Permitted(q)
    IN  {chosen \in SUBSET available \ {{}} :
            Mandatory(q) \cap available \subseteq chosen}
        \cup {{"SeqScan"}}

\* The nodes a plan may have, in the order they run: module by module.
Operators == <<"ExactLookup", "TermScan", "VectorSearch", "BruteVector",
               "GraphExpand", "SeqScan">>
Places == Len(ModuleOrder) * Len(Operators)
Node(n) == [op |-> Operators[((n - 1) % Len(Operators)) + 1],
            scope |-> ModuleOrder[((n - 1) \div Len(Operators)) + 1]]

\* Those a plan does have.
Planned(q, chosen, node) ==
    LET m == node.scope IN
    /\ m \in Scopes(q)
    /\ CASE node.op = "ExactLookup" -> q.text /\ m \in Capable("hash_map")
         [] node.op = "TermScan" -> /\ "TermScan" \in chosen /\ q.text
                                    /\ m \in Capable("inverted")
         [] node.op = "GraphExpand" -> /\ "GraphExpand" \in chosen
                                       /\ m \in Capable("graph")
         [] node.op = "SeqScan" -> "SeqScan" \in chosen
         [] OTHER -> /\ "VectorSearch" \in chosen /\ q.text
                     /\ m \in Capable("vector")
                     /\ (node.op = "VectorSearch") = (m \in Large)
Nodes(q, chosen) == {node \in {Node(n) : n \in 1..Places} : Planned(q, chosen, node)}

\* The operators of a plan that score candidates.
Kinds(q, chosen) == {node.op : node \in Nodes(q, chosen)} \ {"ExactLookup"}

\* The validity rule.
Admissible(q, chosen) ==
    \/ q.mode = "exact"
    \/ Kinds(q, chosen) = {"SeqScan"}
    \/ Cardinality(Supplied(q)) < 2
    \/ Cardinality(Kinds(q, chosen)) >= 2

\* The plans that may be chosen: the exhaustive one always may.
Plans(q) == {chosen \in GeneratorSets(q) : Admissible(q, chosen)}

----------------------------------------------------------------------------
(* Generating candidates *)

\* The pre-filter of one module, where its bitmap can evaluate it.
Mask(q, m) == IF q.subject /\ m \in Capable("bitmap")
              THEN Readable(m) \cap Fits ELSE Blocks

Top(n, blocks, rank) ==
    {b \in blocks : Cardinality({c \in blocks : rank[c] < rank[b]}) < n}

\* Candidates, by how they were reached, and whether every domain was read.
Nobody == [content |-> {}, identity |-> {}, graph |-> {}, exhausted |-> TRUE]
Candidates(found) == found.content \cup found.identity \cup found.graph
Direct(found) == found.content \cup found.identity

Reach(seeds, depth) ==
    LET next(blocks) ==
          {e[2] : e \in {f \in Edges : /\ f[1] \in (blocks \cap members) \ gone
                                       /\ Home[f[1]] \in Capable("graph")}}
        within[n \in 0..depth] ==
          IF n = 0 THEN seeds ELSE within[n - 1] \cup next(within[n - 1])
    IN  within[depth] \ seeds

\* What an expansion reached, by the filters of the modules that own it.
Owned(q, hits) == {b \in hits : b \in Mask(q, Home[b])}

\* MUTANT of Expand: an expansion is said to have read its whole domain.
ExpandExhausted(q, found, caps, rank) ==
    LET hits == Top(caps.expand, Reach(Direct(found), q.depth) \cap members, rank)
    IN  [found EXCEPT !.graph = @ \cup Owned(q, hits)]
\* Expansion from what the nodes before have matched directly, over the graphs
\* of every module.
Expand(q, found, caps, rank) ==
    LET reached == Reach(Direct(found), q.depth)
        installed == reached \cap members
        hits == Top(caps.expand, installed, rank)
    IN  [found EXCEPT
           !.graph = @ \cup Owned(q, hits),
           !.exhausted = /\ @ /\ Cardinality(installed) <= caps.expand
                         /\ Cardinality(reached \cup Direct(found)) < 4 * caps.expand]

\* The other generators, each behind the filter of its module; those that cut
\* say whether they read their whole domain.
Exact(q, m) == Labelled \cap Readable(m) \cap Mask(q, m)
Sequential(q, m) ==
    Mask(q, m) \cap IF q.text THEN Says \cap Readable(m) ELSE Composition(m)
Lexical(q, m, pool, rank) ==
    LET terms == Says \cap Readable(m) \cap Mask(q, m)
        hits == Top(pool, terms, rank)
    IN  [hits |-> hits, all |-> hits = terms]
Semantic(q, m, pool, rank) ==
    LET vectors == Rankable(m) \cap Mask(q, m)
    IN  [hits |-> Top(pool, vectors, rank), all |-> Cardinality(vectors) < pool]

\* One node of a plan adds what it finds.
Generate(q, found, node, caps, rank) ==
    LET m == node.scope
        cutting(result) == [found EXCEPT !.content = @ \cup result.hits,
                                         !.exhausted = @ /\ result.all]
    IN  CASE node.op = "ExactLookup" -> [found EXCEPT !.identity = @ \cup Exact(q, m)]
          [] node.op = "TermScan" -> cutting(Lexical(q, m, caps.pool, rank))
          [] node.op = "GraphExpand" -> Expand(q, found, caps, rank)
          [] node.op = "SeqScan" -> [found EXCEPT !.content = @ \cup Sequential(q, m)]
          [] OTHER -> cutting(Semantic(q, m, caps.pool, rank))

\* What the nodes find, one after the other.
Found(q, chosen, caps, rank) ==
    LET after[n \in 0..Places] ==
          IF n = 0 THEN Nobody
          ELSE IF Planned(q, chosen, Node(n))
               THEN Generate(q, after[n - 1], Node(n), caps, rank)
               ELSE after[n - 1]
    IN  after[Places]

----------------------------------------------------------------------------
(* The fixed tail *)

\* Filters that no index evaluated, and the superseded, go before the limit.
Scored(q, found) ==
    {b \in Blocks \cap Candidates(found) :
        /\ q.superseded \/ b \notin Superseded
        /\ q.subject => b \in Fits \cap (members \ gone)}

\* A block without its bytes is an answer to an identity or an association,
\* and never to a filter.
Verified(q, b, found) ==
    /\ b \in members
    /\ \/ b \notin gone /\ (q.subject => b \in Fits)
       \/ b \in gone /\ ~q.subject /\ b \in found.identity \cup found.graph

\* MUTANT of Reserve: no more than the limit is resolved.
ReserveNothing(limit) == limit
\* How many of the best are resolved, so that one that fails is replaced.
Reserve(limit) == limit * 2

\* The blocks that come before one: identities first.
Ahead(b, blocks, found, rank) ==
    {c \in blocks : IF b \in found.identity
                   THEN c \in found.identity /\ rank[c] < rank[b]
                   ELSE c \in found.identity \/ rank[c] < rank[b]}

Bundle(q, found, caps, rank) ==
    LET scored == Scored(q, found)
        pool == {b \in scored :
                   Cardinality(Ahead(b, scored, found, rank)) < Reserve(caps.limit)}
        proven == {b \in pool : Verified(q, b, found)}
        late(b) == Cardinality(Ahead(b, proven, found, rank)) >= caps.limit
    IN  [matches |-> {b \in proven : ~late(b)},
         truncated |-> \/ ~found.exhausted
                       \/ pool # scored
                       \/ \E b \in pool : late(b)]

Caps(q, overfetch) == [limit |-> q.limit, pool |-> q.limit * overfetch,
                       expand |-> ExpandLimit]
Uncapped == LET all == Cardinality(Blocks) + 1
            IN  [limit |-> all, pool |-> all, expand |-> all]

Answer(q, chosen, caps, rank) ==
    Bundle(q, Found(q, chosen, caps, rank), caps, rank)

----------------------------------------------------------------------------
(* What an answer promises *)

ForEveryAnswer(P(_, _, _, _)) ==
    steps <= MaxAsked =>
        \A q \in Queries : \A chosen \in Plans(q) :
           \A overfetch \in Overfetches, rank \in Rankings :
              P(q, chosen, Caps(q, overfetch), rank)

\* Whatever was cut by a generator, an expansion, the reserve or the limit,
\* an answer that does not say it is truncated is the answer without any limit
\* (execute.py run, _associative, _finalize).
TruncationIsHonest ==
    ForEveryAnswer(LAMBDA q, chosen, caps, rank :
        LET answer == Answer(q, chosen, caps, rank)
        IN  ~answer.truncated =>
               answer.matches = Answer(q, chosen, Uncapped, rank).matches)

\* A block an answer may hold: readable and fitting, or named as gone.
Acceptable(q, found) ==
    {b \in Candidates(found) \cap members :
        /\ b \in Superseded => q.superseded
        /\ q.subject => b \in Fits \ gone
        /\ b \in gone => b \notin found.content \ (found.identity \cup found.graph)}

\* A query answers with acceptable blocks only, and blocks that cannot be
\* proved do not spend its limit while the reserve can replace them
\* (execute.py _finalize, _verify).
AnswersHold ==
    ForEveryAnswer(LAMBDA q, chosen, caps, rank :
        LET found == Found(q, chosen, caps, rank)
            matches == Bundle(q, found, caps, rank).matches
            acceptable == Acceptable(q, found)
            wasted == Scored(q, found) \ acceptable
        IN  /\ matches \subseteq acceptable /\ Cardinality(matches) <= q.limit
            /\ Cardinality(wasted) <= q.limit =>
                  \/ matches = acceptable
                  \/ Cardinality(matches) = q.limit)
=============================================================================
