---------------------------- MODULE VectorLayer ----------------------------
(***************************************************************************)
(* The one index a consumer cannot rebuild: the vectors of each module     *)
(* (indices base.py, vector.py; runtime indexset.py, vouch.py,             *)
(* ops/indices.py).  Copies of it live in three places that move apart:    *)
(* the canonical sidecar beside the brain, the layer the signed snapshot   *)
(* pins, and the layer of the manifest a push or a pull leaves in the      *)
(* layout.  Commands are processes of their own and run one at a time; one *)
(* may be killed inside a commit, the embedding runtime may be up, out of  *)
(* reach or not installed, and it may answer some calls and not others.    *)
(*                                                                         *)
(* A module's root is the set of its blocks.  Here is the space of the     *)
(* vectors the runtime makes and There that of another one under the same  *)
(* model tag.  A block is one chunk.  What the SDK packs, pins and restores*)
(* is external, modelled as vouch.py and its tests describe it.  MaxSteps  *)
(* bounds the commands.                                                    *)
(***************************************************************************)
EXTENDS Naturals, FiniteSets

CONSTANTS
    Modules, Blocks,
    Home,       \* the module each block belongs to
    Silent,     \* the blocks that project to no text to embed
    Starts,     \* what the brain held before it had an embedding runtime
    Foreign,    \* the compositions other people publish
    Here, There, None, Unknown, Probe, MaxSteps

ASSUME VectorAssumption ==
    /\ Home \in [Blocks -> Modules] /\ Silent \subseteq Blocks
    /\ Starts \subseteq SUBSET Blocks /\ Foreign \subseteq SUBSET Blocks
    /\ None \notin {Here, There} /\ Here # There
    /\ Probe \notin Blocks
    /\ MaxSteps \in Nat

VARIABLES
    members,   \* the blocks of the composition
    gone,      \* the redacted ones among all blocks
    pinned,    \* the layer each module reference of the snapshot names
    manifest,  \* the layers of the head's manifest, while the layout holds one
    sidecar,   \* the canonical sidecars
    local,     \* the sidecars of the local fallback
    cached,    \* the texts the embedding cache holds a vector for
    runtime,   \* the shared embedder: "up", "offline" or "absent"
    registry,  \* what is published under the tag
    steps

vars == <<members, gone, pinned, manifest, sidecar, local, cached, runtime,
          registry, steps>>

Of(m, blocks) == {b \in blocks : Home[b] = m}
Composition(m) == Of(m, members)
Readable(m) == Of(m, members \ gone)

\* An index: the identity table, the blocks with vectors, their space, the
\* root it is bound to, the space of its reference vectors and, as history,
\* the composition it was last built from.
Indices == [holds : SUBSET Blocks, rows : SUBSET Blocks, space : {Here, There},
            root : (SUBSET Blocks) \cup {Unknown},
            anchors : {Here, There, None}, about : SUBSET Blocks]
Nothing == [holds |-> {}, rows |-> {}, space |-> Here, root |-> Unknown,
            anchors |-> None, about |-> {}]
NoLayer == [m \in Modules |-> None]

Init ==
    /\ members \in Starts /\ gone = {}
    /\ pinned = NoLayer /\ manifest = NoLayer
    /\ sidecar = NoLayer /\ local = NoLayer
    /\ cached = {} /\ runtime = "up" /\ registry = None /\ steps = 0

----------------------------------------------------------------------------
(* The index, as an object *)

\* A build of the same identities with a vector for each is a no-op.
Current(index, blocks) == index.holds = blocks /\ index.rows = blocks

\* The texts a build asks the runtime for; the cache is asked first.
Asked(index, blocks) ==
    IF runtime = "up" /\ ~Current(index, blocks)
    THEN ((blocks \ Silent) \cup {Probe}) \ cached ELSE {}

\* Vectors come from the cache or from the answers; the reference vectors are
\* asked for last, and only beside vectors.
Embedded(blocks, answers) ==
    IF runtime = "up" THEN (blocks \ Silent) \cap (cached \cup answers) ELSE {}

\* What a build leaves: everything is discarded and made again, unbound.
Build(index, blocks, answers, composition) ==
    IF Current(index, blocks)
    THEN [index EXCEPT !.about = composition]
    ELSE LET rows == Embedded(blocks, answers)
         IN  [holds |-> blocks, rows |-> rows, space |-> Here, root |-> Unknown,
              anchors |-> IF rows # {} /\ Probe \in cached \cup answers
                          THEN Here ELSE None,
              about |-> composition]

\* MUTANT of Flush: an empty index is written like any other.
FlushAnyway(index) == index
\* An index without vectors is no file.
Flush(index) == IF index.rows = {} THEN None ELSE index

\* A layer that travelled names the blocks of its rows only.
Load(layer) == [layer EXCEPT !.holds = layer.rows]
Bind(index, m) == IF index.rows = {} THEN index
                  ELSE [index EXCEPT !.root = Composition(m)]

\* The index a process that writes finds: its sidecar, replaced by the layer
\* of the head's manifest when the layout holds one.
Opened(m) ==
    IF manifest[m] # None THEN Load(manifest[m])
    ELSE IF sidecar[m] # None THEN sidecar[m] ELSE Nothing

----------------------------------------------------------------------------
(* Commands that change the composition *)

Step == steps < MaxSteps /\ steps' = steps + 1

Answers(texts) == SUBSET texts
Changed(m, b) == IF b \in members THEN Composition(m) \ {b}
                 ELSE Composition(m) \cup {b}

\* One block is added to its module, or dropped from it.  The module's index is
\* built and written first; the new snapshot pins it unless it has no vectors.
Commit(b, answers, killed) ==
    LET m == Home[b]
        root == Changed(m, b)
        index == Build(Opened(m), root \ gone, answers, root)
    IN  /\ Step /\ (b \in gone => b \in members)
        /\ IF runtime = "absent"
           THEN answers = {} /\ UNCHANGED <<sidecar, cached>>
           ELSE /\ answers \in Answers(Asked(Opened(m), root \ gone))
                /\ sidecar' = [sidecar EXCEPT ![m] =
                      IF Current(Opened(m), root \ gone) THEN @ ELSE Flush(index)]
                /\ cached' = cached \cup answers
        /\ IF killed THEN UNCHANGED <<members, pinned, manifest>>
           ELSE /\ members' = (members \ Composition(m)) \cup root
                /\ pinned' = [pinned EXCEPT ![m] =
                      IF runtime = "absent" THEN None ELSE Flush(index)]
                /\ manifest' = NoLayer
        /\ UNCHANGED <<gone, local, runtime, registry>>

\* A payload is removed; the composition and its roots stand.
Redact(b) ==
    /\ Step /\ b \in members \ gone
    /\ gone' = gone \cup {b}
    /\ UNCHANGED <<members, pinned, manifest, sidecar, local, cached, runtime,
                   registry>>

----------------------------------------------------------------------------
(* Commands about the layer *)

\* Everything the runtime may be asked for by a build of the given modules.
AskedFor(modules) == UNION {Asked(Opened(m), Readable(m)) : m \in modules}

\* "index build": the chosen modules are built, every module's index is bound
\* to the root it has now, and all of them are written.
IndexBuild(chosen, force, answers) ==
    LET index(m) == IF m \notin chosen THEN Opened(m)
                    ELSE Build(IF force THEN Nothing ELSE Opened(m),
                               Readable(m), answers, Composition(m))
    IN  /\ Step /\ runtime # "absent" /\ chosen # {}
        /\ answers \in Answers(
              IF force
              THEN UNION {Asked(Nothing, Readable(m)) : m \in chosen}
              ELSE AskedFor(chosen))
        /\ sidecar' = [m \in Modules |-> Flush(Bind(index(m), m))]
        /\ cached' = cached \cup answers
        /\ UNCHANGED <<members, gone, pinned, manifest, local, runtime, registry>>

\* MUTANT of Vouched: the index is bound to the module as it was opened.
VouchedUnbuilt(m, answers) == Bind(Opened(m), m)
\* The index a push may vouch for: built from the module, then bound to it.
Vouched(m, answers) ==
    Bind(Build(Opened(m), Readable(m), answers, Composition(m)), m)

\* The layer a push ships: the one the snapshot pins, or else the vouched
\* index, and none for an index without vectors.
Shipped(m, answers) ==
    IF runtime = "absent" \/ Vouched(m, answers).rows = {} THEN None
    ELSE IF pinned[m] # None THEN pinned[m] ELSE Vouched(m, answers)

Push(answers) ==
    /\ Step
    /\ answers \in Answers(AskedFor(Modules))
    /\ runtime = "absent" => answers = {}
    /\ manifest' = [m \in Modules |-> Shipped(m, answers)]
    /\ registry' = [members |-> members, pins |-> pinned, layers |-> manifest']
    /\ sidecar' = [m \in Modules |->
          IF \/ runtime = "absent"
             \/ Vouched(m, answers) = Opened(m)
          THEN sidecar[m] ELSE Flush(Vouched(m, answers))]
    /\ cached' = cached \cup answers
    /\ UNCHANGED <<members, gone, pinned, local, runtime>>

\* A pull opens the brain without indices; its layers may be declined.
Pull(ignored) ==
    /\ Step /\ registry # None
    /\ members' = registry.members
    /\ manifest' = IF ignored THEN NoLayer ELSE registry.layers
    /\ pinned' = [m \in Modules |->
          IF manifest'[m] = None THEN None ELSE registry.pins[m]]
    /\ UNCHANGED <<gone, sidecar, local, cached, runtime, registry>>

----------------------------------------------------------------------------
(* Everything else *)

\* Somebody else publishes, with layers made by their own runtime or without.
Other(published, layered, space, anchored, bound) ==
    LET layer(m) ==
          LET rows == Of(m, published) \ Silent
          IN  IF ~layered \/ rows = {} THEN None
              ELSE [holds |-> rows, rows |-> rows, space |-> space,
                    root |-> IF bound THEN Of(m, published) ELSE Unknown,
                    anchors |-> IF anchored THEN space ELSE None,
                    about |-> Of(m, published)]
    IN  /\ Step
        /\ registry' = [members |-> published,
                        pins |-> IF bound THEN NoLayer
                                 ELSE [m \in Modules |-> layer(m)],
                        layers |-> [m \in Modules |-> layer(m)]]
        /\ UNCHANGED <<members, gone, pinned, manifest, sidecar, local, cached,
                       runtime>>

RuntimeChanges(now) ==
    /\ Step /\ runtime # now
    /\ runtime' = now
    /\ UNCHANGED <<members, gone, pinned, manifest, sidecar, local, cached,
                   registry>>

----------------------------------------------------------------------------
(* The view a query opens *)

BoundElsewhere(index, m) == index.root \notin {Unknown, Composition(m)}
Wanting(index, m) == index.rows = {} \/ BoundElsewhere(index, m)

\* The manifest's layer as the SDK restores it; failing that the canonical
\* sidecar, unless it names another composition; failing that what is pinned.
QueryView(m) ==
    LET restored == IF manifest[m] = None THEN Nothing ELSE Load(manifest[m])
        canonical == IF /\ Wanting(restored, m)
                        /\ sidecar[m] # None
                        /\ ~BoundElsewhere(sidecar[m], m)
                     THEN Load(sidecar[m]) ELSE restored
    IN  IF Wanting(canonical, m) /\ pinned[m] # None
        THEN [Load(pinned[m]) EXCEPT !.root = Composition(m)]
        ELSE canonical

\* MUTANT of Queryable: a restored layer's references are not compared.
QueryableUnprobed(index) == runtime = "up"
\* The runtime reproduces the reference vectors; an index without any adopts
\* the runtime's.
Queryable(index) == runtime = "up" /\ index.anchors \in {None, Here}

\* The blocks whose shared vectors a query may rank by.
Ready(m) ==
    LET index == QueryView(m)
    IN  IF ~Wanting(index, m) /\ Queryable(index) THEN index.rows ELSE {}

\* Without the shared runtime a query embeds with the local one, and brings the
\* local index up to the root it reads unless it has been bound to it.
Fresh(m) == /\ manifest[m] = None /\ local[m] # None
            /\ local[m].root = Composition(m)
LocalRows(m) == IF Fresh(m) THEN local[m].rows ELSE Readable(m) \ Silent

Query ==
    /\ Step /\ runtime # "up"
    /\ local' = [m \in Modules |->
          IF Fresh(m) THEN local[m]
          ELSE IF LocalRows(m) = {} THEN None
          ELSE [rows |-> LocalRows(m), root |-> Composition(m)]]
    /\ local' # local
    /\ UNCHANGED <<members, gone, pinned, manifest, sidecar, cached, runtime,
                   registry>>

Rankable(m) == IF runtime = "up" THEN Ready(m) ELSE LocalRows(m)

----------------------------------------------------------------------------
Next ==
    \/ \E b \in Blocks, killed \in BOOLEAN,
          answers \in SUBSET (Blocks \cup {Probe}) : Commit(b, answers, killed)
    \/ \E b \in Blocks : Redact(b)
    \/ \E chosen \in SUBSET Modules, force \in BOOLEAN,
          answers \in SUBSET (Blocks \cup {Probe}) :
             IndexBuild(chosen, force, answers)
    \/ \E answers \in SUBSET (Blocks \cup {Probe}) : Push(answers)
    \/ \E ignored \in BOOLEAN : Pull(ignored)
    \/ \E published \in Foreign, layered, anchored, bound \in BOOLEAN,
          space \in {Here, There} :
             Other(published, layered, space, anchored, bound)
    \/ \E now \in {"up", "offline", "absent"} : RuntimeChanges(now)
    \/ Query

Spec == Init /\ [][Next]_vars

----------------------------------------------------------------------------
(* What the layer promises *)

\* Every stored index has vectors (base.py flush, vector.py dump: an empty
\* layer is worse than none), of blocks its identity table holds.
TypeOK ==
    /\ members \subseteq Blocks /\ gone \subseteq Blocks
    /\ cached \subseteq Blocks \cup {Probe}
    /\ runtime \in {"up", "offline", "absent"} /\ steps \in 0..MaxSteps
    /\ \A m \in Modules :
          \A layer \in {pinned[m], manifest[m], sidecar[m]} \ {None} :
             /\ layer.rows # {} /\ layer.rows \subseteq layer.holds \ Silent
             /\ layer.holds \subseteq Of(m, Blocks)
             /\ layer.space \in {Here, There} /\ layer.anchors \in {Here, There, None}
             /\ layer.root = Unknown \/ layer.root \subseteq Blocks

\* What a snapshot pins, a manifest ships and a registry serves as a module's
\* vectors was built from exactly that module's composition, whatever was
\* restored, killed or unreachable on the way (vouch.py vouch_travelling).
PublishedLayersDescribe ==
    /\ \A m \in Modules : \A layer \in {pinned[m], manifest[m]} \ {None} :
          layer.about = Composition(m)
    /\ registry # None =>
          \A m \in Modules :
             registry.layers[m] # None =>
                registry.layers[m].about = Of(m, registry.members)

\* Vectors of another space are never ranked against the runtime's probes when
\* they came with reference vectors (ADR-0025; vector.py queryable).
RuntimeIsProbed ==
    \A m \in Modules :
       Ready(m) # {} /\ QueryView(m).anchors # None => QueryView(m).space = Here
=============================================================================
