--------------------------- MODULE RetrievalProofs ---------------------------
(***************************************************************************)
(* What TLAPS proves of VectorLayer and of the queries Retrieval asks of   *)
(* it, for any modules, blocks, compositions of others, number of commands,*)
(* queries, limits and rankings.                                           *)
(*                                                                         *)
(* Of the vectors: the type invariant, that a published layer describes    *)
(* what it is published with, and that vectors of another space are not    *)
(* ranked.  All three follow from one inductive invariant: every stored    *)
(* layer is sound for its module, and every pinned, shipped or published   *)
(* one was built from the composition beside it.                           *)
(*                                                                         *)
(* Of the answers: they hold what they may, fill their limit, and say when *)
(* they were cut.  The first two need of the candidates only that ranking  *)
(* orders them strictly (FirstOnes); the third is an induction over the    *)
(* nodes of a plan, beside those of the same plan without limits           *)
(* (RunsAgree).                                                            *)
(***************************************************************************)
EXTENDS Retrieval, FiniteSetTheorems, WellFoundedInduction, TLAPS

\* An index a process of the module may hold, and a layer that may be stored.
Sound(m, i) ==
    /\ i \in Indices
    /\ i.rows \subseteq i.holds \ Silent
    /\ i.holds \subseteq Of(m, Blocks)
    /\ i.anchors \in {None, i.space}
Stored(m, i) == i = None \/ (Sound(m, i) /\ i.rows # {})
Layers(f) == DOMAIN f = Modules /\ \A m \in Modules : Stored(m, f[m])
Describes(f, blocks) == \A m \in Modules : f[m] # None => f[m].about = Of(m, blocks)

Simple ==
    /\ members \subseteq Blocks /\ gone \subseteq Blocks
    /\ cached \subseteq Blocks \cup {Probe}
    /\ runtime \in {"up", "offline", "absent"} /\ steps \in 0..MaxSteps
Kept == Layers(pinned) /\ Layers(manifest) /\ Layers(sidecar)
Described == Describes(pinned, members) /\ Describes(manifest, members)
Published ==
    registry # None =>
        /\ registry.members \subseteq Blocks
        /\ Layers(registry.pins) /\ Layers(registry.layers)
        /\ Describes(registry.pins, registry.members)
        /\ Describes(registry.layers, registry.members)
IInv == Simple /\ Kept /\ Described /\ Published

----------------------------------------------------------------------------
(* The operations on one index *)

LEMMA NothingIsSound == ASSUME NEW m PROVE Sound(m, Nothing)
  BY DEF Sound, Nothing, Indices, Of

LEMMA NoLayers == Layers(NoLayer) /\ \A blocks : Describes(NoLayer, blocks)
  BY DEF Layers, NoLayer, Stored, Describes

LEMMA BuildIsSound ==
    ASSUME NEW m, NEW i, Sound(m, i), NEW blocks \in SUBSET Of(m, Blocks),
           NEW answers, NEW composition \in SUBSET Blocks
    PROVE  /\ Sound(m, Build(i, blocks, answers, composition))
           /\ Build(i, blocks, answers, composition).about = composition
<1>1. CASE Current(i, blocks)
  <2>1. Build(i, blocks, answers, composition) = [i EXCEPT !.about = composition]
    BY <1>1 DEF Build
  <2> QED
    BY <2>1 DEF Sound, Indices
<1>2. CASE ~Current(i, blocks)
  <2> DEFINE rows == Embedded(blocks, answers)
             index == [holds |-> blocks, rows |-> rows, space |-> Here,
                       root |-> Unknown,
                       anchors |-> IF rows # {} /\ Probe \in cached \cup answers
                                   THEN Here ELSE None,
                       about |-> composition]
  <2>1. rows \subseteq blocks \ Silent
    BY DEF Embedded
  <2>2. blocks \subseteq Blocks
    BY DEF Of
  <2>3. Build(i, blocks, answers, composition) = index
    BY <1>2 DEF Build
  <2> HIDE DEF rows
  <2>4. Sound(m, index)
    BY <2>1, <2>2 DEF Sound, Indices
  <2> QED
    BY <2>3, <2>4
<1> QED
  BY <1>1, <1>2

LEMMA LoadIsSound ==
    ASSUME NEW m, NEW i, Sound(m, i)
    PROVE  Sound(m, Load(i))
  BY DEF Sound, Load, Indices

LEMMA BindIsSound ==
    ASSUME NEW m, NEW i, Sound(m, i), members \subseteq Blocks
    PROVE  /\ Sound(m, Bind(i, m))
           /\ Bind(i, m).about = i.about /\ Bind(i, m).rows = i.rows
  BY DEF Sound, Bind, Indices, Composition, Of

LEMMA FlushIsStored ==
    ASSUME NEW m, NEW i, Sound(m, i)
    PROVE  Stored(m, Flush(i)) /\ (Flush(i) # None => Flush(i) = i)
  BY DEF Stored, Flush

LEMMA OpenedIsSound ==
    ASSUME Kept, NEW m \in Modules
    PROVE  Sound(m, Opened(m))
  BY NothingIsSound, LoadIsSound DEF Kept, Layers, Stored, Opened

\* What a module holds and what is readable of it, among its own blocks.
LEMMA Parts ==
    ASSUME Simple, NEW m
    PROVE  /\ Composition(m) \subseteq Blocks
           /\ Composition(m) \subseteq Of(m, Blocks)
           /\ Readable(m) \in SUBSET Of(m, Blocks)
  BY DEF Simple, Composition, Readable, Of

LEMMA VouchedIsSound ==
    ASSUME Simple, Kept, NEW m \in Modules, NEW answers
    PROVE  /\ Sound(m, Vouched(m, answers))
           /\ Vouched(m, answers).about = Composition(m)
<1> DEFINE built == Build(Opened(m), Readable(m), answers, Composition(m))
<1>1. Sound(m, built) /\ built.about = Composition(m)
  BY OpenedIsSound, Parts, BuildIsSound
<1> HIDE DEF built
<1>2. Sound(m, Bind(built, m)) /\ Bind(built, m).about = built.about
  BY <1>1, BindIsSound DEF Simple
<1> QED
  BY <1>1, <1>2 DEF Vouched, built
----------------------------------------------------------------------------
(* The steps *)

\* The layers of all modules, one of them replaced.
LEMMA Replaced ==
    ASSUME NEW f, Layers(f), NEW m \in Modules, NEW i, Stored(m, i)
    PROVE  Layers([f EXCEPT ![m] = i])
  BY DEF Layers

LEMMA InitHolds == Init => IInv
  BY NoLayers, VectorAssumption
  DEF Init, IInv, Simple, Kept, Described, Published

\* A commit changes one module, and pins what it built from it.
LEMMA CommitKeeps ==
    ASSUME IInv, NEW b \in Blocks, NEW killed \in BOOLEAN,
           NEW answers \in SUBSET (Blocks \cup {Probe}),
           Commit(b, answers, killed)
    PROVE  IInv'
<1> DEFINE m == Home[b]
           root == Changed(m, b)
           index == Build(Opened(m), root \ gone, answers, root)
           pin == IF runtime = "absent" THEN None ELSE Flush(index)
<1>1. m \in Modules
  BY VectorAssumption
<1>2. root \subseteq Of(m, Blocks) /\ root \subseteq Blocks
  BY Parts DEF IInv, Changed, Of
<1>3. Sound(m, index) /\ index.about = root
  BY <1>1, <1>2, OpenedIsSound, BuildIsSound DEF IInv
<1> HIDE DEF index
<1>4. Stored(m, Flush(index)) /\ (Flush(index) # None => Flush(index).about = root)
  BY <1>3, FlushIsStored
<1>5. Stored(m, pin) /\ (pin # None => pin.about = root)
  BY <1>4 DEF Stored
<1> HIDE DEF pin
<1>6. steps' = steps + 1 /\ steps < MaxSteps
  BY DEF Commit, Step
<1>7. /\ gone' = gone /\ runtime' = runtime /\ registry' = registry
      /\ cached' = cached \/ cached' = cached \cup answers
  BY DEF Commit
<1>8. sidecar' = sidecar
      \/ sidecar' = [sidecar EXCEPT ![m] =
              IF Current(Opened(m), root \ gone) THEN @ ELSE Flush(index)]
  BY DEF Commit, index
<1>9. Layers(sidecar')
  <2>1. Layers(sidecar) /\ Stored(m, sidecar[m])
    BY <1>1 DEF IInv, Kept, Layers
  <2> QED
    BY <1>1, <1>4, <1>8, <2>1, Replaced
<1>10. CASE killed
  <2>1. members' = members /\ pinned' = pinned /\ manifest' = manifest
    BY <1>10 DEF Commit
  <2> QED
    BY <2>1, <1>6, <1>7, <1>9, VectorAssumption
    DEF IInv, Simple, Kept, Described, Published
<1>11. CASE ~killed
  <2>1. /\ members' = (members \ Composition(m)) \cup root
        /\ pinned' = [pinned EXCEPT ![m] = pin]
        /\ manifest' = NoLayer
    BY <1>11 DEF Commit, pin, index
  <2>2. members' \subseteq Blocks
    BY <1>2, <2>1 DEF IInv, Simple
  <2>3. Of(m, members') = root
    BY <1>2, <2>1 DEF Of, Composition
  <2>4. \A n \in Modules \ {m} : Of(n, members') = Of(n, members)
    BY <1>2, <2>1 DEF Of, Composition
  <2>5. Layers(pinned')
    BY <1>1, <1>5, <2>1, Replaced DEF IInv, Kept
  <2>6. Describes(pinned', members')
    <3> SUFFICES ASSUME NEW n \in Modules, pinned'[n] # None
                 PROVE  pinned'[n].about = Of(n, members')
      BY DEF Describes
    <3>1. DOMAIN pinned = Modules
      BY DEF IInv, Kept, Layers
    <3>2. CASE n = m
      BY <1>1, <1>5, <2>1, <2>3, <3>1, <3>2
    <3>3. CASE n # m
      BY <1>1, <2>1, <2>4, <3>1, <3>3 DEF IInv, Described, Describes
    <3> QED
      BY <3>2, <3>3
  <2>7. Layers(manifest') /\ Describes(manifest', members')
    BY <2>1, NoLayers
  <2> QED
    BY <2>2, <2>5, <2>6, <2>7, <1>6, <1>7, <1>9, VectorAssumption
    DEF IInv, Simple, Kept, Described, Published
<1> QED
  BY <1>10, <1>11

LEMMA RedactKeeps ==
    ASSUME IInv, NEW b \in Blocks, Redact(b)
    PROVE  IInv'
  BY VectorAssumption
  DEF IInv, Simple, Kept, Described, Published, Redact, Step

\* An explicit build writes sidecars only.
LEMMA IndexBuildKeeps ==
    ASSUME IInv, NEW chosen \in SUBSET Modules, NEW force \in BOOLEAN,
           NEW answers \in SUBSET (Blocks \cup {Probe}),
           IndexBuild(chosen, force, answers)
    PROVE  IInv'
<1> DEFINE index(m) ==
             IF m \notin chosen THEN Opened(m)
             ELSE Build(IF force THEN Nothing ELSE Opened(m),
                        Readable(m), answers, Composition(m))
<1>1. \A m \in Modules : Stored(m, Flush(Bind(index(m), m)))
  <2> TAKE m \in Modules
  <2>1. Sound(m, IF force THEN Nothing ELSE Opened(m))
    BY OpenedIsSound, NothingIsSound DEF IInv
  <2>2. Sound(m, index(m))
    BY <2>1, OpenedIsSound, Parts, BuildIsSound DEF IInv
  <2> HIDE DEF index
  <2>3. Sound(m, Bind(index(m), m))
    BY <2>2, BindIsSound DEF IInv, Simple
  <2> QED
    BY <2>3, FlushIsStored
<1>2. sidecar' = [m \in Modules |-> Flush(Bind(index(m), m))]
  BY DEF IndexBuild
<1> HIDE DEF index
<1>3. Layers(sidecar')
  BY <1>1, <1>2 DEF Layers
<1>4. UNCHANGED <<members, gone, pinned, manifest, runtime, registry>>
      /\ cached' = cached \cup answers
      /\ steps' = steps + 1 /\ steps < MaxSteps
  BY DEF IndexBuild, Step
<1> QED
  BY <1>3, <1>4, VectorAssumption DEF IInv, Simple, Kept, Described, Published

\* A push ships what is pinned, or what it has just built.
LEMMA PushKeeps ==
    ASSUME IInv, NEW answers \in SUBSET (Blocks \cup {Probe}), Push(answers)
    PROVE  IInv'
<1>1. \A m \in Modules :
          /\ Stored(m, Shipped(m, answers))
          /\ Shipped(m, answers) # None =>
                Shipped(m, answers).about = Of(m, members)
  <2> TAKE m \in Modules
  <2>1. Sound(m, Vouched(m, answers)) /\ Vouched(m, answers).about = Of(m, members)
    BY VouchedIsSound DEF IInv, Composition
  <2>2. Stored(m, pinned[m]) /\ (pinned[m] # None => pinned[m].about = Of(m, members))
    BY DEF IInv, Kept, Layers, Described, Describes
  <2> QED
    BY <2>1, <2>2 DEF Shipped, Stored
<1>2. manifest' = [m \in Modules |-> Shipped(m, answers)]
  BY DEF Push
<1>3. Layers(manifest') /\ Describes(manifest', members)
  BY <1>1, <1>2 DEF Layers, Describes
<1>4. Layers(sidecar')
  <2>1. \A m \in Modules : Stored(m, sidecar[m]) /\ Stored(m, Flush(Vouched(m, answers)))
    BY VouchedIsSound, FlushIsStored DEF IInv, Kept, Layers
  <2> QED
    BY <2>1 DEF Push, Layers
<1>5. UNCHANGED <<members, gone, pinned, runtime>>
      /\ cached' = cached \cup answers
      /\ steps' = steps + 1 /\ steps < MaxSteps
      /\ registry' = [members |-> members, pins |-> pinned, layers |-> manifest']
  BY DEF Push, Step
<1>6. /\ registry'.members = members /\ registry'.pins = pinned
      /\ registry'.layers = manifest'
  BY <1>5
<1>7. Published'
  BY <1>3, <1>6 DEF IInv, Simple, Kept, Described, Published
<1> QED
  BY <1>3, <1>4, <1>5, <1>7, VectorAssumption DEF IInv, Simple, Kept, Described

LEMMA PullKeeps ==
    ASSUME IInv, NEW ignored \in BOOLEAN, Pull(ignored)
    PROVE  IInv'
<1>1. /\ registry.members \subseteq Blocks
      /\ Layers(registry.pins) /\ Layers(registry.layers)
      /\ Describes(registry.pins, registry.members)
      /\ Describes(registry.layers, registry.members)
  BY DEF IInv, Published, Pull
<1>2. /\ members' = registry.members
      /\ manifest' = IF ignored THEN NoLayer ELSE registry.layers
      /\ pinned' = [m \in Modules |->
             IF manifest'[m] = None THEN None ELSE registry.pins[m]]
  BY DEF Pull
<1>3. Layers(manifest') /\ Describes(manifest', members')
  BY <1>1, <1>2, NoLayers
<1>4. Layers(pinned') /\ Describes(pinned', members')
  BY <1>1, <1>2 DEF Layers, Describes, Stored
<1>5. UNCHANGED <<gone, sidecar, cached, runtime, registry>>
      /\ steps' = steps + 1 /\ steps < MaxSteps
  BY DEF Pull, Step
<1> QED
  BY <1>1, <1>2, <1>3, <1>4, <1>5, VectorAssumption
  DEF IInv, Simple, Kept, Described, Published

\* What other people publish was built from what they publish it with.
LEMMA OtherKeeps ==
    ASSUME IInv, NEW published \in Foreign, NEW layered \in BOOLEAN,
           NEW anchored \in BOOLEAN, NEW bound \in BOOLEAN,
           NEW space \in {Here, There},
           Other(published, layered, space, anchored, bound)
    PROVE  IInv'
<1> DEFINE rows(m) == Of(m, published) \ Silent
           made(m) == [holds |-> rows(m), rows |-> rows(m), space |-> space,
                       root |-> IF bound THEN Of(m, published) ELSE Unknown,
                       anchors |-> IF anchored THEN space ELSE None,
                       about |-> Of(m, published)]
           layer(m) == IF ~layered \/ rows(m) = {} THEN None ELSE made(m)
           all == [m \in Modules |-> layer(m)]
<1>1. published \subseteq Blocks
  BY VectorAssumption
<1>2. \A m \in Modules : /\ Sound(m, made(m))
                          /\ made(m).about = Of(m, published)
                          /\ made(m).rows = rows(m)
  <2> TAKE m \in Modules
  <2>1. Of(m, published) \subseteq Of(m, Blocks) /\ Of(m, published) \subseteq Blocks
    BY <1>1 DEF Of
  <2>2. made(m) \in Indices
    BY <2>1 DEF Indices
  <2> QED
    BY <2>1, <2>2 DEF Sound
<1>3. registry' = [members |-> published,
                   pins |-> IF bound THEN NoLayer ELSE all, layers |-> all]
  BY DEF Other
<1> HIDE DEF made
<1>4. Layers(all) /\ Describes(all, published)
  BY <1>2 DEF Layers, Describes, Stored
<1> HIDE DEF all
<1>5. Published'
  BY <1>1, <1>3, <1>4, NoLayers DEF Published
<1>6. UNCHANGED <<members, gone, pinned, manifest, sidecar, cached, runtime>>
      /\ steps' = steps + 1 /\ steps < MaxSteps
  BY DEF Other, Step
<1> QED
  BY <1>5, <1>6, VectorAssumption DEF IInv, Simple, Kept, Described

\* The steps that change no shared layer.
LEMMA QuietKeeps ==
    ASSUME IInv,
           \/ \E now \in {"up", "offline", "absent"} : RuntimeChanges(now)
           \/ Query \/ UNCHANGED vars
    PROVE  IInv'
<1>1. /\ UNCHANGED <<members, gone, pinned, manifest, sidecar, cached, registry>>
      /\ runtime' = runtime \/ runtime' \in {"up", "offline", "absent"}
      /\ steps' = steps \/ (steps' = steps + 1 /\ steps < MaxSteps)
  BY DEF RuntimeChanges, Query, Step, vars
<1> QED
  BY <1>1, VectorAssumption DEF IInv, Simple, Kept, Described, Published

\* Every stored layer is sound for its module, and every one that is pinned,
\* shipped or published was built from the composition beside it.
LEMMA Invariance == Spec => []IInv
<1>1. IInv /\ [Next]_vars => IInv'
  BY CommitKeeps, RedactKeeps, IndexBuildKeeps, PushKeeps, PullKeeps,
     OtherKeeps, QuietKeeps
  DEF Next
<1> QED
  BY InitHolds, <1>1, PTL DEF Spec

----------------------------------------------------------------------------
(* The theorems *)

\* Every stored index is one that may be stored: it has vectors, of readable
\* text, of blocks of its own module (base.py flush, vector.py dump).
THEOREM Typing == Spec => []TypeOK
<1>1. IInv => TypeOK
  <2> SUFFICES ASSUME IInv,
                      NEW m \in Modules,
                      NEW layer \in {pinned[m], manifest[m], sidecar[m]} \ {None}
               PROVE  /\ layer.rows # {} /\ layer.rows \subseteq layer.holds \ Silent
                      /\ layer.holds \subseteq Of(m, Blocks)
                      /\ layer.space \in {Here, There}
                      /\ layer.anchors \in {Here, There, None}
                      /\ layer.root = Unknown \/ layer.root \subseteq Blocks
    BY DEF TypeOK, IInv, Simple
  <2>1. Sound(m, layer) /\ layer.rows # {}
    BY DEF IInv, Kept, Layers, Stored
  <2> QED
    BY <2>1 DEF Sound, Indices
<1> QED
  BY Invariance, <1>1, PTL

\* What a snapshot pins, a manifest ships and a registry serves as a module's
\* vectors was built from exactly that module's composition, whatever was
\* restored, killed or unreachable on the way (vouch.py vouch_travelling).
THEOREM LayersDescribe == Spec => []PublishedLayersDescribe
<1>1. IInv => PublishedLayersDescribe
  BY DEF IInv, Described, Describes, Published, PublishedLayersDescribe, Composition
<1> QED
  BY Invariance, <1>1, PTL

\* Vectors of another space are never ranked against the runtime's probes when
\* they came with reference vectors (vector.py queryable).
THEOREM AnotherSpaceIsNotRanked == Spec => []RuntimeIsProbed
<1>1. IInv => RuntimeIsProbed
  <2> SUFFICES ASSUME IInv, NEW m \in Modules, Ready(m) # {},
                      QueryView(m).anchors # None
               PROVE  QueryView(m).space = Here
    BY DEF RuntimeIsProbed
  <2>1. QueryView(m).anchors = Here
    BY DEF Ready, Queryable
  <2> DEFINE restored == IF manifest[m] = None THEN Nothing ELSE Load(manifest[m])
             bound(i) == [i EXCEPT !.root = Composition(m)]
  <2>2. Sound(m, restored) /\ Sound(m, Nothing)
    BY NothingIsSound, LoadIsSound DEF IInv, Kept, Layers, Stored
  <2>3. sidecar[m] # None => Sound(m, Load(sidecar[m]))
    BY LoadIsSound DEF IInv, Kept, Layers, Stored
  <2>4. pinned[m] # None => Sound(m, bound(Load(pinned[m])))
    <3> SUFFICES ASSUME pinned[m] # None
                 PROVE  Sound(m, bound(Load(pinned[m])))
      OBVIOUS
    <3>1. Sound(m, Load(pinned[m])) /\ Composition(m) \subseteq Blocks
      BY LoadIsSound, Parts DEF IInv, Kept, Layers, Stored
    <3> QED
      BY <3>1 DEF Sound, Indices
  <2> HIDE DEF restored, bound
  <2>5. Sound(m, QueryView(m))
    BY <2>2, <2>3, <2>4 DEF QueryView, restored, bound
  <2> QED
    BY <2>1, <2>5 DEF Sound
<1> QED
  BY Invariance, <1>1, PTL
----------------------------------------------------------------------------
(* The best of some blocks *)

\* The least of some numbers.
LEMMA Least ==
    ASSUME NEW some \in SUBSET Nat, some # {}
    PROVE  \E m \in some : \A n \in some : m <= n
<1>1. PICK m \in some : \A n \in some : <<n, m>> \notin OpToRel(<, Nat)
  BY NatLessThanWellFounded, WFMin
<1>2. ASSUME NEW n \in some
      PROVE  m <= n
  <2>1. <<n, m>> \in OpToRel(<, Nat) <=> n < m
    BY DEF OpToRel
  <2>2. ~(n < m)
    BY <1>1, <2>1
  <2> QED
    BY <2>2
<1> QED
  BY <1>2

\* A ranking, and what is no more than all blocks.
Ranks(rank) == /\ rank \in [Blocks -> Nat]
               /\ \A b, c \in Blocks : rank[b] = rank[c] => b = c

LEMMA Finite ==
    ASSUME NEW S \in SUBSET Blocks
    PROVE  /\ IsFiniteSet(S) /\ Cardinality(S) \in Nat /\ Cardinality(Blocks) \in Nat
           /\ Cardinality(S) <= Cardinality(Blocks)
           /\ \A T \in SUBSET S : /\ Cardinality(T) <= Cardinality(S)
                                  /\ Cardinality(T) = Cardinality(S) => T = S
<1>1. IsFiniteSet(Blocks)
  BY RetrievalAssumption
<1>2. IsFiniteSet(S) /\ Cardinality(S) <= Cardinality(Blocks)
  BY <1>1, FS_Subset
<1>3. Cardinality(S) \in Nat /\ Cardinality(Blocks) \in Nat
  BY <1>1, <1>2, FS_CardinalityType
<1>4. ASSUME NEW T \in SUBSET S
      PROVE  /\ Cardinality(T) <= Cardinality(S)
             /\ Cardinality(T) = Cardinality(S) => T = S
  BY <1>2, FS_Subset
<1> QED
  BY <1>2, <1>3, <1>4

\* Candidates are strictly ordered: identities first, and then by rank.
LEMMA AheadIs ==
    ASSUME NEW S \in SUBSET Blocks, NEW found, NEW rank, Ranks(rank)
    PROVE  /\ \A b \in S : /\ Ahead(b, S, found, rank) \in SUBSET S
                           /\ b \notin Ahead(b, S, found, rank)
           /\ \A b, c \in S : \/ b = c \/ b \in Ahead(c, S, found, rank)
                              \/ c \in Ahead(b, S, found, rank)
           /\ \A b, c \in S : c \in Ahead(b, S, found, rank) =>
                  Ahead(c, S, found, rank) \subseteq Ahead(b, S, found, rank)
<1>1. \A b \in S : b \in Blocks /\ rank[b] \in Nat
  BY DEF Ranks
<1>2. \A b, c \in S : rank[b] = rank[c] => b = c
  BY DEF Ranks
<1> QED
  BY <1>1, <1>2 DEF Ahead

First(n, S, found, rank) == {b \in S : Cardinality(Ahead(b, S, found, rank)) < n}

\* The first n of some blocks are n blocks, or all of them.
LEMMA FirstOnes ==
    ASSUME NEW S \in SUBSET Blocks, NEW found, NEW rank, Ranks(rank), NEW n \in Nat
    PROVE  /\ Cardinality(First(n, S, found, rank)) <= n
           /\ \/ First(n, S, found, rank) = S
              \/ Cardinality(First(n, S, found, rank)) = n
<1> DEFINE ahead(b) == Ahead(b, S, found, rank)
           size(b) == Cardinality(ahead(b))
           firsts == First(n, S, found, rank)
<1>1. /\ firsts \in SUBSET S
      /\ \A b \in S : b \in firsts <=> size(b) < n
  BY DEF First
<1>2. /\ \A b \in S : ahead(b) \in SUBSET S /\ b \notin ahead(b)
      /\ \A b, c \in S : b = c \/ b \in ahead(c) \/ c \in ahead(b)
      /\ \A b, c \in S : c \in ahead(b) => ahead(c) \subseteq ahead(b)
  BY AheadIs
<1> HIDE DEF ahead, firsts
<1>3. \A b \in S : size(b) \in Nat
  BY <1>2, Finite
<1>4. ASSUME NEW b \in S, NEW c \in ahead(b)
      PROVE  size(c) < size(b)
  <2>1. /\ c \in S /\ ahead(c) \in SUBSET ahead(b) /\ c \notin ahead(c)
        /\ ahead(b) \in SUBSET Blocks
    BY <1>2
  <2>2. size(c) <= size(b) /\ size(c) # size(b)
    BY <2>1, Finite
  <2> QED
    BY <1>3, <2>1, <2>2
<1>5. Cardinality(firsts) \in Nat /\ IsFiniteSet(firsts)
  BY <1>1, Finite
<1> HIDE DEF size
<1>6. Cardinality(firsts) <= n
  <2>1. CASE firsts = {}
    BY <2>1, FS_EmptySet
  <2>2. CASE firsts # {}
    <3> DEFINE spare == {k \in Nat : \E b \in firsts : k = n - size(b)}
    <3>1. \A b \in firsts : n - size(b) \in Nat
      BY <1>1, <1>3
    <3>2. spare \in SUBSET Nat /\ spare # {}
      BY <2>2, <3>1
    <3>3. PICK k \in spare : \A j \in spare : k <= j
      BY <3>2, Least
    <3>4. PICK b \in firsts : k = n - size(b)
      BY <3>3
    <3>5. ASSUME NEW c \in firsts, c # b
          PROVE  c \in ahead(b)
      <4>1. k <= n - size(c)
        BY <3>1, <3>3
      <4>2. ~ (size(b) < size(c))
        BY <1>1, <1>3, <3>4, <4>1
      <4> QED
        BY <1>1, <1>2, <1>4, <3>5, <4>2
    <3>6. firsts \ {b} \in SUBSET ahead(b) /\ ahead(b) \in SUBSET Blocks
      BY <1>1, <1>2, <3>5
    <3>7. Cardinality(firsts \ {b}) <= size(b)
      BY <3>6, Finite DEF size
    <3>8. Cardinality(firsts \ {b}) = Cardinality(firsts) - 1
      BY <1>5, <3>4, FS_RemoveElement
    <3> QED
      BY <1>1, <1>3, <1>5, <3>4, <3>7, <3>8
  <2> QED
    BY <2>1, <2>2
<1>7. CASE firsts # S
  <2> DEFINE sizes == {k \in Nat : \E b \in S \ firsts : k = size(b)}
  <2>1. sizes \in SUBSET Nat /\ sizes # {}
    BY <1>1, <1>3, <1>7
  <2>2. PICK k \in sizes : \A j \in sizes : k <= j
    BY <2>1, Least
  <2>3. PICK b \in S \ firsts : k = size(b)
    BY <2>2
  <2>4. ASSUME NEW c \in ahead(b)
        PROVE  c \in firsts
    <3>1. c \in S /\ size(c) < size(b) /\ size(c) \in Nat
      BY <1>2, <1>3, <1>4, <2>3
    <3> QED
      BY <1>3, <2>2, <2>3, <3>1
  <2>5. ahead(b) \in SUBSET firsts /\ firsts \in SUBSET Blocks
    BY <1>1, <2>4
  <2>6. size(b) <= Cardinality(firsts)
    BY <2>5, Finite DEF size
  <2>7. n <= size(b)
    BY <1>1, <1>3, <2>3
  <2> QED
    BY <1>3, <1>5, <1>6, <2>3, <2>6, <2>7 DEF firsts
<1> QED
  BY <1>6, <1>7 DEF firsts

----------------------------------------------------------------------------
(* What is returned *)

Pool(q, found, n, rank) == First(n, Scored(q, found), found, rank)
Proven(q, found, n, rank) == {b \in Pool(q, found, n, rank) : Verified(q, b, found)}

LEMMA BundleIs ==
    ASSUME NEW q, NEW found, NEW rank, Ranks(rank), NEW caps, caps.limit \in Nat
    PROVE  LET pool == Pool(q, found, Reserve(caps.limit), rank)
               proven == Proven(q, found, Reserve(caps.limit), rank)
               bundle == Bundle(q, found, caps, rank)
           IN  /\ Scored(q, found) \in SUBSET Blocks
               /\ pool \in SUBSET Scored(q, found) /\ proven \in SUBSET pool
               /\ bundle.matches = First(caps.limit, proven, found, rank)
               /\ ~bundle.truncated =>
                      /\ found.exhausted /\ pool = Scored(q, found)
                      /\ bundle.matches = proven
<1> DEFINE scored == Scored(q, found)
           pool == Pool(q, found, Reserve(caps.limit), rank)
           proven == Proven(q, found, Reserve(caps.limit), rank)
           before(b) == Cardinality(Ahead(b, proven, found, rank))
<1>1. /\ scored \in SUBSET Blocks /\ pool \in SUBSET scored /\ proven \in SUBSET pool
      /\ \A b \in proven : Ahead(b, proven, found, rank) \in SUBSET Blocks
  BY DEF Scored, Pool, Proven, First, Ahead
<1>2. \A b \in proven : before(b) \in Nat
  BY <1>1, Finite
<1>3. /\ Bundle(q, found, caps, rank).matches =
             {b \in proven : ~ (before(b) >= caps.limit)}
      /\ Bundle(q, found, caps, rank).truncated =
             \/ ~ found.exhausted \/ pool # scored
             \/ \E b \in pool : before(b) >= caps.limit
  BY DEF Bundle, Pool, Proven, First
<1>4. First(caps.limit, proven, found, rank) = {b \in proven : before(b) < caps.limit}
  BY DEF First
<1> HIDE DEF scored, pool, proven, before
<1>5. \A b \in proven : ~ (before(b) >= caps.limit) <=> before(b) < caps.limit
  BY <1>2
<1>6. Bundle(q, found, caps, rank).matches = First(caps.limit, proven, found, rank)
  BY <1>3, <1>4, <1>5
<1>7. ASSUME ~ Bundle(q, found, caps, rank).truncated
      PROVE  /\ found.exhausted /\ pool = scored
             /\ Bundle(q, found, caps, rank).matches = proven
  BY <1>1, <1>3, <1>7
<1> QED
  BY <1>1, <1>6, <1>7 DEF scored, pool, proven

\* A block is acceptable exactly when its proof succeeds.
LEMMA VerifiedIs ==
    ASSUME Simple, NEW q, NEW found
    PROVE  /\ Acceptable(q, found) \in SUBSET Scored(q, found)
           /\ \A b \in Scored(q, found) : Verified(q, b, found) <=> b \in Acceptable(q, found)
  BY DEF Simple, Acceptable, Scored, Verified, Candidates

\* A query answers with acceptable blocks only, no more than its limit, and
\* with all of them or as many as its limit while the reserve can replace
\* those that fail (execute.py _finalize, _verify).
LEMMA AnswersAreAcceptable ==
    ASSUME Simple, NEW q \in Queries, NEW overfetch \in Overfetches,
           NEW rank \in Rankings, NEW found
    PROVE  LET matches == Bundle(q, found, Caps(q, overfetch), rank).matches
               acceptable == Acceptable(q, found)
               wasted == Scored(q, found) \ acceptable
           IN  /\ matches \subseteq acceptable /\ Cardinality(matches) <= q.limit
               /\ Cardinality(wasted) <= q.limit =>
                     \/ matches = acceptable
                     \/ Cardinality(matches) = q.limit
<1> DEFINE limit == q.limit
           matches == Bundle(q, found, Caps(q, overfetch), rank).matches
           acceptable == Acceptable(q, found)
           scored == Scored(q, found)
           wasted == scored \ acceptable
           pool == Pool(q, found, Reserve(limit), rank)
           proven == Proven(q, found, Reserve(limit), rank)
<1>1. limit \in Nat /\ Reserve(limit) = limit * 2 /\ Ranks(rank)
  BY RetrievalAssumption DEF Reserve, Ranks
<1>2. Caps(q, overfetch).limit = limit
  BY DEF Caps
<1>3. /\ scored \in SUBSET Blocks /\ pool \in SUBSET scored /\ proven \in SUBSET pool
      /\ matches = First(limit, proven, found, rank)
  BY <1>1, <1>2, BundleIs
<1>4. /\ acceptable \in SUBSET scored
      /\ \A b \in pool : b \in proven <=> b \in acceptable
  BY <1>3, VerifiedIs DEF Proven
<1>5. matches \in SUBSET proven
  BY <1>3 DEF First
<1>6. /\ Cardinality(matches) <= limit
      /\ matches = proven \/ Cardinality(matches) = limit
  BY <1>1, <1>3, FirstOnes
<1>7. pool = scored \/ Cardinality(pool) = limit * 2
  BY <1>1, <1>3, FirstOnes DEF Pool
<1> HIDE DEF limit, matches, acceptable, scored, pool, proven
<1>8. ASSUME Cardinality(wasted) <= limit, matches # acceptable
      PROVE  Cardinality(matches) = limit
  <2>1. CASE pool = scored
    <3>1. proven = acceptable
      BY <1>3, <1>4, <2>1
    <3> QED
      BY <1>6, <1>8, <3>1
  <2>2. CASE Cardinality(pool) = limit * 2
    <3>1. /\ pool \in SUBSET (proven \cup wasted)
          /\ proven \cup wasted \in SUBSET Blocks
      BY <1>3, <1>4
    <3>2. /\ IsFiniteSet(proven) /\ IsFiniteSet(wasted)
          /\ Cardinality(proven) \in Nat /\ Cardinality(wasted) \in Nat
          /\ Cardinality(matches) \in Nat
      BY <1>3, <1>5, Finite
    <3>3. /\ Cardinality(pool) <= Cardinality(proven \cup wasted)
          /\ Cardinality(proven \cap wasted) \in Nat
      BY <1>3, <3>1, Finite
    <3>4. Cardinality(proven \cup wasted) =
             Cardinality(proven) + Cardinality(wasted) - Cardinality(proven \cap wasted)
      BY <3>2, FS_Union
    <3>5. limit <= Cardinality(proven)
      BY <1>1, <1>8, <2>2, <3>2, <3>3, <3>4
    <3> QED
      BY <1>1, <1>6, <3>2, <3>5
  <2> QED
    BY <1>7, <2>1, <2>2
<1> QED
  BY <1>3, <1>4, <1>5, <1>6, <1>8 DEF limit, matches, acceptable, scored, pool, proven

\* What a query answers with, whatever the vectors have been through.
THEOREM AnswersStayAcceptable == Spec => []AnswersHold
<1>1. Simple => AnswersHold
  BY AnswersAreAcceptable DEF AnswersHold, ForEveryAnswer
<1>2. IInv => Simple
  BY DEF IInv
<1> QED
  BY <1>1, <1>2, Invariance, PTL

----------------------------------------------------------------------------
(* What the nodes of a plan find, cut and not cut *)

Founds == [content : SUBSET Blocks, identity : SUBSET Blocks,
           graph : SUBSET Blocks, exhausted : BOOLEAN]
Agree(f, u) == f.content = u.content /\ f.identity = u.identity /\ f.graph = u.graph

\* A result is added to what was found, by a generator that read "all" of
\* its domain or "part" of it.
IsAll(read) == read = "all"
AddContent(f, H, read) == [f EXCEPT !.content = @ \cup H, !.exhausted = @ /\ IsAll(read)]
AddGraph(f, H, read) == [f EXCEPT !.graph = @ \cup H, !.exhausted = @ /\ IsAll(read)]

LEMMA AddGraphIs ==
    ASSUME NEW f \in Founds, NEW H \in SUBSET Blocks, NEW read,
           NEW g, g = AddGraph(f, H, read)
    PROVE  /\ g \in Founds /\ g.identity = f.identity /\ g.content = f.content
           /\ g.graph = f.graph \cup H
           /\ g.exhausted => f.exhausted /\ IsAll(read)
<1>1. /\ f.graph \cup H \in SUBSET Blocks
      /\ f.exhausted \in BOOLEAN /\ (f.exhausted /\ IsAll(read)) \in BOOLEAN
  BY DEF Founds, IsAll
<1> QED
  BY <1>1 DEF Founds, IsAll, AddGraph

LEMMA AddContentIs ==
    ASSUME NEW f \in Founds, NEW H \in SUBSET Blocks, NEW read,
           NEW g, g = AddContent(f, H, read)
    PROVE  /\ g \in Founds /\ g.identity = f.identity /\ g.graph = f.graph
           /\ g.content = f.content \cup H
           /\ g.exhausted => f.exhausted /\ IsAll(read)
<1>1. /\ f.content \cup H \in SUBSET Blocks
      /\ f.exhausted \in BOOLEAN /\ (f.exhausted /\ IsAll(read)) \in BOOLEAN
  BY DEF Founds, IsAll
<1> QED
  BY <1>1 DEF Founds, IsAll, AddContent

\* The best n of at most n are all of them.
LEMMA TopIs ==
    ASSUME NEW S \in SUBSET Blocks, NEW rank, Ranks(rank), NEW n
    PROVE  /\ Top(n, S, rank) \in SUBSET S
           /\ n \in Nat /\ Cardinality(S) <= n => Top(n, S, rank) = S
<1> DEFINE better(b) == {c \in S : rank[c] < rank[b]}
<1>1. Top(n, S, rank) = {b \in S : Cardinality(better(b)) < n}
  BY DEF Top
<1>2. ASSUME NEW b \in S, n \in Nat, Cardinality(S) <= n
      PROVE  Cardinality(better(b)) < n
  <2>1. better(b) \in SUBSET S /\ b \notin better(b)
    <3>1. rank[b] \in Nat
      BY DEF Ranks
    <3> QED
      BY <3>1
  <2>2. /\ Cardinality(better(b)) <= Cardinality(S)
        /\ Cardinality(better(b)) # Cardinality(S)
    BY <2>1, Finite
  <2>3. Cardinality(better(b)) \in Nat /\ Cardinality(S) \in Nat
    BY <2>1, Finite
  <2> QED
    BY <1>2, <2>2, <2>3
<1> QED
  BY <1>1, <1>2

LEMMA UncappedIs ==
    /\ Uncapped.limit = Cardinality(Blocks) + 1 /\ Uncapped.pool = Cardinality(Blocks) + 1
    /\ Uncapped.expand = Cardinality(Blocks) + 1 /\ Cardinality(Blocks) \in Nat
    /\ \A S \in SUBSET Blocks : /\ Cardinality(S) \in Nat
                                /\ Cardinality(S) < Cardinality(Blocks) + 1
<1>1. Cardinality(Blocks) \in Nat
  BY Finite
<1>2. \A S \in SUBSET Blocks : /\ Cardinality(S) \in Nat
                               /\ Cardinality(S) <= Cardinality(Blocks)
  BY Finite
<1> QED
  BY <1>1, <1>2 DEF Uncapped

\* What each generator finds are blocks, and one that says it has read its
\* whole domain has found what it would find without limits.
LEMMA MaskIs == \A q, m : Mask(q, m) \in SUBSET Blocks
  BY RetrievalAssumption DEF Mask

LEMMA LexicalIs ==
    ASSUME NEW q, NEW m, NEW rank, Ranks(rank), NEW n \in Nat
    PROVE  /\ Lexical(q, m, n, rank).hits \in SUBSET Blocks
           /\ Lexical(q, m, n, rank).all \in BOOLEAN
           /\ Lexical(q, m, n, rank).all =>
                Lexical(q, m, n, rank).hits = Lexical(q, m, Uncapped.pool, rank).hits
<1> DEFINE terms == Says \cap Readable(m) \cap Mask(q, m)
<1>1. /\ Lexical(q, m, n, rank).hits = Top(n, terms, rank)
      /\ Lexical(q, m, n, rank).all \in BOOLEAN
      /\ Lexical(q, m, n, rank).all <=> Top(n, terms, rank) = terms
      /\ Lexical(q, m, Uncapped.pool, rank).hits = Top(Uncapped.pool, terms, rank)
      /\ terms \in SUBSET Blocks
  BY MaskIs DEF Lexical
<1> HIDE DEF terms
<1>2. Top(n, terms, rank) \in SUBSET terms
  BY <1>1, TopIs
<1>3. Top(Uncapped.pool, terms, rank) = terms
  <2>1. Uncapped.pool \in Nat /\ Cardinality(terms) <= Uncapped.pool
    BY <1>1, UncappedIs
  <2> QED
    BY <1>1, <2>1, TopIs
<1>6. /\ Lexical(q, m, n, rank).hits \in SUBSET Blocks
      /\ Lexical(q, m, n, rank).all \in BOOLEAN
  BY <1>1, <1>2
<1>7. ASSUME Lexical(q, m, n, rank).all
      PROVE  Lexical(q, m, n, rank).hits = Lexical(q, m, Uncapped.pool, rank).hits
  <2>1. Top(n, terms, rank) = terms
    BY <1>1, <1>7
  <2> QED
    BY <1>1, <1>3, <2>1
<1> QED
  BY <1>6, <1>7

LEMMA SemanticIs ==
    ASSUME NEW q, NEW m, NEW rank, Ranks(rank), NEW n \in Nat
    PROVE  /\ Semantic(q, m, n, rank).hits \in SUBSET Blocks
           /\ Semantic(q, m, n, rank).all \in BOOLEAN
           /\ Semantic(q, m, n, rank).all =>
                Semantic(q, m, n, rank).hits = Semantic(q, m, Uncapped.pool, rank).hits
<1> DEFINE vectors == Rankable(m) \cap Mask(q, m)
<1>1. /\ Semantic(q, m, n, rank).hits = Top(n, vectors, rank)
      /\ Semantic(q, m, n, rank).all \in BOOLEAN
      /\ Semantic(q, m, n, rank).all <=> Cardinality(vectors) < n
      /\ Semantic(q, m, Uncapped.pool, rank).hits = Top(Uncapped.pool, vectors, rank)
      /\ vectors \in SUBSET Blocks
  <2> HIDE DEF vectors
  <2>0. PICK x \in BOOLEAN : x <=> Cardinality(vectors) < n
    OBVIOUS
  <2>4. (Cardinality(vectors) < n) = x
    BY <2>0
  <2>1. Semantic(q, m, n, rank) = [hits |-> Top(n, vectors, rank), all |-> x]
    <3>1. Semantic(q, m, n, rank) = [hits |-> Top(n, vectors, rank),
                                     all |-> Cardinality(vectors) < n]
      BY DEF Semantic, vectors
    <3> QED
      BY <2>4, <3>1
  <2>2. Semantic(q, m, Uncapped.pool, rank).hits = Top(Uncapped.pool, vectors, rank)
    BY DEF Semantic, vectors
  <2>3. vectors \in SUBSET Blocks
    BY MaskIs DEF vectors
  <2> QED
    BY <2>0, <2>1, <2>2, <2>3
<1> HIDE DEF vectors
<1>2. Top(n, vectors, rank) \in SUBSET vectors
  BY <1>1, TopIs
<1>3. Cardinality(vectors) \in Nat
  BY <1>1, Finite
<1>4. Top(Uncapped.pool, vectors, rank) = vectors
  <2>1. Uncapped.pool \in Nat /\ Cardinality(vectors) <= Uncapped.pool
    BY <1>1, UncappedIs
  <2> QED
    BY <1>1, <2>1, TopIs
<1>5. Cardinality(vectors) < n => Top(n, vectors, rank) = vectors
  BY <1>1, <1>3, TopIs
<1>6. /\ Semantic(q, m, n, rank).hits \in SUBSET Blocks
      /\ Semantic(q, m, n, rank).all \in BOOLEAN
  BY <1>1, <1>2
<1>7. ASSUME Semantic(q, m, n, rank).all
      PROVE  Semantic(q, m, n, rank).hits = Semantic(q, m, Uncapped.pool, rank).hits
  <2>1. Top(n, vectors, rank) = vectors
    BY <1>1, <1>5, <1>7
  <2> QED
    BY <1>1, <1>4, <2>1
<1> QED
  BY <1>6, <1>7

\* The same of an expansion from what has been found alike so far.
Reached(q, f) == Reach(Direct(f), q.depth)
Grown(q, f, n, rank) == Owned(q, Top(n, Reached(q, f) \cap members, rank))
Whole(q, f, n) == /\ Cardinality(Reached(q, f) \cap members) <= n
                  /\ Cardinality(Reached(q, f) \cup Direct(f)) < 4 * n

LEMMA GrownIs ==
    ASSUME Simple, NEW q, NEW f, NEW n, NEW rank, Ranks(rank)
    PROVE  /\ Grown(q, f, n, rank) \in SUBSET Blocks
           /\ n \in Nat /\ Whole(q, f, n) =>
                 Grown(q, f, n, rank) = Grown(q, f, Uncapped.expand, rank)
<1> DEFINE installed == Reached(q, f) \cap members
<1>1. installed \in SUBSET Blocks
  BY DEF Simple
<1>2. Whole(q, f, n) => Cardinality(installed) <= n
  BY DEF Whole
<1>3. /\ Grown(q, f, n, rank) = Owned(q, Top(n, installed, rank))
      /\ Grown(q, f, Uncapped.expand, rank) = Owned(q, Top(Uncapped.expand, installed, rank))
  BY DEF Grown
<1> HIDE DEF installed
<1>4. Top(n, installed, rank) \in SUBSET installed
  BY <1>1, TopIs
<1>5. Owned(q, Top(n, installed, rank)) \in SUBSET Blocks
  BY <1>1, <1>4 DEF Owned
<1>6. Top(Uncapped.expand, installed, rank) = installed
  <2>1. Uncapped.expand \in Nat /\ Cardinality(installed) <= Uncapped.expand
    BY <1>1, UncappedIs
  <2> QED
    BY <1>1, <2>1, TopIs
<1>7. ASSUME n \in Nat, Whole(q, f, n)
      PROVE  Grown(q, f, n, rank) = Grown(q, f, Uncapped.expand, rank)
  <2>1. Top(n, installed, rank) = installed
    BY <1>1, <1>2, <1>7, TopIs
  <2> QED
    BY <1>3, <1>6, <2>1
<1> QED
  BY <1>3, <1>5, <1>7

LEMMA ExpandAdds ==
    ASSUME NEW q, NEW f, NEW caps, NEW rank
    PROVE  \E read :
              /\ IsAll(read) => Whole(q, f, caps.expand)
              /\ Expand(q, f, caps, rank) = AddGraph(f, Grown(q, f, caps.expand, rank), read)
<1> DEFINE whole == Whole(q, f, caps.expand)
           grown == Grown(q, f, caps.expand, rank)
<1>1. Expand(q, f, caps, rank) = [f EXCEPT !.graph = @ \cup grown, !.exhausted = @ /\ whole]
  BY DEF Expand, Grown, Whole, Reached
<1>2. CASE whole
  <2>1. whole = IsAll("all")
    BY <1>2 DEF Whole, IsAll
  <2>2. Expand(q, f, caps, rank) = AddGraph(f, grown, "all")
    BY <1>1, <2>1 DEF AddGraph
  <2> QED
    BY <1>2, <2>2
<1>3. CASE ~ whole
  <2>1. whole = IsAll("part")
    BY <1>3 DEF Whole, IsAll
  <2>2. Expand(q, f, caps, rank) = AddGraph(f, grown, "part")
    BY <1>1, <2>1 DEF AddGraph
  <2> QED
    BY <1>3, <2>1, <2>2
<1> QED
  BY <1>2, <1>3

LEMMA ExpandIs ==
    ASSUME Simple, NEW q, NEW f \in Founds, NEW u \in Founds, NEW rank, Ranks(rank),
           NEW caps, caps.expand \in Nat
    PROVE  /\ Expand(q, f, caps, rank) \in Founds
           /\ Expand(q, u, Uncapped, rank) \in Founds
           /\ Expand(q, f, caps, rank).exhausted => f.exhausted
           /\ Expand(q, f, caps, rank).exhausted /\ Agree(f, u) =>
                 Agree(Expand(q, f, caps, rank), Expand(q, u, Uncapped, rank))
<1> DEFINE g == Expand(q, f, caps, rank)
           v == Expand(q, u, Uncapped, rank)
           grown == Grown(q, f, caps.expand, rank)
           others == Grown(q, u, Uncapped.expand, rank)
<1>1. grown \in SUBSET Blocks /\ others \in SUBSET Blocks
  BY GrownIs
<1>2. /\ g \in Founds /\ g.content = f.content /\ g.identity = f.identity
      /\ g.graph = f.graph \cup grown
      /\ g.exhausted => f.exhausted /\ Whole(q, f, caps.expand)
  <2>1. PICK read : /\ IsAll(read) => Whole(q, f, caps.expand)
                    /\ g = AddGraph(f, grown, read)
    BY ExpandAdds
  <2> HIDE DEF g, grown
  <2> QED
    BY <1>1, <2>1, AddGraphIs
<1>3. /\ v \in Founds /\ v.content = u.content /\ v.identity = u.identity
      /\ v.graph = u.graph \cup others
  <2>1. PICK read : v = AddGraph(u, others, read)
    BY ExpandAdds
  <2> HIDE DEF v, others
  <2> QED
    BY <1>1, <2>1, AddGraphIs
<1>5. Whole(q, f, caps.expand) /\ Agree(f, u) => grown = others
  <2>1. Agree(f, u) => Grown(q, f, Uncapped.expand, rank) = others
    BY DEF Agree, Grown, Reached, Direct
  <2> QED
    BY <2>1, GrownIs
<1> HIDE DEF g, v, grown, others
<1>6. g.exhausted /\ Agree(f, u) => Agree(g, v)
  BY <1>2, <1>3, <1>5 DEF Agree
<1> QED
  BY <1>2, <1>3, <1>6 DEF g, v

\* The same of every generator that adds to the content.
LEMMA ContentIs ==
    ASSUME NEW f \in Founds, NEW u \in Founds,
           NEW H \in SUBSET Blocks, NEW K \in SUBSET Blocks, NEW read, NEW other,
           IsAll(read) => H = K,
           NEW g, g = AddContent(f, H, read), NEW v, v = AddContent(u, K, other)
    PROVE  /\ g \in Founds /\ v \in Founds
           /\ g.exhausted => f.exhausted
           /\ g.exhausted /\ Agree(f, u) => Agree(g, v)
<1>1. /\ g \in Founds /\ g.identity = f.identity /\ g.graph = f.graph
      /\ g.content = f.content \cup H
      /\ g.exhausted => f.exhausted /\ IsAll(read)
  BY AddContentIs, SMTT(30)
<1>2. /\ v \in Founds /\ v.identity = u.identity /\ v.graph = u.graph
      /\ v.content = u.content \cup K
  BY AddContentIs
<1> QED
  BY <1>1, <1>2 DEF Agree

Cut(f, result) == [f EXCEPT !.content = @ \cup result.hits,
                           !.exhausted = @ /\ result.all]

LEMMA CutAdds ==
    ASSUME NEW f, NEW result, result.all \in BOOLEAN
    PROVE  \E read : /\ IsAll(read) => result.all
                     /\ Cut(f, result) = AddContent(f, result.hits, read)
<1>1. CASE result.all
  <2>1. result.all = IsAll("all")
    BY <1>1 DEF IsAll
  <2> QED
    BY <1>1, <2>1 DEF AddContent, Cut
<1>2. CASE ~ result.all
  <2>1. result.all = IsAll("part")
    BY <1>2 DEF IsAll
  <2> QED
    BY <1>2, <2>1 DEF AddContent, Cut
<1> QED
  BY <1>1, <1>2

LEMMA CutIs ==
    ASSUME NEW f \in Founds, NEW u \in Founds, NEW result, NEW entire,
           result.hits \in SUBSET Blocks, entire.hits \in SUBSET Blocks,
           result.all \in BOOLEAN, entire.all \in BOOLEAN,
           result.all => result.hits = entire.hits,
           NEW g, g = Cut(f, result), NEW v, v = Cut(u, entire)
    PROVE  /\ g \in Founds /\ v \in Founds
           /\ g.exhausted => f.exhausted
           /\ g.exhausted /\ Agree(f, u) => Agree(g, v)
<1>1. PICK read : (IsAll(read) => result.all) /\ g = AddContent(f, result.hits, read)
  BY CutAdds
<1>2. PICK other : v = AddContent(u, entire.hits, other)
  BY CutAdds
<1>3. IsAll(read) => result.hits = entire.hits
  BY <1>1
<1> QED
  BY <1>1, <1>2, <1>3, ContentIs

\* The same of whichever node runs.
Carries(q, f, u, node, caps, rank) ==
    LET g == Generate(q, f, node, caps, rank)
        v == Generate(q, u, node, Uncapped, rank)
    IN  /\ g \in Founds /\ v \in Founds
        /\ g.exhausted => f.exhausted
        /\ g.exhausted /\ Agree(f, u) => Agree(g, v)

LEMMA GenerateIs ==
    ASSUME Simple, NEW q, NEW f \in Founds, NEW u \in Founds, NEW node,
           NEW rank, Ranks(rank), NEW caps, caps.pool \in Nat, caps.expand \in Nat
    PROVE  Carries(q, f, u, node, caps, rank)
<1> DEFINE m == node.scope
           g == Generate(q, f, node, caps, rank)
           v == Generate(q, u, node, Uncapped, rank)
<1>0. Uncapped.pool \in Nat
  BY UncappedIs
<1>1. CASE node.op = "ExactLookup"
  <2> DEFINE H == Exact(q, m)
  <2>1. g = [f EXCEPT !.identity = @ \cup H] /\ v = [u EXCEPT !.identity = @ \cup H]
    BY <1>1 DEF Generate
  <2>2. H \in SUBSET Blocks
    BY MaskIs DEF Exact
  <2> HIDE DEF g, v, H
  <2>3. f.identity \cup H \in SUBSET Blocks /\ u.identity \cup H \in SUBSET Blocks
    BY <2>2 DEF Founds
  <2>4. /\ g \in Founds /\ v \in Founds /\ g.exhausted = f.exhausted
        /\ g.content = f.content /\ g.graph = f.graph /\ g.identity = f.identity \cup H
        /\ v.content = u.content /\ v.graph = u.graph /\ v.identity = u.identity \cup H
    BY <2>1, <2>3 DEF Founds
  <2> QED
    BY <2>4 DEF Carries, Agree, g, v
<1>2. CASE node.op = "TermScan"
  <2> DEFINE result == Lexical(q, m, caps.pool, rank)
             entire == Lexical(q, m, Uncapped.pool, rank)
  <2>1. g = Cut(f, result) /\ v = Cut(u, entire)
    BY <1>2 DEF Generate, Cut
  <2>2. /\ result.hits \in SUBSET Blocks /\ result.all \in BOOLEAN
        /\ result.all => result.hits = entire.hits
    BY LexicalIs
  <2>3. entire.hits \in SUBSET Blocks /\ entire.all \in BOOLEAN
    BY <1>0, LexicalIs
  <2> HIDE DEF g, v, result, entire
  <2>4. /\ g \in Founds /\ v \in Founds
        /\ g.exhausted => f.exhausted
        /\ g.exhausted /\ Agree(f, u) => Agree(g, v)
    BY <2>1, <2>2, <2>3, CutIs
  <2> QED
    BY <2>4 DEF Carries, g, v
<1>3. CASE node.op = "GraphExpand"
  <2>1. g = Expand(q, f, caps, rank) /\ v = Expand(q, u, Uncapped, rank)
    BY <1>3 DEF Generate
  <2> HIDE DEF g, v
  <2>2. /\ Expand(q, f, caps, rank) \in Founds
        /\ Expand(q, u, Uncapped, rank) \in Founds
        /\ Expand(q, f, caps, rank).exhausted => f.exhausted
        /\ Expand(q, f, caps, rank).exhausted /\ Agree(f, u) =>
              Agree(Expand(q, f, caps, rank), Expand(q, u, Uncapped, rank))
    BY ExpandIs
  <2> QED
    BY <2>1, <2>2 DEF Carries, g, v
<1>4. CASE node.op = "SeqScan"
  <2> DEFINE H == Sequential(q, m)
  <2>1. g = [f EXCEPT !.content = @ \cup H] /\ v = [u EXCEPT !.content = @ \cup H]
    BY <1>4 DEF Generate
  <2>2. H \in SUBSET Blocks
    BY MaskIs DEF Sequential
  <2> HIDE DEF g, v, H
  <2>3. f.content \cup H \in SUBSET Blocks /\ u.content \cup H \in SUBSET Blocks
    BY <2>2 DEF Founds
  <2>4. /\ g \in Founds /\ v \in Founds /\ g.exhausted = f.exhausted
        /\ g.identity = f.identity /\ g.graph = f.graph /\ g.content = f.content \cup H
        /\ v.identity = u.identity /\ v.graph = u.graph /\ v.content = u.content \cup H
    BY <2>1, <2>3 DEF Founds
  <2> QED
    BY <2>4 DEF Carries, Agree, g, v
<1>5. CASE node.op \notin {"ExactLookup", "TermScan", "GraphExpand", "SeqScan"}
  <2> DEFINE result == Semantic(q, m, caps.pool, rank)
             entire == Semantic(q, m, Uncapped.pool, rank)
  <2>1. g = Cut(f, result) /\ v = Cut(u, entire)
    BY <1>5 DEF Generate, Cut
  <2>2. /\ result.hits \in SUBSET Blocks /\ result.all \in BOOLEAN
        /\ result.all => result.hits = entire.hits
    BY SemanticIs
  <2>3. entire.hits \in SUBSET Blocks /\ entire.all \in BOOLEAN
    BY <1>0, SemanticIs
  <2> HIDE DEF g, v, result, entire
  <2>4. /\ g \in Founds /\ v \in Founds
        /\ g.exhausted => f.exhausted
        /\ g.exhausted /\ Agree(f, u) => Agree(g, v)
    BY <2>1, <2>2, <2>3, CutIs
  <2> QED
    BY <2>4 DEF Carries, g, v
<1> QED
  BY <1>1, <1>2, <1>3, <1>4, <1>5

\* What the nodes find one after the other, as a function of how many have run.
Take(q, chosen, caps, rank, n, found) ==
    IF Planned(q, chosen, Node(n)) THEN Generate(q, found, Node(n), caps, rank)
    ELSE found
RunOf(f, q, chosen, caps, rank, k) ==
    f = [n \in 0..k |-> IF n = 0 THEN Nobody
                        ELSE Take(q, chosen, caps, rank, n, f[n - 1])]

LEMMA RunsExist ==
    ASSUME NEW q, NEW chosen, NEW caps, NEW rank
    PROVE  \A k \in Nat : \E f : RunOf(f, q, chosen, caps, rank, k)
<1> DEFINE without == {k \in Nat : ~ \E f : RunOf(f, q, chosen, caps, rank, k)}
           next(n, found) == Take(q, chosen, caps, rank, n, found)
<1>1. \A k \in Nat : \A f : RunOf(f, q, chosen, caps, rank, k) <=>
          f = [n \in 0..k |-> IF n = 0 THEN Nobody ELSE next(n, f[n - 1])]
  BY DEF RunOf
<1> HIDE DEF next
<1>2. CASE without = {}
  BY <1>2
<1>3. CASE without # {}
  <2>1. without \in SUBSET Nat
    OBVIOUS
  <2>2. PICK k \in without : \A j \in without : k <= j
    BY <1>3, <2>1, Least
  <2>3. k \in Nat /\ ~ \E f : RunOf(f, q, chosen, caps, rank, k)
    OBVIOUS
  <2>4. k # 0
    <3> SUFFICES ASSUME k = 0 PROVE FALSE
      OBVIOUS
    <3> DEFINE f == [n \in 0..0 |-> Nobody]
    <3>1. f = [n \in 0..0 |-> IF n = 0 THEN Nobody ELSE next(n, f[n - 1])]
      OBVIOUS
    <3> HIDE DEF f
    <3>2. RunOf(f, q, chosen, caps, rank, 0)
      BY <1>1, <3>1
    <3> QED
      BY <2>3, <3>2
  <2>5. k - 1 \in Nat /\ k - 1 \notin without
    BY <2>2, <2>3, <2>4
  <2>6. PICK f : RunOf(f, q, chosen, caps, rank, k - 1)
    BY <2>5
  <2>7. f = [n \in 0..(k - 1) |-> IF n = 0 THEN Nobody ELSE next(n, f[n - 1])]
    BY <1>1, <2>5, <2>6
  <2> DEFINE g == [n \in 0..k |-> IF n = k THEN next(k, f[k - 1]) ELSE f[n]]
  <2>8. \A n \in 0..k : g[n] = IF n = 0 THEN Nobody ELSE next(n, g[n - 1])
    <3> TAKE n \in 0..k
    <3>1. CASE n = k
      <4>1. k - 1 \in 0..k /\ k - 1 # k
        BY <2>5
      <4> QED
        BY <2>3, <2>4, <3>1, <4>1
    <3>2. CASE n # k
      <4>1. n \in 0..(k - 1) /\ (n # 0 => n - 1 \in 0..k /\ n - 1 # k)
        BY <2>3, <3>2
      <4>2. f[n] = IF n = 0 THEN Nobody ELSE next(n, f[n - 1])
        BY <2>7, <4>1
      <4>3. g[n] = f[n] /\ (n # 0 => g[n - 1] = f[n - 1])
        BY <3>2, <4>1
      <4> QED
        BY <4>2, <4>3
    <3> QED
      BY <3>1, <3>2
  <2>9. g = [n \in 0..k |-> IF n = 0 THEN Nobody ELSE next(n, g[n - 1])]
    <3>1. g = [n \in 0..k |-> g[n]]
      OBVIOUS
    <3> HIDE DEF g
    <3> QED
      BY <2>8, <3>1
  <2> HIDE DEF g
  <2>10. RunOf(g, q, chosen, caps, rank, k)
    BY <1>1, <2>3, <2>9
  <2> QED
    BY <2>3, <2>10
<1> QED
  BY <1>2, <1>3

LEMMA FoundIs ==
    ASSUME NEW q, NEW chosen, NEW caps, NEW rank
    PROVE  \E f : /\ RunOf(f, q, chosen, caps, rank, Places)
                  /\ Found(q, chosen, caps, rank) = f[Places]
<1> DEFINE run == CHOOSE f : RunOf(f, q, chosen, caps, rank, Places)
<1>1. Places \in Nat
  BY RetrievalAssumption DEF Places, Operators
<1>2. RunOf(run, q, chosen, caps, rank, Places)
  BY <1>1, RunsExist
<1>3. Found(q, chosen, caps, rank) = run[Places]
  BY DEF Found, RunOf, Take
<1> QED
  BY <1>2, <1>3

\* An answer that has read every domain has found, node after node, what the
\* same plan finds without limits.
LEMMA RunsAgree ==
    ASSUME Simple, NEW q, NEW chosen, NEW rank, Ranks(rank),
           NEW caps, caps.pool \in Nat, caps.expand \in Nat
    PROVE  LET found == Found(q, chosen, caps, rank)
               all == Found(q, chosen, Uncapped, rank)
           IN  /\ found \in Founds /\ all \in Founds
               /\ found.exhausted => Agree(found, all)
<1>0. Places \in Nat
  BY RetrievalAssumption DEF Places, Operators
<1>1. PICK f : /\ RunOf(f, q, chosen, caps, rank, Places)
               /\ Found(q, chosen, caps, rank) = f[Places]
  BY FoundIs
<1>2. PICK u : /\ RunOf(u, q, chosen, Uncapped, rank, Places)
               /\ Found(q, chosen, Uncapped, rank) = u[Places]
  BY FoundIs
<1> DEFINE Good(n) == /\ f[n] \in Founds /\ u[n] \in Founds
                      /\ f[n].exhausted => Agree(f[n], u[n])
           wrong == {n \in 0..Places : ~ Good(n)}
<1>3. \A n \in 0..Places :
          /\ f[n] = IF n = 0 THEN Nobody ELSE Take(q, chosen, caps, rank, n, f[n - 1])
          /\ u[n] = IF n = 0 THEN Nobody ELSE Take(q, chosen, Uncapped, rank, n, u[n - 1])
  BY <1>1, <1>2 DEF RunOf
<1>4. Good(0)
  <2>1. f[0] = Nobody /\ u[0] = Nobody
    BY <1>0, <1>3
  <2>2. Nobody \in Founds
    BY DEF Nobody, Founds
  <2> QED
    BY <2>1, <2>2 DEF Agree
<1>5. ASSUME NEW n \in 0..Places, n # 0, Good(n - 1)
      PROVE  Good(n)
  <2>1. /\ f[n] = Take(q, chosen, caps, rank, n, f[n - 1])
        /\ u[n] = Take(q, chosen, Uncapped, rank, n, u[n - 1])
    BY <1>3, <1>5
  <2> DEFINE before == f[n - 1]
             without == u[n - 1]
  <2>2. /\ before \in Founds /\ without \in Founds
        /\ before.exhausted => Agree(before, without)
    BY <1>5
  <2> HIDE DEF before, without
  <2>3. CASE Planned(q, chosen, Node(n))
    <3>1. /\ f[n] = Generate(q, before, Node(n), caps, rank)
          /\ u[n] = Generate(q, without, Node(n), Uncapped, rank)
      BY <2>1, <2>3 DEF Take, before, without
    <3>2. Carries(q, before, without, Node(n), caps, rank)
      BY <2>2, GenerateIs
    <3> QED
      BY <2>2, <3>1, <3>2 DEF Carries
  <2>4. CASE ~ Planned(q, chosen, Node(n))
    BY <2>1, <2>2, <2>4 DEF Take, before, without
  <2> QED
    BY <2>3, <2>4
<1> HIDE DEF Good
<1>6. wrong = {}
  <2> SUFFICES ASSUME wrong # {} PROVE FALSE
    OBVIOUS
  <2>1. wrong \in SUBSET Nat
    BY <1>0
  <2>2. PICK n \in wrong : \A k \in wrong : n <= k
    BY <2>1, Least
  <2>3. n \in 0..Places /\ ~ Good(n)
    OBVIOUS
  <2>4. n # 0
    BY <1>4, <2>3
  <2>5. n - 1 \in 0..Places /\ n - 1 \notin wrong
    BY <1>0, <2>2, <2>3, <2>4
  <2> QED
    BY <1>5, <2>3, <2>4, <2>5
<1>7. Good(Places)
  BY <1>0, <1>6
<1> QED
  BY <1>1, <1>2, <1>7 DEF Good

\* With room for every block, the first ones are all.
LEMMA RoomForAll ==
    ASSUME NEW S \in SUBSET Blocks, NEW found, NEW rank, Ranks(rank),
           NEW n \in Nat, Cardinality(Blocks) < n
    PROVE  First(n, S, found, rank) = S
<1>1. First(n, S, found, rank) \in SUBSET Blocks
  BY DEF First
<1>2. /\ Cardinality(First(n, S, found, rank)) \in Nat /\ Cardinality(Blocks) \in Nat
      /\ Cardinality(First(n, S, found, rank)) <= Cardinality(Blocks)
  BY <1>1, Finite
<1>3. Cardinality(First(n, S, found, rank)) # n
  BY <1>2
<1> QED
  BY <1>3, FirstOnes

\* Where nothing was cut, an answer is the answer without any limit.
LEMMA CompleteAnswers ==
    ASSUME Simple, NEW q \in Queries, NEW chosen, NEW overfetch \in Overfetches,
           NEW rank \in Rankings,
           ~ Answer(q, chosen, Caps(q, overfetch), rank).truncated
    PROVE  Answer(q, chosen, Caps(q, overfetch), rank).matches
              = Answer(q, chosen, Uncapped, rank).matches
<1> DEFINE caps == Caps(q, overfetch)
           found == Found(q, chosen, caps, rank)
           all == Found(q, chosen, Uncapped, rank)
           proven == Proven(q, found, Reserve(caps.limit), rank)
           kept == Proven(q, all, Reserve(Uncapped.limit), rank)
<1>1. Ranks(rank) /\ caps.limit \in Nat /\ caps.pool \in Nat /\ caps.expand \in Nat
  <2>1. Ranks(rank) /\ q.limit \in Nat /\ overfetch \in Nat /\ ExpandLimit \in Nat
    BY RetrievalAssumption DEF Ranks
  <2>2. caps.limit = q.limit /\ caps.pool = q.limit * overfetch /\ caps.expand = ExpandLimit
    BY DEF Caps
  <2>3. q.limit * overfetch \in Nat
    BY <2>1
  <2> QED
    BY <2>1, <2>2, <2>3
<1>2. /\ Uncapped.limit \in Nat /\ Cardinality(Blocks) < Uncapped.limit
      /\ Reserve(Uncapped.limit) \in Nat /\ Cardinality(Blocks) < Reserve(Uncapped.limit)
  BY UncappedIs DEF Reserve
<1>3. /\ Answer(q, chosen, caps, rank) = Bundle(q, found, caps, rank)
      /\ Answer(q, chosen, Uncapped, rank) = Bundle(q, all, Uncapped, rank)
  BY DEF Answer
<1> HIDE DEF caps, found, all
<1>4. /\ found.exhausted /\ Pool(q, found, Reserve(caps.limit), rank) = Scored(q, found)
      /\ Bundle(q, found, caps, rank).matches = proven
  BY <1>1, <1>3, BundleIs DEF caps
<1>5. /\ Scored(q, all) \in SUBSET Blocks /\ kept \in SUBSET Blocks
      /\ Bundle(q, all, Uncapped, rank).matches = First(Uncapped.limit, kept, all, rank)
  BY <1>1, <1>2, BundleIs
<1>6. Bundle(q, all, Uncapped, rank).matches = kept
  BY <1>1, <1>2, <1>5, RoomForAll
<1>7. Pool(q, all, Reserve(Uncapped.limit), rank) = Scored(q, all)
  BY <1>1, <1>2, <1>5, RoomForAll DEF Pool
<1>8. found.exhausted => Agree(found, all)
  BY <1>1, RunsAgree DEF found, all
<1>9. /\ Scored(q, found) = Scored(q, all)
      /\ \A b : Verified(q, b, found) <=> Verified(q, b, all)
  BY <1>4, <1>8 DEF Agree, Scored, Candidates, Verified
<1>10. proven = kept
  BY <1>4, <1>7, <1>9 DEF Proven
<1> QED
  BY <1>3, <1>4, <1>6, <1>10 DEF caps

\* An answer that does not say it is truncated is the answer without any limit,
\* whatever the generators, the expansions and the tail could have cut
\* (execute.py run, _associative, _finalize).
THEOREM TruncationStaysHonest == Spec => []TruncationIsHonest
<1>1. Simple => TruncationIsHonest
  BY CompleteAnswers DEF TruncationIsHonest, ForEveryAnswer
<1>2. IInv => Simple
  BY DEF IInv
<1> QED
  BY <1>1, <1>2, Invariance, PTL
=============================================================================
