---------------------------- MODULE MigrationProofs ----------------------------
(***************************************************************************)
(* Proofs about Migration, for any source and any number of changes to it. *)
(* Whatever is committed, and so whatever is ever moved to the destination,*)
(* was made one after another of blocks that are there too (IInv).  The    *)
(* report accounts for the composition that was planned: the passes lose   *)
(* no block and take none twice, and what changed in the source since the  *)
(* plan is what overtook it (RInv).  And a migration is the recreation of  *)
(* Recreation: when nothing changed, failed or was refused, the plan stays *)
(* the inventory of the source, and what the passes and the catalogue have *)
(* made is closed in it, so it is all that can be made (UInv).             *)
(***************************************************************************)
EXTENDS Migration, TLAPS

\* A block that can be made when those of the set are there.
Rooted(b, set) == Needs[b] \subseteq set /\ (Needs[b] = {} => b \in Canonical \cup Schemes)
\* Blocks that can be made one after another: no smaller set has all of those
\* that can be made from it.  Each rests on what is there (GroundedRests), and
\* none in a circle.
Grounded(blocks) ==
    \A set \in SUBSET blocks :
        (\A b \in blocks : Rooted(b, set) => b \in set) => set = blocks

Passes ==
    /\ step = "canonical" => todo \subseteq Canonical
    /\ pending \subseteq Derived /\ declared \subseteq Catalog
    /\ step # "canonical" => \A b \in pending : Needs[b] # {}
Made == destination.by = "migration" => Grounded(destination.holds)
IInv == Passes /\ Grounded(migrated) /\ Made

LEMMA KindsApart ==
    /\ Blocks = Canonical \cup Derived \cup Catalog
    /\ Catalog = Schemes \cup Classes \cup Hierarchies \cup Placements
    /\ Canonical \cap Derived = {} /\ (Canonical \cup Derived) \cap Catalog = {}
    /\ Schemes \cap (Classes \cup Hierarchies \cup Placements) = {}
    /\ Classes \cap (Hierarchies \cup Placements) = {} /\ Hierarchies \cap Placements = {}
<1>1. /\ Blocks = Canonical \cup Derived \cup Catalog
      /\ Catalog = Schemes \cup Classes \cup Hierarchies \cup Placements
      /\ Canonical \cap Derived = {} /\ (Canonical \cup Derived) \cap Catalog = {}
  BY MigrationAssumption DEF Blocks, Catalog
<1>2. \A s \in Schemes : Needs[s] = {}
  BY MigrationAssumption
<1>3. \A l \in Classes : Needs[l] # {} /\ Needs[l] \subseteq Schemes
  BY MigrationAssumption
<1>4. \A h \in Hierarchies : Needs[h] # {} /\ Needs[h] \subseteq Classes
  BY MigrationAssumption
<1>5. \A p \in Placements : Needs[p] \cap Canonical # {}
  BY MigrationAssumption
<1>6. Schemes \cap (Classes \cup Hierarchies \cup Placements) = {}
  BY <1>2, <1>3, <1>4, <1>5
<1>7. Classes \cap (Hierarchies \cup Placements) = {} /\ Hierarchies \cap Placements = {}
  BY <1>1, <1>3, <1>4, <1>5, <1>6
<1> QED
  BY <1>1, <1>6, <1>7

LEMMA GroundedRests ==
    ASSUME NEW blocks, Grounded(blocks)
    PROVE  \A b \in blocks : Rooted(b, blocks)
<1> DEFINE set == {b \in blocks : Rooted(b, blocks)}
<1>1. \A b \in blocks : Rooted(b, set) => b \in set
  BY DEF Rooted
<1> QED
  BY <1>1 DEF Grounded

LEMMA GroundedGrows ==
    ASSUME NEW blocks, NEW more, Grounded(blocks), \A b \in more : Rooted(b, blocks)
    PROVE  Grounded(blocks \cup more)
<1> SUFFICES ASSUME NEW set \in SUBSET (blocks \cup more),
                    \A b \in blocks \cup more : Rooted(b, set) => b \in set
             PROVE  set = blocks \cup more
  BY DEF Grounded
<1>1. \A b \in blocks : Rooted(b, set \cap blocks) => b \in set \cap blocks
  BY DEF Rooted
<1>2. set \cap blocks = blocks
  BY <1>1 DEF Grounded
<1>3. more \subseteq set
  BY <1>2 DEF Rooted
<1> QED
  BY <1>2, <1>3

LEMMA InitHolds == Init => IInv
  BY DEF Init, IInv, Passes, Grounded, Made, Unused

LEMMA CopyKeeps == ASSUME IInv, NEW b \in todo, Copy(b) PROVE IInv'
<1>1. b \in Canonical /\ Needs[b] = {}
  BY MigrationAssumption DEF Copy, IInv, Passes
<1>2. migrated' = migrated \/ migrated' = migrated \cup {b}
  BY DEF Copy, Copied, NotCopied
<1>3. \A t \in {b} : Rooted(t, migrated)
  BY <1>1 DEF Rooted
<1>4. Grounded(migrated \cup {b})
  BY <1>3, GroundedGrows DEF IInv
<1>5. Grounded(migrated')
  BY <1>2, <1>4 DEF IInv
<1>6. /\ todo' = todo \ {b}
      /\ UNCHANGED <<destination, step, pending, declared>>
  BY DEF Copy
<1> QED
  BY <1>5, <1>6 DEF IInv, Passes, Made

LEMMA GatherKeeps == ASSUME IInv, NEW b \in todo, Gather(b) PROVE IInv'
<1>1. /\ step = "gather" /\ step' = step
      /\ UNCHANGED <<destination, migrated>>
  BY DEF Gather
<1>2. \/ pending' = pending
      \/ b \notin Derived /\ pending' = pending \cup ({b} \cap Derived)
      \/ b \in Derived /\ Needs[b] # {} /\ pending' = pending \cup ({b} \cap Derived)
  BY DEF Gather
<1>3. declared' = declared \/ declared' = declared \cup ({b} \cap Catalog)
  BY DEF Gather
<1>4. Passes'
  BY <1>1, <1>2, <1>3 DEF IInv, Passes
<1> QED
  BY <1>1, <1>4 DEF IInv, Made

\* A batch adds blocks that have evidence, all of it migrated.
LEMMA BatchKeeps == ASSUME IInv, Batch PROVE IInv'
<1>1. /\ migrated' = migrated \cup Ready /\ pending' = pending \ Ready
      /\ step = "gather" /\ UNCHANGED <<destination, step, todo, declared>>
  BY DEF Batch
<1>2. \A b \in Ready : Rooted(b, migrated)
  BY <1>1 DEF Ready, Rooted, IInv, Passes
<1>3. Grounded(migrated \cup Ready)
  BY <1>2, GroundedGrows DEF IInv
<1> QED
  BY <1>1, <1>3 DEF IInv, Passes, Made

\* Of what may be validated, a declaration is if what it names is.
LEMMA ValidatedIs ==
    ASSUME NEW refused, declared \subseteq Catalog
    PROVE  /\ Validated(refused) \subseteq Placeable \ refused
           /\ \A d \in Placeable \ refused :
                 d \in Validated(refused) <=> Needs[d] \cap Catalog \subseteq Validated(refused)
<1> DEFINE Allowed == Placeable \ refused
           V1 == Admitted(Schemes, refused, {})
           V2 == Admitted(Classes, refused, V1)
           V3 == Admitted(Hierarchies, refused, V2)
           V == Admitted(Placements, refused, V3)
<1>1. Validated(refused) = V
  BY DEF Validated
<1>2. V1 = {d \in Allowed \cap Schemes : Needs[d] \cap Catalog \subseteq {}}
  BY DEF Admitted
<1>3. V2 = V1 \cup {d \in Allowed \cap Classes : Needs[d] \cap Catalog \subseteq V1}
  BY DEF Admitted
<1>4. V3 = V2 \cup {d \in Allowed \cap Hierarchies : Needs[d] \cap Catalog \subseteq V2}
  BY DEF Admitted
<1>5. V = V3 \cup {d \in Allowed \cap Placements : Needs[d] \cap Catalog \subseteq V3}
  BY DEF Admitted
<1>6. Allowed \subseteq Catalog
  BY DEF Placeable
<1>7. /\ \A d \in Schemes : Needs[d] = {}
      /\ \A d \in Classes : Needs[d] \cap Catalog \subseteq Schemes
      /\ \A d \in Hierarchies \cup Placements : Needs[d] \cap Catalog \subseteq Classes
  BY MigrationAssumption, KindsApart
<1> HIDE DEF Allowed, V1, V2, V3, V
<1>8. V1 \subseteq Allowed \cap Schemes /\ V \cap Schemes = V1
  BY <1>2, <1>3, <1>4, <1>5, KindsApart
<1>9. V \cap (Schemes \cup Classes) = V2 /\ V2 \subseteq V3 /\ V3 \subseteq V
  BY <1>2, <1>3, <1>4, <1>5, KindsApart
<1>10. V3 \ V2 \subseteq Hierarchies
  BY <1>4
<1>11. V \subseteq Allowed
  BY <1>2, <1>3, <1>4, <1>5
<1>12. ASSUME NEW d \in Allowed
       PROVE  d \in V <=> Needs[d] \cap Catalog \subseteq V
  <2>1. CASE d \in Schemes
    BY <1>2, <1>7, <1>8, <2>1
  <2>2. CASE d \in Classes
    BY <1>3, <1>7, <1>8, <1>9, <2>2, KindsApart
  <2>3. CASE d \in Hierarchies
    <3>1. Needs[d] \cap Catalog \subseteq V <=> Needs[d] \cap Catalog \subseteq V2
      BY <1>7, <1>9, <2>3
    <3>2. d \in V <=> d \in V3
      BY <1>5, <1>9, <2>3, KindsApart
    <3>3. d \in V3 <=> Needs[d] \cap Catalog \subseteq V2
      BY <1>4, <1>9, <2>3, KindsApart
    <3> QED
      BY <3>1, <3>2, <3>3
  <2>4. CASE d \in Placements
    <3>1. Needs[d] \cap Catalog \subseteq V <=> Needs[d] \cap Catalog \subseteq V3
      BY <1>7, <1>9, <2>4
    <3>2. d \notin V3
      BY <1>9, <1>10, <2>4, KindsApart
    <3> QED
      BY <1>5, <2>4, <3>1, <3>2
  <2> QED
    BY <1>6, <2>1, <2>2, <2>3, <2>4, KindsApart
<1> QED
  BY <1>1, <1>11, <1>12 DEF Allowed

\* The catalogue adds declarations kind after kind, each when what it names and
\* the source of a placement are there.
LEMMA ClassifyKeeps == ASSUME IInv, Classify PROVE IInv'
<1>1. PICK refused \in SUBSET Placeable : migrated' = migrated \cup Validated(refused)
  BY DEF Classify
<1>2. /\ declared' = {} /\ step = "catalog" /\ step' = "rename"
      /\ UNCHANGED <<destination, todo, pending>>
  BY DEF Classify
<1> DEFINE V == Validated(refused)
<1>3. /\ declared \subseteq Catalog /\ V \subseteq declared
      /\ \A d \in V : Needs[d] \cap Catalog \subseteq V
      /\ \A d \in V \cap Placements : Needs[d] \cap Canonical \subseteq migrated
  <2>1. declared \subseteq Catalog
    BY DEF IInv, Passes
  <2>2. V \subseteq Placeable /\ \A d \in V : Needs[d] \cap Catalog \subseteq V
    BY <2>1, ValidatedIs
  <2> QED
    BY <2>1, <2>2 DEF Placeable
<1> HIDE DEF V
<1>4. Grounded(migrated \cup (V \cap Schemes))
  <2>1. \A s \in V \cap Schemes : Rooted(s, migrated)
    BY MigrationAssumption DEF Rooted
  <2> QED
    BY <2>1, GroundedGrows DEF IInv
<1> DEFINE M1 == migrated \cup (V \cap Schemes)
           M2 == M1 \cup (V \cap Classes)
<1>5. Grounded(M2)
  <2>1. \A l \in V \cap Classes : Rooted(l, M1)
    BY <1>3, MigrationAssumption, KindsApart DEF Rooted
  <2>2. Grounded(M1)
    BY <1>4
  <2> HIDE DEF M1
  <2> QED
    BY <2>1, <2>2, GroundedGrows
<1>6. Grounded(M2 \cup (V \cap (Hierarchies \cup Placements)))
  <2>1. \A h \in V \cap Hierarchies : Rooted(h, M2)
    BY <1>3, MigrationAssumption, KindsApart DEF Rooted
  <2>2. \A p \in V \cap Placements : Rooted(p, M2)
    BY <1>3, MigrationAssumption, KindsApart DEF Rooted
  <2>3. \A b \in V \cap (Hierarchies \cup Placements) : Rooted(b, M2)
    BY <2>1, <2>2
  <2> HIDE DEF M2
  <2> QED
    BY <1>5, <2>3, GroundedGrows
<1>7. migrated' = M2 \cup (V \cap (Hierarchies \cup Placements))
  BY <1>1, <1>3, KindsApart DEF V
<1>8. Grounded(migrated')
  BY <1>6, <1>7
<1> QED
  BY <1>2, <1>8 DEF IInv, Passes, Made

LEMMA RenameKeeps == ASSUME IInv, Rename PROVE IInv'
<1>1. /\ destination'.holds = migrated /\ step = "rename" /\ step' = "done"
      /\ UNCHANGED <<todo, pending, declared, migrated>>
  BY DEF Rename, work
<1> QED
  BY <1>1 DEF IInv, Passes, Made

\* The steps between the passes, failures, and what happens meanwhile.
LEMMA OthersKeep ==
    ASSUME IInv,
           \/ \E allowed \in BOOLEAN : Plan(allowed)
           \/ \E seen \in {plan.of \ plan.excluded, Accessible} : Open(seen)
           \/ Gathers \/ NoMore \/ Fail
           \/ \E b \in Blocks : Redact(b) \/ Withdraw(b) \/ Add(b)
           \/ \E by \in {"empty", "other"} : Occupy(by)
           \/ UNCHANGED vars
    PROVE  IInv'
<1>1. CASE \E allowed \in BOOLEAN : Plan(allowed)
  BY <1>1 DEF Plan, IInv, Passes, Made
<1>2. CASE \E seen \in {plan.of \ plan.excluded, Accessible} : Open(seen)
  BY <1>2 DEF Open, source, IInv, Passes, Made
<1>3. CASE Gathers
  BY <1>3 DEF Gathers, source, IInv, Passes, Made
<1>4. CASE NoMore
  BY <1>4 DEF NoMore, source, IInv, Passes, Made
<1>5. CASE Fail
  <2>1. Grounded({})
    BY DEF Grounded
  <2> QED
    BY <1>5, <2>1 DEF Fail, IInv, Passes, Made
<1>6. CASE \E b \in Blocks : Redact(b) \/ Withdraw(b) \/ Add(b)
  BY <1>6 DEF Redact, Withdraw, Add, Change, work, IInv, Passes, Made
<1>7. CASE \E by \in {"empty", "other"} : Occupy(by)
  <2>1. destination'.by # "migration" /\ UNCHANGED <<step, todo, pending, declared, migrated>>
    BY <1>7 DEF Occupy, Unused, work
  <2> QED
    BY <2>1 DEF IInv, Passes, Made
<1>8. CASE UNCHANGED vars
  BY <1>8 DEF vars, work, IInv, Passes, Made
<1> QED
  BY <1>1, <1>2, <1>3, <1>4, <1>5, <1>6, <1>7, <1>8

\* What a destination that a migration has made holds can be made one after
\* another from what is there: no block without all of its evidence, no class
\* without its scheme, no placement without its source and class, and nothing
\* that rests on itself, whatever was redacted, failed, refused or killed on the
\* way (migrate: ready, eligible_catalog, ordered_catalog).
THEOREM DestinationIsGrounded == Spec => []Made
<1>1. IInv /\ [Next]_vars => IInv'
  BY CopyKeeps, GatherKeeps, BatchKeeps, ClassifyKeeps, RenameKeeps, OthersKeep
  DEF Next
<1>2. IInv => Made
  BY DEF IInv
<1> QED
  BY InitHolds, <1>1, <1>2, PTL DEF Spec

----------------------------------------------------------------------------
(* The report *)

Active == {"canonical", "gather", "catalog", "rename", "done"}
Types ==
    /\ step \in {"idle", "planned"} \cup Active
    /\ held \subseteq Blocks /\ migrated \subseteq Blocks
    /\ faulted \in BOOLEAN /\ overtaken \subseteq Blocks

\* What the plan means to copy.
Planned == plan.of \ (plan.excluded \cup plan.problems)

\* The plan refuses what it cannot copy, and what it means to copy rests on
\* evidence it means to copy.
PlanIsSound ==
    step # "idle" =>
        /\ plan.excluded \cup plan.problems \subseteq skipped
        /\ plan.of \subseteq Blocks
        /\ \A b \in Planned \cap Derived : Needs[b] # {}
        /\ \A p \in Planned \cap Placements : Needs[p] \cap Canonical \subseteq Planned
        /\ ~partial => plan.problems = {}

\* What the source still is as it was planned, but for what overtook the plan.
SourceAsPlanned ==
    step # "idle" =>
        /\ held \ plan.of \subseteq overtaken
        /\ plan.of \subseteq held /\ plan.excluded \subseteq withdrawn
        /\ (plan.of \cap withdrawn) \ plan.excluded \subseteq overtaken
        /\ Planned \cap gone \subseteq overtaken

\* The passes lose no planned block and take none twice.
Looked == todo \cup pending \cup declared
PassesAccount ==
    step \in Active =>
        /\ Planned \subseteq migrated \cup skipped \cup Looked \cup overtaken
        /\ Looked \cap (plan.excluded \cup migrated) = {}
        /\ Looked \cap skipped \subseteq plan.problems
        /\ migrated \cap skipped = {}
        /\ Looked \subseteq (plan.of \ plan.excluded) \cup overtaken
PassesInTurn ==
    /\ step \in {"idle", "planned"} => migrated = {}
    /\ step = "planned" => skipped = plan.excluded \cup plan.problems
    /\ step = "canonical" => migrated \subseteq Canonical
    /\ step = "gather" => /\ todo \subseteq Derived \cup Catalog
                          /\ todo \cap (pending \cup declared) = {}
                          /\ (pending \cup declared) \cap plan.problems = {}
    /\ step \in {"gather", "catalog"} => migrated \subseteq Canonical \cup Derived
    /\ step = "catalog" => /\ todo = {} /\ pending = {}
                           /\ declared \cap plan.problems = {}
    /\ step \in {"rename", "done"} => Looked = {}
WholeIsWhole ==
    step # "idle" /\ ~partial =>
        /\ step \in {"planned", "canonical", "gather", "catalog"} =>
              skipped = plan.excluded
        /\ skipped \subseteq plan.excluded \cup Rests(overtaken)
Delivered == step = "done" => destination.holds = migrated

RInv == /\ IInv /\ Types
        /\ PlanIsSound /\ SourceAsPlanned
        /\ PassesAccount /\ PassesInTurn
        /\ WholeIsWhole /\ Delivered


\* What rests on more blocks is more, and is what names one of them.
LEMMA RestsGrows ==
    ASSUME NEW some, NEW others, some \subseteq others
    PROVE  Rests(some) \subseteq Rests(others)
BY DEF Rests

LEMMA RestsHolds ==
    ASSUME NEW some, NEW b \in Blocks, b \in some \/ Needs[b] \cap some # {}
    PROVE  b \in Rests(some)
BY DEF Rests

\* The least closed set is closed, rests on itself, and is in every other one.
LEMMA ReproducibleIsLeast ==
    ASSUME NEW blocks \in SUBSET Blocks
    PROVE  /\ Reproducible(blocks) \subseteq blocks \cap (Canonical \cup Derived)
           /\ ClosedIn(blocks, Reproducible(blocks))
           /\ \A b \in Reproducible(blocks) \cap Derived :
                 Needs[b] # {} /\ Needs[b] \subseteq Reproducible(blocks)
           /\ \A set \in SUBSET blocks :
                 ClosedIn(blocks, set) => Reproducible(blocks) \subseteq set
<1> DEFINE R == Reproducible(blocks)
<1>1. \A set \in SUBSET blocks : ClosedIn(blocks, set) => R \subseteq set
  BY DEF Reproducible
<1>2. R \subseteq blocks
  BY DEF Reproducible
<1>3. ClosedIn(blocks, R)
  <2>1. blocks \cap Canonical \subseteq R
    BY DEF Reproducible, ClosedIn
  <2>2. ASSUME NEW b \in blocks \cap Derived, Needs[b] # {}, Needs[b] \subseteq R
        PROVE  b \in R
    <3>1. ASSUME NEW set \in SUBSET blocks, ClosedIn(blocks, set) PROVE b \in set
      <4>1. Needs[b] \subseteq set
        BY <1>1, <2>2, <3>1
      <4> QED
        BY <2>2, <3>1, <4>1 DEF ClosedIn
    <3> QED
      BY <3>1 DEF Reproducible
  <2> QED
    BY <2>1, <2>2 DEF ClosedIn
<1> DEFINE kept == {b \in R : b \in Canonical
                      \/ (b \in Derived /\ Needs[b] # {} /\ Needs[b] \subseteq R)}
<1>4. kept \in SUBSET blocks /\ kept \subseteq R
  BY <1>2
<1>5. ClosedIn(blocks, kept)
  <2>1. blocks \cap Canonical \subseteq kept
    BY <1>3 DEF ClosedIn
  <2>2. ASSUME NEW b \in blocks \cap Derived, Needs[b] # {}, Needs[b] \subseteq kept
        PROVE  b \in kept
    <3>1. Needs[b] \subseteq R
      BY <1>4, <2>2
    <3>2. b \in R
      BY <1>3, <2>2, <3>1 DEF ClosedIn
    <3> QED
      BY <2>2, <3>1, <3>2
  <2> QED
    BY <2>1, <2>2 DEF ClosedIn
<1>6. R \subseteq kept
  BY <1>1, <1>4, <1>5
<1>7. \A b \in R \cap Derived : Needs[b] # {} /\ Needs[b] \subseteq R
  BY <1>6, KindsApart
<1> HIDE DEF kept
<1>8. R \subseteq Canonical \cup Derived
  BY <1>6 DEF kept
<1> HIDE DEF R
<1> QED
  BY <1>1, <1>2, <1>3, <1>7, <1>8 DEF R

\* What an inventory finds to copy.
Copyable == Inventory.of \ (Inventory.excluded \cup Inventory.problems)
Readable == Accessible \ gone
LEMMA InventoryIs ==
    ASSUME held \subseteq Blocks
    PROVE  /\ Inventory.of = held /\ Inventory.excluded = held \cap withdrawn
           /\ Inventory.problems \subseteq Accessible
           /\ Copyable \subseteq Readable
           /\ Readable \cap (Canonical \cup (Catalog \ Placements)) \subseteq Copyable
           /\ Reproducible(Readable) \subseteq Copyable
           /\ Copyable \cap (Canonical \cup Derived) \subseteq Reproducible(Readable)
           /\ \A p \in Readable \cap Placements :
                 p \in Copyable
                 <=> Needs[p] \cap Canonical \subseteq Reproducible(Readable)
<1> DEFINE R == Reproducible(Readable)
           P == (Accessible \cap gone) \cup ((Readable \cap Derived) \ R)
                \cup {p \in Readable \cap Placements :
                         ~(Needs[p] \cap Canonical \subseteq R)}
<1>1. /\ Inventory.of = held /\ Inventory.excluded = held \cap withdrawn
      /\ Inventory.problems = P
  BY DEF Inventory, Readable
<1>2. Readable \in SUBSET Blocks /\ Readable = (held \ withdrawn) \ gone
  BY DEF Readable, Accessible
<1>3. R \subseteq Readable \cap (Canonical \cup Derived)
  BY <1>2, ReproducibleIsLeast
<1>4. Readable \cap Canonical \subseteq R
  BY <1>2, ReproducibleIsLeast DEF ClosedIn
<1> HIDE DEF R
<1>5. Copyable = held \ ((held \cap withdrawn) \cup P)
  BY <1>1 DEF Copyable
<1>6. P \subseteq Accessible /\ Accessible = held \ withdrawn
  BY <1>2 DEF Accessible
<1>7. Copyable \subseteq Readable
  BY <1>2, <1>5, <1>6
<1>8. Readable \cap (Canonical \cup (Catalog \ Placements)) \subseteq Copyable
  BY <1>2, <1>5, KindsApart
<1>9. R \subseteq Copyable
  BY <1>2, <1>3, <1>5, KindsApart
<1>10. Copyable \cap (Canonical \cup Derived) \subseteq R
  BY <1>4, <1>5, <1>7
<1>11. \A p \in Readable \cap Placements :
          p \in Copyable <=> Needs[p] \cap Canonical \subseteq R
  BY <1>2, <1>5, KindsApart
<1> HIDE DEF P
<1> QED
  BY <1>1, <1>6, <1>7, <1>8, <1>9, <1>10, <1>11 DEF R

LEMMA InitRInv == Init => RInv
<1> SUFFICES ASSUME Init PROVE RInv
  OBVIOUS
<1>1. IInv
  BY InitHolds
<1>2. Types
  BY MigrationAssumption DEF Init, Types
<1>3. PlanIsSound /\ SourceAsPlanned /\ PassesAccount /\ PassesInTurn
  BY DEF Init, PlanIsSound, SourceAsPlanned, PassesAccount, PassesInTurn, Active
<1>4. WholeIsWhole /\ Delivered
  BY DEF Init, WholeIsWhole, Delivered
<1> QED
  BY <1>1, <1>2, <1>3, <1>4 DEF RInv

\* The plan accounts for every block of the composition it looked at.
LEMMA PlanReports ==
    ASSUME RInv, NEW allowed \in BOOLEAN, Plan(allowed)
    PROVE  RInv'
<1> USE DEF RInv
<1>0. IInv'
  BY OthersKeep
<1>1. /\ held \subseteq Blocks /\ step = "idle" /\ migrated = {}
      /\ faulted \in BOOLEAN
  BY DEF Types, PassesInTurn, Plan
<1>2. /\ plan' = Inventory /\ partial' = allowed /\ step' = "planned"
      /\ skipped' = plan'.problems \cup plan'.excluded /\ overtaken' = {}
      /\ Inventory.problems = {} \/ allowed
      /\ UNCHANGED <<held, withdrawn, gone, migrated, faulted>>
  BY DEF Plan
<1>3. /\ plan'.of = held /\ plan'.excluded = held \cap withdrawn
      /\ Planned' = Copyable /\ Copyable \subseteq Readable
      /\ Copyable \cap (Canonical \cup Derived) \subseteq Reproducible(Readable)
      /\ Reproducible(Readable) \subseteq Copyable
      /\ \A p \in Readable \cap Placements :
            p \in Copyable <=> Needs[p] \cap Canonical \subseteq Reproducible(Readable)
  BY <1>1, <1>2, InventoryIs DEF Planned, Copyable
<1>4. \A b \in Reproducible(Readable) \cap Derived : Needs[b] # {}
  <2>1. Readable \in SUBSET Blocks
    BY <1>1 DEF Readable, Accessible
  <2> QED
    BY <2>1, ReproducibleIsLeast
<1>5. PlanIsSound'
  <2>1. plan'.excluded \cup plan'.problems \subseteq skipped' /\ plan'.of \subseteq Blocks
    BY <1>1, <1>2, <1>3
  <2>2. \A b \in Planned' \cap Derived : Needs[b] # {}
    BY <1>3, <1>4
  <2>3. \A p \in Planned' \cap Placements : Needs[p] \cap Canonical \subseteq Planned'
    BY <1>3
  <2>4. ~partial' => plan'.problems = {}
    BY <1>2
  <2> QED
    BY <2>1, <2>2, <2>3, <2>4 DEF PlanIsSound
<1>6. SourceAsPlanned'
  BY <1>2, <1>3 DEF SourceAsPlanned, Readable
<1>7. Types' /\ PassesAccount' /\ PassesInTurn' /\ Delivered'
  BY <1>1, <1>2 DEF Types, PassesAccount, PassesInTurn, Delivered, Active
<1>8. WholeIsWhole'
  BY <1>2 DEF WholeIsWhole
<1> QED
  BY <1>0, <1>5, <1>6, <1>7, <1>8

LEMMA OpenReports ==
    ASSUME RInv, NEW seen \in {plan.of \ plan.excluded, Accessible}, Open(seen)
    PROVE  RInv'
<1> USE DEF RInv
<1>0. IInv'
  BY OthersKeep
<1>1. /\ step = "planned" /\ step' = "canonical" /\ migrated = {}
      /\ skipped = plan.excluded \cup plan.problems
      /\ todo' = seen \cap Canonical /\ pending' = seen \cap Derived
      /\ declared' = seen \cap Catalog
      /\ UNCHANGED <<held, withdrawn, gone, overtaken, destination, partial,
                     plan, migrated, skipped, faulted>>
  BY DEF Open, source, PassesInTurn
<1>2. /\ held \subseteq Blocks /\ Accessible = held \ withdrawn
      /\ plan.of \subseteq held /\ held \ plan.of \subseteq overtaken
      /\ plan.excluded \subseteq withdrawn
      /\ (plan.of \cap withdrawn) \ plan.excluded \subseteq overtaken
  BY <1>1 DEF Types, SourceAsPlanned, Accessible
<1>3. seen \subseteq Blocks /\ Looked' = seen
  <2>1. seen \subseteq Blocks
    BY <1>2
  <2> QED
    BY <1>1, <2>1, KindsApart DEF Looked
<1>4. PassesAccount'
  <2>1. Planned \subseteq seen \cup overtaken
    BY <1>2 DEF Planned
  <2>2. seen \cap plan.excluded = {} \/ seen = plan.of \ plan.excluded
    BY <1>2
  <2>3. seen \subseteq (plan.of \ plan.excluded) \cup overtaken
    BY <1>2
  <2> QED
    BY <1>1, <1>3, <2>1, <2>2, <2>3 DEF PassesAccount, Planned
<1>5. PassesInTurn' /\ Types' /\ Delivered'
  BY <1>1 DEF PassesInTurn, Types, Delivered, Active
<1>6. PlanIsSound' /\ SourceAsPlanned' /\ WholeIsWhole'
  BY <1>1 DEF PlanIsSound, SourceAsPlanned, WholeIsWhole, Planned
<1> QED
  BY <1>0, <1>4, <1>5, <1>6

\* What a pass must show: that it loses no block and takes none twice.
LEMMA PassFrame ==
    ASSUME RInv, IInv', step \in Active, step # "done",
           step' \in Active, step' # "done",
           UNCHANGED <<held, withdrawn, gone, overtaken, partial, plan>>,
           faulted' \in BOOLEAN, migrated' \subseteq Blocks,
           skipped \subseteq skipped',
           PassesAccount', PassesInTurn', WholeIsWhole'
    PROVE  RInv'
<1>1. Types'
  BY DEF RInv, Types
<1>2. PlanIsSound' /\ SourceAsPlanned' /\ Delivered'
  BY DEF RInv, PlanIsSound, SourceAsPlanned, Delivered, Planned, Active
<1> QED
  BY <1>1, <1>2 DEF RInv

LEMMA CopyReports ==
    ASSUME RInv, NEW b \in todo, Copy(b)
    PROVE  RInv'
<1> USE DEF RInv
<1>0. IInv' /\ b \in Canonical /\ b \in Blocks
  BY CopyKeeps, KindsApart DEF Copy, Passes, IInv
<1>1. /\ step = "canonical" /\ step' = step /\ todo' = todo \ {b}
      /\ UNCHANGED <<held, withdrawn, gone, overtaken, partial, plan,
                     pending, declared>>
  BY DEF Copy, source
<1>2. /\ pending \subseteq Derived /\ declared \subseteq Catalog
      /\ migrated \subseteq Canonical /\ migrated \subseteq Blocks
      /\ faulted \in BOOLEAN
  BY <1>1 DEF IInv, Passes, PassesInTurn, Types
<1>3. Looked = Looked' \cup {b} /\ b \notin Looked'
  BY <1>0, <1>1, <1>2, KindsApart DEF Looked
<1>4. /\ Planned \subseteq migrated \cup skipped \cup Looked \cup overtaken
      /\ Looked \cap (plan.excluded \cup migrated) = {}
      /\ Looked \cap skipped \subseteq plan.problems
      /\ migrated \cap skipped = {}
      /\ Looked \subseteq (plan.of \ plan.excluded) \cup overtaken
      /\ Planned' = Planned
  BY <1>1 DEF PassesAccount, Active, Planned
<1>5. CASE PassedOver(b) /\ UNCHANGED <<migrated, skipped, faulted>>
  <2>1. b \in Planned => b \in overtaken
    BY <1>1, <1>5 DEF PassedOver, SourceAsPlanned, Planned
  <2>2. PassesAccount'
    BY <1>1, <1>3, <1>4, <1>5, <2>1 DEF PassesAccount
  <2>3. PassesInTurn' /\ WholeIsWhole'
    BY <1>1, <1>2, <1>5 DEF PassesInTurn, WholeIsWhole
  <2> QED
    BY <1>0, <1>1, <1>2, <1>5, <2>2, <2>3, PassFrame DEF Active
<1>6. CASE Copied(b)
  <2>1. /\ migrated' = migrated \cup {b} /\ UNCHANGED <<skipped, faulted>>
        /\ b \notin plan.problems
    BY <1>6 DEF Copied, PassedOver
  <2>2. PassesAccount'
    BY <1>1, <1>3, <1>4, <2>1 DEF PassesAccount
  <2>3. PassesInTurn' /\ WholeIsWhole'
    BY <1>0, <1>1, <1>2, <2>1 DEF PassesInTurn, WholeIsWhole
  <2> QED
    BY <1>0, <1>1, <1>2, <2>1, <2>2, <2>3, PassFrame DEF Active
<1>7. CASE NotCopied(b)
  <2>1. /\ skipped' = skipped \cup {b} /\ migrated' = migrated
        /\ faulted' = TRUE /\ partial
    BY <1>7 DEF NotCopied, Skip
  <2>2. PassesAccount'
    BY <1>1, <1>3, <1>4, <2>1 DEF PassesAccount
  <2>3. PassesInTurn' /\ WholeIsWhole'
    BY <1>1, <1>2, <2>1 DEF PassesInTurn, WholeIsWhole
  <2> QED
    BY <1>0, <1>1, <1>2, <2>1, <2>2, <2>3, PassFrame DEF Active
<1> QED
  BY <1>5, <1>6, <1>7 DEF Copy

LEMMA GathersReports ==
    ASSUME RInv, Gathers
    PROVE  RInv'
<1> USE DEF RInv
<1>0. IInv'
  BY OthersKeep
<1>1. /\ step = "canonical" /\ step' = "gather" /\ todo = {}
      /\ todo' = pending \cup declared /\ pending' = {} /\ declared' = {}
      /\ UNCHANGED <<held, withdrawn, gone, overtaken, partial, plan,
                     migrated, skipped, faulted>>
  BY DEF Gathers, source
<1>2. /\ pending \subseteq Derived /\ declared \subseteq Catalog
      /\ migrated \subseteq Canonical /\ migrated \subseteq Blocks
      /\ faulted \in BOOLEAN
  BY <1>1 DEF IInv, Passes, PassesInTurn, Types
<1>3. Looked' = Looked
  BY <1>1 DEF Looked
<1>4. PassesAccount'
  BY <1>1, <1>3 DEF PassesAccount, Active, Planned
<1>5. PassesInTurn' /\ WholeIsWhole'
  BY <1>1, <1>2 DEF PassesInTurn, WholeIsWhole
<1> QED
  BY <1>0, <1>1, <1>2, <1>4, <1>5, PassFrame DEF Active

LEMMA GatherReports ==
    ASSUME RInv, NEW b \in todo, Gather(b)
    PROVE  RInv'
<1> USE DEF RInv
<1>0. IInv'
  BY GatherKeeps
<1>1. /\ step = "gather" /\ step' = step /\ todo' = todo \ {b}
      /\ UNCHANGED <<held, withdrawn, gone, overtaken, partial, plan, migrated>>
  BY DEF Gather, source
<1>2. /\ todo \subseteq Derived \cup Catalog
      /\ todo \cap (pending \cup declared) = {}
      /\ (pending \cup declared) \cap plan.problems = {}
      /\ migrated \subseteq Canonical \cup Derived /\ migrated \subseteq Blocks
      /\ faulted \in BOOLEAN
  BY <1>1 DEF PassesInTurn, Types
<1>3. /\ Planned \subseteq migrated \cup skipped \cup Looked \cup overtaken
      /\ Looked \cap (plan.excluded \cup migrated) = {}
      /\ Looked \cap skipped \subseteq plan.problems
      /\ migrated \cap skipped = {}
      /\ Looked \subseteq (plan.of \ plan.excluded) \cup overtaken
      /\ Planned' = Planned
  BY <1>1 DEF PassesAccount, Active, Planned
<1>4. CASE /\ PassedOver(b) \/ (b \in Derived /\ Needs[b] = {})
           /\ UNCHANGED <<pending, declared, skipped, faulted>>
  <2>1. b \in Planned => b \in overtaken
    BY <1>1, <1>4 DEF PassedOver, SourceAsPlanned, PlanIsSound, Planned
  <2>2. Looked = Looked' \cup {b} /\ b \notin Looked'
    BY <1>1, <1>2, <1>4 DEF Looked
  <2>3. PassesAccount'
    BY <1>1, <1>3, <1>4, <2>1, <2>2 DEF PassesAccount
  <2>4. PassesInTurn' /\ WholeIsWhole'
    BY <1>1, <1>2, <1>4 DEF PassesInTurn, WholeIsWhole
  <2> QED
    BY <1>0, <1>1, <1>2, <1>4, <2>3, <2>4, PassFrame DEF Active
<1>5. CASE /\ ~PassedOver(b)
           /\ pending' = pending \cup ({b} \cap Derived)
           /\ declared' = declared \cup ({b} \cap Catalog)
           /\ UNCHANGED <<skipped, faulted>>
  <2>1. Looked' = Looked
    BY <1>1, <1>2, <1>5 DEF Looked
  <2>2. PassesAccount'
    BY <1>1, <1>3, <1>5, <2>1 DEF PassesAccount
  <2>3. PassesInTurn'
    BY <1>1, <1>2, <1>5 DEF PassesInTurn, PassedOver
  <2>4. WholeIsWhole'
    BY <1>1, <1>5 DEF WholeIsWhole
  <2> QED
    BY <1>0, <1>1, <1>2, <1>5, <2>2, <2>3, <2>4, PassFrame DEF Active
<1>6. CASE /\ b \in Derived /\ Skip({b}) /\ faulted' = TRUE
           /\ UNCHANGED <<pending, declared>>
  <2>1. skipped' = skipped \cup {b} /\ partial
    BY <1>6 DEF Skip
  <2>2. Looked = Looked' \cup {b} /\ b \notin Looked'
    BY <1>1, <1>2, <1>6 DEF Looked
  <2>3. PassesAccount'
    BY <1>1, <1>3, <1>6, <2>1, <2>2 DEF PassesAccount
  <2>4. PassesInTurn' /\ WholeIsWhole'
    BY <1>1, <1>2, <1>6, <2>1 DEF PassesInTurn, WholeIsWhole
  <2> QED
    BY <1>0, <1>1, <1>2, <1>6, <2>1, <2>3, <2>4, PassFrame DEF Active
<1> QED
  BY <1>4, <1>5, <1>6 DEF Gather

LEMMA BatchReports ==
    ASSUME RInv, Batch
    PROVE  RInv'
<1> USE DEF RInv
<1>0. IInv'
  BY BatchKeeps
<1>1. /\ step = "gather" /\ step' = step /\ todo = {} /\ todo' = todo
      /\ migrated' = migrated \cup Ready /\ pending' = pending \ Ready
      /\ UNCHANGED <<held, withdrawn, gone, overtaken, partial, plan,
                     declared, skipped, faulted>>
  BY DEF Batch, source
<1>2. /\ Ready \subseteq pending /\ pending \subseteq Derived
      /\ declared \subseteq Catalog /\ pending \cap plan.problems = {}
      /\ migrated \subseteq Canonical \cup Derived
      /\ faulted \in BOOLEAN
  BY <1>1 DEF Ready, IInv, Passes, PassesInTurn, Types
<1>3. Looked' \cup Ready = Looked /\ Looked' \cap Ready = {}
  BY <1>1, <1>2, KindsApart DEF Looked
<1>4. PassesAccount'
  BY <1>1, <1>2, <1>3 DEF PassesAccount, Active, Planned
<1>5. PassesInTurn'
  BY <1>1, <1>2 DEF PassesInTurn
<1>6. WholeIsWhole' /\ migrated' \subseteq Blocks
  BY <1>1, <1>2, KindsApart DEF WholeIsWhole
<1> QED
  BY <1>0, <1>1, <1>2, <1>4, <1>5, <1>6, PassFrame DEF Active

LEMMA NoMoreReports ==
    ASSUME RInv, NoMore
    PROVE  RInv'
<1> USE DEF RInv
<1>0. IInv'
  BY OthersKeep
<1>1. /\ step = "gather" /\ step' = "catalog" /\ todo = {} /\ todo' = todo
      /\ skipped' = skipped \cup pending
      /\ pending = {} \/ partial
      /\ pending' = {}
      /\ UNCHANGED <<held, withdrawn, gone, overtaken, partial, plan,
                     declared, migrated, faulted>>
  BY DEF NoMore, Skip, source
<1>2. /\ pending \subseteq Derived /\ declared \subseteq Catalog
      /\ declared \cap plan.problems = {}
      /\ migrated \subseteq Canonical \cup Derived
      /\ migrated \subseteq Blocks /\ faulted \in BOOLEAN
  BY <1>1 DEF IInv, Passes, PassesInTurn, Types
<1>3. Looked' \cup pending = Looked /\ Looked' \cap pending = {}
  BY <1>1, <1>2, KindsApart DEF Looked
<1>4. pending \subseteq Looked
  BY DEF Looked
<1>5. PassesAccount'
  BY <1>1, <1>2, <1>3, <1>4 DEF PassesAccount, Active, Planned
<1>6. PassesInTurn'
  BY <1>1, <1>2 DEF PassesInTurn
<1>7. WholeIsWhole'
  BY <1>1 DEF WholeIsWhole
<1> QED
  BY <1>0, <1>1, <1>2, <1>5, <1>6, <1>7, PassFrame DEF Active

\* Without --allow-partial, a placement is left out only when its source was
\* changed after the plan.
LEMMA ClassifyReports ==
    ASSUME RInv, Classify
    PROVE  RInv'
<1> USE DEF RInv
<1>0. IInv'
  BY ClassifyKeeps
<1>a. PICK refused \in SUBSET Placeable :
          /\ Validated(refused) = Placeable \/ partial
          /\ migrated' = migrated \cup Validated(refused)
          /\ skipped' = skipped \cup (declared \ Validated(refused))
          /\ faulted' = (faulted \/ refused # {})
  BY DEF Classify
<1> DEFINE V == Validated(refused)
<1>1. /\ step = "catalog" /\ step' = "rename"
      /\ V = Placeable \/ partial
      /\ migrated' = migrated \cup V
      /\ skipped' = skipped \cup (declared \ V)
      /\ declared' = {} /\ UNCHANGED <<todo, pending>>
      /\ UNCHANGED <<held, withdrawn, gone, overtaken, partial, plan>>
      /\ faulted' \in BOOLEAN
  BY <1>a DEF Classify, source
<1>b. V \subseteq declared
  BY ValidatedIs DEF IInv, Passes, Placeable
<1> HIDE DEF V
<1>2. /\ todo = {} /\ pending = {} /\ declared \subseteq Catalog
      /\ declared \cap plan.problems = {} /\ V \subseteq declared
      /\ migrated \subseteq Canonical \cup Derived
      /\ migrated \subseteq Blocks
  BY <1>1, <1>b DEF IInv, Passes, PassesInTurn, Types
<1>3. Looked = declared /\ Looked' = {}
  BY <1>1, <1>2 DEF Looked
<1>4. /\ Planned \subseteq migrated \cup skipped \cup declared \cup overtaken
      /\ declared \cap (plan.excluded \cup migrated) = {}
      /\ declared \cap skipped = {}
      /\ migrated \cap skipped = {}
      /\ declared \subseteq (plan.of \ plan.excluded) \cup overtaken
      /\ Planned' = Planned
  BY <1>1, <1>2, <1>3 DEF PassesAccount, Active, Planned
<1>5. PassesAccount'
  BY <1>1, <1>2, <1>3, <1>4 DEF PassesAccount
<1>6. PassesInTurn'
  BY <1>1, <1>3 DEF PassesInTurn
<1>7. ASSUME ~partial, NEW d \in declared, d \notin Placeable
      PROVE  d \in Rests(overtaken)
  <2>1. d \in Placements /\ d \in Blocks
    BY <1>2, <1>7, KindsApart DEF Placeable
  <2>2. PICK c \in Needs[d] \cap Canonical : c \notin migrated
    BY <1>7 DEF Placeable
  <2>3. d \in Planned => c \in Planned
    BY <1>1, <2>1, <2>2 DEF PlanIsSound
  <2>4. plan.problems = {} /\ skipped = plan.excluded
    BY <1>1, <1>7 DEF PlanIsSound, WholeIsWhole
  <2>5. d \in Planned \/ d \in overtaken
    BY <1>4, <2>4 DEF Planned
  <2>6. c \notin declared
    BY <1>2, <2>2, KindsApart
  <2>7. c \in Planned => c \in overtaken
    BY <1>4, <2>2, <2>4, <2>6 DEF Planned
  <2>8. d \in overtaken \/ Needs[d] \cap overtaken # {}
    BY <2>2, <2>3, <2>5, <2>7
  <2> QED
    BY <2>1, <2>8, RestsHolds
<1>8. WholeIsWhole'
  <2>1. Rests(overtaken)' = Rests(overtaken)
    BY <1>1 DEF Rests
  <2> QED
    BY <1>1, <1>7, <2>1 DEF WholeIsWhole
<1>9. migrated' \subseteq Blocks
  BY <1>1, <1>2, KindsApart
<1> QED
  BY <1>0, <1>1, <1>2, <1>5, <1>6, <1>8, <1>9, PassFrame DEF Active

LEMMA RenameReports ==
    ASSUME RInv, Rename
    PROVE  RInv'
<1> USE DEF RInv
<1>0. IInv'
  BY RenameKeeps
<1>1. /\ step = "rename" /\ step' = "done" /\ destination'.holds = migrated
      /\ UNCHANGED <<held, withdrawn, gone, overtaken, partial, plan, todo,
                     pending, declared, migrated, skipped, faulted>>
  BY DEF Rename, source, work
<1>2. Looked' = Looked /\ Planned' = Planned /\ Rests(overtaken)' = Rests(overtaken)
  BY <1>1 DEF Looked, Planned, Rests
<1>3. PassesAccount' /\ PassesInTurn' /\ Delivered'
  BY <1>1, <1>2 DEF PassesAccount, PassesInTurn, Delivered, Active
<1>4. PlanIsSound' /\ SourceAsPlanned' /\ WholeIsWhole' /\ Types'
  BY <1>1, <1>2 DEF PlanIsSound, SourceAsPlanned, WholeIsWhole, Types, Active
<1> QED
  BY <1>0, <1>3, <1>4

LEMMA FailReports ==
    ASSUME RInv, Fail
    PROVE  RInv'
<1> USE DEF RInv
<1>0. IInv'
  BY OthersKeep
<1>1. /\ step' = "idle" /\ migrated' = {} /\ faulted' = FALSE /\ overtaken' = {}
      /\ UNCHANGED held
  BY DEF Fail
<1>2. Types' /\ PassesInTurn' /\ PassesAccount' /\ Delivered'
  BY <1>1 DEF Types, PassesInTurn, PassesAccount, Delivered, Active
<1> QED
  BY <1>0, <1>1, <1>2 DEF PlanIsSound, SourceAsPlanned, WholeIsWhole

\* What changes in the source overtakes the plan.
LEMMA ChangeReports ==
    ASSUME RInv, NEW b \in Blocks, Redact(b) \/ Withdraw(b) \/ Add(b)
    PROVE  RInv'
<1> USE DEF RInv
<1>0. IInv'
  BY OthersKeep
<1>1. /\ held \subseteq held' /\ held' \subseteq held \cup {b}
      /\ withdrawn \subseteq withdrawn' /\ withdrawn' \subseteq withdrawn \cup {b}
      /\ gone' \subseteq gone \cup {b}
      /\ overtaken' = IF step = "idle" THEN {} ELSE overtaken \cup {b}
      /\ UNCHANGED <<destination, step, partial, plan, todo, pending, declared,
                     migrated, skipped, faulted>>
  BY DEF Redact, Withdraw, Add, Change, work
<1>2. Planned' = Planned /\ Looked' = Looked
  BY <1>1 DEF Planned, Looked
<1>3. Types' /\ PlanIsSound' /\ PassesInTurn' /\ Delivered'
  BY <1>1, <1>2 DEF Types, PlanIsSound, PassesInTurn, Delivered
<1>4. SourceAsPlanned'
  BY <1>1, <1>2 DEF SourceAsPlanned
<1>5. PassesAccount'
  BY <1>1, <1>2 DEF PassesAccount, Active
<1>6. WholeIsWhole'
  <2>1. step # "idle" => Rests(overtaken) \subseteq Rests(overtaken')
    BY <1>1, RestsGrows
  <2>2. Rests(overtaken)' = Rests(overtaken')
    BY DEF Rests
  <2> QED
    BY <1>1, <2>1, <2>2 DEF WholeIsWhole
<1> QED
  BY <1>0, <1>3, <1>4, <1>5, <1>6

LEMMA OccupyReports ==
    ASSUME RInv, \/ \E by \in {"empty", "other"} : Occupy(by)
                 \/ UNCHANGED vars
    PROVE  RInv'
<1> USE DEF RInv
<1>0. IInv'
  BY OthersKeep
<1>1. /\ destination'.holds = destination.holds
      /\ UNCHANGED <<held, withdrawn, gone, overtaken, step, partial, plan, todo,
                     pending, declared, migrated, skipped, faulted>>
  BY DEF Occupy, Unused, source, work, vars
<1>2. Looked' = Looked /\ Planned' = Planned /\ Rests(overtaken)' = Rests(overtaken)
  BY <1>1 DEF Looked, Planned, Rests
<1>3. PassesAccount' /\ PassesInTurn' /\ Delivered'
  BY <1>1, <1>2 DEF PassesAccount, PassesInTurn, Delivered
<1>4. PlanIsSound' /\ SourceAsPlanned' /\ WholeIsWhole' /\ Types'
  BY <1>1, <1>2 DEF PlanIsSound, SourceAsPlanned, WholeIsWhole, Types
<1> QED
  BY <1>0, <1>3, <1>4

THEOREM NextRInv == RInv /\ [Next]_vars => RInv'
BY PlanReports, OpenReports, CopyReports, GathersReports, GatherReports,
   BatchReports, NoMoreReports, ClassifyReports, RenameReports, FailReports,
   ChangeReports, OccupyReports DEF Next

\* Whatever is redacted, withdrawn, added or killed, the report of a finished
\* migration accounts for the composition it planned: every block is preserved
\* or listed, none is both, and a whole migration skips nothing accessible but
\* what changed since the plan and what rests on that.
THEOREM ReportsHold == Spec => []ReportAccounts
<1>1. RInv => ReportAccounts
  <2> SUFFICES ASSUME RInv, step = "done" PROVE ReportAccounts
    BY DEF ReportAccounts
  <2>1. /\ destination.holds = migrated /\ Looked = {}
        /\ Planned \subseteq migrated \cup skipped \cup Looked \cup overtaken
        /\ migrated \cap skipped = {}
        /\ plan.excluded \cup plan.problems \subseteq skipped
        /\ ~partial => skipped \subseteq plan.excluded \cup Rests(overtaken)
    BY DEF RInv, Delivered, PassesInTurn, PassesAccount, PlanIsSound,
           WholeIsWhole, Active
  <2>2. plan.of \subseteq migrated \cup skipped \cup overtaken
    BY <2>1 DEF Planned
  <2> QED
    BY <2>1, <2>2 DEF ReportAccounts
<1> QED
  BY InitRInv, NextRInv, <1>1, PTL DEF Spec
----------------------------------------------------------------------------
(* The recreation *)

Undisturbed == overtaken = {} /\ ~faulted /\ step # "idle"
\* With nothing disturbed, the plan is still the inventory and the passes copy
\* all of it.
PlanStands == Undisturbed => plan = Inventory
PassesComplete ==
    Undisturbed =>
        /\ step \in {"canonical", "gather", "catalog"} =>
              /\ migrated \subseteq Planned
              /\ skipped \cap Planned = {}
        /\ step \in {"gather", "catalog"} =>
              pending \cup declared \subseteq Planned
        /\ step = "rename" => migrated = Recreating!Makeable(Readable)
UInv == RInv /\ PlanStands /\ PassesComplete

\* While nothing is disturbed, a step finds and leaves the plan as it was.
LEMMA StandsStill ==
    ASSUME UNCHANGED <<source, plan>>, overtaken' = {} => step # "idle",
           ~faulted' => ~faulted, PlanStands
    PROVE  /\ PlanStands' /\ Planned' = Planned /\ Readable' = Readable
           /\ Undisturbed' => Undisturbed
           /\ Recreating!Makeable(Readable)' = Recreating!Makeable(Readable)
<1>1. Inventory' = Inventory
  BY DEF source, Inventory, Accessible, Reproducible, ClosedIn
<1>2. Planned' = Planned /\ Readable' = Readable
  BY DEF source, Planned, Readable, Accessible
<1>3. Recreating!Makeable(Readable)' = Recreating!Makeable(Readable)
  BY <1>2 DEF Recreating!Makeable, Recreating!HasMakeable
<1>4. Undisturbed' => Undisturbed
  BY DEF source, Undisturbed
<1> QED
  BY <1>1, <1>2, <1>3, <1>4 DEF PlanStands

\* What an undisturbed plan means to copy.
LEMMA PlannedIs ==
    ASSUME RInv, PlanStands, Undisturbed
    PROVE  /\ Planned \subseteq Readable /\ Readable \in SUBSET Blocks
           /\ Readable \cap (Canonical \cup (Catalog \ Placements)) \subseteq Planned
           /\ Reproducible(Readable) \subseteq Planned
           /\ Planned \cap (Canonical \cup Derived) \subseteq Reproducible(Readable)
           /\ \A p \in Readable \cap Placements :
                 p \in Planned
                 <=> Needs[p] \cap Canonical \subseteq Reproducible(Readable)
<1>1. held \subseteq Blocks /\ plan = Inventory
  BY DEF RInv, Types, PlanStands
<1>2. Planned = Copyable /\ Readable \in SUBSET Blocks
  BY <1>1 DEF Planned, Copyable, Readable, Accessible
<1> QED
  BY <1>1, <1>2, InventoryIs

\* When no more is ready, nothing that was planned is left: what was migrated
\* is closed, so all that is reproducible is in it.
LEMMA NothingLeft ==
    ASSUME UInv, Undisturbed, step = "gather", todo = {}, Ready = {}
    PROVE  pending = {}
<1>1. RInv /\ PlanStands /\ PassesComplete /\ IInv
  BY DEF UInv, RInv
<1>2. /\ migrated \subseteq Planned /\ skipped \cap Planned = {}
      /\ pending \subseteq Planned /\ overtaken = {}
  BY <1>1 DEF PassesComplete, Undisturbed
<1>3. /\ migrated \subseteq Canonical \cup Derived
      /\ pending \subseteq Derived /\ declared \subseteq Catalog
  BY <1>1 DEF RInv, IInv, Passes, PassesInTurn
<1>4. /\ Planned \subseteq migrated \cup pending \cup declared
      /\ pending \cap migrated = {}
  BY <1>1, <1>2 DEF RInv, PassesAccount, Looked, Active
<1>5. /\ Planned \subseteq Readable /\ Readable \in SUBSET Blocks
      /\ Readable \cap (Canonical \cup (Catalog \ Placements)) \subseteq Planned
      /\ Reproducible(Readable) \subseteq Planned
      /\ Planned \cap (Canonical \cup Derived) \subseteq Reproducible(Readable)
  BY <1>1, PlannedIs
<1> DEFINE R == Reproducible(Readable)
<1>6. ClosedIn(Readable, R)
  BY <1>5, ReproducibleIsLeast
<1> HIDE DEF R
<1>7. ClosedIn(Readable, migrated)
  <2>1. Readable \cap Canonical \subseteq migrated
    BY <1>3, <1>4, <1>5, KindsApart
  <2>2. ASSUME NEW b \in Readable \cap Derived, Needs[b] # {},
               Needs[b] \subseteq migrated
        PROVE  b \in migrated
    <3>1. migrated \subseteq R
      BY <1>2, <1>3, <1>5 DEF R
    <3>2. b \in R
      BY <1>6, <2>2, <3>1 DEF ClosedIn
    <3>3. b \in Planned
      BY <1>5, <3>2 DEF R
    <3>4. b \notin pending
      BY <2>2 DEF Ready
    <3> QED
      BY <1>3, <1>4, <2>2, <3>3, <3>4, KindsApart
  <2> QED
    BY <2>1, <2>2 DEF ClosedIn
<1>8. R \subseteq migrated
  <2>1. migrated \in SUBSET Readable
    BY <1>2, <1>5
  <2> QED
    BY <1>5, <1>7, <2>1, ReproducibleIsLeast DEF R
<1> QED
  BY <1>2, <1>3, <1>4, <1>5, <1>8 DEF R

LEMMA GroundedIsMakeable ==
    ASSUME NEW blocks, Grounded(blocks)
    PROVE  /\ Recreating!Makeable(blocks) = blocks
           /\ \A whole : blocks \subseteq whole =>
                 blocks \subseteq Recreating!Makeable(whole)
<1>1. ASSUME NEW whole, blocks \subseteq whole,
             NEW set \in SUBSET whole, Recreating!HasMakeable(set, whole)
      PROVE  blocks \subseteq set
  <2>1. \A b \in blocks : Rooted(b, set \cap blocks) => b \in set \cap blocks
    BY <1>1 DEF Rooted, Recreating!HasMakeable
  <2> QED
    BY <2>1 DEF Grounded
<1>2. ASSUME NEW whole, blocks \subseteq whole
      PROVE  blocks \subseteq Recreating!Makeable(whole)
  BY <1>1, <1>2 DEF Recreating!Makeable
<1>3. Recreating!Makeable(blocks) \subseteq blocks
  BY DEF Recreating!Makeable
<1> QED
  BY <1>2, <1>3

\* An undisturbed migration classifies the rest of what can be made: what the
\* passes and the catalogue have made has all that can be made from it.
LEMMA ClassifyIsWhole ==
    ASSUME UInv, Undisturbed, Classify, ~faulted'
    PROVE  migrated' = Recreating!Makeable(Readable)
<1>1. RInv /\ PlanStands /\ PassesComplete /\ IInv
  BY DEF UInv, RInv
<1>2. PICK refused \in SUBSET Placeable :
         /\ migrated' = migrated \cup Validated(refused)
         /\ faulted' = (faulted \/ refused # {})
  BY DEF Classify
<1> DEFINE V == Validated(refused)
<1>3. step = "catalog" /\ migrated' = migrated \cup V
  BY <1>2 DEF Classify
<1>4. /\ migrated \subseteq Planned /\ skipped \cap Planned = {}
      /\ declared \subseteq Planned /\ overtaken = {}
  BY <1>1, <1>3 DEF PassesComplete, Undisturbed
<1>5. /\ migrated \subseteq Canonical \cup Derived /\ declared \subseteq Catalog
      /\ todo = {} /\ pending = {}
  BY <1>1, <1>3 DEF RInv, IInv, Passes, PassesInTurn
<1>6. /\ V \subseteq Placeable
      /\ \A d \in Placeable : Needs[d] \cap Catalog \subseteq V => d \in V
  BY <1>2, <1>5, ValidatedIs
<1> HIDE DEF V
<1>7. Planned \subseteq migrated \cup declared
  BY <1>1, <1>3, <1>4, <1>5 DEF RInv, PassesAccount, Looked, Active
<1>8. /\ Planned \subseteq Readable /\ Readable \in SUBSET Blocks
      /\ Readable \cap (Canonical \cup (Catalog \ Placements)) \subseteq Planned
      /\ Reproducible(Readable) \subseteq Planned
      /\ Planned \cap (Canonical \cup Derived) \subseteq Reproducible(Readable)
      /\ \A p \in Readable \cap Placements :
            p \in Planned
            <=> Needs[p] \cap Canonical \subseteq Reproducible(Readable)
  BY <1>1, PlannedIs
<1> DEFINE R == Reproducible(Readable)
<1>9. ClosedIn(Readable, R) /\ R \subseteq Canonical \cup Derived
  BY <1>8, ReproducibleIsLeast
<1>10. R \subseteq Planned /\ Planned \cap (Canonical \cup Derived) \subseteq R
  BY <1>8
<1>11. \A p \in Readable \cap Placements : Needs[p] \cap Canonical \subseteq R => p \in Planned
  BY <1>8
<1> HIDE DEF R
<1>12. migrated = R
  BY <1>4, <1>5, <1>7, <1>9, <1>10, KindsApart
<1>13. V \subseteq declared
  BY <1>6 DEF Placeable
<1>14. migrated' \in SUBSET Readable
  BY <1>3, <1>4, <1>8, <1>13
<1>15. ASSUME NEW b \in Readable, Rooted(b, migrated') PROVE b \in migrated'
  <2>1. b \in Blocks
    BY <1>8
  <2>2. CASE b \in Canonical
    BY <1>3, <1>9, <1>12, <2>2 DEF ClosedIn
  <2>3. CASE b \in Derived
    <3>1. Needs[b] # {} /\ Needs[b] \subseteq Canonical \cup Derived
      BY <1>15, <2>3, KindsApart, MigrationAssumption DEF Rooted
    <3>2. Needs[b] \subseteq R
      BY <1>3, <1>5, <1>12, <1>13, <1>15, <3>1, KindsApart DEF Rooted
    <3>3. b \in R
      BY <1>9, <2>3, <3>1, <3>2 DEF ClosedIn
    <3> QED
      BY <1>3, <1>12, <3>3
  <2>4. CASE b \in Catalog
    <3>1. Needs[b] \cap Catalog \subseteq V /\ Needs[b] \cap Canonical \subseteq R
      BY <1>3, <1>5, <1>12, <1>13, <1>15, KindsApart DEF Rooted
    <3>2. b \in Planned
      BY <1>8, <1>11, <2>4, <3>1
    <3>3. b \in declared
      BY <1>5, <1>7, <2>4, <3>2, KindsApart
    <3>4. b \in Placeable
      BY <1>12, <3>1, <3>3 DEF Placeable
    <3> QED
      BY <1>3, <1>6, <3>1, <3>4
  <2> QED
    BY <2>1, <2>2, <2>3, <2>4, KindsApart
<1>16. Recreating!HasMakeable(migrated', Readable)
  BY <1>15 DEF Recreating!HasMakeable, Rooted
<1>17. Recreating!Makeable(Readable) \subseteq migrated'
  BY <1>14, <1>16 DEF Recreating!Makeable
<1>18. Grounded(migrated')
  BY <1>1, ClassifyKeeps DEF IInv
<1>19. migrated' \subseteq Recreating!Makeable(Readable)
  BY <1>14, <1>18, GroundedIsMakeable
<1> QED
  BY <1>17, <1>19

LEMMA InitUInv == Init => UInv
BY InitRInv DEF Init, UInv, PlanStands, PassesComplete, Undisturbed

\* The passes of an undisturbed migration complete what was planned.
LEMMA PassesStay ==
    ASSUME UInv, \/ \E b \in todo : Copy(b) \/ Gather(b)
                 \/ Gathers \/ Batch \/ NoMore \/ Classify
    PROVE  PlanStands' /\ PassesComplete'
<1>1. RInv /\ PlanStands /\ PassesComplete /\ IInv
  BY DEF UInv, RInv
<1>2. /\ UNCHANGED <<source, plan>> /\ step # "idle" /\ step' # "idle"
      /\ ~faulted' => ~faulted
  <2>1. ASSUME NEW b \in todo, Copy(b)
        PROVE  /\ UNCHANGED <<source, plan>> /\ step # "idle" /\ step' # "idle"
               /\ ~faulted' => ~faulted
    BY <2>1 DEF Copy, Copied, NotCopied
  <2>2. ASSUME NEW b \in todo, Gather(b)
        PROVE  /\ UNCHANGED <<source, plan>> /\ step # "idle" /\ step' # "idle"
               /\ ~faulted' => ~faulted
    BY <2>2 DEF Gather
  <2>3. Gathers \/ Batch \/ NoMore =>
          /\ UNCHANGED <<source, plan>> /\ step # "idle" /\ step' # "idle"
          /\ ~faulted' => ~faulted
    BY DEF Gathers, Batch, NoMore
  <2>4. CASE Classify
    <3>1. PICK refused \in SUBSET Placeable :
             faulted' = (faulted \/ refused # {})
      BY <2>4 DEF Classify
    <3>2. UNCHANGED <<source, plan>> /\ step # "idle" /\ step' # "idle"
      BY <2>4 DEF Classify
    <3> QED
      BY <3>1, <3>2
  <2> QED
    BY <2>1, <2>2, <2>3, <2>4
<1>3. /\ PlanStands' /\ Planned' = Planned
      /\ Undisturbed' => Undisturbed
  BY <1>1, <1>2, StandsStill
<1> SUFFICES ASSUME Undisturbed, ~faulted'
             PROVE  PassesComplete'
  BY <1>3 DEF PassesComplete, Undisturbed
<1>4. Looked \subseteq plan.of \ plan.excluded
  <2>1. step \in Active /\ overtaken = {}
    BY DEF Copy, Gather, Gathers, Batch, NoMore, Classify, Active, Undisturbed
  <2> QED
    BY <1>1, <2>1 DEF RInv, PassesAccount
<1>5. ASSUME NEW b \in todo, Copy(b) PROVE PassesComplete'
  <2>1. /\ step = "canonical" /\ step' = step /\ b \in Looked
        /\ migrated' = migrated \/ (~PassedOver(b) /\ migrated' = migrated \cup {b})
        /\ skipped' = skipped
    BY <1>5 DEF Copy, Copied, NotCopied, Looked
  <2> QED
    BY <1>1, <1>3, <1>4, <2>1 DEF PassesComplete, PassedOver, Planned
<1>6. ASSUME NEW b \in todo, Gather(b) PROVE PassesComplete'
  <2>1. /\ step = "gather" /\ step' = step /\ b \in Looked
        /\ UNCHANGED <<migrated, skipped>>
    BY <1>6 DEF Gather, Looked
  <2>2. \/ UNCHANGED <<pending, declared>>
        \/ /\ ~PassedOver(b) /\ pending' \subseteq pending \cup {b}
           /\ declared' \subseteq declared \cup {b}
    BY <1>6 DEF Gather
  <2> QED
    BY <1>1, <1>3, <1>4, <2>1, <2>2 DEF PassesComplete, PassedOver, Planned
<1>7. CASE Gathers
  BY <1>1, <1>3, <1>7 DEF Gathers, PassesComplete
<1>8. CASE Batch
  BY <1>1, <1>3, <1>8 DEF Batch, Ready, PassesComplete
<1>9. CASE NoMore
  <2>1. pending = {}
    BY <1>9, NothingLeft DEF NoMore
  <2> QED
    BY <1>1, <1>3, <1>9, <2>1 DEF NoMore, PassesComplete
<1>10. CASE Classify
  <2>1. /\ migrated' = Recreating!Makeable(Readable)
        /\ Recreating!Makeable(Readable)' = Recreating!Makeable(Readable)
    BY <1>1, <1>2, <1>10, ClassifyIsWhole, StandsStill
  <2>2. step' = "rename"
    BY <1>10 DEF Classify
  <2> QED
    BY <2>1, <2>2 DEF PassesComplete
<1> QED
  BY <1>5, <1>6, <1>7, <1>8, <1>9, <1>10

\* The other steps leave what was passed as it is, or disturb it.
LEMMA OthersStay ==
    ASSUME UInv,
           \/ \E allowed \in BOOLEAN : Plan(allowed)
           \/ \E seen \in {plan.of \ plan.excluded, Accessible} : Open(seen)
           \/ Rename \/ Fail
           \/ \E b \in Blocks : Redact(b) \/ Withdraw(b) \/ Add(b)
           \/ \E by \in {"empty", "other"} : Occupy(by)
           \/ UNCHANGED vars
    PROVE  PlanStands' /\ PassesComplete'
<1>1. RInv /\ PlanStands /\ PassesComplete
  BY DEF UInv
<1>2. CASE \E allowed \in BOOLEAN : Plan(allowed)
  <2>1. plan' = Inventory /\ step' = "planned" /\ UNCHANGED <<held, withdrawn, gone>>
    BY <1>2 DEF Plan
  <2>2. Inventory' = Inventory
    BY <2>1 DEF Inventory, Accessible, Reproducible, ClosedIn
  <2> QED
    BY <2>1, <2>2 DEF PlanStands, PassesComplete
<1>3. CASE \E seen \in {plan.of \ plan.excluded, Accessible} : Open(seen)
  <2>1. /\ UNCHANGED <<source, plan, migrated, skipped, faulted>>
        /\ step = "planned" /\ step' = "canonical"
    BY <1>3 DEF Open
  <2>2. PlanStands' /\ Planned' = Planned
    BY <1>1, <2>1, StandsStill
  <2>3. migrated = {} /\ skipped = plan.excluded \cup plan.problems
    BY <1>1, <2>1 DEF RInv, PassesInTurn
  <2> QED
    BY <2>1, <2>2, <2>3 DEF PassesComplete, Planned
<1>4. CASE Rename
  <2>1. UNCHANGED <<source, work>> /\ step = "rename" /\ step' = "done"
    BY <1>4 DEF Rename
  <2>2. PlanStands'
    BY <1>1, <2>1, StandsStill DEF work
  <2> QED
    BY <2>1, <2>2 DEF PassesComplete
<1>5. CASE Fail
  BY <1>5 DEF Fail, PlanStands, PassesComplete, Undisturbed
<1>6. CASE \E b \in Blocks : Redact(b) \/ Withdraw(b) \/ Add(b)
  <2>1. step' = step /\ (step = "idle" \/ overtaken' # {})
    BY <1>6 DEF Redact, Withdraw, Add, Change
  <2> QED
    BY <2>1 DEF PlanStands, PassesComplete, Undisturbed
<1>7. CASE \/ \E by \in {"empty", "other"} : Occupy(by)
           \/ UNCHANGED vars
  <2>1. UNCHANGED <<source, step, work>>
    BY <1>7 DEF Occupy, vars
  <2>2. CASE step = "idle"
    BY <2>1, <2>2 DEF PlanStands, PassesComplete, Undisturbed
  <2>3. CASE step # "idle"
    <3>1. /\ PlanStands' /\ Planned' = Planned
          /\ Undisturbed' => Undisturbed
          /\ Recreating!Makeable(Readable)' = Recreating!Makeable(Readable)
      BY <1>1, <2>1, <2>3, StandsStill DEF work
    <3> QED
      BY <1>1, <2>1, <3>1 DEF PassesComplete, work
  <2> QED
    BY <2>2, <2>3
<1> QED
  BY <1>2, <1>3, <1>4, <1>5, <1>6, <1>7

THEOREM NextUInv == UInv /\ [Next]_vars => UInv'
<1> SUFFICES ASSUME UInv, [Next]_vars PROVE UInv'
  OBVIOUS
<1>1. RInv'
  BY NextRInv DEF UInv
<1>2. PlanStands' /\ PassesComplete'
  BY PassesStay, OthersStay DEF Next
<1> QED
  BY <1>1, <1>2 DEF UInv

\* Every step of a migration is a step of a recreation, or none: only the
\* rename makes the destination, of blocks that rest on what is there, and of
\* all that could be recreated if nothing was disturbed.
LEMMA StepRecreates ==
    ASSUME UInv, UInv', [Next]_vars
    PROVE  [Recreating!SourceChanges \/ Recreating!Occupied
            \/ Recreating!Recreate]_(Recreating!vars)
<1>1. /\ RInv /\ PassesComplete /\ IInv /\ held \subseteq Blocks
      /\ migrated \subseteq Blocks
  BY DEF UInv, RInv, Types
<1>2. /\ (Accessible \ gone)' \in SUBSET Blocks
      /\ (faulted \/ overtaken # {})' \in BOOLEAN
  BY DEF UInv, RInv, Types, Accessible
<1>3. CASE Rename
  <2>1. /\ step = "rename" /\ destination.by \in {"nobody", "empty"}
        /\ destination' = [by |-> "migration", holds |-> migrated]
        /\ UNCHANGED <<source, work>>
    BY <1>3 DEF Rename
  <2>2. Recreating!Makeable(destination'.holds) = destination'.holds
    BY <1>1, <2>1, GroundedIsMakeable DEF IInv
  <2>3. ~(faulted \/ overtaken # {})
        => destination'.holds = Recreating!Makeable(Accessible \ gone)
    BY <1>1, <2>1 DEF PassesComplete, Undisturbed, Readable
  <2>4. /\ (Accessible \ gone)' = Accessible \ gone
        /\ (faulted \/ overtaken # {})' = (faulted \/ overtaken # {})
    BY <2>1 DEF source, work, Accessible
  <2>5. destination' \in [by : {"migration"}, holds : SUBSET Blocks]
    BY <1>1, <2>1
  <2> QED
    BY <2>1, <2>2, <2>3, <2>4, <2>5 DEF Recreating!Recreate
<1>4. CASE \E by \in {"empty", "other"} : Occupy(by)
  <2>1. /\ destination = Unused
        /\ \E by \in {"empty", "other"} : destination' = [Unused EXCEPT !.by = by]
        /\ UNCHANGED <<source, work>>
    BY <1>4 DEF Occupy
  <2>2. /\ (Accessible \ gone)' = Accessible \ gone
        /\ (faulted \/ overtaken # {})' = (faulted \/ overtaken # {})
    BY <2>1 DEF source, work, Accessible
  <2>3. destination' \in [by : {"empty", "other"}, holds : {{}}]
    BY <2>1 DEF Unused
  <2>4. destination.by = "nobody"
    BY <2>1 DEF Unused
  <2> QED
    BY <2>2, <2>3, <2>4 DEF Recreating!Occupied
<1>5. CASE UNCHANGED destination
  BY <1>2, <1>5 DEF Recreating!SourceChanges
<1>6. ASSUME [Next]_vars, ~Rename, ~\E by \in {"empty", "other"} : Occupy(by)
      PROVE  UNCHANGED destination
  BY <1>6 DEF Next, Plan, Open, Copy, Gathers, Gather, Batch, NoMore, Classify,
              Fail, Redact, Withdraw, Add, Change, vars
<1> QED
  BY <1>3, <1>4, <1>5, <1>6

\* A migration implements the recreation that its documentation describes.
THEOREM MigrationRecreates == Spec => ImplementsRecreation
<1>1. Init => Recreating!Init
  <2> SUFFICES ASSUME Init PROVE Recreating!Init
    OBVIOUS
  <2>1. Accessible \ gone \in SUBSET Blocks
    BY InitRInv DEF RInv, Types, Accessible
  <2>2. (faulted \/ overtaken # {}) \in BOOLEAN
    BY DEF Init
  <2> QED
    BY <2>1, <2>2 DEF Init, Unused, Recreating!Init
<1> QED
  BY <1>1, InitUInv, NextUInv, StepRecreates, PTL
     DEF Spec, ImplementsRecreation, Recreating!Spec
=============================================================================
