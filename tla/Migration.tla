------------------------------ MODULE Migration ------------------------------
(***************************************************************************)
(* Recreating a brain under the current protocol (ops/migration.py): the   *)
(* plan, then canonical blocks one by one, derived blocks in batches after *)
(* their evidence, the catalogue last, all in a temporary directory that   *)
(* is renamed at the end.  The source is read without a lock, twice, and   *)
(* its bytes when they are copied, while others redact, withdraw and add.  *)
(*                                                                         *)
(* Content blobs count as part of their block.  What a block rests on is   *)
(* its evidence, as the provenance records and the block give it, or what  *)
(* a declaration names: a class its scheme, a hierarchy its classes, a     *)
(* placement its source and its class.  A scheme's name stands for one     *)
(* declaration of it.  The plan looks at every block at one moment.        *)
(* MaxChanges bounds the changes to the source.                            *)
(***************************************************************************)
EXTENDS Naturals

CONSTANTS
    Canonical, Derived,
    Schemes, Classes, Hierarchies, Placements,  \* declarations of the catalogue
    Needs,      \* what each block rests on
    Starts,     \* what the source may hold at first
    MaxChanges

Catalog == Schemes \cup Classes \cup Hierarchies \cup Placements
Blocks == Canonical \cup Derived \cup Catalog

ASSUME MigrationAssumption ==
    /\ Needs \in [Blocks -> SUBSET Blocks]
    /\ \A b \in Canonical \cup Schemes : Needs[b] = {}
    /\ \A d \in Derived : Needs[d] \subseteq Canonical \cup Derived
    /\ \A l \in Classes : Needs[l] # {} /\ Needs[l] \subseteq Schemes
    /\ \A h \in Hierarchies : Needs[h] # {} /\ Needs[h] \subseteq Classes
    /\ \A p \in Placements : /\ Needs[p] \subseteq Canonical \cup Classes
                             /\ Needs[p] \cap Canonical # {}
                             /\ Needs[p] \cap Classes # {}
    /\ Canonical \cap Derived = {} /\ (Canonical \cup Derived) \cap Catalog = {}
    /\ \A start \in Starts : start.held \subseteq Blocks
    /\ MaxChanges \in Nat

VARIABLES
    held,         \* the composition of the source's head
    withdrawn,    \* its blocks that are superseded
    gone,         \* the blocks whose bytes are not in the store
    destination,  \* who made it, and what it holds
    step,         \* where the migration is
    partial,      \* --allow-partial
    plan,         \* the composition that was planned, and the plan
    todo,         \* the blocks of this pass not looked at yet
    pending,      \* the derived blocks to commit
    declared,     \* the declarations to classify
    migrated, skipped,
    overtaken,    \* as history: the blocks that changed since the plan
    faulted,      \* as history: a block failed or was refused, and the
                  \* migration went on
    changes

source == <<held, withdrawn, gone, overtaken, changes>>
work == <<plan, todo, pending, declared, migrated, skipped, faulted>>
vars == <<source, destination, step, partial, work>>

Accessible == held \ withdrawn
NoPlan == [of |-> {}, problems |-> {}, excluded |-> {}]
Unused == [by |-> "nobody", holds |-> {}]
Init ==
    /\ \E start \in Starts : held = start.held /\ withdrawn = start.withdrawn
                             /\ gone = start.gone
    /\ overtaken = {} /\ changes = 0
    /\ destination = Unused /\ step = "idle" /\ partial = FALSE
    /\ plan = NoPlan /\ todo = {} /\ pending = {} /\ declared = {}
    /\ migrated = {} /\ skipped = {} /\ faulted = FALSE

----------------------------------------------------------------------------
(* The plan *)

\* The canonical blocks, and the derived ones all of whose evidence is among
\* them, pass after pass until a pass adds none: the least set of that kind.
ClosedIn(blocks, set) ==
    /\ blocks \cap Canonical \subseteq set
    /\ \A b \in blocks \cap Derived :
          Needs[b] # {} /\ Needs[b] \subseteq set => b \in set
Reproducible(blocks) ==
    {b \in blocks : \A set \in SUBSET blocks : ClosedIn(blocks, set) => b \in set}

Inventory ==
    LET readable == Accessible \ gone
        reproducible == Reproducible(readable)
    IN  [of |-> held,
         excluded |-> held \cap withdrawn,
         problems |-> (Accessible \cap gone)
            \cup ((readable \cap Derived) \ reproducible)
            \cup {p \in readable \cap Placements :
                    ~(Needs[p] \cap Canonical \subseteq reproducible)}]

\* plan_migration, and the refusals of migrate.
Plan(allowed) ==
    /\ step = "idle" /\ destination.by = "nobody"
    /\ Inventory.problems = {} \/ allowed
    /\ partial' = allowed /\ plan' = Inventory
    /\ skipped' = plan'.problems \cup plan'.excluded
    /\ overtaken' = {} /\ step' = "planned"
    /\ UNCHANGED <<held, withdrawn, gone, changes, destination, todo, pending,
                   declared, migrated, faulted>>

\* The source is opened again: the cached brain, or the head as it is now.
Open(seen) ==
    /\ step = "planned" /\ seen \in {plan.of \ plan.excluded, Accessible}
    /\ todo' = seen \cap Canonical
    /\ pending' = seen \cap Derived
    /\ declared' = seen \cap Catalog
    /\ step' = "canonical"
    /\ UNCHANGED <<source, destination, partial, plan, migrated, skipped, faulted>>

----------------------------------------------------------------------------
(* Copying *)

\* What is not in the store any more, and what the plan refused, is passed over.
PassedOver(b) == b \in gone \cup plan.problems

\* A block that fails is reported, and ends a migration that allows no part.
Skip(blocks) == partial /\ skipped' = skipped \cup blocks

Copied(b) == /\ ~PassedOver(b)
             /\ migrated' = migrated \cup {b} /\ UNCHANGED <<skipped, faulted>>
\* A preflight that fails or gives another identity, or a failed registration.
NotCopied(b) == /\ ~PassedOver(b)
                /\ Skip({b}) /\ faulted' = TRUE /\ UNCHANGED migrated

Copy(b) ==
    /\ step = "canonical" /\ b \in todo
    /\ \/ PassedOver(b) /\ UNCHANGED <<migrated, skipped, faulted>>
       \/ Copied(b) \/ NotCopied(b)
    /\ todo' = todo \ {b}
    /\ UNCHANGED <<source, destination, step, partial, plan, pending, declared>>

Gathers ==
    /\ step = "canonical" /\ todo = {}
    /\ todo' = pending \cup declared /\ pending' = {} /\ declared' = {}
    /\ step' = "gather"
    /\ UNCHANGED <<source, destination, partial, plan, migrated, skipped, faulted>>

\* A derived block is gathered with its content, a declaration as it is; a
\* derived block without evidence is passed over as well.
Gather(b) ==
    /\ step = "gather" /\ b \in todo
    /\ todo' = todo \ {b}
    /\ IF PassedOver(b) \/ (b \in Derived /\ Needs[b] = {})
       THEN UNCHANGED <<pending, declared, skipped, faulted>>
       ELSE \/ /\ pending' = pending \cup ({b} \cap Derived)
               /\ declared' = declared \cup ({b} \cap Catalog)
               /\ UNCHANGED <<skipped, faulted>>
            \/ /\ b \in Derived /\ Skip({b}) /\ faulted' = TRUE
               /\ UNCHANGED <<pending, declared>>
    /\ UNCHANGED <<source, destination, step, partial, plan, migrated>>

\* MUTANT of Ready: the evidence that was planned counts as there.
ReadyAsPlanned ==
    {b \in pending : Needs[b] \subseteq migrated \cup (plan.of \ plan.problems)}
Ready == {b \in pending : Needs[b] \subseteq migrated}

\* The blocks whose evidence has been migrated are committed together.
Batch ==
    /\ step = "gather" /\ todo = {} /\ Ready # {}
    /\ migrated' = migrated \cup Ready /\ pending' = pending \ Ready
    /\ UNCHANGED <<source, destination, step, partial, plan, todo, declared,
                   skipped, faulted>>

\* MUTANT of NoMore: what is left without its evidence is forgotten.
NoMoreForgetful ==
    /\ step = "gather" /\ todo = {} /\ Ready = {}
    /\ pending' = {} /\ step' = "catalog"
    /\ UNCHANGED <<source, destination, partial, plan, todo, declared, migrated,
                   skipped, faulted>>
NoMore ==
    /\ step = "gather" /\ todo = {} /\ Ready = {}
    /\ IF pending = {} THEN UNCHANGED skipped ELSE Skip(pending)
    /\ pending' = {} /\ step' = "catalog"
    /\ UNCHANGED <<source, destination, partial, plan, todo, declared, migrated,
                   faulted>>

\* Placements of what was not migrated are left out and reported, in any mode.
Placeable == {d \in declared : d \in Placements =>
                 Needs[d] \cap Canonical \subseteq migrated}

\* The rest is classified in one call, kind after kind.  A declaration is
\* validated if what it names in the catalogue was validated before it, unless
\* the catalogue refuses it by a rule of its own (an exclusive scheme, say).
Admitted(kind, refused, before) ==
    before \cup {d \in (Placeable \cap kind) \ refused :
                    Needs[d] \cap Catalog \subseteq before}
\* MUTANT of Validated: a name counts as there if it is in the call at all.
ValidatedTogether(refused) ==
    {d \in Placeable \ refused : Needs[d] \cap Catalog \subseteq Placeable}
Validated(refused) ==
    LET schemes == Admitted(Schemes, refused, {})
        classes == Admitted(Classes, refused, schemes)
        hierarchies == Admitted(Hierarchies, refused, classes)
    IN  Admitted(Placements, refused, hierarchies)
Classify ==
    /\ step = "catalog"
    /\ \E refused \in SUBSET Placeable :
          /\ Validated(refused) = Placeable \/ partial
          /\ migrated' = migrated \cup Validated(refused)
          /\ skipped' = skipped \cup (declared \ Validated(refused))
          /\ faulted' = (faulted \/ refused # {})
    /\ declared' = {} /\ step' = "rename"
    /\ UNCHANGED <<source, destination, partial, plan, todo, pending>>

\* MUTANT of Rename: whatever is at the destination is replaced.
RenameOver ==
    /\ step = "rename"
    /\ destination' = [by |-> "migration", holds |-> migrated]
    /\ step' = "done"
    /\ UNCHANGED <<source, partial, work>>
\* The work is signed and renamed, which an empty directory does not prevent.
Rename ==
    /\ step = "rename" /\ destination.by \in {"nobody", "empty"}
    /\ destination' = [by |-> "migration", holds |-> migrated]
    /\ step' = "done"
    /\ UNCHANGED <<source, partial, work>>

\* The command raises, from whatever it calls or by a refusal above, or is
\* killed: the temporary directory is all there was.
Fail ==
    /\ step \notin {"idle", "done"}
    /\ step' = "idle" /\ partial' = FALSE /\ overtaken' = {}
    /\ plan' = NoPlan /\ todo' = {} /\ pending' = {} /\ declared' = {}
    /\ migrated' = {} /\ skipped' = {} /\ faulted' = FALSE
    /\ UNCHANGED <<held, withdrawn, gone, changes, destination>>

----------------------------------------------------------------------------
(* Meanwhile *)

Change(b) ==
    /\ changes < MaxChanges /\ changes' = changes + 1
    /\ overtaken' = IF step = "idle" THEN {} ELSE overtaken \cup {b}
    /\ UNCHANGED <<destination, step, partial, work>>
Redact(b) == b \in held \ gone /\ gone' = gone \cup {b}
             /\ UNCHANGED <<held, withdrawn>> /\ Change(b)
Withdraw(b) == b \in Accessible /\ withdrawn' = withdrawn \cup {b}
               /\ UNCHANGED <<held, gone>> /\ Change(b)
Add(b) == b \notin held \cup gone /\ Needs[b] \subseteq held /\ held' = held \cup {b}
          /\ UNCHANGED <<withdrawn, gone>> /\ Change(b)

\* Somebody makes the destination after the plan found nothing there.
Occupy(by) ==
    /\ destination = Unused /\ destination' = [Unused EXCEPT !.by = by]
    /\ UNCHANGED <<source, step, partial, work>>

Next ==
    \/ \E allowed \in BOOLEAN : Plan(allowed)
    \/ \E seen \in {plan.of \ plan.excluded, Accessible} : Open(seen)
    \/ \E b \in todo : Copy(b) \/ Gather(b)
    \/ Gathers \/ Batch \/ NoMore \/ Classify \/ Rename \/ Fail
    \/ \E b \in Blocks : Redact(b) \/ Withdraw(b) \/ Add(b)
    \/ \E by \in {"empty", "other"} : Occupy(by)

Spec == Init /\ [][Next]_vars

----------------------------------------------------------------------------
(* What a migration promises *)

\* The report of a finished migration accounts for the composition it planned:
\* every block of it was preserved or is listed as skipped, none as both; and
\* without --allow-partial nothing accessible was skipped.  Blocks that changed
\* after the plan, and what rests on them, are excepted: they are passed over
\* without a word (migrate).
Rests(blocks) ==
    Blocks \ UNION {others \in SUBSET (Blocks \ blocks) :
                       \A b \in others : Needs[b] \subseteq others}
ReportAccounts ==
    step = "done" =>
        /\ destination.holds = migrated
        /\ plan.of \subseteq migrated \cup skipped \cup overtaken
        /\ migrated \cap skipped \subseteq overtaken
        /\ ~partial => skipped \subseteq plan.excluded \cup Rests(overtaken)

\* A migration is the recreation the documentation describes: a destination
\* appears at once, where nothing was, of blocks that rest on what is there,
\* and holds all that can be recreated when nothing changed, failed or was
\* refused.
Recreating == INSTANCE Recreation WITH
    available <- Accessible \ gone,
    disturbed <- faulted \/ overtaken # {},
    Roots <- Canonical \cup Schemes
ImplementsRecreation == Recreating!Spec
=============================================================================
