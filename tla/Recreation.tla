------------------------------ MODULE Recreation ------------------------------
(***************************************************************************)
(* What migrating a brain promises (docs/brain/migrating-legacy-brains.mdx *)
(* as ops/migration.py keeps it): a destination comes into being in one    *)
(* step, where nothing was, of blocks that can be made one after another   *)
(* from what is there, and with all that can be recreated unless the       *)
(* source changed, or a block failed or was refused, on the way.           *)
(***************************************************************************)
CONSTANTS Blocks, Roots, Needs

VARIABLES
    available,    \* the blocks the source can give
    disturbed,    \* it changed, or a block failed or was refused, since they
                  \* were listed
    destination   \* who made it, and what it holds

vars == <<available, disturbed, destination>>

Init == available \in SUBSET Blocks /\ disturbed \in BOOLEAN
        /\ destination = [by |-> "nobody", holds |-> {}]

\* What of these blocks can be made from the roots among them, one after
\* another: the least set that has every block whose needs it has.
HasMakeable(set, blocks) ==
    \A b \in blocks :
        Needs[b] \subseteq set /\ (Needs[b] = {} => b \in Roots) => b \in set
Makeable(blocks) ==
    {b \in blocks : \A set \in SUBSET blocks : HasMakeable(set, blocks) => b \in set}

SourceChanges ==
    /\ available' \in SUBSET Blocks /\ disturbed' \in BOOLEAN
    /\ UNCHANGED destination
Occupied ==
    /\ destination.by = "nobody"
    /\ destination' \in [by : {"empty", "other"}, holds : {{}}]
    /\ UNCHANGED <<available, disturbed>>
Recreate ==
    /\ destination.by \in {"nobody", "empty"}
    /\ destination' \in [by : {"migration"}, holds : SUBSET Blocks]
    /\ Makeable(destination'.holds) = destination'.holds
    /\ ~disturbed => destination'.holds = Makeable(available)
    /\ UNCHANGED <<available, disturbed>>

Spec == Init /\ [][SourceChanges \/ Occupied \/ Recreate]_vars
=============================================================================
