------------------------------ MODULE SqlTables ------------------------------
(***************************************************************************)
(* The tables SQL queries are answered from (packages/sql engine.py) and   *)
(* their erasure (runtime ops/sql.py, ops/retention.py): one module of one *)
(* brain, queries that project it or read a cached projection of it, and   *)
(* one retention operation at a time, which changes the brain inside the   *)
(* session's write and purges the directory of tables after it.            *)
(*                                                                         *)
(* A table is the composition it was built from and, of each block, its    *)
(* fields or a null row.  A block's identity is a number: tables are built *)
(* in identity order.  A purge, and the sweep of a query, list the names   *)
(* of the directory and then unlink them one by one.  MaxEvents bounds the *)
(* changes to the brain and the operations that are stopped or killed.     *)
(***************************************************************************)
EXTENDS Integers, FiniteSets, FiniteSetsExt, Functions

CONSTANTS Queries, Blocks, MaxEvents

\* The name of a table: its composition's root and the unreadable members.
Names == [root : SUBSET Blocks, unreadable : SUBSET Blocks]

\* The partial file of a query is named for the query, and for no table.
ASSUME TablesAssumption ==
    /\ Blocks \subseteq Nat /\ IsFiniteSet(Blocks)
    /\ Queries \cap Names = {}
    /\ MaxEvents \in Nat

VARIABLES
    members,  \* the module's composition
    held,     \* the blocks whose bytes the store can read
    removed,  \* history: what retention took and nobody has registered since
    disk,     \* the files of the table directory, partial ones included
    purge,    \* a retention operation is between its write and its purge
    doomed,   \* the files the purge has listed and not unlinked yet
    query,    \* each query
    events,
    killed    \* history: a process was killed

brain == <<members, held, removed>>
purging == <<purge, doomed>>
vars == <<brain, disk, purging, query, events, killed>>

Steps == {"idle", "opened", "found", "missed", "reading", "copied",
          "replaced", "answered"}

\* A table: the blocks it has fields of, the others being null rows.  History:
\* whether the store stayed the same from its being named to its being read,
\* and whether retention took something before it was in its place.
Tables == [fields : SUBSET Blocks, steady : BOOLEAN, overtaken : BOOLEAN]

Query == [step : Steps, name : Names, sees : SUBSET Blocks,
          readable : SUBSET Blocks, left : SUBSET Blocks, table : Tables,
          stale : SUBSET Names]
Idle == [step |-> "idle", name |-> [root |-> {}, unreadable |-> {}],
         sees |-> {}, readable |-> {}, left |-> {},
         table |-> [fields |-> {}, steady |-> TRUE, overtaken |-> FALSE],
         stale |-> {}]

Init ==
    /\ members = Blocks /\ held = Blocks /\ removed = {}
    /\ disk = << >> /\ purge = FALSE /\ doomed = {}
    /\ query = [q \in Queries |-> Idle]
    /\ events = 0 /\ killed = FALSE

----------------------------------------------------------------------------
(* The brain *)

Retains == ~purge /\ doomed = {} /\ purge' = TRUE

\* History: the store changes under the queries that have named their table,
\* and retention overtakes those that have not put theirs in its place: what
\* they are building, or the partial file they have written.
Steadied(q) ==
    /\ query[q].table.steady
    /\ query[q].step \in {"found", "missed", "reading"} => held' = held
Overtaken(q) ==
    \/ query[q].table.overtaken
    \/ query[q].step \in {"opened", "missed", "reading"} /\ Retains
OvertakenFile(f) == disk[f].overtaken \/ (f \in Queries /\ Retains)

Changed ==
    /\ events < MaxEvents /\ events' = events + 1
    /\ query' = [q \in Queries |->
                    [query[q] EXCEPT !.table.steady = Steadied(q),
                                     !.table.overtaken = Overtaken(q)]]
    /\ disk' = [f \in DOMAIN disk |->
                    [disk[f] EXCEPT !.overtaken = OvertakenFile(f)]]
    /\ UNCHANGED <<doomed, killed>>

\* A block is registered, a removed one perhaps again.
Register(b) ==
    /\ b \notin members \cap held
    /\ members' = members \cup {b} /\ held' = held \cup {b}
    /\ removed' = removed \ {b}
    /\ UNCHANGED purge
    /\ Changed

\* redact: the bytes go while the composition still names the block.
Redact(b) ==
    /\ Retains /\ b \in members \cap held
    /\ held' = held \ {b} /\ removed' = removed \cup {b}
    /\ Changed
    /\ UNCHANGED members

\* drop, drop_by_producer: the composition excludes the blocks.
Drop(b) ==
    /\ Retains /\ b \in members
    /\ members' = members \ {b} /\ removed' = removed \cup {b}
    /\ UNCHANGED held
    /\ Changed

\* prune with apply: what no retained root needs is reclaimed.
Prune ==
    /\ Retains
    /\ held' = held \cap members
    /\ Changed
    /\ UNCHANGED <<members, removed>>

----------------------------------------------------------------------------
(* purge_sql_cache, after the write *)

\* MUTANT of PurgeLists: only the tables of the present composition go.
PurgeListsPresent ==
    /\ purge /\ purge' = FALSE
    /\ doomed' = {f \in DOMAIN disk \ Queries : f.root = members}
    /\ UNCHANGED <<brain, disk, query, events, killed>>
\* Every file that is there is listed, one a query is writing included.
PurgeLists ==
    /\ purge /\ purge' = FALSE
    /\ doomed' = DOMAIN disk
    /\ UNCHANGED <<brain, disk, query, events, killed>>

\* They are unlinked by name, whatever has the name by then, if anything.
PurgeUnlinks(f) ==
    /\ doomed' = doomed \ {f}
    /\ disk' = Restrict(disk, DOMAIN disk \ {f})
    /\ UNCHANGED <<brain, purge, query, events, killed>>

Purge == PurgeLists \/ \E f \in doomed : PurgeUnlinks(f)

\* The process is killed before it has purged.
KillRetention ==
    /\ purge \/ doomed # {}
    /\ purge' = FALSE /\ doomed' = {}
    /\ events < MaxEvents /\ events' = events + 1
    /\ killed' = TRUE
    /\ UNCHANGED <<brain, disk, query>>

----------------------------------------------------------------------------
(* A query: SqlOps._sql_brain, SqlEngine._load, _rows, _persist *)

\* q goes on with its record as given, the directory left alone.
Goes(q, record) ==
    /\ query' = [query EXCEPT ![q] = record]
    /\ UNCHANGED <<brain, purging, events, killed>>
At(q, step) == [query[q] EXCEPT !.step = step]
\* The files, with one of them written.
Written(files, f, table) ==
    [g \in DOMAIN files \cup {f} |-> IF g = f THEN table ELSE files[g]]

\* The brain is opened: its modules keep the composition it has now.
Open(q) ==
    /\ query[q].step = "idle"
    /\ Goes(q, [At(q, "opened") EXCEPT !.name.root = members])
    /\ UNCHANGED disk

\* MUTANT of NameOf: a table is named for its root alone.
NameOfRoot(module) == [root |-> module, unreadable |-> {}]
\* _cache_key.
NameOf(module) == [root |-> module, unreadable |-> module \ held]

Look(q) ==
    /\ query[q].step = "opened"
    /\ LET name == NameOf(query[q].name.root) IN
       Goes(q, [At(q, IF name \in DOMAIN disk THEN "found" ELSE "missed")
                EXCEPT !.name = name, !.sees = name.root \cap held])
    /\ UNCHANGED disk

\* The table is copied from the file; steady if it and the query are.
ReadTable(q) ==
    LET name == query[q].name IN
    /\ query[q].step = "found" /\ name \in DOMAIN disk
    /\ Goes(q, [At(q, "answered") EXCEPT
            !.table.fields = disk[name].fields,
            !.table.steady = @ /\ disk[name].steady,
            !.table.overtaken = FALSE])
    /\ UNCHANGED disk

\* The file was there a moment ago.
TableGone(q) ==
    /\ query[q].step = "found" /\ query[q].name \notin DOMAIN disk
    /\ Goes(q, Idle)
    /\ UNCHANGED disk

\* _rows asks again what can be read, and then reads it in identity order.
Project(q) ==
    /\ query[q].step = "missed"
    /\ Goes(q, [At(q, "reading") EXCEPT !.left = query[q].name.root,
                                       !.readable = query[q].name.root \cap held])
    /\ UNCHANGED disk

Foremost(q) == Min(query[q].left)

ReadRow(q) ==
    LET b == Foremost(q) IN
    /\ query[q].step = "reading" /\ query[q].left # {}
    /\ b \in query[q].readable => b \in held
    /\ Goes(q, [query[q] EXCEPT
            !.left = @ \ {b},
            !.table.fields = @ \cup ({b} \cap query[q].readable)])
    /\ UNCHANGED disk

\* A block that was readable and cannot be read is a failure, never a null row.
RowFails(q) ==
    /\ query[q].step = "reading" /\ query[q].left # {}
    /\ Foremost(q) \in query[q].readable \ held
    /\ Goes(q, Idle)
    /\ UNCHANGED disk

\* _persist: to a partial file of its own, then in one step to its name.
CopyOut(q) ==
    /\ query[q].step = "reading" /\ query[q].left = {}
    /\ disk' = Written(disk, q, query[q].table)
    /\ Goes(q, [At(q, "copied") EXCEPT !.readable = {}, !.table.overtaken = FALSE])

Replace(q) ==
    /\ query[q].step = "copied" /\ q \in DOMAIN disk
    /\ disk' = Written(Restrict(disk, DOMAIN disk \ {q}), query[q].name, disk[q])
    /\ Goes(q, At(q, "replaced"))

\* A purge unlinked the partial file, which it had listed.
PartialGone(q) ==
    /\ query[q].step = "copied" /\ q \notin DOMAIN disk
    /\ Goes(q, Idle)
    /\ UNCHANGED disk

\* MUTANT of SweepLists: the tables of other compositions stay.
SweepListsNothing(q) ==
    /\ query[q].step = "replaced"
    /\ Goes(q, [At(q, "answered") EXCEPT !.stale = {}])
    /\ UNCHANGED disk
\* The other tables of the module, whatever they are named for, are listed,
SweepLists(q) ==
    /\ query[q].step = "replaced"
    /\ Goes(q, [At(q, "answered") EXCEPT
            !.stale = DOMAIN disk \ (Queries \cup {query[q].name})])
    /\ UNCHANGED disk

\* and unlinked by name.
SweepUnlinks(q) ==
    \E f \in query[q].stale :
        /\ disk' = Restrict(disk, DOMAIN disk \ {f})
        /\ Goes(q, [query[q] EXCEPT !.stale = @ \ {f}])

Answer(q) ==
    /\ query[q].step = "answered" /\ query[q].stale = {}
    /\ Goes(q, Idle)
    /\ UNCHANGED disk

Proceed(q) ==
    \/ Open(q) \/ Look(q) \/ ReadTable(q) \/ TableGone(q)
    \/ Project(q) \/ ReadRow(q) \/ RowFails(q)
    \/ CopyOut(q) \/ Replace(q) \/ PartialGone(q)
    \/ SweepLists(q) \/ SweepUnlinks(q) \/ Answer(q)

\* MUTANT of Stop: the partial file stays.
StopLeaving(q) ==
    /\ query[q].step \in {"opened", "found", "missed", "reading", "copied"}
    /\ events < MaxEvents /\ events' = events + 1
    /\ query' = [query EXCEPT ![q] = Idle]
    /\ UNCHANGED <<brain, disk, purging, killed>>
\* The budget runs out, or an error ends the query; its partial file goes.
Stop(q) ==
    /\ query[q].step \in {"opened", "found", "missed", "reading", "copied"}
    /\ events < MaxEvents /\ events' = events + 1
    /\ query' = [query EXCEPT ![q] = Idle]
    /\ disk' = Restrict(disk, DOMAIN disk \ {q})
    /\ UNCHANGED <<brain, purging, killed>>

\* Its process is killed.
Kill(q) ==
    /\ query[q].step # "idle"
    /\ events < MaxEvents /\ events' = events + 1
    /\ query' = [query EXCEPT ![q] = Idle]
    /\ killed' = TRUE
    /\ UNCHANGED <<brain, disk, purging>>

Next ==
    \/ \E b \in Blocks : Register(b) \/ Redact(b) \/ Drop(b)
    \/ Prune \/ Purge \/ KillRetention
    \/ \E q \in Queries : Proceed(q) \/ Stop(q) \/ Kill(q)

Spec == Init /\ [][Next]_vars
\* Queries are asked again and again, and what was begun goes on.
FairSpec == Spec /\ WF_vars(Purge) /\ \A q \in Queries : WF_vars(Proceed(q))

----------------------------------------------------------------------------
\* Every variable has its type, and a partial file lies in the directory only
\* while its query is between writing it and renaming it, unless a process
\* was killed (_persist's finally).
TypeOK ==
    /\ members \subseteq Blocks /\ held \subseteq Blocks /\ removed \subseteq Blocks
    /\ DOMAIN disk \subseteq Names \cup Queries
    /\ \A f \in DOMAIN disk : disk[f] \in Tables
    /\ \A q \in Queries \cap DOMAIN disk : query[q].step = "copied" \/ killed
    /\ purge \in BOOLEAN /\ doomed \subseteq Names \cup Queries
    /\ query \in [Queries -> Query]
    /\ events \in 0..MaxEvents /\ killed \in BOOLEAN

\* A query under which nothing was erased or restored, from a table under
\* whose building nothing was, answers of its composition exactly what can be
\* read: never the table of another composition, never fields that were
\* erased, never a null row for a block that is there (_cache_key, _persist).
AnswersAreExact ==
    \A q \in Queries : query[q].step = "answered" /\ query[q].table.steady =>
        query[q].table.fields = query[q].sees

Copied(b) == \E f \in DOMAIN disk : b \in disk[f].fields
\* A table that holds b's fields and whose name says they cannot be read: of
\* a query under which b was redacted, registered again and redacted again.
Misnamed(b) == \E f \in DOMAIN disk \ Queries : b \in disk[f].fields \cap f.unreadable
\* What retention took leaves the directory in the end, if it is queried at
\* all: by the purge, or when a query that was running meanwhile wrote a copy
\* after it, by the next table that is built (_persist's sweep).
ErasedCopiesGo ==
    \A b \in Blocks : b \in removed /\ Copied(b) ~>
        b \notin removed \/ ~Copied(b) \/ killed \/ Misnamed(b)

\* Once a retention operation has purged, only a query that was already running
\* when it took effect, and had not put its table in its place, leaves a copy
\* (purge_sql_cache takes every name that is there).
OnlyTheOvertakenKeep ==
    ~purge /\ doomed = {} /\ ~killed =>
        \A f \in DOMAIN disk :
            disk[f].fields \cap removed # {} => disk[f].overtaken

\* With no query and no retention operation running, no file holds what
\* retention took ("an erasure that left one copy behind is not an erasure").
ErasureLeavesNoCopy ==
    ~purge /\ doomed = {} /\ ~killed /\ (\A q \in Queries : query[q].step = "idle")
        => \A b \in removed : ~Copied(b)
=============================================================================
