--------------------------- MODULE SqlTablesProofs ---------------------------
(***************************************************************************)
(* Proofs about the SQL tables, for any queries, blocks and number of      *)
(* changes and failures: types are kept, an answer is exactly what its     *)
(* table's name says, and after a purge only a query that retention        *)
(* overtook has left a copy of what was erased.  The last is FilesAreClean *)
(* once nothing is left to be unlinked: a table that is in its place when  *)
(* retention takes something of it is listed under its name, and what is   *)
(* put in a place later was overtaken or never had it (QueryIsClean).      *)
(***************************************************************************)
EXTENDS SqlTables, TLAPS

USE TablesAssumption

\* What a file says: a table has the fields of every block its name counts
\* as readable, if it was built while nothing was erased or restored.
FilesAreExact ==
    \A f \in DOMAIN disk \cap Names :
        disk[f].steady => disk[f].fields = f.root \ f.unreadable

\* What a query that holds a table, or builds one, knows of it.
QueryIsExact(q) ==
    LET a == query[q] IN
    /\ a.step \in {"idle", "opened", "found", "missed"} => a.table.fields = {}
    /\ a.step \notin {"idle", "opened"} =>
          a.sees = a.name.root \ a.name.unreadable
    /\ a.step \in {"found", "missed"} /\ a.table.steady =>
          a.sees = a.name.root \cap held
    /\ a.step = "reading" => a.readable \subseteq a.name.root
    /\ a.step = "reading" /\ a.table.steady =>
          a.readable = a.sees /\ a.table.fields = a.readable \ a.left
    /\ a.step \in {"copied", "replaced", "answered"} /\ a.table.steady =>
          a.table.fields = a.sees
    /\ a.step = "copied" /\ q \in DOMAIN disk /\ disk[q].steady =>
          disk[q].fields = a.sees

\* What retention took is not both in the composition and readable.
TakenIsGone == removed \cap members \cap held = {}

\* A query that retention has not overtaken reads nothing that was taken.
QueryIsClean(q) ==
    LET a == query[q] IN
    ~a.table.overtaken =>
        /\ a.step \in {"opened", "missed"} =>
              a.name.root \cap held \cap removed = {}
        /\ a.step = "reading" =>
              (a.readable \cup a.table.fields) \cap removed = {}

\* A file without an overtaken query's table has nothing that was taken, or is
\* a table that the purge is going to list or to unlink, unless it is killed.
FilesAreClean ==
    \A f \in DOMAIN disk :
        \/ disk[f].overtaken \/ disk[f].fields \cap removed = {}
        \/ f \in Names /\ (purge \/ killed \/ f \in doomed)

IInv == /\ TypeOK
        /\ FilesAreExact /\ \A q \in Queries : QueryIsExact(q)
        /\ TakenIsGone /\ \A q \in Queries : QueryIsClean(q)
        /\ FilesAreClean

----------------------------------------------------------------------------
\* The initial state satisfies the invariant.
THEOREM InitIInv == Init => IInv
<1> SUFFICES ASSUME Init PROVE IInv
  OBVIOUS
<1> USE DEF Init
<1>1. Idle \in Query /\ Idle.step = "idle" /\ Idle.table.fields = {}
  BY DEF Idle, Query, Steps, Names, Tables
<1>2. DOMAIN disk = {}
  OBVIOUS
<1>3. TypeOK
  <2>1. /\ DOMAIN disk \subseteq Names \cup Queries
        /\ \A f \in DOMAIN disk : disk[f] \in Tables
        /\ \A q \in Queries \cap DOMAIN disk : query[q].step = "copied" \/ killed
    BY <1>2
  <2>2. query \in [Queries -> Query]
    BY <1>1
  <2>3. events \in 0..MaxEvents
    OBVIOUS
  <2> QED
    BY <2>1, <2>2, <2>3 DEF TypeOK
<1>4. \A q \in Queries : QueryIsExact(q) /\ QueryIsClean(q)
  BY <1>1 DEF QueryIsExact, QueryIsClean
<1>5. FilesAreExact /\ TakenIsGone /\ FilesAreClean
  BY <1>2 DEF FilesAreExact, TakenIsGone, FilesAreClean
<1> QED
  BY <1>3, <1>4, <1>5 DEF IInv

\* A change to the brain marks the tables being built, and no more.
LEMMA ChangedMarks ==
    ASSUME TypeOK, Changed, purge \in BOOLEAN, purge' \in BOOLEAN
    PROVE  /\ query' \in [Queries -> Query]
           /\ \A q \in Queries :
                 /\ query'[q].step = query[q].step
                 /\ query'[q].name = query[q].name
                 /\ query'[q].sees = query[q].sees
                 /\ query'[q].readable = query[q].readable
                 /\ query'[q].left = query[q].left
                 /\ query'[q].table.fields = query[q].table.fields
                 /\ query'[q].table.steady => Steadied(q)
                 /\ query'[q].stale = query[q].stale
                 /\ Overtaken(q) => query'[q].table.overtaken
<1> SUFFICES ASSUME NEW q \in Queries
             PROVE  /\ query'[q] \in Query
                    /\ query'[q].step = query[q].step
                    /\ query'[q].name = query[q].name
                    /\ query'[q].sees = query[q].sees
                    /\ query'[q].readable = query[q].readable
                    /\ query'[q].left = query[q].left
                    /\ query'[q].table.fields = query[q].table.fields
                    /\ query'[q].table.steady => Steadied(q)
                    /\ query'[q].stale = query[q].stale
                    /\ Overtaken(q) => query'[q].table.overtaken
  BY DEF Changed
<1>1. query[q] \in Query
  BY DEF TypeOK, Query
<1> DEFINE next(s, o) == [query[q] EXCEPT !.table.steady = s,
                                          !.table.overtaken = o]
<1>2. query'[q] = next(Steadied(q), Overtaken(q))
  BY DEF Changed
<1>3. Steadied(q) \in BOOLEAN /\ Overtaken(q) \in BOOLEAN
  BY <1>1 DEF Steadied, Overtaken, Retains, Query, Tables
<1>4. ASSUME NEW s \in BOOLEAN, NEW o \in BOOLEAN
      PROVE  /\ next(s, o) \in Query
             /\ next(s, o).step = query[q].step
             /\ next(s, o).name = query[q].name
             /\ next(s, o).sees = query[q].sees
             /\ next(s, o).readable = query[q].readable
             /\ next(s, o).left = query[q].left
             /\ next(s, o).stale = query[q].stale
             /\ next(s, o).table.fields = query[q].table.fields
             /\ next(s, o).table.steady = s
             /\ next(s, o).table.overtaken = o
  BY <1>1 DEF Query, Tables
<1> HIDE DEF next
<1> QED
  BY <1>2, <1>3, <1>4

\* So does it the files that are being written.
LEMMA ChangedFiles ==
    ASSUME TypeOK, Changed
    PROVE  /\ DOMAIN disk' = DOMAIN disk
           /\ \A f \in DOMAIN disk :
                 /\ disk'[f] \in Tables
                 /\ disk'[f].fields = disk[f].fields
                 /\ disk'[f].steady = disk[f].steady
                 /\ OvertakenFile(f) => disk'[f].overtaken
<1>1. disk' = [f \in DOMAIN disk |->
                  [disk[f] EXCEPT !.overtaken = OvertakenFile(f)]]
  BY DEF Changed
<1> SUFFICES ASSUME NEW f \in DOMAIN disk
             PROVE  /\ disk'[f] \in Tables
                    /\ disk'[f].fields = disk[f].fields
                    /\ disk'[f].steady = disk[f].steady
                    /\ OvertakenFile(f) => disk'[f].overtaken
  BY <1>1
<1>2. disk[f] \in Tables
  BY DEF TypeOK
<1>3. OvertakenFile(f) \in BOOLEAN
  BY <1>2 DEF OvertakenFile, Retains, Tables
<1>4. ASSUME NEW o \in BOOLEAN
      PROVE  LET next == [disk[f] EXCEPT !.overtaken = o]
             IN  /\ next \in Tables /\ next.fields = disk[f].fields
                 /\ next.steady = disk[f].steady /\ next.overtaken = o
  BY <1>2 DEF Tables
<1> QED
  BY <1>1, <1>3, <1>4

\* What the four operations have in common keeps the invariant.
LEMMA ChangeKeeps ==
    ASSUME IInv, Changed,
           members' \subseteq Blocks, held' \subseteq Blocks,
           removed' \subseteq Blocks, purge' \in BOOLEAN,
           TakenIsGone',
           \/ Retains /\ held' \subseteq held
           \/ /\ UNCHANGED purge /\ removed' \subseteq removed
              /\ (held' \ held) \cap removed' = {}
    PROVE  IInv'
<1> USE DEF IInv
<1>0. TypeOK /\ purge \in BOOLEAN /\ UNCHANGED <<doomed, killed>>
  BY DEF TypeOK, Changed
<1>1. /\ query' \in [Queries -> Query]
      /\ \A q \in Queries :
            /\ query'[q].step = query[q].step
            /\ query'[q].name = query[q].name
            /\ query'[q].sees = query[q].sees
            /\ query'[q].readable = query[q].readable
            /\ query'[q].left = query[q].left
            /\ query'[q].table.fields = query[q].table.fields
            /\ query'[q].table.steady => Steadied(q)
            /\ Overtaken(q) => query'[q].table.overtaken
  BY <1>0, ChangedMarks
<1>2. /\ DOMAIN disk' = DOMAIN disk
      /\ \A f \in DOMAIN disk :
            /\ disk'[f] \in Tables
            /\ disk'[f].fields = disk[f].fields
            /\ disk'[f].steady = disk[f].steady
            /\ OvertakenFile(f) => disk'[f].overtaken
  BY <1>0, ChangedFiles
<1>3. TypeOK'
  <2>1. events' \in 0..MaxEvents
    <3>1. events \in 0..MaxEvents
      BY <1>0 DEF TypeOK
    <3>2. events < MaxEvents /\ events' = events + 1
      BY DEF Changed
    <3> QED
      BY <3>1, <3>2
  <2>2. \A q \in Queries \cap DOMAIN disk' : query'[q].step = "copied" \/ killed'
    BY <1>0, <1>1, <1>2 DEF TypeOK
  <2>3. /\ DOMAIN disk' \subseteq Names \cup Queries
        /\ \A f \in DOMAIN disk' : disk'[f] \in Tables
    BY <1>0, <1>2 DEF TypeOK
  <2> QED
    BY <1>0, <1>1, <2>1, <2>2, <2>3 DEF TypeOK
<1>4. FilesAreExact'
  BY <1>2 DEF FilesAreExact
<1>5. ASSUME NEW q \in Queries PROVE QueryIsExact(q)'
  <2>1. QueryIsExact(q)
    OBVIOUS
  <2> QED
    BY <1>0, <1>1, <1>2, <2>1 DEF QueryIsExact, Steadied
<1>6. ASSUME NEW q \in Queries PROVE QueryIsClean(q)'
  <2>1. QueryIsClean(q)
    OBVIOUS
  <2>2. CASE Retains
    BY <1>1, <2>1, <2>2 DEF QueryIsClean, Overtaken
  <2>3. CASE UNCHANGED purge /\ ~Retains
    <3>1. removed' \subseteq removed /\ (held' \ held) \cap removed' = {}
      BY <2>3
    <3>2. ~query'[q].table.overtaken => ~query[q].table.overtaken
      BY <1>1 DEF Overtaken
    <3> QED
      BY <1>1, <2>1, <3>1, <3>2 DEF QueryIsClean
  <2> QED
    BY <1>0, <2>2, <2>3
<1>7. FilesAreClean'
  <2> SUFFICES ASSUME NEW f \in DOMAIN disk
               PROVE  \/ disk'[f].overtaken \/ disk'[f].fields \cap removed' = {}
                      \/ f \in Names /\ (purge' \/ killed' \/ f \in doomed')
    BY <1>2 DEF FilesAreClean
  <2>1. CASE Retains
    BY <1>0, <1>2, <2>1 DEF TypeOK, OvertakenFile, Retains
  <2>2. CASE UNCHANGED purge /\ removed' \subseteq removed
    BY <1>0, <1>2, <2>2 DEF FilesAreClean, OvertakenFile
  <2> QED
    BY <2>1, <2>2
<1> QED
  BY <1>3, <1>4, <1>5, <1>6, <1>7

LEMMA BrainSteps ==
    ASSUME IInv, NEW b \in Blocks,
           Register(b) \/ Redact(b) \/ Drop(b) \/ Prune
    PROVE  IInv'
<1>1. /\ members \subseteq Blocks /\ held \subseteq Blocks
      /\ removed \subseteq Blocks /\ purge \in BOOLEAN
      /\ removed \cap members \cap held = {}
  BY DEF IInv, TypeOK, TakenIsGone
<1>2. CASE Register(b)
  BY <1>1, <1>2, ChangeKeeps DEF Register, TakenIsGone
<1>3. CASE Redact(b)
  BY <1>1, <1>3, ChangeKeeps DEF Redact, Retains, TakenIsGone
<1>4. CASE Drop(b)
  BY <1>1, <1>4, ChangeKeeps DEF Drop, Retains, TakenIsGone
<1>5. CASE Prune
  BY <1>1, <1>5, ChangeKeeps DEF Prune, Retains, TakenIsGone
<1> QED
  BY <1>2, <1>3, <1>4, <1>5

LEMMA PurgeSteps == IInv /\ (Purge \/ KillRetention) => IInv'
<1> SUFFICES ASSUME IInv, Purge \/ KillRetention PROVE IInv'
  OBVIOUS
<1> USE DEF IInv, brain
<1>1. /\ UNCHANGED <<brain, query>> /\ events' \in 0..MaxEvents
      /\ purge' \in BOOLEAN /\ killed' \in BOOLEAN
      /\ killed => killed'
      /\ doomed' \subseteq Names \cup Queries
      /\ \A f \in DOMAIN disk' : f \in DOMAIN disk /\ disk'[f] = disk[f]
  <2>0. /\ TypeOK /\ events \in 0..MaxEvents
    BY DEF TypeOK
  <2>1. CASE PurgeLists
    BY <2>0, <2>1 DEF PurgeLists, TypeOK
  <2>2. CASE \E f \in doomed : PurgeUnlinks(f)
    <3>1. PICK f \in doomed : PurgeUnlinks(f)
      BY <2>2
    <3>2. /\ UNCHANGED <<brain, purge, query, events, killed>>
          /\ doomed' = doomed \ {f} /\ disk' = Restrict(disk, DOMAIN disk \ {f})
      BY <3>1 DEF PurgeUnlinks
    <3>3. /\ DOMAIN disk' = DOMAIN disk \ {f}
          /\ \A g \in DOMAIN disk' : disk'[g] = disk[g]
      BY <3>2 DEF Restrict
    <3> QED
      BY <2>0, <3>2, <3>3 DEF TypeOK
  <2>3. CASE KillRetention
    <3>1. /\ events < MaxEvents /\ events' = events + 1 /\ purge' = FALSE
          /\ killed' = TRUE /\ doomed' = {} /\ UNCHANGED <<brain, disk, query>>
      BY <2>3 DEF KillRetention
    <3>2. events' \in 0..MaxEvents
      BY <2>0, <3>1
    <3> QED
      BY <3>1, <3>2
  <2> QED
    BY <2>1, <2>2, <2>3 DEF Purge
<1>2. ASSUME NEW f \in DOMAIN disk', purge \/ killed \/ f \in doomed
      PROVE  purge' \/ killed' \/ f \in doomed'
  <2>1. CASE PurgeLists
    BY <1>2, <2>1 DEF PurgeLists
  <2>2. CASE \E g \in doomed : PurgeUnlinks(g)
    BY <1>2, <2>2 DEF PurgeUnlinks, Restrict
  <2>3. CASE KillRetention
    BY <2>3 DEF KillRetention
  <2> QED
    BY <2>1, <2>2, <2>3 DEF Purge
<1>3. TypeOK'
  <2>1. /\ DOMAIN disk' \subseteq Names \cup Queries
        /\ \A f \in DOMAIN disk' : disk'[f] \in Tables
    BY <1>1 DEF TypeOK
  <2>2. \A q \in Queries \cap DOMAIN disk' : query'[q].step = "copied" \/ killed'
    BY <1>1 DEF TypeOK
  <2> QED
    BY <1>1, <2>1, <2>2 DEF TypeOK
<1>4. FilesAreExact' /\ TakenIsGone' /\ FilesAreClean'
  BY <1>1, <1>2 DEF FilesAreExact, TakenIsGone, FilesAreClean
<1>5. ASSUME NEW q \in Queries PROVE QueryIsExact(q)' /\ QueryIsClean(q)'
  BY <1>1 DEF QueryIsExact, QueryIsClean
<1> QED
  BY <1>3, <1>4, <1>5

\* A step of one query keeps the invariant of the files and of the others, if
\* it writes at most the partial file of its own and the table it names.
LEMMA QueryFrame ==
    ASSUME IInv, NEW q \in Queries, NEW record \in Query,
           query' = [query EXCEPT ![q] = record],
           UNCHANGED <<brain, purging>>,
           killed' \in BOOLEAN, killed => killed', events' \in 0..MaxEvents,
           DOMAIN disk' \subseteq Names \cup Queries,
           \A f \in DOMAIN disk' : disk'[f] \in Tables,
           \A v \in Queries \ {q} : v \in DOMAIN disk' =>
              v \in DOMAIN disk /\ disk'[v] = disk[v],
           q \in DOMAIN disk' => record.step = "copied" \/ killed',
           FilesAreExact', FilesAreClean',
           QueryIsExact(q)', QueryIsClean(q)'
    PROVE  IInv'
<1> USE DEF IInv, brain, purging
<1>1. /\ query' \in [Queries -> Query] /\ query'[q] = record
      /\ \A v \in Queries \ {q} : query'[v] = query[v]
  BY DEF TypeOK
<1>2. TypeOK'
  BY <1>1 DEF TypeOK
<1>3. ASSUME NEW v \in Queries \ {q} PROVE QueryIsExact(v)' /\ QueryIsClean(v)'
  BY <1>1 DEF QueryIsExact, QueryIsClean
<1>4. TakenIsGone'
  BY DEF TakenIsGone
<1> QED
  BY <1>2, <1>3, <1>4

\* The same of a step that writes no file.
LEMMA QuietFrame ==
    ASSUME IInv, NEW q \in Queries, NEW record \in Query,
           query' = [query EXCEPT ![q] = record],
           UNCHANGED <<brain, purging>>,
           killed' \in BOOLEAN, killed => killed', events' \in 0..MaxEvents,
           \A f \in DOMAIN disk' : f \in DOMAIN disk /\ disk'[f] = disk[f],
           q \in DOMAIN disk' => record.step = "copied" \/ killed',
           QueryIsExact(q)', QueryIsClean(q)'
    PROVE  IInv'
<1>1. /\ DOMAIN disk' \subseteq Names \cup Queries
      /\ \A f \in DOMAIN disk' : disk'[f] \in Tables
  BY DEF IInv, TypeOK
<1>2. FilesAreExact' /\ FilesAreClean'
  BY DEF IInv, FilesAreExact, FilesAreClean, brain, purging
<1> QED
  BY <1>1, <1>2, QueryFrame

\* The records that a query's steps make of it.
Named(a, n, s) == [a EXCEPT !.name = n, !.sees = s]
Rows(a, l, r) == [a EXCEPT !.left = l, !.readable = r]
Tabled(a, t, s) == [a EXCEPT !.table.fields = t, !.table.steady = s,
                             !.table.overtaken = FALSE]

LEMMA NamedFields ==
    ASSUME NEW a \in Query, NEW n \in Names, NEW s \in SUBSET Blocks
    PROVE  /\ Named(a, n, s) \in Query /\ Named(a, n, s).step = a.step
           /\ Named(a, n, s).name = n /\ Named(a, n, s).sees = s
           /\ Named(a, n, s).table = a.table
BY DEF Query, Named

LEMMA RowsFields ==
    ASSUME NEW a \in Query, NEW l \in SUBSET Blocks, NEW r \in SUBSET Blocks
    PROVE  /\ Rows(a, l, r) \in Query /\ Rows(a, l, r).step = a.step
           /\ Rows(a, l, r).name = a.name /\ Rows(a, l, r).sees = a.sees
           /\ Rows(a, l, r).table = a.table
           /\ Rows(a, l, r).left = l /\ Rows(a, l, r).readable = r
BY DEF Query, Rows

LEMMA TabledFields ==
    ASSUME NEW a \in Query, NEW t \in SUBSET Blocks, NEW s \in BOOLEAN
    PROVE  /\ Tabled(a, t, s) \in Query /\ Tabled(a, t, s).step = a.step
           /\ Tabled(a, t, s).name = a.name /\ Tabled(a, t, s).sees = a.sees
           /\ Tabled(a, t, s).table.fields = t
           /\ Tabled(a, t, s).table.steady = s
BY DEF Query, Tables, Tabled

Stale(a, f) == [a EXCEPT !.stale = f]
Read(a, l, t) == [a EXCEPT !.left = l, !.table.fields = t]
Copies(a) == [a EXCEPT !.readable = {}, !.table.overtaken = FALSE]

LEMMA ReadFields ==
    ASSUME NEW a \in Query, NEW l \in SUBSET Blocks, NEW t \in SUBSET Blocks
    PROVE  /\ Read(a, l, t) \in Query /\ Read(a, l, t).step = a.step
           /\ Read(a, l, t).name = a.name /\ Read(a, l, t).sees = a.sees
           /\ Read(a, l, t).readable = a.readable
           /\ Read(a, l, t).left = l /\ Read(a, l, t).table.fields = t
           /\ Read(a, l, t).table.steady = a.table.steady
           /\ Read(a, l, t).table.overtaken = a.table.overtaken
BY DEF Query, Tables, Read

LEMMA StaleFields ==
    ASSUME NEW a \in Query, NEW f \in SUBSET Names
    PROVE  /\ Stale(a, f) \in Query /\ Stale(a, f).step = a.step
           /\ Stale(a, f).name = a.name /\ Stale(a, f).sees = a.sees
           /\ Stale(a, f).readable = a.readable /\ Stale(a, f).left = a.left
           /\ Stale(a, f).table = a.table
BY DEF Query, Stale

LEMMA CopiesFields ==
    ASSUME NEW a \in Query
    PROVE  /\ Copies(a) \in Query /\ Copies(a).step = a.step
           /\ Copies(a).name = a.name /\ Copies(a).sees = a.sees
           /\ Copies(a).table.fields = a.table.fields
           /\ Copies(a).table.steady = a.table.steady
BY DEF Query, Tables, Copies

\* What a query's record becomes at each of its steps.
LEMMA AtFields ==
    ASSUME TypeOK, NEW q \in Queries, NEW step \in Steps
    PROVE  /\ At(q, step) \in Query /\ At(q, step).step = step
           /\ At(q, step).name = query[q].name
           /\ At(q, step).sees = query[q].sees
           /\ At(q, step).readable = query[q].readable
           /\ At(q, step).left = query[q].left
           /\ At(q, step).table = query[q].table
BY DEF At, TypeOK, Query

LEMMA IdleFields ==
    /\ Idle \in Query /\ Idle.step = "idle" /\ Idle.table.fields = {}
BY DEF Idle, Query, Steps, Names, Tables

\* A query that ends, or stops, or is killed.
LEMMA Ends ==
    ASSUME IInv, NEW q \in Queries,
           query' = [query EXCEPT ![q] = Idle],
           UNCHANGED <<brain, purging>>,
           killed' \in BOOLEAN, killed => killed', events' \in 0..MaxEvents,
           \A f \in DOMAIN disk' : f \in DOMAIN disk /\ disk'[f] = disk[f],
           q \in DOMAIN disk' => killed'
    PROVE  IInv'
<1>1. query'[q] = Idle
  BY DEF IInv, TypeOK
<1>2. QueryIsExact(q)' /\ QueryIsClean(q)'
  BY <1>1, IdleFields DEF QueryIsExact, QueryIsClean
<1> QED
  BY <1>2, IdleFields, QuietFrame

\* The steps up to the projection, and those that end a query.
LEMMA LookingSteps ==
    ASSUME IInv, NEW q \in Queries,
           Open(q) \/ Look(q) \/ ReadTable(q) \/ TableGone(q) \/ Project(q)
    PROVE  IInv'
<1> USE DEF Goes
<1>0. /\ TypeOK /\ query[q] \in Query /\ QueryIsExact(q) /\ QueryIsClean(q)
      /\ TakenIsGone /\ FilesAreExact
      /\ members \subseteq Blocks /\ held \subseteq Blocks
      /\ killed \in BOOLEAN /\ events \in 0..MaxEvents
      /\ q \in DOMAIN disk => query[q].step = "copied" \/ killed
  BY DEF IInv, TypeOK
<1>1. ASSUME NEW record \in Query, Goes(q, record)
      PROVE  query'[q] = record
  BY <1>0, <1>1 DEF TypeOK
<1>2. CASE Open(q)
  <2> DEFINE record == [At(q, "opened") EXCEPT !.name.root = members]
  <2>1. /\ record \in Query /\ record.step = "opened"
        /\ record.name.root = members /\ record.table = query[q].table
    BY <1>0, AtFields, SMTT(30) DEF Query, Names, Steps
  <2> HIDE DEF record
  <2>2. /\ query[q].step = "idle" /\ Goes(q, record) /\ UNCHANGED disk
        /\ query' = [query EXCEPT ![q] = record]
    BY <1>2 DEF Open, record
  <2>3. QueryIsExact(q)' /\ QueryIsClean(q)'
    BY <1>0, <1>1, <2>1, <2>2
       DEF QueryIsExact, QueryIsClean, TakenIsGone, brain
  <2> QED
    BY <1>0, <2>1, <2>2, <2>3, QuietFrame
<1>3. CASE Look(q)
  <2> DEFINE name == NameOf(query[q].name.root)
             step == IF name \in DOMAIN disk THEN "found" ELSE "missed"
             record == Named(At(q, step), name, name.root \cap held)
  <2>1. /\ name \in Names /\ name.root = query[q].name.root
        /\ name.unreadable = name.root \ held
    BY <1>0 DEF NameOf, Names, Query
  <2>2. step \in {"found", "missed"}
    OBVIOUS
  <2> HIDE DEF name, step
  <2>3. /\ record \in Query /\ record.step = step /\ record.name = name
        /\ record.sees = name.root \cap held /\ record.table = query[q].table
    <3>1. step \in Steps
      BY <2>2 DEF Steps
    <3>2. name.root \cap held \in SUBSET Blocks
      BY <1>0, <2>1
    <3>3. At(q, step) \in Query /\ At(q, step).step = step
          /\ At(q, step).table = query[q].table
      BY <1>0, <3>1, AtFields
    <3> QED
      BY <2>1, <3>2, <3>3, NamedFields
  <2>4. query[q].step = "opened" /\ Goes(q, record) /\ UNCHANGED disk
    BY <1>3 DEF Look, Named, name, step
  <2> HIDE DEF record
  <2>5. QueryIsExact(q)' /\ QueryIsClean(q)'
    BY <1>0, <1>1, <2>1, <2>2, <2>3, <2>4
       DEF QueryIsExact, QueryIsClean, brain
  <2> QED
    BY <1>0, <2>2, <2>3, <2>4, <2>5, QuietFrame
<1>4. CASE ReadTable(q)
  <2> DEFINE name == query[q].name
             record == [At(q, "answered") EXCEPT
                          !.table.fields = disk[name].fields,
                          !.table.steady = @ /\ disk[name].steady,
                          !.table.overtaken = FALSE]
  <2>1. /\ query[q].step = "found" /\ name \in DOMAIN disk
        /\ Goes(q, record) /\ UNCHANGED disk
    BY <1>4 DEF ReadTable
  <2>2. /\ name \in Names /\ disk[name] \in Tables
        /\ query[q].table \in Tables
    BY <1>0, <2>1 DEF Query, TypeOK
  <2>3. /\ record \in Query /\ record.step = "answered"
        /\ record.name = name /\ record.sees = query[q].sees
        /\ record.table.fields = disk[name].fields
        /\ record.table.steady => disk[name].steady
    <3>1. /\ At(q, "answered") \in Query /\ At(q, "answered").step = "answered"
          /\ At(q, "answered").name = name
          /\ At(q, "answered").sees = query[q].sees
          /\ At(q, "answered").table = query[q].table
      BY <1>0, AtFields DEF Steps
    <3>2. disk[name].fields \in SUBSET Blocks
      BY <2>2 DEF Tables
    <3>3. PICK s \in BOOLEAN : s = (query[q].table.steady /\ disk[name].steady)
      OBVIOUS
    <3>4. record = Tabled(At(q, "answered"), disk[name].fields, s)
      BY <3>1, <3>3 DEF Query, Tables, Tabled
    <3>5. s => disk[name].steady
      BY <3>3
    <3> HIDE DEF record
    <3>6. /\ record \in Query /\ record.step = "answered"
          /\ record.name = name /\ record.sees = query[q].sees
          /\ record.table.fields = disk[name].fields
          /\ record.table.steady = s
      BY <3>1, <3>2, <3>4, TabledFields
    <3> QED
      BY <3>5, <3>6
  <2> HIDE DEF record
  <2>4. QueryIsExact(q)' /\ QueryIsClean(q)'
    BY <1>0, <1>1, <2>1, <2>2, <2>3
       DEF QueryIsExact, QueryIsClean, FilesAreExact
  <2> QED
    BY <1>0, <2>1, <2>3, <2>4, QuietFrame
<1>5. CASE TableGone(q)
  BY <1>0, <1>5, Ends DEF TableGone
<1>6. CASE Project(q)
  <2> DEFINE root == query[q].name.root
             record == Rows(At(q, "reading"), root, root \cap held)
  <2>1. query[q].step = "missed" /\ Goes(q, record) /\ UNCHANGED disk
    BY <1>6 DEF Project, Rows
  <2>2. /\ record \in Query /\ record.step = "reading"
        /\ record.name = query[q].name /\ record.sees = query[q].sees
        /\ record.left = root /\ record.readable = root \cap held
        /\ record.table = query[q].table
    <3>1. /\ At(q, "reading") \in Query /\ At(q, "reading").step = "reading"
          /\ At(q, "reading").name = query[q].name
          /\ At(q, "reading").sees = query[q].sees
          /\ At(q, "reading").table = query[q].table
      BY <1>0, AtFields DEF Steps
    <3>2. root \in SUBSET Blocks /\ root \cap held \in SUBSET Blocks
      BY <1>0 DEF Query, Names
    <3> QED
      BY <3>1, <3>2, RowsFields
  <2> HIDE DEF record
  <2>3. QueryIsExact(q)' /\ QueryIsClean(q)'
    BY <1>0, <1>1, <2>1, <2>2, ZenonT(30) DEF QueryIsExact, QueryIsClean, brain
  <2> QED
    BY <1>0, <2>1, <2>2, <2>3, QuietFrame
<1> QED
  BY <1>2, <1>3, <1>4, <1>5, <1>6

\* The steps that build a table, write it and sweep the others.
LEMMA BuildingSteps ==
    ASSUME IInv, NEW q \in Queries,
           \/ ReadRow(q) \/ RowFails(q) \/ CopyOut(q) \/ Replace(q)
           \/ PartialGone(q) \/ SweepLists(q) \/ SweepUnlinks(q) \/ Answer(q)
    PROVE  IInv'
<1> USE DEF Goes
<1>0. /\ TypeOK /\ query[q] \in Query /\ QueryIsExact(q) /\ QueryIsClean(q)
      /\ FilesAreExact /\ FilesAreClean
      /\ killed \in BOOLEAN /\ events \in 0..MaxEvents
      /\ q \in DOMAIN disk => query[q].step = "copied" \/ killed
      /\ DOMAIN disk \subseteq Names \cup Queries
      /\ \A f \in DOMAIN disk : disk[f] \in Tables
  BY DEF IInv, TypeOK
<1>1. ASSUME NEW record \in Query, Goes(q, record)
      PROVE  query'[q] = record
  BY <1>0, <1>1 DEF TypeOK
<1>2. CASE ReadRow(q)
  <2> DEFINE b == Foremost(q)
             left == query[q].left \ {b}
             fields == query[q].table.fields \cup ({b} \cap query[q].readable)
             record == Read(query[q], left, fields)
  <2>1. query[q].step = "reading" /\ Goes(q, record) /\ UNCHANGED disk
    BY <1>2 DEF ReadRow, Read
  <2>2. /\ left \in SUBSET Blocks /\ fields \in SUBSET Blocks
        /\ fields \subseteq query[q].table.fields \cup query[q].readable
        /\ query[q].table.fields = query[q].readable \ query[q].left =>
              fields = query[q].readable \ left
    BY <1>0 DEF Query, Tables
  <2> HIDE DEF left, fields
  <2>3. /\ record \in Query /\ record.step = query[q].step
        /\ record.name = query[q].name /\ record.sees = query[q].sees
        /\ record.readable = query[q].readable
        /\ record.left = left /\ record.table.fields = fields
        /\ record.table.steady = query[q].table.steady
        /\ record.table.overtaken = query[q].table.overtaken
    BY <1>0, <2>2, ReadFields
  <2> HIDE DEF record
  <2>4. query'[q] = record
    BY <1>1, <2>1, <2>3
  <2>5. QueryIsExact(q)'
    BY <1>0, <2>1, <2>2, <2>3, <2>4 DEF QueryIsExact, brain
  <2>6. QueryIsClean(q)'
    BY <1>0, <2>1, <2>2, <2>3, <2>4 DEF QueryIsClean, brain
  <2> QED
    BY <1>0, <2>1, <2>3, <2>5, <2>6, QuietFrame
<1>3. CASE RowFails(q)
  BY <1>0, <1>3, Ends DEF RowFails
<1>4. CASE CopyOut(q)
  <2> DEFINE record == Copies(At(q, "copied"))
             table == query[q].table
  <2>1. /\ query[q].step = "reading" /\ query[q].left = {}
        /\ disk' = Written(disk, q, table) /\ Goes(q, record)
    BY <1>4 DEF CopyOut, Copies
  <2>2. /\ record \in Query /\ record.step = "copied"
        /\ record.name = query[q].name /\ record.sees = query[q].sees
        /\ record.table.fields = table.fields
        /\ record.table.steady = table.steady
    <3>1. /\ At(q, "copied") \in Query /\ At(q, "copied").step = "copied"
          /\ At(q, "copied").name = query[q].name
          /\ At(q, "copied").sees = query[q].sees
          /\ At(q, "copied").table = query[q].table
      BY <1>0, AtFields DEF Steps
    <3> QED
      BY <3>1, CopiesFields
  <2> HIDE DEF record
  <2>3. query'[q] = record
    BY <1>1, <2>1, <2>2
  <2>4. /\ DOMAIN disk' = DOMAIN disk \cup {q} /\ disk'[q] = table
        /\ \A f \in DOMAIN disk \ {q} : disk'[f] = disk[f]
    BY <2>1 DEF Written
  <2>5. table \in Tables /\ q \notin Names
    BY <1>0 DEF Query
  <2>6. table.steady => table.fields = query[q].sees
    BY <1>0, <2>1 DEF QueryIsExact
  <2>7. ~table.overtaken => table.fields \cap removed = {}
    BY <1>0, <2>1 DEF QueryIsClean
  <2>8. FilesAreExact'
    BY <1>0, <2>4, <2>5 DEF FilesAreExact
  <2>9. FilesAreClean'
    BY <1>0, <2>1, <2>4, <2>7 DEF FilesAreClean, brain, purging
  <2>10. QueryIsExact(q)' /\ QueryIsClean(q)'
    BY <1>0, <2>1, <2>2, <2>3, <2>4, <2>6 DEF QueryIsExact, QueryIsClean
  <2>11. \A f \in DOMAIN disk' : disk'[f] \in Tables
    BY <1>0, <2>4, <2>5
  <2> QED
    BY <1>0, <2>1, <2>2, <2>4, <2>8, <2>9, <2>10, <2>11, QueryFrame
<1>5. CASE Replace(q)
  <2> DEFINE record == At(q, "replaced")
             name == query[q].name
  <2>1. /\ query[q].step = "copied" /\ q \in DOMAIN disk
        /\ disk' = Written(Restrict(disk, DOMAIN disk \ {q}), name, disk[q])
        /\ Goes(q, record)
    BY <1>5 DEF Replace
  <2>2. /\ record \in Query /\ record.step = "replaced"
        /\ record.name = name /\ record.sees = query[q].sees
        /\ record.table = query[q].table
    BY <1>0, AtFields DEF Steps
  <2> HIDE DEF record
  <2>3. query'[q] = record
    BY <1>1, <2>1, <2>2
  <2>4. name \in Names /\ q \notin Names /\ name # q
    BY <1>0 DEF Query
  <2>5. /\ DOMAIN disk' = (DOMAIN disk \ {q}) \cup {name}
        /\ disk'[name] = disk[q]
        /\ \A f \in DOMAIN disk' \ {name} : f \in DOMAIN disk /\ disk'[f] = disk[f]
    BY <2>1, <2>4 DEF Written, Restrict
  <2>6. /\ query[q].sees = name.root \ name.unreadable
        /\ query[q].table.steady => query[q].table.fields = query[q].sees
        /\ disk[q].steady => disk[q].fields = query[q].sees
    BY <1>0, <2>1 DEF QueryIsExact
  <2>7. FilesAreExact'
    BY <1>0, <2>5, <2>6 DEF FilesAreExact
  <2>8. FilesAreClean'
    BY <1>0, <2>1, <2>5 DEF FilesAreClean, brain, purging
  <2>9. QueryIsExact(q)' /\ QueryIsClean(q)'
    BY <1>0, <2>2, <2>3, <2>6 DEF QueryIsExact, QueryIsClean
  <2>10. /\ DOMAIN disk' \subseteq Names \cup Queries
         /\ \A f \in DOMAIN disk' : disk'[f] \in Tables
    BY <1>0, <2>1, <2>4, <2>5
  <2>11. /\ q \notin DOMAIN disk'
         /\ \A v \in Queries \ {q} : v \in DOMAIN disk' =>
               v \in DOMAIN disk /\ disk'[v] = disk[v]
    BY <2>4, <2>5
  <2> QED
    BY <1>0, <2>1, <2>2, <2>7, <2>8, <2>9, <2>10, <2>11, QueryFrame
<1>6. CASE PartialGone(q)
  BY <1>0, <1>6, Ends DEF PartialGone
<1>7. CASE SweepLists(q)
  <2> DEFINE stale == DOMAIN disk \ (Queries \cup {query[q].name})
             record == Stale(At(q, "answered"), stale)
  <2>1. query[q].step = "replaced" /\ Goes(q, record) /\ UNCHANGED disk
    BY <1>7 DEF SweepLists, Stale
  <2>2. /\ At(q, "answered") \in Query /\ At(q, "answered").step = "answered"
        /\ At(q, "answered").name = query[q].name
        /\ At(q, "answered").sees = query[q].sees
        /\ At(q, "answered").table = query[q].table
    BY <1>0, AtFields DEF Steps
  <2>3. stale \in SUBSET Names
    BY <1>0
  <2> HIDE DEF stale
  <2>4. /\ record \in Query /\ record.step = "answered"
        /\ record.name = query[q].name /\ record.sees = query[q].sees
        /\ record.table = query[q].table
    BY <2>2, <2>3, StaleFields
  <2> HIDE DEF record
  <2>5. query'[q] = record
    BY <1>1, <2>1, <2>4
  <2>6. QueryIsExact(q)' /\ QueryIsClean(q)'
    BY <1>0, <2>1, <2>4, <2>5 DEF QueryIsExact, QueryIsClean
  <2> QED
    BY <1>0, <2>1, <2>4, <2>6, QuietFrame
<1>8. CASE SweepUnlinks(q)
  <2>1. PICK f \in query[q].stale :
           /\ disk' = Restrict(disk, DOMAIN disk \ {f})
           /\ Goes(q, Stale(query[q], query[q].stale \ {f}))
    BY <1>8 DEF SweepUnlinks, Stale
  <2> DEFINE record == Stale(query[q], query[q].stale \ {f})
  <2>2. /\ record \in Query /\ record.step = query[q].step
        /\ record.name = query[q].name /\ record.sees = query[q].sees
        /\ record.readable = query[q].readable /\ record.left = query[q].left
        /\ record.table = query[q].table
    <3>1. query[q].stale \ {f} \in SUBSET Names
      BY <1>0 DEF Query
    <3> QED
      BY <1>0, <3>1, StaleFields
  <2>3. Goes(q, record)
    BY <2>1
  <2> HIDE DEF record
  <2>4. \A g \in DOMAIN disk' : g \in DOMAIN disk /\ disk'[g] = disk[g]
    BY <2>1 DEF Restrict
  <2>5. query'[q] = record
    BY <1>1, <2>2, <2>3
  <2>6. QueryIsExact(q)' /\ QueryIsClean(q)'
    BY <1>0, <2>2, <2>3, <2>4, <2>5 DEF QueryIsExact, QueryIsClean, brain
  <2> QED
    BY <1>0, <2>2, <2>3, <2>4, <2>6, QuietFrame
<1>9. CASE Answer(q)
  BY <1>0, <1>9, Ends DEF Answer
<1> QED
  BY <1>2, <1>3, <1>4, <1>5, <1>6, <1>7, <1>8, <1>9

\* The budget runs out, or the process is killed.
LEMMA FaultSteps ==
    ASSUME IInv, NEW q \in Queries, Stop(q) \/ Kill(q)
    PROVE  IInv'
<1>0. /\ killed \in BOOLEAN /\ events \in 0..MaxEvents
      /\ q \in DOMAIN disk => query[q].step = "copied" \/ killed
  BY DEF IInv, TypeOK
<1>1. events < MaxEvents /\ events' = events + 1
  BY DEF Stop, Kill
<1>2. events' \in 0..MaxEvents
  BY <1>0, <1>1
<1>3. CASE Stop(q)
  <2>1. disk' = Restrict(disk, DOMAIN disk \ {q})
    BY <1>3 DEF Stop
  <2>2. /\ q \notin DOMAIN disk'
        /\ \A f \in DOMAIN disk' : f \in DOMAIN disk /\ disk'[f] = disk[f]
    BY <2>1 DEF Restrict
  <2>3. /\ query' = [query EXCEPT ![q] = Idle]
        /\ UNCHANGED <<brain, purging, killed>>
    BY <1>3 DEF Stop
  <2> QED
    BY <1>0, <1>2, <2>2, <2>3, Ends
<1>4. CASE Kill(q)
  BY <1>0, <1>2, <1>4, Ends DEF Kill
<1> QED
  BY <1>3, <1>4

\* Every step keeps the invariant.
THEOREM NextIInv == IInv /\ [Next]_vars => IInv'
<1> SUFFICES ASSUME IInv, [Next]_vars PROVE IInv'
  OBVIOUS
<1>1. ASSUME NEW b \in Blocks, Register(b) \/ Redact(b) \/ Drop(b) PROVE IInv'
  BY <1>1, BrainSteps
<1>2. CASE Prune
  <2>1. CASE Blocks = {}
    <3>1. /\ members = {} /\ held = {} /\ removed = {}
      BY <2>1 DEF IInv, TypeOK
    <3> QED
      BY <1>2, <3>1, ChangeKeeps DEF Prune, Retains, TakenIsGone
  <2>2. CASE Blocks # {}
    BY <1>2, <2>2, BrainSteps
  <2> QED
    BY <2>1, <2>2
<1>3. CASE Purge \/ KillRetention
  BY <1>3, PurgeSteps
<1>4. ASSUME NEW q \in Queries, Proceed(q) \/ Stop(q) \/ Kill(q) PROVE IInv'
  BY <1>4, LookingSteps, BuildingSteps, FaultSteps DEF Proceed
<1>5. CASE UNCHANGED vars
  BY <1>5 DEF vars, brain, purging, IInv, TypeOK, FilesAreExact, TakenIsGone,
              QueryIsExact, QueryIsClean, FilesAreClean
<1> QED
  BY <1>1, <1>2, <1>3, <1>4, <1>5 DEF Next

LEMMA SpecIInv == Spec => []IInv
BY InitIInv, NextIInv, PTL DEF Spec

\* Types are kept, and a partial file lies in the directory only while its
\* query is between writing it and renaming it, or a process was killed.
THEOREM Typing == Spec => []TypeOK
<1>1. IInv => TypeOK
  BY DEF IInv
<1> QED
  BY <1>1, SpecIInv, PTL

\* However queries, registrations and erasures interleave, a table answers of
\* its composition exactly what can be read, if nothing was erased or restored
\* under the query or under the table's building.
THEOREM AnswersHold == Spec => []AnswersAreExact
<1>1. IInv => AnswersAreExact
  BY DEF IInv, QueryIsExact, AnswersAreExact
<1> QED
  BY <1>1, SpecIInv, PTL

\* After a purge, only a query that retention overtook leaves a copy of what
\* was erased, no process having been killed.
THEOREM OvertakenKeep == Spec => []OnlyTheOvertakenKeep
<1>1. IInv => OnlyTheOvertakenKeep
  BY DEF IInv, FilesAreClean, OnlyTheOvertakenKeep
<1> QED
  BY <1>1, SpecIInv, PTL
==============================================================================
