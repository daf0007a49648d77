# Verifying vitruvio

TLA+ modules, TLC runs and TLAPS proofs for [vitruvio](https://github.com/getsfumato/vitruvio), the tool that
builds, publishes and queries *brains*: content-addressed knowledge bases kept in OCI layouts. Paths below are
relative to the repository root, `server/` is `apps/server/src/vitruvio/server/`, `runtime/` is
`packages/runtime/src/vitruvio/runtime/`, `sql/` is `packages/sql/src/vitruvio/sql/`, and
`planner/` and `indices/` are the packages of those names. `PROJECT.json` maps every
definition to the lines it models and lists the hazards, each with the properties that watch it.

## 1. Inventory

| component | state it keeps | operations | what is hard about it | what makes it correct |
|---|---|---|---|---|
| **Ingest API** `server/ingest.py` | a hash per job and one stream, in Redis | `submit`, `status` | hash and stream entry must exist together | an accepted job is never lost |
| **Ingest workers** `server/worker.py`, `processing.py` | a lease per job, the stream's pending list, a layout per attempt | `run_forever`, `_deliver`, `_heartbeat`, `_run_job`, `_recover`, `_fail`, `process_job` | crashes, lapsed leases, two live attempts at one job, a push whose answer is lost | terminal states are final; what is reported published is, once, and authorized; every job settles |
| **Query cache** `server/query.py` | an entry per (manifest, configuration): directory, future, users, signatures | `acquire`, `_install`, `release`, `_evict`, `use`, `close` | concurrent misses, cancellation at any await, eviction under use, signatures that land later | no request reads a removed directory; the cache stays bounded; a governed answer is not older than its request |
| **Brain installation** `server/brain.py` | scratch layouts | `make_service`, `resolve_remote`, `install` | a tag that moves during a pull | what is installed is what was authorized |
| **Brain session** `runtime/session.py` | an opened brain per capability, a generation, the writer and its depth | `brain`, `pinned`, `write`, `invalidate` | threads and tasks that share one session | one writer; a cached brain is at the durable head; a read that spanned a write is refused |
| **Source pulls** `runtime/ops/sources.py`, `ops/fetch.py` | the origin index; registered blocks | `pull_source`, `pull_all` | repeated, limited and interrupted pulls; corrected declarations; redacted content | idempotent; corrections take effect; nothing redacted comes back |
| **Retention** `runtime/ops/retention.py` | compositions, tombstones | `drop`, `drop_by_producer`, `supersede`, `demote`, `prune`, `redact` | copies of what was erased: SQL tables, later pulls | an erasure leaves no copy |
| **SQL** `packages/sql` | a directory of projected tables | guard, project, query | tables shared by processes; a store that changes while one is built | an answer is that of one composition |
| **Branches and publication** `runtime/branches.py`, `ops/branches.py`, `publish.py`, `install.py`, `remote.py` | the ref table, registry tags | create, switch, merge, push, pull | others who push to the same tags; work read before a write and used in it; a switch killed between two pointer writes | no commit is lost from every pointer but by a forced delete, a pull of its branch's tag, or a pull of a tag that is no branch's into it |
| **Reconciliation** `ops/reconcile.py` | a working reconciliation between two heads | begin, accept, abandon | it outlives processes; commits and pulls in between | it stands until it is continued or aborted, and is applied to the heads it was made for |
| **Migration** `ops/migration.py` | a new brain beside the old | `plan_migration`, `migrate` | evidence before what derives from it; declarations that name each other; a source that changes under the plan; partial failure | all or nothing, nothing without what it rests on, and a report that accounts for the rest |
| **Indices** `packages/indices`, `runtime/indexset.py`, `ops/indices.py` | six kinds of index and their sidecar files | build, bind, load, flush, query | an embedder that comes and goes; sidecars of other compositions | vectors that travel were built from the composition they are published beside; no two spaces are ranked together |
| **Embeddings** `packages/embeddings` | an SQLite cache; HTTP batches | embed, `get_many`, `put_many` | reordered or partial answers, retries | each text gets its own vector |
| **Planner** `packages/planner` | none | cost, plan, execute, fuse | several plans, candidates cut at several places, blocks that fail verification after ranking | an answer that does not say it is truncated is complete, whichever plan was chosen |
| **Ingest pipelines** `packages/ingest` | none | read, normalize, propose, verify citations | media handling | pure functions of bytes |
| **Kernel, stats, bench** | configuration files, the registry of projects | resolution | layers of configuration; one file lock | pure, but for the lock |
| **CLI, TUI, installer, docs** | terminal state | rendering | none of its own | presentation |

**Interactions.** The CLI, the TUI and both servers reach a brain through `BrainService`, which holds one
`BrainSession`; the operations under `runtime/ops/` share that session, so its `write` is what serialises them.
The ingest workers and the query server share nothing but the registry. Retention and SQL share the table
directory, without a lock. The `boltzmann` SDK (stores, registry clients, `Brain` itself), Redis, DuckDB and the
registries are not part of the repository: they are modelled from how the code above uses them, and such
definitions are marked external in the map.

## 2. Modules

| module | models | state and actions |
|---|---|---|
| `IngestQueue` | the ingest API, workers and processing | job hash (`status`, `request`, `prepared`, `items`, `output`, `error`), stream (`entry`, `idle`), `lease`, registry (`tag`, `signed`), one attempt per worker (`att`). One action per await, request or transaction of `worker.py` and `processing.py` |
| `IngestLedger` | what a client may rely on | `state`, `published`, `result` and `verdict` (may its error be retried?) of a job, with neither queue nor lease. The abstract specification `IngestQueue` implements |
| `QueryCache` | the query server's cache | `_entries` (`table`) and its order (`older`), the `CacheEntry` objects (`slot`), their `directories`, requests, referrers in the registry. One action per stretch between two suspension points |
| `BrainSession` | the runtime's session | `_cache`, `_generation`, `_lock`, `_writer`, `_depth`, the head pointer, and per actor a program counter, the brain it holds and its nested writes |
| `SourcePull` | a pull, from listing to record | sources and declarations that change, the store, the canonical module, the records of each origin, and the pull in progress |
| `Branches` | branches, publication, reconciliation | the head, refs and reconcile pointers, the heads this brain published, the registry's tags, and per actor the operation it is in; one action per write of a pointer or exchange with the registry |
| `VectorLayer` | the vectors of each module | the composition, the layer the snapshot pins, the layers of the manifest, the canonical sidecar, the local fallback, the cache of vectors, the runtime (up, offline, absent), the registry. One action per command |
| `Retrieval` | the planner and its executor | no state: functions of `VectorLayer`'s, which it EXTENDS. Plans, generators, expansion, filters, verification, reserve and limit |
| `Migration` | the recreation of a brain | the source and its changes, the plan, the passes (`todo`, `pending`, `declared`), what was migrated and skipped, the destination |
| `Recreation` | what a migration promises | what the source can give, the destination. The abstract specification `Migration` implements |
| `SqlTables` | the cached tables and their erasure | composition, readable bytes, the files of the directory, one retention operation, the names its purge has listed (`doomed`) and each query's sweep (`stale`), the queries |
| `MC*` | TLC instances | values of constants, symmetry, the view of `BrainSession` |
| `*Proofs` | theorems | section 5 |

`IngestQueue` INSTANCEs `IngestLedger` under the mapping `state <- status, published <- tag, result <- output,
verdict <- error`, and `Migration` INSTANCEs `Recreation` under `available <- Accessible \ gone` and `disturbed <- faulted \/ overtaken # {}`.
`Retrieval` composes the planner with every state of the vectors that `VectorLayer` reaches.
The other components do not share steps: `BrainSession` is the reason each of `SourcePull`'s and retention's writes
may be one at a time (`SourcePull!Writable`, `SqlTables!Retains`), and of the `writer` of `Branches`.

### How actions correspond to code

*Ingest.* `Submit` is the pipeline `XADD` + `HSET`. `Deliver`, `Acquire`, `ReadJob`, `Acknowledge` and
`ReleaseLease` are `_deliver`; `Start`, `Reject`, `Finish`, `Fail` are the transactions of `Lease.guarded`, which
compare the lease key with the attempt's token; `Resolve`, `Install`, `Process`, `ProcessItem`, `Pack`, `Gate`,
`PushCheck`, `PushManifest`, `PushReferrers` are `process_job`, and `Cosign` and `Verify` with `CheckPrepared` are
`_recover`. The heartbeat (`Heartbeat`) renews the lease while the attempt runs or finds it lost; `LeaseLapses` is a
worker that was paused for longer than the lease. `OwnershipLostError` escapes `_fail`'s else branch
(worker.py:250) and `_run_job`'s reject (208) and ends the worker: `Die`. `Restart` is `compose.yaml:21`,
`restart: unless-stopped`. The expiry of a hash is modelled when no attempt is on the job. `CallFails` is whatever
raises on the way to an answer, with an error that may be retried or one that may not; `Raise` is what becomes of it: in
`_run_job` it enters `_fail`, inside `_fail` a retryable one leaves the job pending and any other is recorded as its failure,
even when the artifact is in the registry.

*Query cache.* The cache's lock is an `asyncio.Lock` that is never held across an await, so a step is what runs
between two awaits. Cancellation is an action of every suspended request. A slot is a `CacheEntry` object; it is
reused once neither the table nor a request refers to it (`Collected`), and keeps its user count when its directory
remains, which is how a leaked user is seen.

*Session.* A thread may be preempted between any two steps; a task only where it awaits (`Suspendable`). `lock` is
the `RLock` around opening and forgetting; `writer` and `depth` are `write`'s reentrancy by owner. `MoveHead` is
what the body of a write does to the durable pointer; no operation moves it back within its own write.

*Pulls.* `List` happens before the session's write, `Enter` opens the write and takes the origin index, `Skip`,
`Preflight`, `GoFetch`, `Fetch`, `Refuse` and `Register` are `_pull_one` in its order, `Return` is the end of
`pull_all`. A fetch of any item may fail in three ways, of which only the first is about the item: a `SourceError` or
`OSError` is its outcome, another `VitruvioError` ends its source (`FetchUnavailable`, sources.py:352), and any other exception
ends the whole pull (`FetchRaises`). Records are sorted by identity, which is a hash, so a new record is
inserted anywhere among its origin's and `RegisteredAs` takes the first. The index may be as old as the beginning of
the write. `Redact` and `RegisterByHand` are other operations, admitted when no pull is inside the write.

*SQL tables.* `Look` computes `_cache_key` and asks whether the file exists; `Project`, `ReadRow` and `RowFails` are
`_rows`, which asks `resolvable()` anew and reads one block at a time; `CopyOut`, `Replace` and `Sweep` are
`_persist`; `Purge` is `purge_sql_cache`, after the retention operation's write. A purge and a sweep each list the
directory (`PurgeLists`, `SweepLists`) and then unlink what they listed by name, one file a step (`PurgeUnlinks`,
`SweepUnlinks`), whatever a query has put under the name by then. A block is readable when the live store has it, which is
what `resolvable()` asks.

*Branches.* The actors are threads and tasks of one process; `writer` is the session's write, and what an operation
reads before it enters (the default tag, the branch's existence, the plan of a reconciliation) is a step of its own.
`Checkout`, `MoveHead` and the step after it are the three pointer writes of a switch, `Kill` ends the process between
any two of them. `Push*` and `Pull*` follow `publish.py` and `install.py`: the check against the registry's tag, the
upload, the record of what was published. Tags are the branches' and others (`Releases`): a pull of a tag that is no
branch's is routed to the current branch (`Routed`) and replaces its head (`Replaced`). A push may name its tag (`PushTo`) and
may be forced. `Plan`, `Reconcile`, `Resolve`, `Continue` and `Abort` are `reconcile.py`;
`Other` is another clone that pushes. A snapshot is a number and its ancestors; blocks are left out, and a merge
is clean or not (`Disputed`).

*Vectors.* A command is a process of its own, so it is one step; its texts may be answered in part by the runtime (`answers`),
and a commit may be killed between the sidecar and the head (`killed`). `Build`, `Bind`, `Load` and `Flush` are the index's
own methods; `QueryView` is the order in which a query looks for vectors, `Queryable` the comparison of the reference
vectors.

*Queries.* `Plans(q)` are the plans the validity rule admits, each of which some measurement makes the cheapest.
`Node(n)` is the n-th operator a plan may have, module by module, `Planned` whether it has it; `Found` runs them one after
the other through `Generate`, and `Bundle` is the tail. `Rankings` are the orders in which fusion may put
the candidates, with identity matches first; no two candidates share a place, since `fusion.py:121` breaks ties by identity.

*Migration.* One action per block copied (`Copy`) or gathered (`Gather`), per batch, and for the catalogue, which is one call
with its declarations in order, schemes, classes, hierarchies, placements: `Validated` goes through them kind after kind, and
`refused` are those the catalogue refuses for a reason of its own (an exclusive scheme), which `--allow-partial` passes over.
`Fail` is an exception or a kill at any of them. `Redact`, `Withdraw` and `Add` are other writers of the source, `Occupy` somebody who
makes the destination meanwhile.

## 3. Runs

| run | question | bounds |
|---|---|---|
| `ingest_governed` | does a governed job survive crashes and failures, recover what it published, and settle? | 1 job, 2 workers, 2 items, 2 digests, 2 faults; fairness |
| `ingest_ledger` | do two jobs, one of which is unreadable, behave as the ledger says? | 2 jobs, 2 workers, 2 faults; workers symmetric |
| `cache_serves` | are requests served from directories that exist, fresh, bounded, and always answered? | 2 requests, 2 keys, capacity 1, 1 signature, 1 leak; fairness |
| `session_safety` | do reads, pinned reads and nested writes of two tasks and a thread stay coherent? | 3 actors, 2 capabilities, 2 head moves, nesting 2, 1 invalidation |
| `pull_sources` | are pulls idempotent, faithful to their declarations and to redactions, and do limited pulls finish? | 2 sources, 3 items, 2 changes, 3 modes of pull; the first item of the first source may fail, end its source or end the pull, with items after it in both sources; fairness |
| `sql_tables` | are tables exact, and what of erased blocks stays on disk? | 2 queries, 1 block, 2 events (changes of the brain, operations stopped or killed); fairness |
| `branches_lines` | can a line of history be lost, published under another branch's tag, or a reconciliation be displaced? | 2 symmetric actors of one process, main, one branch and one more tag, 4 snapshots, 3 operations, either strategy |
| `retrieval_answers` | do published vectors describe their composition, and is every plan's answer correct and honest about truncation? | 2 modules, 4 blocks (one without text), 4 commands; 8 queries, 2 overfetches and 2 rankings on brains at most 2 commands old |
| `migration_recreates` | is a recreation all or nothing, of what can be made from what is there, complete and accounted for? | 1 canonical block, 2 derived in a chain, a scheme, its 2 classes, a hierarchy and a placement; 3 starts, 2 changes |
| `ingest_unfenced` | is publication fenced by the lease? **No** (finding) | 1 job, 2 workers, 1 fault, a lease may lapse during a push |
| `cache_leak` | is the idle cache within its capacity? **No** (finding) | as `cache_serves`, 2 governed keys |
| `sql_erasure` | does an erasure leave no copy? **No** (finding) | 1 query, 2 blocks, 1 event |

**Why the bounds are enough.** The races of the ingest queue are between two attempts at one job, each of which needs
one fault to lose its lease and the second fault to lose an answer or to crash; a second job adds only the interleaving
of entries, which `ingest_ledger` has. The cache's are between an owner and a waiter of one entry and an entry that has
to be evicted for them, which takes two keys, two requests and room for one. The session's are between a reader that
opens, a writer, and a second task on the writer's thread. A pull's properties are about one item and what happened to
it since the last pull, two changes; a second source is there to fail without the first, or because of it. The SQL tables'
invariants were checked once with a third event (redact, register again, redact) and hold (3.3 million states). A race
between branches takes one operation that has read and one that writes, and the losses they could cause show after a push or
a fetch: three operations; four were checked once and hold (5.7 million states). The vectors' four commands reach a layer that is made, published, replaced or redacted and pulled back
under another runtime; a query cuts at its limit with four blocks already, at the pool and at an expansion of one.
The derived chain of a migration takes the passes it takes to commit one block that waits for another, the catalogue has one
name at each remove, and two changes hit both the plan and the copy; a second canonical block and six starts were checked
once and hold (7.3 million states). What the bounds may hide the theorems of section 5 do not have.

**Fairness.** `IngestQueue!Fairness` is that of the loop a worker runs: it goes on with its attempt, polls new and
abandoned entries, and is restarted. Registry failures are bounded, so they need not be fair. `QueryCache!FairSpec` lets
every suspended request of the event loop go on. `SourcePull!FairSpec` is a schedule that pulls all sources again and
again, without `--dry-run` and without `--refetch`. `SqlTables!FairSpec` is that a retention operation and queries go on,
and that queries are asked again; without it nothing would ever sweep. `Branches`,
`VectorLayer` and `Migration` state safety only and assume no fairness.

**Deadlock** is checked except where the system may stop: idle workers only poll, the query server's lifespan ends, nobody has to
begin another operation or command, and a migration ends.

## 4. Findings

1. *Publication is not fenced* (`server/processing.py:134`, run `ingest_unfenced`). `worker.py`'s docstring says every state
   change, publication included, is conditioned on the attempt's token. `check` precedes the push, and a lease that
   lapses during the push lets a second attempt publish as well. With `PushOutlivesLease = TRUE` TLC also finds
   `PublicationAgrees`, `ItemsMatchStatus`, `ImplementsLedger` and `PublishedOnce` violated; `TerminalIsFinal` and
   `Resumable` hold, and are proved without assuming otherwise. Every other ingest run assumes a push does not outlive its
   lease.
2. *An entry keeps a user it lost* (`server/query.py:103`, run `cache_leak`). The waiter that refreshes the signatures has
   already been counted when its listing fails or is cancelled: the entry is never idle again, and the cache grows past
   its capacity.
3. *An erasure may leave a copy* (`runtime/ops/retention.py:230`, run `sql_erasure`): a query that opened the brain before a
   redaction or a drop writes its table after the purge. `OnlyTheOvertakenKeep` and `ErasedCopiesGo` state what does hold.

Smaller divergences met while modelling, not runs of their own. `session.py:137` says a pinned read's result is refused if
the composition was replaced while it ran; between the move of the head and the invalidation at the write's end
(203-204) it is accepted, and describes the composition before a write that has not returned. `engine.py:138-140` says a
false tombstone is never cached: a table's name and its rows ask `resolvable()` at two moments, so a block redacted or
restored between them is cached under a name that says the opposite (`AnswersAreExact` is about queries under which the
store stayed the same). A killed query leaves its partial file until the next purge. Bytes declared under a second name are downloaded once
(`docs/sources/declared-sources.mdx:96` says so); items whose type is only known from their bytes are downloaded by
every pull, and so is an item whose declaration was corrected when its old record's identity sorts before the new one's
(`runtime/ops/fetch.py:218`; `HeldIsNotFetched` states what does hold).

*Ingest.* `worker.py:9-11` says of a push whose answer was lost that "an answer it cannot get leaves the job recoverable rather
than terminal", and `docs/server/ingest-api.mdx:126` that the job stays `running`. An error of the check that may not be
retried is recorded as the job's failure instead (`worker.py:254`): a layout that fails verification (`server/brain.py:270`),
a block error, or any exception that has no row in the runtime's table of errors. The job has then failed with its artifact
under the output tag. The ledger says so (`IngestLedger!Fail`): only an error that may be retried says that nothing was published.

*Pulls.* `fetch.py:109-110` says one unreadable file must not cost the others their registration, and `sources.py:319` that a
pull of all goes on past a failed source (`docs/sources/declared-sources.mdx:135`). An item whose fetch raises neither a
`SourceError` nor an `OSError` costs those after it in its source theirs, at every pull, and unless it raises a `VitruvioError`
those of the sources after it as well. `PullsDrain` is about items that no such item is ahead of for ever.

*Branches.* A push that names no tag takes the current branch's (`publish.py:177`) before it enters the session's write, though
`branches.py:67` says a branch publishes to its own tag: a switch in between publishes the new branch's head under the old
one's tag. `PublishesItsOwn` excepts those overtaken actors, and pushes whose tag was named. A pull of a tag that is no
branch's replaces the current branch's head (`install.py:97-99` with `branches.py:83-84`): work that was not published is then in
no pointer, which `WorkIsNamed` excepts as it does a pull of the branch's own tag.

*Vectors.* `indexset.py:231` restores a sidecar "if it describes this module", and accepts one that names no composition.
`index build` binds every module's index, including those it did not build. A push or a commit without the runtime drops
cached vectors of a module that has a block without text, since such an index never looks complete. A layer that is
short, because the runtime answered in part, wins over a complete canonical sidecar until the next commit, and is
reported ready. A build whose last probe fails stores no reference vectors, and any runtime is then accepted for it.

*Planner.* `cost.py:241` counts `VectorSearch` and `BruteVector` over one kind of index as two opinions. In lexical mode a
usable vector index makes the plan of terms alone inadmissible, so the exhaustive scan is what runs. Scopes without the
chosen generator's index are not searched, without a word. An expansion may return blocks of modules outside the scopes that were
asked for. A vector probe that fails at query time counts as exhausted, with a degradation beside the answer
(`execute.py:415`). The plans differ in what they find for these reasons, and `TruncationIsHonest` compares an answer with that of the same plan without
limits.

*Migration.* `docs/brain/migrating-legacy-brains.mdx` says the default migration fails atomically when a block cannot be
recreated; a block whose bytes or accessibility went after the plan is passed over (`ops/migration.py:256`, `312`), and a placement whose
source went is skipped (382), in the default mode too. Classes whose scheme was withdrawn are refused by a
migration whose dry run named no problem. An empty directory made at the destination meanwhile is replaced.
`ReportAccounts` and `Recreation` except what changed after the plan.

## 5. Proofs

Every safety invariant, action property and refinement that a passing run checks is a theorem, for arbitrary constants
under the named ASSUMEs of its module and for unbounded behaviours; what is left to TLC is liveness. The assumptions say
what values the constants have (typed, finite where something is counted, markers that are not among what they mark);
those that say more are named below, with what justifies them. TLC evaluates all of them on every run.

- `IngestQueueProofs`. `Typing`, `JobsStayResumable` and `TerminalStaysFinal` hold whether or not a push may outlive its
  lease. `IInv` adds to the types: an attempt has a token exactly while it works (`AttemptShape`), no two attempts
  have the same token (`TokensDiffer`), and **an attempt that still holds the lease is right about its job**
  (`OwnerKnowsStatus`): at a working step the job is unfinished, at its acknowledgement it is finished or expired. The last
  is why the guard on the token suffices: a write by the owner never meets a terminal status. It is not inductive
  without `TokensDiffer`, and `Resumable` is not without it.
  `PublicationHolds`, `ItemsAgree`, `TagsAreWrittenOnce` and `QueueImplementsLedger` are stated `ASSUME ~PushOutlivesLease`,
  the hypothesis finding 1 shows to be necessary. `PInv` says what the registry and the hash owe each other
  (`JobPublishes`), what any attempt knows (`AttemptKnows`) and what only an owner does (`OwnerPublishes`): among that, that
  it is at the failure of a job either with nothing under the tag or with the error of a check that may not be retried. The gate
  asks for the lease in front of a first push, but a recovering attempt pushes without asking: what makes that sound,
  and is part of the invariant, is that the tag it writes names its artifact already. The refinement maps a publication to the one
  `PushManifest` that changes the tag, and a completion or failure to the one transaction that makes the status terminal; every
  other step stutters.
- `BrainSessionProofs`: `WritersExclude`, `CachesAreCoherent`, `WritesAreBuilt`, `ReadsFollow`, `PinnedAnswersFollow`, from
  twelve conjuncts. `OneWriter` counts the scopes an actor is in; `Fresh` says a cached brain is older than the head only
  while a writer is inside who will invalidate (its outermost frame is below the head: `FramesBelow`); `SettledBelow`,
  `CacheFollows`, `AnswersFollow` carry the history variables `settled` and `since` to the reads.
- `QueryCacheProofs`: `Typing`, `DirectoriesHold`, `EvictionHolds`, `AnswersStayFresh`. A step of the cache is a sequence of
  calls on its books (evict, release, dispose), so the invariant is a predicate `Sound(b, rq)` of books `b` and requests `rq` half-way
  through a step, which every call keeps. It counts: an entry has at least as many users as requests refer to it
  (at least, because of the leak of finding 2), and its directory is there for the table, for them, or for a leaked user,
  and for nobody else. `Kept`, that a table beyond its capacity has no idle entry, is established by each eviction from the
  order of the table (`Ordered`), by the entry that comes first among those wrongly kept.
  A governed answer is fresh because an entry was pulled after the referrers its reader listed (`RequestKnows`); that nothing
  is listed for a key that is not governed is `Ungoverned`.
- `SourcePullProofs`: `RedactionsAreKept`, that no step of a pull brings a tombstoned byte sequence back, needs the type of the
  store alone. `DeclarationsHold` and `HeldStays` follow from `Accounts`: an item that was settled under a declaration and an
  offer is in the brain as declared (`Taken`) and would be found there by the next pull (`Found`). A write to an origin unsettles
  the items of it, and what a pull holds in its index is still true of what it has left (`IndexServes`). That uses that a source lists an item
  once, and that a pull of all takes a source once (`PullAssumption`): a source's declaration is the key of a table, and
  an item an entry of its listing.
- `SqlTablesProofs`: `Typing`, `AnswersHold`, `OvertakenKeep`. `FilesAreExact` and `QueryIsExact` follow a table from its
  name over its rows to its file, as long as the store stayed the same (`steady`); `QueryIsClean` says that a query that
  retention has not overtaken reads nothing that was taken, and `FilesAreClean` that a file with something of it is an
  overtaken query's or has a name that the purge is still to list or to unlink. The purge lists every file that is there when
  something is taken, and unlinks by name, so a query that puts its file in place between the two, or lost to the purge its
  partial one, leaves none but as one of the overtaken.
- `BranchesProofs`: `Typing`, `WorkHolds`, `PushesHold`, `LinesHold`, `OpenHolds`, `FetchHolds`. `Knows` says what an actor
  relies on between two steps: of the one inside the session's write, that nobody else moved a pointer (`Writes`); of one that
  has only read, that it was overtaken or that what it read still holds. The three action properties are proved beside the
  invariant, one lemma per group of steps (`Advances`). `WorkIsNamed` is not inductive about the table,
  as a checkout overwrites what the table last recorded of the branch it leaves: it is proved of the lines (`WorkOnLines`), which are what the
  table and the head together name. What a pull gives up, and so leaves out of the lines, is taken from the head it replaces,
  that of the current branch included when the tag is no branch's.
- `RetrievalProofs`, about the vectors and about the answers over them. `Typing`, `LayersDescribe`, `AnotherSpaceIsNotRanked`: the
  invariant says of every stored copy, the sidecars and what is published included, that its rows are readable
  text of its own module and its reference vectors of its own space; and of what is pinned, in the manifest or in the
  registry that it was built from the composition beside it. The types alone are not inductive: a pull takes over
  what the registry holds, about which `TypeOK` says nothing.
  `AnswersStayAcceptable` is about one bundle in any state: candidates are strictly ordered, so the first n of them are n
  or all (`FirstOnes`), and a reserve of twice the limit has the limit left when no more than the limit fails verification.
  `TruncationStaysHonest` compares two runs of one plan, one with limits and one without, node by node (`RunsAgree`): as long as the first says
  it has read every domain, both have found the same blocks in the same ways. Each generator has a lemma that what it cuts it reports
  (`LexicalIs`, `SemanticIs`, `ExpandIs`). `Found` is a recursive function; that it has the values its definition says
  is `RunsExist` and `FoundIs`, by the least place at which it would not. These theorems hold for every chosen plan,
  also one the validity rule refuses, and need of the rankings only that ties are broken.
- `MigrationProofs`: `DestinationIsGrounded`, that what a destination holds can be made one block after another from what is
  there; `ReportsHold`, that the report accounts for every block that was planned; and `MigrationRecreates`, the refinement of
  `Recreation`. For the first, `Passes` says what each pass may still hold, and what is migrated stays `Grounded`: no smaller
  part of it has all that can be made from that part, which rules out blocks that rest on each other in a circle as well as what is
  missing. A batch adds blocks whose evidence is there, and the catalogue its schemes, then classes, then hierarchies and
  placements (`ValidatedIs`, `GroundedGrows`). For the report (`RInv`), the passes lose no planned
  block and take none twice (`PassesAccount`), a plan is closed (`PlanIsSound`), and what the source no longer is as planned is in
  `overtaken` (`SourceAsPlanned`). For the refinement (`UInv`), an undisturbed migration still has its plan as inventory and
  copies all of it: what the passes and the catalogue have made is closed in what the source can give, and being grounded it is
  the least set that is, which is what the specification asks for. Nothing is assumed of evidence, which provenance records
  give and which might be circular; of declarations, that a class names schemes, a hierarchy classes, and a placement a source
  and classes (`MigrationAssumption`), which is what their fields are (`ops/catalog.py:203-226`).

Each theorem's last step is temporal and cites `Init => IInv`, `IInv /\ [Next]_vars => IInv'` and what `IInv` implies.

**Model-checked only.** Liveness under fairness, which the prover does not do: `EveryJobSettles`, `RequestsEnd`, `PullsDrain`,
`ErasedCopiesGo`. The findings are counterexamples of TLC.

**How the models were made provable.** No module with a theorem reaches a RECURSIVE operator. The eviction of `QueryCache`
is the set of entries that the walk in order drops instead of the walk; `Migration!Reproducible` is the least closed set instead of the passes that compute it, as is `Recreation!Makeable`;
`Retrieval!Found` is a recursive function over the places of a plan.

## 6. What is not modelled

Each component's entry in `PROJECT.json` has the reason. Floating point (planner costs, statistics, vector scores) is
out of TLC's reach: `Retrieval` leaves open which plan and which ranking they choose. The SQL guard, the ingest pipelines, configuration and rendering are functions of text. Other
processes that write the same brain are outside `BrainSession`, whose lock is per process. `SourcePull` leaves out drop,
prune and supersede between pulls, and indexes that are absent. The threads a cancelled installation leaves running are
outside `QueryCache`. `Branches` leaves out signing, references, credentials, sparse pulls and archives, and what a decision of a
reconciliation does to a block. `VectorLayer` leaves out a changed model tag, the restoration of older formats, chunking
and the approximate search; `Retrieval` date scans and the catalogue's classes. `Migration` leaves out the metadata a new
registration carries and the dry run, which has no effect, looks at the source's plan in one moment, and takes for granted that a
block has the schema and one of the memory types the migration knows. A scheme's name stands for one declaration of
it, though two may differ in being exclusive; the rules by which the catalogue refuses a declaration whose names are
there are not modelled, only that it may (`refused`).

## 7. Plan

Done: the ingest service and its ledger, the query cache, the session, pulls, the SQL tables (the components where
processes, tasks and failures meet first), then branches, the vectors, the planner's answers and migration; proofs of every
safety property and refinement of these.

Next, to be modelled:

1. `EmbeddingBatches`: batching, reordering and retries of the HTTP client, over the cache. It refines the `answers` of
   `VectorLayer!Build`.
2. `StructuralIndices` and `Fusion`: B+-tree ranges, bitmap algebra, graph walks and rank fusion as functions, against scans.
   They refine `Retrieval!Generate`.
3. Questions put to several brains at once.

Worth proving next: that a plan with the exhaustive scan finds what any other plan finds by content, which relates two plans of
`Retrieval` rather than two limits; and, of `QueryCache`, that without a leak the idle part of the table is within its capacity. There is one passing run per question, each under two minutes; as components are added, instances of
one module are merged rather than multiplied.
