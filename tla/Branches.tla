------------------------------- MODULE Branches -------------------------------
(***************************************************************************)
(* The branches of one brain and the registry it shares with others        *)
(* (runtime branches.py, ops/branches.py, publish.py, install.py,          *)
(* reconcile.py): threads and tasks of one process that share a session,   *)
(* whose writer serialises what they write and nothing of what they read   *)
(* before; a process that may be killed between two pointer writes; and    *)
(* other people, who push to the same tags.                                *)
(*                                                                         *)
(* A snapshot is a number, and past[s] the snapshots s descends from, s    *)
(* included.  A branch and the tag it publishes to have one name here:     *)
(* what may differ is the tag the table records for main, and that is the  *)
(* table's "aligned"; Releases are the tags that are no branch's.  Two     *)
(* histories join cleanly unless both hold a disputed snapshot the other   *)
(* has not.  An operation that neither awaits nor writes two pointers is   *)
(* one step.  The SDK's own writes are external and modelled as ADR-0027   *)
(* and the callers describe them.  MaxSnapshots bounds the snapshots ever  *)
(* minted, MaxOperations the operations begun.                             *)
(***************************************************************************)
EXTENDS Naturals, Sequences

CONSTANTS Actors, Branches, Releases, Main, None, Strategies, Disputed,
          MaxSnapshots, MaxOperations

ASSUME BranchesAssumption ==
    /\ Main \in Branches /\ None \notin Branches \cup Actors
    /\ Releases \cap Branches = {}
    /\ Strategies \subseteq {"merge", "rebase"} /\ Strategies # {}
    /\ Disputed \subseteq Nat
    /\ MaxSnapshots \in Nat \ {0} /\ MaxOperations \in Nat

VARIABLES
    past,      \* of each snapshot ever minted, itself and its ancestors
    head,      \* the head pointer
    table,     \* the refs pointer; of an empty domain while there is none
    open,      \* the reconcile pointer
    published, \* the heads this brain pushed or pulled
    tags,      \* the registry
    writer,    \* who is inside the session's write
    op,        \* what each actor is doing
    begun,     \* how many operations were begun
    mine       \* history: what was minted here and not given up since

local == <<head, table, open, published>>
vars == <<past, local, tags, writer, op, begun, mine>>

Tags == Branches \cup Releases
Snapshots == 1..Len(past)
Nothing == 0
Closed == [ours |-> Nothing, theirs |-> Nothing, answered |-> FALSE]

Steps == {"idle", "checkout", "moving", "moved", "align", "push", "pushing",
          "confirm", "pull", "install", "fetch", "contains", "plan",
          "reconcile", "join", "record"}

\* An actor's operation: the branch or tag it is about, the history it joins,
\* whether it creates its branch and, as history, whether its tag was given,
\* whether it came from a fetch and whether what it read first has changed.
Idle == [pc |-> "idle", branch |-> Main, theirs |-> Nothing, creates |-> FALSE,
         given |-> FALSE, fetched |-> FALSE, overtaken |-> FALSE]
Operations == [pc : Steps, branch : Tags, theirs : 0..MaxSnapshots,
               creates : BOOLEAN, given : BOOLEAN, fetched : BOOLEAN,
               overtaken : BOOLEAN]

Init ==
    /\ past = << {1} >>
    /\ head = 1 /\ published = {1}
    /\ table = [current |-> Main, switching |-> None, at |-> << >>,
                aligned |-> TRUE]
    /\ open = Closed
    /\ tags = [t \in Tags |-> IF t \in {Main} \cup Releases THEN 1 ELSE Nothing]
    /\ writer = None
    /\ op = [a \in Actors |-> Idle]
    /\ begun = 0 /\ mine = {}

----------------------------------------------------------------------------
(* What the pointers say *)

Known == DOMAIN table.at
HasTable == Known # {}

\* The branch the brain is on: a checkout whose head has moved is over.
Current ==
    IF /\ table.switching \in Known
       /\ table.at[table.switching] = head
    THEN table.switching ELSE table.current

\* MUTANT of DefaultTag: the branch the table says is current.
DefaultTagRecorded == table.current
\* The tag a push, a pull or a fetch that names none is about.
DefaultTag ==
    IF /\ table.switching \in Known
       /\ table.at[table.switching] = head
    THEN table.switching ELSE table.current

\* The head of a branch: of the current one, the head pointer.
Line(b) == IF b = Current THEN head ELSE table.at[b]

\* What the head and the branches name.
Reached == UNION {past[h] : h \in {head} \cup {table.at[b] : b \in Known}}

\* The branch whose line a pull of a tag replaces: a tag's own, and of a tag
\* that is no branch's the one the brain is on.
Replaced(tag) == IF tag \in Releases THEN Current ELSE tag

\* The branch it installs into: an unaligned table does not know the project's
\* tag for main's.
Routed(tag) ==
    IF tag = Main /\ HasTable /\ ~table.aligned THEN Current ELSE Replaced(tag)

Clean(ours, theirs) ==
    \/ Disputed \cap (past[ours] \ past[theirs]) = {}
    \/ Disputed \cap (past[theirs] \ past[ours]) = {}

\* The SDK settles an interrupted checkout on its next read.
Settled == [table EXCEPT !.current = Current, !.switching = None]
Put(f, b, s) == [c \in DOMAIN f \cup {b} |-> IF c = b THEN s ELSE f[c]]

\* a goes on with the record given; whoever has read the branch or the head
\* and not acted on it yet is overtaken when it changes.
Goes(a, record) ==
    /\ begun' = IF op[a].pc = "idle" THEN begun + 1 ELSE begun
    /\ op' = [c \in Actors |->
                IF c = a THEN record
                ELSE [op[c] EXCEPT !.overtaken =
                        \/ op[c].overtaken
                        \/ op[c].pc = "push" /\ Current' # Current
                        \/ op[c].pc \in {"plan", "reconcile"} /\ head' # head]]
Free(a) == op[a].pc = "idle" /\ begun < MaxOperations
At(a, pc) == [op[a] EXCEPT !.pc = pc]
Starts(pc, b, creates) ==
    [Idle EXCEPT !.pc = pc, !.branch = b, !.creates = creates]

\* A snapshot of the parents given, with the next number.
New == Len(past) + 1
Mint(parents) ==
    /\ New <= MaxSnapshots
    /\ past' = Append(past, {New} \cup UNION {past[p] : p \in parents})

----------------------------------------------------------------------------
(* Commits, and branches created, switched and deleted *)

\* Any operation that commits: refused while a reconciliation is open.
Commit(a) ==
    /\ Free(a) /\ writer = None /\ open = Closed
    /\ Mint({head})
    /\ head' = New /\ mine' = mine \cup {New}
    /\ table' = Settled
    /\ UNCHANGED <<open, published, tags, writer>>
    /\ Goes(a, Idle)

\* create_branch: the first one writes the table, whose tag for main is the
\* SDK's or the one last pulled from; align_default_branch comes after it.
Create(a, b, start, switch) ==
    /\ Free(a) /\ writer = None
    /\ b \notin Known \cup {Main} /\ start \in Reached
    /\ switch => open = Closed
    /\ table' = [Settled EXCEPT
                    !.at = Put(Put(table.at, Current, head), b, start),
                    !.aligned = HasTable /\ table.aligned]
    /\ writer' = a
    /\ UNCHANGED <<past, head, open, published, tags, mine>>
    /\ Goes(a, Starts(IF switch THEN "checkout" ELSE "align", b, TRUE))

\* align_default_branch, and the end of the write.
AlignCreated(a) ==
    /\ op[a].pc = "align"
    /\ table' = [table EXCEPT !.aligned = TRUE]
    /\ writer' = None
    /\ UNCHANGED <<past, head, open, published, tags, mine>>
    /\ Goes(a, Idle)

\* branch_switch looks: a branch held here is checked out, one that is not is
\* pulled from its tag (with --create it is branch_create).
Switch(a, b) ==
    /\ Free(a)
    /\ UNCHANGED <<past, local, tags, writer, mine>>
    /\ Goes(a, Starts(IF b \in Known \cup {Main} THEN "checkout" ELSE "pull",
                      b, FALSE))

\* MUTANT of Checkout: the head is left where it was not recorded.
CheckoutUnrecorded(a) ==
    LET b == op[a].branch IN
    /\ op[a].pc = "checkout" /\ writer \in {None, a}
    /\ b \in Known /\ open = Closed
    /\ table' = [Settled EXCEPT !.switching = b]
    /\ writer' = a
    /\ UNCHANGED <<past, head, open, published, tags, mine>>
    /\ Goes(a, At(a, "moving"))
\* The head is recorded under its own branch before it moves.
Checkout(a) ==
    LET b == op[a].branch IN
    /\ op[a].pc = "checkout" /\ writer \in {None, a}
    /\ b \in Known /\ open = Closed
    /\ table' = [Settled EXCEPT !.at = Put(table.at, Current, head),
                                !.switching = b]
    /\ writer' = a
    /\ UNCHANGED <<past, head, open, published, tags, mine>>
    /\ Goes(a, At(a, "moving"))

\* Deleted since it was looked for, or a reconciliation is open.
CheckoutRefused(a) ==
    /\ op[a].pc = "checkout" /\ writer = None
    /\ op[a].branch \notin Known \/ open # Closed
    /\ UNCHANGED <<past, local, tags, writer, mine>>
    /\ Goes(a, Idle)

MoveHead(a) ==
    LET b == op[a].branch IN
    /\ op[a].pc = "moving"
    /\ head' = table.at[b]
    /\ UNCHANGED <<past, table, open, published, tags, writer, mine>>
    /\ Goes(a, At(a, "moved"))

\* The table says so; a branch that was created is aligned next.
EndCheckout(a) ==
    /\ op[a].pc = "moved"
    /\ table' = [table EXCEPT !.current = op[a].branch, !.switching = None]
    /\ writer' = IF op[a].creates THEN a ELSE None
    /\ UNCHANGED <<past, head, open, published, tags, mine>>
    /\ Goes(a, IF op[a].creates THEN At(a, "align") ELSE Idle)

\* branch_delete: without force, only what something else still names.
Delete(a, b, force) ==
    /\ Free(a) /\ writer = None
    /\ b \in Known \ {Main, Current}
    /\ \/ force
       \/ table.at[b] \in published
       \/ \E c \in Known \ {b} : table.at[b] \in past[Line(c)]
    /\ table' = [Settled EXCEPT !.at = [c \in Known \ {b} |-> table.at[c]]]
    /\ mine' = IF force THEN mine \ past[table.at[b]] ELSE mine
    /\ UNCHANGED <<past, head, open, published, tags, writer>>
    /\ Goes(a, Idle)

----------------------------------------------------------------------------
(* Pushes: push_async *)

\* _prepare: the tag is chosen before the session's write.
Push(a) ==
    /\ Free(a)
    /\ UNCHANGED <<past, local, tags, writer, mine>>
    /\ Goes(a, Starts("push", DefaultTag, FALSE))

\* An explicit --tag wins, and renames no branch.
PushTo(a, tag) ==
    /\ Free(a)
    /\ UNCHANGED <<past, local, tags, writer, mine>>
    /\ Goes(a, [Starts("push", tag, FALSE) EXCEPT !.given = TRUE])

\* brain.push resolves the tag: what it names has to be behind the head,
\* unless the push is forced.
PushChecked(a, force) ==
    LET there == tags[op[a].branch] IN
    /\ op[a].pc = "push" /\ writer = None
    /\ force \/ there = Nothing \/ there \in past[head]
    /\ table' = Settled
    /\ writer' = a
    /\ UNCHANGED <<past, head, open, published, tags, mine>>
    /\ Goes(a, At(a, "pushing"))

PushRefused(a) ==
    LET there == tags[op[a].branch] IN
    /\ op[a].pc = "push" /\ writer = None
    /\ there # Nothing /\ there \notin past[head]
    /\ UNCHANGED <<past, local, tags, writer, mine>>
    /\ Goes(a, Idle)

\* The tag is written, and read again for whether somebody replaced it.
PushTag(a) ==
    /\ op[a].pc = "pushing"
    /\ tags' = [tags EXCEPT ![op[a].branch] = head]
    /\ UNCHANGED <<past, local, writer, mine>>
    /\ Goes(a, At(a, "confirm"))
PushEnds(a) ==
    /\ op[a].pc = "confirm"
    /\ published' = IF tags[op[a].branch] = head
                    THEN published \cup {head} ELSE published
    /\ writer' = None
    /\ UNCHANGED <<past, head, table, open, tags, mine>>
    /\ Goes(a, Idle)

----------------------------------------------------------------------------
(* Pulls: pull_async, and branch_switch when it tracks *)

Pull(a, tag) ==
    /\ Free(a)
    /\ UNCHANGED <<past, local, tags, writer, mine>>
    /\ Goes(a, Starts("pull", tag, FALSE))

\* MUTANT of PullFetch: the table is left as the SDK wrote it.
PullFetchUnaligned(a) ==
    LET there == tags[op[a].branch] IN
    /\ op[a].pc = "pull" /\ writer = None /\ there # Nothing
    /\ table' = Settled
    /\ writer' = a
    /\ UNCHANGED <<past, head, open, published, tags, mine>>
    /\ Goes(a, At(a, "install"))
\* align_default_branch, and the fetch whose snapshot is authenticated.
PullFetch(a) ==
    LET there == tags[op[a].branch] IN
    /\ op[a].pc = "pull" /\ writer = None /\ there # Nothing
    /\ table' = [Settled EXCEPT !.aligned = TRUE]
    /\ writer' = a
    /\ UNCHANGED <<past, head, open, published, tags, mine>>
    /\ Goes(a, At(a, "install"))

\* Nothing under the tag, before anything is written but the alignment.
PullMissing(a) ==
    /\ op[a].pc = "pull" /\ writer = None
    /\ tags[op[a].branch] = Nothing
    /\ table' = [Settled EXCEPT !.aligned = TRUE]
    /\ UNCHANGED <<past, head, open, published, tags, writer, mine>>
    /\ Goes(a, Idle)

\* brain.pull resolves the tag anew and installs what it names now into the
\* tag's branch, or into the current one when it is no branch's, the current
\* one being recorded first; an older head than the branch's only with
\* allow_rollback, which a caller may or may not pass.
Install(a) ==
    LET tag == op[a].branch
        served == tags[tag]
        b == Routed(tag)
        left == Replaced(tag)
        kept == Put(table.at, Current, head)
    IN
    /\ op[a].pc = "install" /\ open = Closed
    /\ head' = served
    /\ table' = IF ~HasTable /\ b = Current THEN table
                ELSE [current |-> b, switching |-> None,
                      at |-> Put(kept, b, served), aligned |-> table.aligned]
    /\ published' = published \cup {served}
    /\ mine' = IF left \in Known \cup {Current}
               THEN mine \ (past[Line(left)] \ past[served]) ELSE mine
    /\ writer' = None
    /\ UNCHANGED <<past, open, tags>>
    /\ Goes(a, Idle)

\* MUTANT of InstallRefused: the error leaves the session's write entered.
InstallRefusedInside(a) ==
    /\ op[a].pc = "install"
    /\ UNCHANGED <<past, local, tags, writer, mine>>
    /\ Goes(a, Idle)
\* A reconciliation is open, the pull would roll back, or the snapshot is not
\* authorized or its answer lost.
InstallRefused(a) ==
    /\ op[a].pc = "install"
    /\ writer' = None
    /\ UNCHANGED <<past, local, tags, mine>>
    /\ Goes(a, Idle)

----------------------------------------------------------------------------
(* Fetches: fetch_async, _auto_reconcile *)

Fetch(a, tag) ==
    /\ Free(a)
    /\ UNCHANGED <<past, local, tags, writer, mine>>
    /\ Goes(a, Starts("fetch", tag, FALSE))

\* The write that moves no pointer.
FetchBrings(a) ==
    LET there == tags[op[a].branch] IN
    /\ op[a].pc = "fetch" /\ writer = None /\ there # Nothing
    /\ UNCHANGED <<past, head, table, open, published, tags, writer, mine>>
    /\ Goes(a, [At(a, "contains") EXCEPT !.theirs = there, !.fetched = TRUE])
FetchMissing(a) ==
    /\ op[a].pc = "fetch" /\ writer = None
    /\ tags[op[a].branch] = Nothing
    /\ UNCHANGED <<past, local, tags, writer, mine>>
    /\ Goes(a, Idle)

\* MUTANT of Contains: a history that is already here is planned for again.
ContainsNothing(a) ==
    /\ op[a].pc = "contains"
    /\ UNCHANGED <<past, local, tags, writer, mine>>
    /\ Goes(a, At(a, "plan"))
\* Asked of what the head reaches, without the writer.
Contains(a) ==
    /\ op[a].pc = "contains"
    /\ UNCHANGED <<past, local, tags, writer, mine>>
    /\ Goes(a, IF op[a].theirs \in past[head] THEN Idle ELSE At(a, "plan"))

\* MUTANT of Plan: a plan that is not clean is gone through with.
PlanAnyway(a) ==
    /\ op[a].pc = "plan"
    /\ UNCHANGED <<past, local, tags, writer, mine>>
    /\ Goes(a, At(a, "reconcile"))
\* A clean plan is reconciled; any other is reported and not opened.
Plan(a) ==
    /\ op[a].pc = "plan"
    /\ UNCHANGED <<past, local, tags, writer, mine>>
    /\ Goes(a, IF Clean(head, op[a].theirs) THEN At(a, "reconcile") ELSE Idle)

----------------------------------------------------------------------------
(* Reconciliations: reconcile, resolve, continue_, abort, branch_merge *)

ByHand(a, theirs) ==
    /\ Free(a) /\ theirs \notin past[head]
    /\ UNCHANGED <<past, local, tags, writer, mine>>
    /\ Goes(a, [Starts("reconcile", Main, FALSE) EXCEPT !.theirs = theirs])

\* A snapshot that joins theirs to the head; only a merge descends from both.
JoinOf(theirs) ==
    \E strategy \in Strategies :
        Mint(IF strategy = "merge" THEN {head, theirs} ELSE {head})
Joins(a, theirs) ==
    /\ JoinOf(theirs)
    /\ head' = New /\ mine' = mine \cup {New}
    /\ table' = Settled
    /\ UNCHANGED <<open, published, tags, writer>>
    /\ Goes(a, Idle)
\* What does not apply is asked: the pointer outlives the process.
Halts(a, theirs) ==
    /\ open' = [ours |-> head, theirs |-> theirs, answered |-> FALSE]
    /\ table' = Settled
    /\ UNCHANGED <<past, head, published, tags, writer, mine>>
    /\ Goes(a, Idle)
Refused(a) ==
    /\ UNCHANGED <<past, local, tags, writer, mine>>
    /\ Goes(a, Idle)

\* MUTANT of Reconciles: another one may be open.
ReconcilesOver(a, theirs) ==
    IF Clean(head, theirs) THEN Joins(a, theirs) ELSE Halts(a, theirs)
\* _require_none_open, and what brain.reconcile makes of the two histories.
Reconciles(a, theirs) ==
    IF open # Closed THEN Refused(a)
    ELSE IF Clean(head, theirs) THEN Joins(a, theirs) ELSE Halts(a, theirs)

Reconcile(a) ==
    /\ op[a].pc = "reconcile" /\ writer = None
    /\ Reconciles(a, op[a].theirs)

Resolve(a) ==
    /\ op[a].pc = "idle" /\ writer = None /\ open # Closed /\ ~open.answered
    /\ open' = [open EXCEPT !.answered = TRUE]
    /\ UNCHANGED <<past, head, table, published, tags, writer, op, begun, mine>>

\* Refused while a question is open, and when the head is not the one the
\* reconciliation was stated against.
Continue(a) ==
    /\ Free(a) /\ writer = None /\ open # Closed
    /\ open.answered /\ open.ours = head
    /\ JoinOf(open.theirs)
    /\ head' = New /\ mine' = mine \cup {New}
    /\ table' = Settled /\ open' = Closed
    /\ UNCHANGED <<published, tags, writer>>
    /\ Goes(a, Idle)

Abort(a) ==
    /\ op[a].pc = "idle" /\ writer = None /\ open # Closed
    /\ open' = Closed
    /\ UNCHANGED <<past, head, table, published, tags, writer, op, begun, mine>>

\* branch_merge looks: a history contained in the head's is up to date.
Merge(a, b, pc) ==
    /\ Free(a) /\ b \in Known \ {Current}
    /\ Line(b) \notin past[head]
    /\ UNCHANGED <<past, local, tags, writer, mine>>
    /\ Goes(a, Starts(pc, b, FALSE))

Joinable(b) == b \in Known \ {Current} /\ open = Closed
Ahead(b) == head \in past[table.at[b]]

\* join(fast_forward="only"): the head moves to a branch it is behind.
FastForward(a) ==
    LET b == op[a].branch IN
    /\ op[a].pc \in {"join", "record"} /\ writer = None
    /\ Joinable(b) /\ Ahead(b)
    /\ head' = table.at[b]
    /\ table' = Settled
    /\ UNCHANGED <<past, open, published, tags, writer, mine>>
    /\ Goes(a, Idle)
\* Refused as no fast-forward: with a strategy, it is to be recorded.
NotForward(a) ==
    LET b == op[a].branch IN
    /\ op[a].pc = "join" /\ writer = None
    /\ ~(Joinable(b) /\ Ahead(b))
    /\ UNCHANGED <<past, local, tags, writer, mine>>
    /\ Goes(a, IF Joinable(b) /\ ~Ahead(b) THEN At(a, "record") ELSE Idle)
Record(a) ==
    LET b == op[a].branch IN
    /\ op[a].pc = "record" /\ writer = None
    /\ IF b \notin Known \ {Current} THEN Refused(a)
       ELSE Reconciles(a, table.at[b])

----------------------------------------------------------------------------
(* Other people, and the end of the process *)

\* Somebody else, whose push of the same tag is a fast-forward.
Other(tag) ==
    LET base == IF tags[tag] = Nothing THEN tags[Main] ELSE tags[tag] IN
    /\ Mint({base})
    /\ tags' = [tags EXCEPT ![tag] = New]
    /\ UNCHANGED <<local, writer, op, begun, mine>>

\* The process is killed: what it was doing is gone, the pointers stay.
Kill ==
    /\ \E a \in Actors : op[a] # Idle
    /\ op' = [a \in Actors |-> Idle]
    /\ writer' = None
    /\ UNCHANGED <<past, local, tags, begun, mine>>

Acts(a) ==
    \/ Commit(a)
    \/ \E b \in Branches, s \in Snapshots, w \in BOOLEAN : Create(a, b, s, w)
    \/ AlignCreated(a)
    \/ \E b \in Branches : Switch(a, b)
    \/ Checkout(a) \/ CheckoutRefused(a) \/ MoveHead(a) \/ EndCheckout(a)
    \/ \E b \in Branches, f \in BOOLEAN : Delete(a, b, f)
    \/ Push(a) \/ \E t \in Tags : PushTo(a, t)
    \/ \E f \in BOOLEAN : PushChecked(a, f)
    \/ PushRefused(a) \/ PushTag(a) \/ PushEnds(a)
    \/ \E t \in Tags : Pull(a, t)
    \/ PullFetch(a) \/ PullMissing(a) \/ Install(a) \/ InstallRefused(a)
    \/ \E t \in Tags : Fetch(a, t)
    \/ FetchBrings(a) \/ FetchMissing(a) \/ Contains(a) \/ Plan(a)
    \/ \E s \in Snapshots : ByHand(a, s)
    \/ Reconcile(a) \/ Resolve(a) \/ Continue(a) \/ Abort(a)
    \/ \E b \in Branches, pc \in {"join", "record"} : Merge(a, b, pc)
    \/ FastForward(a) \/ NotForward(a) \/ Record(a)

Next ==
    \/ \E a \in Actors : Acts(a)
    \/ \E t \in Tags : Other(t)
    \/ Kill

Spec == Init /\ [][Next]_vars

----------------------------------------------------------------------------
(* Properties *)

Inside(a) ==
    \/ op[a].pc \in {"moving", "moved", "align", "pushing", "confirm", "install"}
    \/ op[a].pc = "checkout" /\ op[a].creates

\* Types; the current branch and a branch being switched to are in the table;
\* and the writer is whoever is inside the session's write, and nobody else
\* (session.write: a refused operation leaves it).
TypeOK ==
    /\ past \in Seq(SUBSET Snapshots) /\ \A s \in Snapshots : s \in past[s]
    /\ published \cup mine \subseteq Snapshots
    /\ head \in Snapshots
    /\ Known \subseteq Branches /\ \A b \in Known : table.at[b] \in Snapshots
    /\ HasTable => table.current \in Known /\ table.switching \in Known \cup {None}
    /\ ~HasTable => table.current = Main /\ table.switching = None
    /\ table.aligned \in BOOLEAN
    /\ tags \in [Tags -> Snapshots \cup {Nothing}]
    /\ op \in [Actors -> Operations]
    /\ \A a \in Actors : Inside(a) <=> writer = a

\* What was committed here is reachable from the head, from a branch or from a
\* head that was pushed, through every interrupted checkout, unless it was
\* given up: by a forced delete, by a pull of its branch's tag, or by a pull of
\* a tag that is no branch's while the brain is on its branch (branches.py:
\* "the current head is recorded under its own branch first, so nothing
\* unpublished is lost"; install.py: an install adopts the remote composition).
WorkIsNamed ==
    \A s \in mine :
        s \in Reached \cup UNION {past[h] : h \in published}

\* A pull of a branch's tag moves that branch's line, whatever the brain is on,
\* and every other operation, a pull of any other tag among them, the line of
\* the branch it is on alone: neither a checkout that was interrupted and
\* settled later moves another's, nor a table that has another tag for main
\* (align_default_branch).
Installing(b) == \E a \in Actors : op[a].pc = "install" /\ op[a].branch = b
LinesStay ==
    [][\A b \in (Known \cup {Current}) \cap (Known' \cup {Current'}) :
          \/ Line(b)' = Line(b)
          \/ Installing(b)
          \/ b = Current /\ \A c \in Branches : ~Installing(c)]_vars

\* An open reconciliation is of the head it was stated against and stays the
\* one it is until it is continued or aborted (_require_none_open, and the
\* refusal of every write that would move the head under it).
OpenStands ==
    [][open # Closed =>
          \/ open' = Closed
          \/ open'.theirs = open.theirs /\ open'.ours = head' /\ head' = head]_vars

\* A fetch decides nothing: when it goes on to reconcile it neither opens a
\* reconciliation nor mints a join of what the head already contains, unless
\* the head moved after it looked (_auto_reconcile plans without the writer).
FetchDecidesNothing ==
    [][\A a \in Actors :
          /\ op[a].pc = "reconcile" /\ op'[a].pc = "idle"
          /\ op[a].fetched /\ ~op[a].overtaken
          => /\ open' = open
             /\ head' # head => op[a].theirs \notin past[head]]_vars

\* What a push without --tag writes is under the tag of the branch the brain
\* is on, after an interrupted checkout too, unless the branch was switched
\* after the tag was chosen (current_branch_tag).
PublishesItsOwn ==
    \A a \in Actors :
        op[a].pc \in {"pushing", "confirm"} /\ ~op[a].given /\ ~op[a].overtaken
        => op[a].branch = Current
=============================================================================
