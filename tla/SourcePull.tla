----------------------------- MODULE SourcePull -----------------------------
(***************************************************************************)
(* Pulling declared sources into a brain (runtime/ops/sources.py,          *)
(* ops/fetch.py): one pull at a time, as the session's write admits one,   *)
(* against sources, declarations and redactions that change between its    *)
(* steps.                                                                  *)
(*                                                                         *)
(* A listing is taken before the write begins, an item's bytes are fetched *)
(* after the origin index was probed, and only then checked against what   *)
(* was redacted.  Canonical blocks are content-addressed: a block is its   *)
(* bytes, its media type and its view.                                     *)
(*                                                                         *)
(* MaxEdits bounds what happens around the pulls.  The records of an       *)
(* origin number fewer than the index reads at once (read_limit).          *)
(***************************************************************************)
EXTENDS Naturals, Sequences, SequencesExt

CONSTANTS
    AllSources,   \* the declared sources in the order of their names
    Listing,      \* the items each source lists, in order
    Origin,       \* the folded origin of each item
    Offers,       \* what its source may offer under each item
    Declarations, \* what a source's table may declare
    Modes,        \* the options pulls are started with
    Data, Large,  \* bytes, and those over a declared max_bytes
    Types, Generic,  \* specific media types, application/octet-stream
    Pipelines,
    Unknown,      \* no media type, no view
    ByHand,       \* the <<block, origin>> pairs registered by hand
    NoLimit, MaxEdits

Sources == Range(AllSources)
Items == UNION {Range(Listing[s]) : s \in Sources}
Origins == {Origin[i] : i \in Items}
MediaTypes == Types \cup {Generic}
Blocks == [data : Data, type : MediaTypes, view : Pipelines \cup {Unknown}]

ASSUME PullAssumption ==
    /\ AllSources \in Seq(Sources) /\ IsInjective(AllSources)
    /\ Listing \in [Sources -> Seq(Items)]
    /\ \A s \in Sources : IsInjective(Listing[s])
    /\ Origin \in [Items -> Origins]
    /\ Offers \in [Items -> SUBSET
            [data : Data, listed : MediaTypes \cup {Unknown},
             found : MediaTypes \cup {Unknown},
             over : BOOLEAN,  \* the listing's size is over max_bytes
             fetch : {"ok", "fails", "unavailable", "raises"}]]
    /\ ByHand \subseteq Blocks \X Origins
    /\ Declarations \subseteq [type : MediaTypes \cup {Unknown},
                               view : Pipelines \cup {Unknown}, capped : BOOLEAN]
    /\ Modes \subseteq [dry : BOOLEAN, limit : Nat \cup {NoLimit}, refetch : BOOLEAN]
    /\ Large \subseteq Data /\ MaxEdits \in Nat
    /\ Unknown \notin Types \cup {Generic} \cup Pipelines
    /\ Generic \notin Types /\ NoLimit \notin Nat

AnyOffer == UNION {Offers[i] : i \in Items}

VARIABLES
    offer,     \* what each item is at its source now
    declared,  \* each source's declaration
    down,      \* the sources that cannot be listed
    store,     \* each byte sequence: "absent", "held" or "tombstoned"
    blocks,    \* the canonical module's blocks
    redacted,  \* those whose bytes were destroyed
    records,   \* each origin's registrations, ordered by record identity
    step, mode, todo,  \* the pull, its options, the sources left to pull
    index,     \* `records` as the opened brain has it
    queue,     \* the listed items left to decide about
    count,     \* registrations of this source so far
    got,       \* what was fetched: a block before its identity is known
    settled,   \* history: what each item was when a pull last accounted for it
    edits

outside == <<offer, declared, down, edits>>
brain == <<store, blocks, redacted, records>>
pulling == <<step, mode, todo, index, queue, count, got>>
vars == <<outside, brain, pulling, settled>>

NoBlock == [data |-> Unknown]
Unsettled == <<>>

Init ==
    /\ offer \in [Items -> AnyOffer] /\ \A i \in Items : offer[i] \in Offers[i]
    /\ declared \in [Sources -> Declarations]
    /\ down = {}
    /\ store = [d \in Data |-> "absent"]
    /\ blocks = {} /\ redacted = {}
    /\ records = [o \in Origins |-> <<>>]
    /\ step = "idle" /\ mode \in Modes /\ todo = <<>>
    /\ index = records /\ queue = <<>> /\ count = 0 /\ got = NoBlock
    /\ settled = [i \in Items |-> Unsettled]
    /\ edits = 0

----------------------------------------------------------------------------
(* The brain *)

\* No pull is inside the session's write.
Writable == step \in {"idle", "list", "enter"} \/ mode.dry

\* A new record's identity is a hash: it may sort anywhere among its origin's.
Recorded(o, b) ==
    \E n \in 1..(Len(records[o]) + 1) :
        records' = [records EXCEPT ![o] = InsertAt(@, n, b)]

\* brain.register: the bytes are stored before the duplicate check, and a
\* duplicate leaves no record.  Of a redacted block, its own document may
\* come back with its bytes.
Registers(b, o) ==
    /\ store' = [store EXCEPT ![b.data] = "held"]
    /\ blocks' = blocks \cup {b}
    /\ redacted' \in {redacted, redacted \ {b}}
    /\ IF b \in blocks THEN UNCHANGED records ELSE Recorded(o, b)

\* The items whose records, or their being readable, b's registration changes.
Concerns(b, o, i) ==
    Origin[i] = o \/ (b \in redacted /\ b \in Range(records[Origin[i]]))

\* brain.redact: the bytes go unless another readable block names them.
Redact(b) ==
    /\ Writable /\ edits < MaxEdits
    /\ b \in blocks \ redacted
    /\ redacted' = redacted \cup {b}
    /\ store' = IF \E other \in blocks \ redacted' : other.data = b.data
                THEN store ELSE [store EXCEPT ![b.data] = "tombstoned"]
    /\ edits' = edits + 1
    /\ UNCHANGED <<offer, declared, down, blocks, records, pulling, settled>>

\* `source register` by hand, which is how a redaction is undone.
RegisterByHand(b, o) ==
    /\ Writable /\ edits < MaxEdits
    /\ <<b, o>> \in ByHand
    /\ Registers(b, o)
    /\ settled' = [i \in Items |-> IF Concerns(b, o, i) THEN Unsettled ELSE settled[i]]
    /\ edits' = edits + 1
    /\ UNCHANGED <<offer, declared, down, pulling>>

----------------------------------------------------------------------------
(* Around the pulls *)

\* What a source offers under an item changes, at any moment.
Edit(i, new) ==
    /\ edits < MaxEdits /\ new \in Offers[i] \ {offer[i]}
    /\ offer' = [offer EXCEPT ![i] = new]
    /\ edits' = edits + 1
    /\ UNCHANGED <<declared, down, brain, pulling, settled>>

\* The configuration is read when the service is built, before a pull.
Redeclare(s, new) ==
    /\ step = "idle" /\ edits < MaxEdits /\ new # declared[s]
    /\ declared' = [declared EXCEPT ![s] = new]
    /\ edits' = edits + 1
    /\ UNCHANGED <<offer, down, brain, pulling, settled>>

Outage(s) ==
    /\ edits < MaxEdits /\ s \notin down
    /\ down' = down \cup {s}
    /\ edits' = edits + 1
    /\ UNCHANGED <<offer, declared, brain, pulling, settled>>

----------------------------------------------------------------------------
(* pull_source, and pull_all over the sources in name order *)

Begin(sources, options) ==
    /\ step = "idle"
    /\ step' = "list" /\ todo' = sources /\ mode' = options
    /\ UNCHANGED <<outside, brain, index, queue, count, got, settled>>

\* The listing is taken outside the write.
List ==
    /\ step = "list" /\ todo # <<>> /\ Head(todo) \notin down
    /\ queue' = [n \in DOMAIN Listing[Head(todo)] |->
                    [item |-> Listing[Head(todo)][n],
                     as |-> offer[Listing[Head(todo)][n]]]]
    /\ step' = "enter"
    /\ UNCHANGED <<outside, brain, mode, todo, index, count, got, settled>>

\* A source that cannot be listed fails alone: the next one is pulled.
Unlisted ==
    /\ step = "list" /\ todo # <<>> /\ Head(todo) \in down
    /\ todo' = Tail(todo)
    /\ UNCHANGED <<outside, brain, step, mode, index, queue, count, got, settled>>

\* So does one whose write the session refuses, another being inside it.
Busy ==
    /\ step = "enter" /\ ~mode.dry /\ edits < MaxEdits
    /\ step' = "list" /\ todo' = Tail(todo) /\ queue' = <<>>
    /\ edits' = edits + 1
    /\ UNCHANGED <<offer, declared, down, brain, mode, index, count, got, settled>>

\* The brain is opened for the write, or for reading when the run is dry.
Enter ==
    /\ step = "enter"
    /\ step' = "item" /\ index' = records /\ count' = 0
    /\ UNCHANGED <<outside, brain, mode, todo, queue, got, settled>>

NextSource ==
    /\ step = "item" /\ queue = <<>>
    /\ step' = "list" /\ todo' = Tail(todo)
    /\ UNCHANGED <<outside, brain, mode, index, queue, count, got, settled>>

Return ==
    /\ step = "list" /\ todo = <<>>
    /\ step' = "idle"
    /\ UNCHANGED <<outside, brain, mode, todo, index, queue, count, got, settled>>

----------------------------------------------------------------------------
(* _pull_one *)

Item == Head(queue).item
AsListed == Head(queue).as
Declared == declared[Head(todo)]

\* The row of an item is written, and the next item is looked at.
Row ==
    /\ step' = "item" /\ queue' = Tail(queue) /\ got' = NoBlock
    /\ UNCHANGED <<outside, mode, todo, index>>

\* What the item is accounted for as: itself, if it is still what was listed
\* and fetched.
Account(asFetched) ==
    IF offer[Item] = AsListed /\ asFetched THEN <<Declared, AsListed>> ELSE Unsettled

\* The limit is on registrations, not on items.
Counted(outcome) == count' = IF outcome = "registered" THEN count + 1 ELSE count

NotReached ==
    /\ step = "item" /\ queue # <<>>
    /\ mode.limit # NoLimit /\ count >= mode.limit
    /\ Row
    /\ UNCHANGED <<brain, count, settled>>

Reached ==
    /\ step = "item" /\ queue # <<>>
    /\ mode.limit # NoLimit => count < mode.limit

ListedType == IF Declared.type # Unknown THEN Declared.type ELSE AsListed.listed

\* MUTANT of Matches: only the media type is compared.
MatchesType(b) ==
    IF ListedType = Unknown THEN b \notin redacted /\ b.type # Generic
    ELSE b \in redacted \/ b.type = ListedType
\* _matches_declaration, of the block an origin is registered as.  A view is
\* compared by its presence; a block that cannot be read is not compared,
\* unless the listing leaves its type to be discovered.
Matches(b) ==
    LET viewed == (b.view # Unknown) = (Declared.view # Unknown) IN
    IF ListedType = Unknown
    THEN b \notin redacted /\ b.type # Generic /\ viewed
    ELSE b \in redacted \/ (b.type = ListedType /\ viewed)

\* _registered_as: the first record of the origin, as the index of the opened
\* brain has it or as the registrations of this pull have left it.
RegisteredAs == {r[Origin[Item]] : r \in {index, records}}
Held(r) == ~mode.refetch /\ r # <<>> /\ Matches(r[1])

Skip ==
    /\ Reached /\ \E r \in RegisteredAs : Held(r)
    /\ Row /\ Counted("skipped")
    /\ settled' = IF mode.dry THEN settled
                   ELSE [settled EXCEPT ![Item] = Account(TRUE)]
    /\ UNCHANGED brain

Oversize == Declared.capped /\ AsListed.over

\* A declared oversize fails, and a dry run says what it would fetch.
Preflight ==
    /\ Reached /\ \E r \in RegisteredAs : ~Held(r)
    /\ Oversize \/ mode.dry
    /\ Row /\ Counted("failed")
    /\ UNCHANGED <<brain, settled>>

GoFetch ==
    /\ Reached /\ \E r \in RegisteredAs : ~Held(r)
    /\ ~Oversize /\ ~mode.dry
    /\ step' = "fetch"
    /\ UNCHANGED <<outside, brain, mode, todo, index, queue, count, got, settled>>

\* What is declared, else what the fetch found, else what was listed.
FetchedType(now) ==
    IF Declared.type # Unknown THEN Declared.type
    ELSE IF now.found # Unknown THEN now.found
    ELSE IF AsListed.listed # Unknown THEN AsListed.listed ELSE Generic

\* The block an offer is registered as.
Acquired(now) ==
    [data |-> now.data, type |-> FetchedType(now), view |-> Declared.view]

Fetch ==
    /\ step = "fetch" /\ offer[Item].fetch = "ok"
    /\ got' = Acquired(offer[Item])
    /\ step' = "check"
    /\ UNCHANGED <<outside, brain, mode, todo, index, queue, count, settled>>

\* One unreadable item does not cost the others their registration.
FetchFails ==
    /\ step = "fetch" /\ offer[Item].fetch = "fails"
    /\ Row /\ Counted("failed")
    /\ UNCHANGED <<brain, settled>>

\* MUTANT of FetchUnavailable: the sources after this one are not pulled.
FetchUnavailableEndsAll ==
    /\ step = "fetch" /\ offer[Item].fetch = "unavailable"
    /\ step' = "list" /\ todo' = <<>> /\ queue' = <<>>
    /\ UNCHANGED <<outside, brain, mode, index, count, got, settled>>
\* An error of vitruvio's own that is no SourceError (a missing extra, a bad
\* configuration) leaves the rest of the source, and the next one is pulled.
FetchUnavailable ==
    /\ step = "fetch" /\ offer[Item].fetch = "unavailable"
    /\ step' = "list" /\ todo' = Tail(todo) /\ queue' = <<>>
    /\ UNCHANGED <<outside, brain, mode, index, count, got, settled>>

\* Any other error, such as a plugin's own, ends the pull of every source.
FetchRaises ==
    /\ step = "fetch" /\ offer[Item].fetch = "raises"
    /\ step' = "idle" /\ todo' = <<>> /\ queue' = <<>>
    /\ UNCHANGED <<outside, brain, mode, index, count, got, settled>>

\* MUTANT of Refused: --refetch bypasses the guard.
RefusedUnlessRefetch ==
    \/ Declared.capped /\ got.data \in Large
    \/ store[got.data] = "tombstoned" /\ ~mode.refetch
\* _content_refusal: bytes over the cap, and bytes that were redacted.
Refused ==
    \/ Declared.capped /\ got.data \in Large
    \/ store[got.data] = "tombstoned"

Refuse ==
    /\ step = "check" /\ Refused
    /\ Row /\ Counted("skipped")
    /\ UNCHANGED <<brain, settled>>

RegistrationAccounted ==
    settled' = [i \in Items |->
        IF i = Item THEN Account(got = Acquired(AsListed))
        ELSE IF Concerns(got, Origin[Item], i) THEN Unsettled ELSE settled[i]]

\* MUTANT of Register: the registration does not say where it came from.
RegisterUnoriginated ==
    /\ step = "check" /\ ~Refused
    /\ store' = [store EXCEPT ![got.data] = "held"]
    /\ blocks' = blocks \cup {got}
    /\ Counted(IF got \in blocks THEN "duplicate" ELSE "registered")
    /\ UNCHANGED <<redacted, records>>
    /\ RegistrationAccounted
    /\ Row
Register ==
    /\ step = "check" /\ ~Refused
    /\ Registers(got, Origin[Item])
    /\ Counted(IF got \in blocks THEN "duplicate" ELSE "registered")
    /\ RegistrationAccounted
    /\ Row

\* A registration that raises may have stored the bytes it was given.
RegisterFails ==
    /\ step = "check" /\ ~Refused /\ edits < MaxEdits
    /\ store' \in {store, [store EXCEPT ![got.data] = "held"]}
    /\ step' = "item" /\ queue' = Tail(queue) /\ got' = NoBlock
    /\ Counted("failed")
    /\ edits' = edits + 1
    /\ UNCHANGED <<offer, declared, down, blocks, redacted, records, mode, todo,
                   index, settled>>

Pulling ==
    \/ List \/ Unlisted \/ Enter \/ NextSource \/ Return
    \/ NotReached \/ Skip \/ Preflight \/ GoFetch
    \/ Fetch \/ FetchFails \/ FetchUnavailable \/ FetchRaises
    \/ Refuse \/ Register

Begins == \E options \in Modes :
    \/ Begin(AllSources, options)
    \/ \E s \in Sources : Begin(<<s>>, options)

Around ==
    \/ \E i \in Items, new \in AnyOffer : Edit(i, new)
    \/ \E s \in Sources : Outage(s) \/ \E new \in Declarations : Redeclare(s, new)
    \/ \E b \in blocks : Redact(b)
    \/ \E b \in Blocks, o \in Origins : RegisterByHand(b, o)

Next == Begins \/ Pulling \/ Busy \/ RegisterFails \/ Around

Spec == Init /\ [][Next]_vars
\* Somebody pulls every source again and again, as a schedule does.
FairSpec ==
    Spec /\ WF_vars(Pulling)
         /\ \A options \in {m \in Modes : ~m.dry /\ ~m.refetch} :
                SF_vars(Begin(AllSources, options))

----------------------------------------------------------------------------
\* What a source would account for an item with, as things are now.
SourceOf(i) == CHOOSE s \in Sources : i \in Range(Listing[s])
Unchanged(i) == settled[i] = <<declared[SourceOf(i)], offer[i]>>

\* No pull brings back bytes a retention policy destroyed, under another
\* name, type or origin, with --refetch, or when they were redacted after the
\* listing; only a registration by hand does (_tombstoned).
RedactionsHold ==
    [][step # "idle" /\ ~Writable =>
          \A d \in Data : store[d] = "tombstoned" => store'[d] = "tombstoned"]_vars

Says(declaration, b) ==
    /\ declaration.type # Unknown => b.type = declaration.type
    /\ (declaration.view # Unknown) = (b.view # Unknown)
\* An item a pull accounted for, skips included, is in the brain the way its
\* source declares it, unless its block can no longer be read: editing a
\* media type or a pipeline is never skipped over (_matches_declaration).
DeclarationsTakeEffect ==
    \A i \in Items : Unchanged(i) =>
        \E b \in blocks :
            /\ b.data = offer[i].data \/ b \in Range(records[Origin[i]])
            /\ b \in redacted \/ Says(declared[SourceOf(i)], b)

\* An item a pull accounted for is not downloaded again while it is unchanged,
\* but for the exceptions: its registration was corrected, its bytes are
\* registered under another origin, or its listing does not know its type.
HeldIsNotFetched ==
    step = "fetch" /\ ~mode.refetch /\ settled[Item] = <<Declared, AsListed>> =>
        \/ Len(records[Origin[Item]]) > 1
        \/ \E o \in Origins \ {Origin[Item]} : \E b \in Range(records[o]) :
               b.data = AsListed.data
        \/ ListedType # FetchedType(AsListed)

Acceptable(i) ==
    /\ offer[i].fetch = "ok" /\ SourceOf(i) \notin down
    /\ declared[SourceOf(i)].capped => ~offer[i].over /\ offer[i].data \notin Large
    /\ store[offer[i].data] # "tombstoned"
\* The items before i in its source, and those of the sources before that.
Ahead(i) ==
    LET listed == Listing[SourceOf(i)]
    IN  {listed[n] : n \in 1..(IndexFirstSubSeq(<<i>>, listed) - 1)}
Earlier(i) ==
    LET n == IndexFirstSubSeq(<<SourceOf(i)>>, AllSources)
    IN  UNION {Range(Listing[AllSources[m]]) : m \in 1..(n - 1)}
\* A pull that has to fetch one of these ends before it reaches i.
Cut(i) ==
    \/ \E j \in Ahead(i) : offer[j].fetch \in {"unavailable", "raises"}
    \/ \E j \in Earlier(i) : offer[j].fetch = "raises"
\* Every acceptable item is accounted for in the end by limited pulls that are
\* repeated, whatever fails before it: items that cannot be read or are over
\* the cap, sources that are down or refused, and an error that leaves a source
\* for the next one (the limit counts registrations, failures accumulate).
\* Only an item whose error escapes its own except clause (fetch.py:108) keeps
\* the pull from the items after it.
PullsDrain == \A i \in Items : []<>(Acceptable(i) /\ ~Cut(i) => Unchanged(i))
=============================================================================
