----------------------------- MODULE QueryCache -----------------------------
(***************************************************************************)
(* The query server's cache of installed brains (server/query.py): the     *)
(* requests that share it, and the signature referrers that land in the    *)
(* registry without moving a manifest.                                     *)
(*                                                                         *)
(* Requests are tasks on one event loop.  The cache's lock is never held   *)
(* across an await, so it is never contended: a step here is the code      *)
(* between two suspension points, which are the calls made in worker       *)
(* threads, the wait for another request's installation, and the handler's *)
(* own work on the brain.  A suspended request may be cancelled.           *)
(*                                                                         *)
(* MaxSignatures bounds the referrers that land on each manifest, MaxLeaks *)
(* the requests that leave one entry without releasing it.  Entries are    *)
(* reused once nothing refers to them: MaxEntries is no bound when it is   *)
(* at least the requests plus the keys.                                    *)
(***************************************************************************)
EXTENDS Naturals, FiniteSets

CONSTANTS
    Requests,       \* concurrent requests
    Keys,           \* (manifest, configuration) pairs, one manifest each
    GovernedKeys,   \* keys whose head carries a trust root
    MaxEntries,     \* CacheEntry objects
    Capacity,
    MaxSignatures,
    MaxLeaks,       \* bound on the users an entry may lose track of
    NoKey

\* The CacheEntry objects, and no object.
Slots == 1..MaxEntries
NoSlot == 0

ASSUME QueryCacheAssumption ==
    /\ IsFiniteSet(Requests) /\ GovernedKeys \subseteq Keys
    /\ Capacity \in Nat /\ MaxSignatures \in Nat /\ MaxLeaks \in Nat
    /\ MaxEntries \in Nat \ {0}
    /\ NoKey \notin Keys

VARIABLES
    table,        \* _entries
    older,        \* its dictionary order: <<s, t>> if t was used more recently
    slot,         \* the CacheEntry objects
    directories,  \* those whose temporary directory is there
    req,          \* the requests
    referrers,    \* signature referrers on each manifest, as a count: they only grow
    closed        \* has the lifespan ended?

vars == <<table, older, slot, directories, req, referrers, closed>>

Readiness == {"free", "pending", "done", "failed"}
Suspended == {"resolve", "list", "pull", "pulled", "wait", "compare",
              "compared", "use"}
Entry == [key : Keys \cup {NoKey}, users : Nat, ready : Readiness,
          signatures : 0..MaxSignatures, installed : 0..MaxSignatures]
Request == [step : Suspended \cup {"idle"}, key : Keys \cup {NoKey},
            slot : Slots \cup {NoSlot}, listed : 0..MaxSignatures,
            since : 0..MaxSignatures]

FreeSlot == [key |-> NoKey, users |-> 0, ready |-> "free",
             signatures |-> 0, installed |-> 0]
Idle == [step |-> "idle", key |-> NoKey, slot |-> NoSlot, listed |-> 0,
         since |-> 0]

Init ==
    /\ table = {} /\ older = {}
    /\ slot = [s \in Slots |-> FreeSlot] /\ directories = {}
    /\ req = [r \in Requests |-> Idle]
    /\ referrers = [k \in Keys |-> 0]
    /\ closed = FALSE

\* The requests that refer to an entry.
Holders(s) == {r \in Requests : req[r].slot = s}

\* A table, its order and the entries it leaves behind: the state the
\* bookkeeping below computes in one uninterrupted step.
Book(t, o, e, d) == [table |-> t, older |-> o, slot |-> e, directories |-> d]
Now == Book(table, older, slot, directories)

Found(b, k) == {s \in b.table : b.slot[s].key = k}
Cached(b, s) == s \in b.table
Dropped(b, some) ==
    [b EXCEPT !.table = @ \ some,
              !.older = {p \in @ : p[1] \notin some /\ p[2] \notin some}]
Dispose(b, some) == [b EXCEPT !.directories = @ \ some]
\* MUTANT of Without: a retired or failed entry stays in the table.
WithoutTaking(b, s) == b
Without(b, s) == Dropped(b, {s})
\* An entry goes in, as the most recently used.
Latest(b, s) == [b EXCEPT !.table = @ \cup {s},
                          !.older = @ \cup (b.table \X {s})]
With(b, s, entry) == [b EXCEPT !.slot[s] = entry]
\* A CacheEntry and its directory; its creator is its first user.
Create(b, s, k) ==
    [b EXCEPT !.slot[s] = [FreeSlot EXCEPT !.key = k, !.users = 1,
                                           !.ready = "pending"],
              !.directories = @ \cup {s}]
WithUsers(b, s, n) == [b EXCEPT !.slot[s].users = n]

\* MUTANT of Evictable: entries in use are evicted too.
EvictableInUse(b, s) == b.slot[s].ready \in {"done", "failed"}
Evictable(b, s) == b.slot[s].users = 0 /\ b.slot[s].ready \in {"done", "failed"}

\* _evict: walk the table from the least recently used entry, dropping what
\* nobody uses, until it fits: an idle entry goes if, without the idle ones
\* before it, the table is still too large.
Evicted(b) ==
    LET idle == {s \in b.table : Evictable(b, s)}
        before(s) == {t \in idle : <<t, s>> \in b.older}
        excess == {s \in idle :
            Capacity + Cardinality(before(s)) < Cardinality(b.table)}
    IN  Dispose(Dropped(b, excess), excess)

\* release: the last user of an entry nothing can find disposes of it.
Left(b, s, n) ==
    IF n = 0 /\ ~Cached(b, s) THEN Dispose(WithUsers(b, s, n), {s})
                              ELSE WithUsers(b, s, n)
\* MUTANT of Released: a retired entry is left to whoever finds it.
ReleasedUndisposed(b, s) == Evicted(WithUsers(b, s, b.slot[s].users - 1))
\* MUTANT of Released: the table is not evicted when an entry becomes idle.
ReleasedUnevicted(b, s) == Left(b, s, b.slot[s].users - 1)
Released(b, s) == Evicted(Left(b, s, b.slot[s].users - 1))

\* Entries nothing refers to any more are the garbage collector's; of one
\* whose directory is still there the count is kept, to say why.
Collected(b, held) ==
    [s \in Slots |->
        IF Cached(b, s) \/ s \in held THEN b.slot[s]
        ELSE IF s \notin b.directories THEN FreeSlot
        ELSE [FreeSlot EXCEPT !.users = b.slot[s].users]]

\* The step of request r ends with r as given and the books as given.
Settle(r, record, books) == \E b \in {books} :
    /\ req' = [req EXCEPT ![r] = record]
    /\ table' = b.table /\ older' = b.older
    /\ directories' = b.directories
    /\ slot' = Collected(b, {record.slot} \cup
                              {req[q].slot : q \in Requests \ {r}})

Ends(r, b) == Settle(r, Idle, b)

----------------------------------------------------------------------------
\* A signature is published as a referrer of a manifest.
Sign(k) ==
    /\ k \in GovernedKeys /\ referrers[k] < MaxSignatures
    /\ referrers' = [referrers EXCEPT ![k] = @ + 1]
    /\ UNCHANGED <<table, older, slot, directories, req, closed>>

\* use, up to the resolution of the tag.
Begin(r, k) ==
    /\ req[r].step = "idle" /\ ~closed
    /\ req' = [req EXCEPT ![r] = [Idle EXCEPT !.step = "resolve", !.key = k,
                                              !.since = referrers[k]]]
    /\ UNCHANGED <<table, older, slot, directories, referrers, closed>>

\* What a request does once it holds a ready entry.
Held(r, s) ==
    [req[r] EXCEPT !.slot = s,
                   !.step = IF req[r].key \in GovernedKeys
                            THEN "compare" ELSE "use"]

\* The entry objects neither the table nor a request other than r refers to.
Unused(b, r) == {s \in Slots : ~Cached(b, s) /\ Holders(s) \subseteq {r}}

\* The bookkeeping at the top of acquire's loop, from the books b: a miss
\* creates the entry and installs it, a hit joins it.
Look(r, books) == \E b \in {books} :
    \/ /\ Found(b, req[r].key) = {} /\ Unused(b, r) # {}
       /\ LET s == CHOOSE s \in Unused(b, r) : TRUE IN
          Settle(r, [req[r] EXCEPT !.step = "list", !.slot = s],
                 Create(Latest(b, s), s, req[r].key))
    \/ \E s \in Found(b, req[r].key) :
          Settle(r, IF b.slot[s].ready = "done" THEN Held(r, s)
                    ELSE [req[r] EXCEPT !.step = "wait", !.slot = s],
                 WithUsers(Latest(Without(b, s), s), s, b.slot[s].users + 1))

Resolve(r) ==
    /\ req[r].step = "resolve"
    /\ Look(r, Now)
    /\ UNCHANGED <<referrers, closed>>

----------------------------------------------------------------------------
(* _install *)

\* The referrers are listed before the pull.
ListSignatures(r) ==
    /\ req[r].step = "list"
    /\ req' = [req EXCEPT ![r] = [@ EXCEPT !.step = "pull",
                                           !.listed = referrers[req[r].key]]]
    /\ UNCHANGED <<table, older, slot, directories, referrers, closed>>

\* The manifest and the referrers it has by now are pulled.
Pull(r) ==
    /\ req[r].step = "pull"
    /\ slot' = [slot EXCEPT ![req[r].slot].installed = referrers[req[r].key]]
    /\ req' = [req EXCEPT ![r].step = "pulled"]
    /\ UNCHANGED <<table, older, directories, referrers, closed>>

\* MUTANT of Installed: the referrers are listed after the pull.
ListedAfterPull(r) ==
    LET s == req[r].slot IN
    /\ req[r].step = "pulled"
    /\ Settle(r, [req[r] EXCEPT !.step = "use"],
              Evicted(With(Now, s, [slot[s] EXCEPT
                  !.signatures = referrers[slot[s].key], !.ready = "done"])))
    /\ UNCHANGED <<referrers, closed>>
\* Back on the loop: the future is filled, and the table evicted.
Installed(r) ==
    LET s == req[r].slot IN
    /\ req[r].step = "pulled"
    /\ Settle(r, [req[r] EXCEPT !.step = "use"],
              Evicted(With(Now, s, [slot[s] EXCEPT
                  !.signatures = req[r].listed, !.ready = "done"])))
    /\ UNCHANGED <<referrers, closed>>

\* MUTANT of Failing: the future of a failed installation is never filled.
FailingSilently(b, s) == Without(b, s)
\* A failed installation leaves the table, and its waiters get its error.
Failing(b, s) == With(Without(b, s), s, [b.slot[s] EXCEPT !.ready = "failed"])

\* An error or a cancellation at either await of _install.
InstallFails(r) ==
    /\ req[r].step \in {"list", "pull", "pulled"}
    /\ Ends(r, Released(Failing(Now, req[r].slot), req[r].slot))
    /\ UNCHANGED <<referrers, closed>>

----------------------------------------------------------------------------
(* acquire, for a request that found an entry *)

\* The shared future is done: use it, or fail as its installation did.
Woken(r) ==
    LET s == req[r].slot IN
    /\ req[r].step = "wait" /\ slot[s].ready \in {"done", "failed"}
    /\ IF slot[s].ready = "done"
       THEN req' = [req EXCEPT ![r] = Held(r, s)] /\ UNCHANGED <<table, older, slot, directories>>
       ELSE Ends(r, Released(Now, s))
    /\ UNCHANGED <<referrers, closed>>

\* A cancelled waiter: shielded, it leaves the future alone.
WaitCancelled(r) ==
    /\ req[r].step = "wait"
    /\ Ends(r, Released(Now, req[r].slot))
    /\ UNCHANGED <<referrers, closed>>

\* A governed entry: the referrers are listed again in a worker thread.
ListAgain(r) ==
    /\ req[r].step = "compare"
    /\ req' = [req EXCEPT ![r] = [@ EXCEPT !.step = "compared",
                                           !.listed = referrers[req[r].key]]]
    /\ UNCHANGED <<table, older, slot, directories, referrers, closed>>

\* Unchanged: the entry is used.  Changed: it is retired and released, and
\* the loop looks the key up again without suspending.
Compared(r) ==
    LET s == req[r].slot IN
    /\ req[r].step = "compared"
    /\ IF req[r].listed = slot[s].signatures
       THEN req' = [req EXCEPT ![r].step = "use"] /\ UNCHANGED <<table, older, slot, directories>>
       ELSE LET b == Released(Without(Now, s), s) IN
            Look(r, [b EXCEPT !.slot =
                        Collected(b, {req[q].slot : q \in Requests \ {r}})])
    /\ UNCHANGED <<referrers, closed>>

\* The listing raises, or the request is cancelled during it.  The await is
\* outside the try block of acquire, and use has not entered its own.
ListAgainFails(r) ==
    /\ req[r].step \in {"compare", "compared"}
    /\ slot[req[r].slot].users < Cardinality(Holders(req[r].slot)) + MaxLeaks
    /\ Ends(r, Now)
    /\ UNCHANGED <<referrers, closed>>

----------------------------------------------------------------------------
\* use: the handler is done, failed or cancelled, and the entry released.
Finish(r) ==
    /\ req[r].step = "use"
    /\ Ends(r, Released(Now, req[r].slot))
    /\ UNCHANGED <<referrers, closed>>

\* A tag that does not resolve, or a request cancelled while it is resolved.
ResolveFails(r) ==
    /\ req[r].step = "resolve"
    /\ Ends(r, Now)
    /\ UNCHANGED <<referrers, closed>>

\* The lifespan ends after the last request: every entry is disposed of.
Close ==
    /\ ~closed /\ \A r \in Requests : req[r].step = "idle"
    /\ closed' = TRUE
    /\ LET b == Dispose(Dropped(Now, table), table) IN
       /\ table' = b.table /\ older' = b.older
       /\ directories' = b.directories /\ slot' = Collected(b, {})
    /\ UNCHANGED <<req, referrers>>

\* What a request does when nothing fails.
Proceed(r) ==
    \/ Resolve(r) \/ ListSignatures(r) \/ Pull(r) \/ Installed(r)
    \/ Woken(r) \/ ListAgain(r) \/ Compared(r) \/ Finish(r)

Interrupted(r) ==
    ResolveFails(r) \/ InstallFails(r) \/ WaitCancelled(r) \/ ListAgainFails(r)

Next ==
    \/ \E k \in Keys : Sign(k)
    \/ \E r \in Requests :
         (\E k \in Keys : Begin(r, k)) \/ Proceed(r) \/ Interrupted(r)
    \/ Close

Spec == Init /\ [][Next]_vars
FairSpec == Spec /\ \A r \in Requests : WF_vars(Proceed(r))

----------------------------------------------------------------------------
\* Every variable has its type, and the dictionary order is a strict one.
TypeOK ==
    /\ table \subseteq Slots /\ older \subseteq table \X table
    /\ \A s \in table : <<s, s>> \notin older
    /\ \A s, t, u \in table :
          <<s, t>> \in older /\ <<t, u>> \in older => <<s, u>> \in older
    /\ slot \in [Slots -> Entry] /\ directories \subseteq Slots
    /\ req \in [Requests -> Request]
    /\ referrers \in [Keys -> 0..MaxSignatures]
    /\ closed \in BOOLEAN

\* No request works on a directory that was removed under it, whatever was
\* evicted, retired or failed meanwhile, and no directory is left that nobody
\* can reach, unless a request went away without releasing it
\* (QueryCache._evict, release).
DirectoriesFollowUsers ==
    /\ \A r \in Requests :
          req[r].slot # NoSlot /\ slot[req[r].slot].ready # "failed"
          => req[r].slot \in directories
    /\ \A s \in directories :
          \/ Cached(Now, s) \/ Holders(s) # {}
          \/ slot[s].users > Cardinality(Holders(s))

\* With no request in flight the cache is within its capacity: nothing is
\* pinned by a request that is gone ("a bounded, disposable cache").
BoundedWhenIdle ==
    (\A r \in Requests : req[r].step = "idle") => Cardinality(table) <= Capacity

\* Installed entries beyond the capacity are all in use: an idle one is gone
\* as soon as it does not fit (_evict, at every installation and release).
KeptOnlyInUse ==
    LET ready == {s \in table : slot[s].ready = "done"} IN
    Cardinality(ready) > Capacity => \A s \in ready : slot[s].users > 0

\* A governed answer is not older than the request: every signature that had
\* landed when it began is in the installation it uses (_install's order of
\* listing and pull, acquire's second listing).
AnswersAreFresh ==
    \A r \in Requests : req[r].step = "use" =>
        slot[req[r].slot].installed >= req[r].since

\* Every request is answered or fails: a waiter is never left behind by an
\* installation that went away (_install's set_exception, the shield).
RequestsEnd == \A r \in Requests : req[r].step # "idle" ~> req[r].step = "idle"
=============================================================================
