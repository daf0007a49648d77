--------------------------- MODULE QueryCacheProofs ---------------------------
(***************************************************************************)
(* Proofs about the query cache, for any requests, keys and capacity:      *)
(* types are kept, no directory is removed under a request or left to      *)
(* nobody, what is beyond the capacity is in use, and a governed answer is *)
(* never older than its request.                                           *)
(*                                                                         *)
(* The bookkeeping is proved about as the code does it, on books and       *)
(* requests as they are half-way through a step: Sound(b, rq) says of      *)
(* books b and requests rq what IInv says of the state.                    *)
(***************************************************************************)
EXTENDS QueryCache, FiniteSetTheorems, WellFoundedInduction, TLAPS

USE QueryCacheAssumption

Books == [table : SUBSET Slots, older : SUBSET (Slots \X Slots),
          slot : [Slots -> Entry], directories : SUBSET Slots]
Ordered(b) ==
    /\ b.older \subseteq b.table \X b.table
    /\ \A s \in b.table : <<s, s>> \notin b.older
    /\ \A s, t, u \in b.table :
          <<s, t>> \in b.older /\ <<t, u>> \in b.older => <<s, u>> \in b.older

\* The users of an entry are at least the requests that refer to it; its
\* directory is there for them, and for nobody else but the table.
Of(rq, s) == {q \in Requests : rq[q].slot = s}
EntryAgrees(b, rq, s) ==
    /\ b.slot[s].users >= Cardinality(Of(rq, s))
    /\ s \in b.table => s \in b.directories
    /\ Of(rq, s) # {} /\ b.slot[s].ready # "failed" => s \in b.directories
    /\ s \in b.directories =>
          s \in b.table \/ Of(rq, s) # {} \/ b.slot[s].users > Cardinality(Of(rq, s))

\* An entry was pulled no earlier than its signatures were listed.
EntryIsFresh(b, s) ==
    /\ b.slot[s].key \in Keys => b.slot[s].installed <= referrers[b.slot[s].key]
    /\ b.slot[s].ready = "done" => b.slot[s].signatures <= b.slot[s].installed

Installing == {"list", "pull", "pulled"}
\* What a request knows of the entry it refers to.
RequestKnows(b, a) ==
    /\ a.slot = NoSlot <=> a.step \in {"idle", "resolve"}
    /\ a.step # "idle" => a.key \in Keys /\ a.since <= referrers[a.key]
    /\ a.slot # NoSlot => b.slot[a.slot].key = a.key
    /\ a.step \in Installing => b.slot[a.slot].ready = "pending"
    /\ a.step \in {"compare", "compared", "use"} => b.slot[a.slot].ready = "done"
    /\ a.step \in {"pull", "pulled", "compared"} =>
          a.since <= a.listed /\ a.listed <= referrers[a.key]
    /\ a.step = "pulled" => a.listed <= b.slot[a.slot].installed
    /\ a.step = "use" => a.since <= b.slot[a.slot].installed
OneInstalls(rq) ==
    \A p, q \in Requests :
        rq[p].step \in Installing /\ rq[q].step \in Installing
        /\ rq[p].slot = rq[q].slot => p = q

Sound(b, rq) ==
    /\ b \in Books /\ Ordered(b) /\ rq \in [Requests -> Request]
    /\ \A s \in Slots : EntryAgrees(b, rq, s) /\ EntryIsFresh(b, s)
    /\ \A q \in Requests : RequestKnows(b, rq[q])
    /\ OneInstalls(rq)

Ready(b) == {s \in b.table : b.slot[s].ready = "done"}
Kept(b) == Cardinality(Ready(b)) > Capacity => \A s \in Ready(b) : b.slot[s].users > 0

\* A manifest that is not governed is never looked at again.
Ungoverned == \A k \in Keys \ GovernedKeys : referrers[k] = 0

IInv == TypeOK /\ Sound(Now, req) /\ Kept(Now) /\ Ungoverned

----------------------------------------------------------------------------
(* The operators of the bookkeeping *)

LEMMA SlotFacts ==
    /\ Slots \subseteq Nat /\ NoSlot \notin Slots /\ IsFiniteSet(Slots)
    /\ \A some \in SUBSET Slots : IsFiniteSet(some)
<1>1. Slots \subseteq Nat /\ NoSlot \notin Slots
  BY DEF Slots, NoSlot
<1>2. IsFiniteSet(Slots)
  BY FS_Interval DEF Slots
<1> QED
  BY <1>1, <1>2, FS_Subset

LEMMA OfFacts ==
    ASSUME NEW rq, NEW s
    PROVE  /\ IsFiniteSet(Of(rq, s)) /\ Cardinality(Of(rq, s)) \in Nat
           /\ Cardinality(Of(rq, s)) = 0 <=> Of(rq, s) = {}
<1>1. Of(rq, s) \in SUBSET Requests
  BY DEF Of
<1>2. IsFiniteSet(Of(rq, s))
  BY <1>1, FS_Subset
<1> QED
  BY <1>2, FS_CardinalityType, FS_EmptySet

\* A request that stops referring to an entry is one less.
LEMMA OfLess ==
    ASSUME NEW rq \in [Requests -> Request], NEW r \in Requests,
           NEW gone \in [Requests -> Request], gone[r].slot = NoSlot,
           \A q \in Requests \ {r} : gone[q] = rq[q]
    PROVE  \A s \in Slots :
               /\ s # rq[r].slot => Of(gone, s) = Of(rq, s)
               /\ s = rq[r].slot =>
                     /\ Of(gone, s) = Of(rq, s) \ {r} /\ r \in Of(rq, s)
                     /\ Cardinality(Of(rq, s)) = Cardinality(Of(gone, s)) + 1
<1> SUFFICES ASSUME NEW s \in Slots
             PROVE  /\ s # rq[r].slot => Of(gone, s) = Of(rq, s)
                    /\ s = rq[r].slot =>
                          /\ Of(gone, s) = Of(rq, s) \ {r} /\ r \in Of(rq, s)
                          /\ Cardinality(Of(rq, s)) = Cardinality(Of(gone, s)) + 1
  OBVIOUS
<1>1. s # rq[r].slot => Of(gone, s) = Of(rq, s)
  BY SlotFacts DEF Of
<1>2. ASSUME s = rq[r].slot
      PROVE  Of(gone, s) = Of(rq, s) \ {r} /\ r \in Of(rq, s)
  BY <1>2, SlotFacts DEF Of
<1>3. ASSUME s = rq[r].slot
      PROVE  Cardinality(Of(rq, s)) = Cardinality(Of(gone, s)) + 1
  <2> DEFINE n == Cardinality(Of(rq, s))
             m == Cardinality(Of(gone, s))
  <2>1. IsFiniteSet(Of(rq, s)) /\ n \in Nat
    BY OfFacts
  <2>2. Cardinality(Of(rq, s) \ {r}) = n - 1
    BY <1>2, <1>3, <2>1, FS_RemoveElement
  <2>3. m = n - 1
    BY <1>2, <1>3, <2>2
  <2> HIDE DEF n, m
  <2>4. n = m + 1
    BY <2>1, <2>3
  <2> QED
    BY <2>4 DEF n, m
<1> QED
  BY <1>1, <1>2, <1>3

\* And one that begins to refer to an entry is one more.
LEMMA OfMore ==
    ASSUME NEW rq \in [Requests -> Request], NEW r \in Requests,
           NEW more \in [Requests -> Request], rq[r].slot = NoSlot,
           \A q \in Requests \ {r} : more[q] = rq[q]
    PROVE  \A s \in Slots :
               /\ s # more[r].slot => Of(more, s) = Of(rq, s)
               /\ s = more[r].slot =>
                     /\ Of(more, s) = Of(rq, s) \cup {r}
                     /\ Cardinality(Of(more, s)) = Cardinality(Of(rq, s)) + 1
<1> SUFFICES ASSUME NEW s \in Slots
             PROVE  /\ s # more[r].slot => Of(more, s) = Of(rq, s)
                    /\ s = more[r].slot =>
                          /\ Of(more, s) = Of(rq, s) \cup {r}
                          /\ Cardinality(Of(more, s)) = Cardinality(Of(rq, s)) + 1
  OBVIOUS
<1>1. s # more[r].slot => Of(more, s) = Of(rq, s)
  BY SlotFacts DEF Of
<1>2. ASSUME s = more[r].slot
      PROVE  Of(more, s) = Of(rq, s) \cup {r} /\ r \notin Of(rq, s)
  BY <1>2, SlotFacts DEF Of
<1>3. ASSUME s = more[r].slot
      PROVE  Cardinality(Of(more, s)) = Cardinality(Of(rq, s)) + 1
  BY <1>2, <1>3, OfFacts, FS_AddElement
<1> QED
  BY <1>1, <1>2, <1>3

LEMMA BookIs ==
    ASSUME NEW t \in SUBSET Slots, NEW o \in SUBSET (Slots \X Slots),
           NEW e \in [Slots -> Entry], NEW d \in SUBSET Slots
    PROVE  /\ Book(t, o, e, d) \in Books
           /\ Book(t, o, e, d).table = t /\ Book(t, o, e, d).older = o
           /\ Book(t, o, e, d).slot = e /\ Book(t, o, e, d).directories = d
BY DEF Book, Books

\* The books with another table, or with other directories.
WithTable(b, t, o) == [b EXCEPT !.table = t, !.older = o]
WithDirectories(b, d) == [b EXCEPT !.directories = d]
LEMMA RewrittenBooks ==
    ASSUME NEW b \in Books
    PROVE  /\ \A t, o : WithTable(b, t, o) = Book(t, o, b.slot, b.directories)
           /\ \A d : WithDirectories(b, d) = Book(b.table, b.older, b.slot, d)
<1>1. b = [table |-> b.table, older |-> b.older, slot |-> b.slot,
           directories |-> b.directories]
  BY DEF Books
<1>2. ASSUME NEW t, NEW o
      PROVE  WithTable(b, t, o) = Book(t, o, b.slot, b.directories)
  <2> DEFINE half == [b EXCEPT !.table = t]
  <2>1. half = [table |-> t, older |-> b.older, slot |-> b.slot,
                directories |-> b.directories]
    BY <1>1
  <2>2. [half EXCEPT !.older = o] = [table |-> t, older |-> o, slot |-> b.slot,
                                     directories |-> b.directories]
    <3> HIDE DEF half
    <3> QED
      BY <2>1
  <2> QED
    BY <2>2 DEF WithTable, Book
<1>3. ASSUME NEW d
      PROVE  WithDirectories(b, d) = Book(b.table, b.older, b.slot, d)
  BY <1>1 DEF WithDirectories, Book
<1> QED
  BY <1>2, <1>3

\* Dropping entries from a table and its order, and removing directories.
LEMMA DroppedIs ==
    ASSUME NEW b \in Books, Ordered(b), NEW some
    PROVE  /\ Dropped(b, some) \in Books /\ Ordered(Dropped(b, some))
           /\ Dropped(b, some).table = b.table \ some
           /\ Dropped(b, some).slot = b.slot
           /\ Dropped(b, some).directories = b.directories
<1> DEFINE kept == {p \in b.older : p[1] \notin some /\ p[2] \notin some}
           c == Dropped(b, some)
<1>1. /\ kept \in SUBSET (Slots \X Slots) /\ b.table \ some \in SUBSET Slots
      /\ b.slot \in [Slots -> Entry] /\ b.directories \in SUBSET Slots
  BY DEF Books
<1>2. c = Book(b.table \ some, kept, b.slot, b.directories)
  <2>1. c = WithTable(b, b.table \ some, kept)
    BY DEF Dropped, WithTable
  <2> HIDE DEF kept, c
  <2> QED
    BY <2>1, RewrittenBooks
<1>3. /\ kept \subseteq (b.table \ some) \X (b.table \ some)
      /\ \A s \in b.table \ some : <<s, s>> \notin kept
  BY DEF Ordered
<1>4. \A s, t, u \in b.table \ some :
         <<s, t>> \in kept /\ <<t, u>> \in kept => <<s, u>> \in kept
  BY DEF Ordered
<1>5. /\ c \in Books /\ c.table = b.table \ some /\ c.older = kept
      /\ c.slot = b.slot /\ c.directories = b.directories
  <2> HIDE DEF kept, c
  <2> QED
    BY <1>1, <1>2, BookIs
<1> HIDE DEF kept, c
<1>6. Ordered(c)
  BY <1>3, <1>4, <1>5 DEF Ordered
<1> QED
  BY <1>5, <1>6 DEF c

LEMMA DisposeIs ==
    ASSUME NEW b \in Books, NEW some
    PROVE  /\ Dispose(b, some) \in Books
           /\ Dispose(b, some).table = b.table /\ Dispose(b, some).older = b.older
           /\ Dispose(b, some).slot = b.slot
           /\ Dispose(b, some).directories = b.directories \ some
<1>1. /\ b.table \in SUBSET Slots /\ b.older \in SUBSET (Slots \X Slots)
      /\ b.slot \in [Slots -> Entry] /\ b.directories \ some \in SUBSET Slots
  BY DEF Books
<1>2. Dispose(b, some) = Book(b.table, b.older, b.slot, b.directories \ some)
  <2>1. Dispose(b, some) = WithDirectories(b, b.directories \ some)
    BY DEF Dispose, WithDirectories
  <2> QED
    BY <2>1, RewrittenBooks
<1> QED
  BY <1>1, <1>2, BookIs

\* An entry becomes the most recently used.
LEMMA LatestIs ==
    ASSUME NEW b \in Books, Ordered(b), NEW s \in Slots, s \notin b.table
    PROVE  /\ Latest(b, s) \in Books /\ Ordered(Latest(b, s))
           /\ Latest(b, s).table = b.table \cup {s}
           /\ Latest(b, s).slot = b.slot
           /\ Latest(b, s).directories = b.directories
<1> DEFINE order == b.older \cup (b.table \X {s})
           with == b.table \cup {s}
           c == Latest(b, s)
<1>1. /\ order \in SUBSET (Slots \X Slots) /\ with \in SUBSET Slots
      /\ b.slot \in [Slots -> Entry] /\ b.directories \in SUBSET Slots
  BY DEF Books
<1>2. c = Book(with, order, b.slot, b.directories)
  <2>1. c = WithTable(b, with, order)
    BY DEF Latest, WithTable
  <2> HIDE DEF order, with, c
  <2> QED
    BY <2>1, RewrittenBooks
<1>3. order \subseteq with \X with
  BY DEF Ordered
<1>4. \A t \in with : <<t, t>> \notin order
  BY DEF Ordered
<1>5. \A t, u, v \in with :
         <<t, u>> \in order /\ <<u, v>> \in order => <<t, v>> \in order
  BY DEF Ordered
<1>6. /\ c \in Books /\ c.table = with /\ c.older = order
      /\ c.slot = b.slot /\ c.directories = b.directories
  <2> HIDE DEF order, with, c
  <2> QED
    BY <1>1, <1>2, BookIs
<1>7. Ordered(c)
  <2> HIDE DEF order, with, c
  <2> QED
    BY <1>3, <1>4, <1>5, <1>6 DEF Ordered
<1> QED
  BY <1>6, <1>7

\* Rewriting one entry object.
LEMMA WithIs ==
    ASSUME NEW b \in Books, NEW s \in Slots, NEW entry \in Entry
    PROVE  /\ With(b, s, entry) \in Books
           /\ With(b, s, entry).table = b.table
           /\ With(b, s, entry).older = b.older
           /\ With(b, s, entry).directories = b.directories
           /\ With(b, s, entry).slot[s] = entry
           /\ \A t \in Slots \ {s} : With(b, s, entry).slot[t] = b.slot[t]
<1> DEFINE e == [b.slot EXCEPT ![s] = entry]
<1>1. /\ b.table \in SUBSET Slots /\ b.older \in SUBSET (Slots \X Slots)
      /\ e \in [Slots -> Entry] /\ b.directories \in SUBSET Slots
  BY DEF Books
<1>2. With(b, s, entry) = Book(b.table, b.older, e, b.directories)
  BY DEF With, Books, Book
<1>3. e[s] = entry /\ \A t \in Slots \ {s} : e[t] = b.slot[t]
  BY DEF Books
<1> HIDE DEF e
<1> QED
  BY <1>1, <1>2, <1>3, BookIs

LEMMA WithUsersIs ==
    ASSUME NEW b \in Books, NEW s \in Slots, NEW n \in Nat
    PROVE  /\ WithUsers(b, s, n) = With(b, s, [b.slot[s] EXCEPT !.users = n])
           /\ [b.slot[s] EXCEPT !.users = n] \in Entry
           /\ [b.slot[s] EXCEPT !.users = n].users = n
           /\ [b.slot[s] EXCEPT !.users = n].key = b.slot[s].key
           /\ [b.slot[s] EXCEPT !.users = n].ready = b.slot[s].ready
           /\ [b.slot[s] EXCEPT !.users = n].signatures = b.slot[s].signatures
           /\ [b.slot[s] EXCEPT !.users = n].installed = b.slot[s].installed
<1>1. b.slot[s] \in Entry
  BY DEF Books
<1>2. WithUsers(b, s, n) = With(b, s, [b.slot[s] EXCEPT !.users = n])
  BY DEF WithUsers, With, Books
<1> QED
  BY <1>1, <1>2 DEF Entry

----------------------------------------------------------------------------
(* What each part of the bookkeeping keeps *)

\* A request that goes on with the entry it has, or goes on with none.
LEMMA GoesOn ==
    ASSUME NEW b, NEW rq, Sound(b, rq), NEW r \in Requests,
           NEW record \in Request, record.slot = rq[r].slot,
           record.step \in Installing => rq[r].step \in Installing,
           RequestKnows(b, record)
    PROVE  Sound(b, [rq EXCEPT ![r] = record])
<1> DEFINE on == [rq EXCEPT ![r] = record]
<1>1. /\ on \in [Requests -> Request] /\ on[r] = record
      /\ \A q \in Requests \ {r} : on[q] = rq[q]
  BY DEF Sound
<1> HIDE DEF on
<1>2. \A s \in Slots : Of(on, s) = Of(rq, s)
  BY <1>1 DEF Of
<1>3. \A s \in Slots : EntryAgrees(b, on, s)
  BY <1>2 DEF EntryAgrees, Sound
<1>4. \A q \in Requests : RequestKnows(b, on[q])
  BY <1>1 DEF Sound
<1>5. OneInstalls(on)
  BY <1>1 DEF OneInstalls, Sound
<1>6. Sound(b, on)
  BY <1>1, <1>3, <1>4, <1>5 DEF Sound
<1> QED
  BY <1>6 DEF on

\* A request that goes on without the entry it had: its users are now more
\* than the requests that refer to it.
LEMMA GoesOnWithout ==
    ASSUME NEW b, NEW rq, Sound(b, rq), NEW r \in Requests,
           NEW record \in Request, record.slot = NoSlot, rq[r].slot # NoSlot,
           record.step \notin Installing, RequestKnows(b, record)
    PROVE  LET gone == [rq EXCEPT ![r] = record] IN
           /\ Sound(b, gone)
           /\ b.slot[rq[r].slot].users > Cardinality(Of(gone, rq[r].slot))
           /\ Of(gone, rq[r].slot) = Of(rq, rq[r].slot) \ {r}
<1> DEFINE gone == [rq EXCEPT ![r] = record]
           own == rq[r].slot
<1>1. /\ gone \in [Requests -> Request] /\ gone[r] = record
      /\ \A q \in Requests \ {r} : gone[q] = rq[q]
      /\ own \in Slots
  BY DEF Sound, Request
<1>2. /\ \A s \in Slots \ {own} : Of(gone, s) = Of(rq, s)
      /\ Of(gone, own) = Of(rq, own) \ {r} /\ r \in Of(rq, own)
      /\ Cardinality(Of(rq, own)) = Cardinality(Of(gone, own)) + 1
  <2>1. rq \in [Requests -> Request] /\ gone[r].slot = NoSlot
    BY <1>1 DEF Sound
  <2> HIDE DEF gone
  <2>2. \A s \in Slots :
           /\ s # own => Of(gone, s) = Of(rq, s)
           /\ s = own => /\ Of(gone, s) = Of(rq, s) \ {r} /\ r \in Of(rq, s)
                         /\ Cardinality(Of(rq, s)) = Cardinality(Of(gone, s)) + 1
    BY <1>1, <2>1, OfLess
  <2> QED
    BY <1>1, <2>2
<1> HIDE DEF gone
<1>3. \A s \in Slots \ {own} : EntryAgrees(b, gone, s)
  BY <1>2 DEF EntryAgrees, Sound
<1>4. b.slot[own].users > Cardinality(Of(gone, own))
  <2> DEFINE n == b.slot[own].users
             m == Cardinality(Of(gone, own))
  <2>1. n \in Nat /\ m \in Nat /\ n >= m + 1
    BY <1>1, <1>2, OfFacts DEF Sound, EntryAgrees, Books, Entry
  <2> HIDE DEF n, m
  <2>2. n > m
    BY <2>1
  <2> QED
    BY <2>2 DEF n, m
<1>5. EntryAgrees(b, gone, own)
  <2>1. b.slot[own].users >= Cardinality(Of(gone, own))
    BY <1>1, <1>4, OfFacts DEF Sound, Books, Entry
  <2>2. EntryAgrees(b, rq, own)
    BY <1>1 DEF Sound
  <2> QED
    BY <1>2, <1>4, <2>1, <2>2 DEF EntryAgrees
<1>6. \A q \in Requests : RequestKnows(b, gone[q])
  BY <1>1 DEF Sound
<1>7. OneInstalls(gone)
  BY <1>1 DEF OneInstalls, Sound
<1>8. Sound(b, gone)
  BY <1>1, <1>3, <1>5, <1>6, <1>7 DEF Sound
<1> QED
  BY <1>2, <1>4, <1>8 DEF gone

\* Entries that have users besides the requests leave the table.
LEMMA WithoutKeeps ==
    ASSUME NEW b, NEW rq, Sound(b, rq), NEW s \in Slots,
           b.slot[s].users > Cardinality(Of(rq, s))
    PROVE  /\ Sound(Without(b, s), rq)
           /\ Without(b, s).table = b.table \ {s}
           /\ Without(b, s).slot = b.slot
           /\ Without(b, s).directories = b.directories
<1> DEFINE c == Without(b, s)
<1>1. /\ c \in Books /\ Ordered(c) /\ c.table = b.table \ {s}
      /\ c.slot = b.slot /\ c.directories = b.directories
  BY DroppedIs DEF Without, Sound
<1> HIDE DEF c
<1>2. \A t \in Slots : EntryAgrees(c, rq, t) /\ EntryIsFresh(c, t)
  BY <1>1 DEF EntryAgrees, EntryIsFresh, Sound
<1>3. \A q \in Requests : RequestKnows(c, rq[q])
  BY <1>1 DEF RequestKnows, Sound
<1>4. Sound(c, rq)
  BY <1>1, <1>2, <1>3 DEF Sound
<1> QED
  BY <1>1, <1>4 DEF c

\* Entries nobody refers to leave the table with their directories.
LEMMA RemovedKeeps ==
    ASSUME NEW b, NEW rq, Sound(b, rq), NEW some \in SUBSET Slots,
           \A s \in some : Of(rq, s) = {}
    PROVE  LET c == Dispose(Dropped(b, some), some) IN
           /\ Sound(c, rq)
           /\ c.table = b.table \ some /\ c.slot = b.slot
           /\ c.directories = b.directories \ some
<1> DEFINE d == Dropped(b, some)
           c == Dispose(d, some)
<1>1. /\ d \in Books /\ Ordered(d) /\ d.table = b.table \ some
      /\ d.slot = b.slot /\ d.directories = b.directories
  BY DroppedIs DEF Sound
<1> HIDE DEF d
<1>2. /\ c \in Books /\ c.table = b.table \ some /\ c.older = d.older
      /\ c.slot = b.slot /\ c.directories = b.directories \ some
  BY <1>1, DisposeIs
<1> HIDE DEF c
<1>3. Ordered(c)
  BY <1>1, <1>2 DEF Ordered
<1>4. \A t \in Slots : EntryAgrees(c, rq, t) /\ EntryIsFresh(c, t)
  BY <1>2 DEF EntryAgrees, EntryIsFresh, Sound
<1>5. \A q \in Requests : RequestKnows(c, rq[q])
  BY <1>2 DEF RequestKnows, Sound
<1>6. Sound(c, rq)
  BY <1>2, <1>3, <1>4, <1>5 DEF Sound
<1> QED
  BY <1>2, <1>6 DEF c, d

\* What changes of one entry, and of the requests that refer to it, is to be
\* looked at in these alone.
LEMMA OneEntryChanges ==
    ASSUME NEW b, NEW rq, Sound(b, rq), NEW s \in Slots,
           NEW c \in Books, Ordered(c),
           \A t \in Slots \ {s} :
              /\ c.slot[t] = b.slot[t] /\ (t \in c.table <=> t \in b.table)
              /\ t \in c.directories <=> t \in b.directories,
           NEW now \in [Requests -> Request],
           \A q \in Requests :
              now[q] = rq[q] \/ (now[q].slot = s /\ rq[q].slot \in {s, NoSlot}),
           EntryAgrees(c, now, s), EntryIsFresh(c, s), OneInstalls(now),
           \A q \in Of(now, s) : RequestKnows(c, now[q])
    PROVE  Sound(c, now)
<1>1. \A t \in Slots \ {s} : Of(now, t) = Of(rq, t)
  BY SlotFacts DEF Of
<1>2. \A t \in Slots \ {s} : EntryAgrees(c, now, t) /\ EntryIsFresh(c, t)
  BY <1>1 DEF EntryAgrees, EntryIsFresh, Sound
<1>3. ASSUME NEW q \in Requests, q \notin Of(now, s)
      PROVE  RequestKnows(c, now[q])
  <2>1. /\ RequestKnows(b, rq[q]) /\ now[q] = rq[q]
        /\ rq[q] \in Request /\ rq[q].slot # s
    BY <1>3 DEF Sound, Of
  <2>2. rq[q].slot = NoSlot \/ c.slot[rq[q].slot] = b.slot[rq[q].slot]
    BY <2>1 DEF Request
  <2> QED
    BY <2>1, <2>2, SlotFacts DEF RequestKnows, Installing
<1> QED
  BY <1>2, <1>3 DEF Sound

\* One entry object rewritten.
LEMMA RewrittenKeeps ==
    ASSUME NEW b, NEW rq, Sound(b, rq), NEW s \in Slots, NEW entry \in Entry,
           entry.users >= Cardinality(Of(rq, s)),
           s \in b.directories =>
             s \in b.table \/ Of(rq, s) # {} \/ entry.users > Cardinality(Of(rq, s)),
           entry.ready = "failed" \/ b.slot[s].ready # "failed",
           EntryIsFresh(With(b, s, entry), s),
           \A q \in Of(rq, s) : RequestKnows(With(b, s, entry), rq[q])
    PROVE  Sound(With(b, s, entry), rq)
<1> DEFINE c == With(b, s, entry)
<1>1. /\ c \in Books /\ c.table = b.table /\ c.older = b.older
      /\ c.directories = b.directories /\ c.slot[s] = entry
      /\ \A t \in Slots \ {s} : c.slot[t] = b.slot[t]
  BY WithIs DEF Sound
<1>2. EntryIsFresh(c, s) /\ \A q \in Of(rq, s) : RequestKnows(c, rq[q])
  OBVIOUS
<1> HIDE DEF c
<1>3. Ordered(c) /\ rq \in [Requests -> Request] /\ OneInstalls(rq)
  BY <1>1 DEF Ordered, Sound
<1>4. EntryAgrees(c, rq, s)
  BY <1>1 DEF EntryAgrees, Sound
<1>5. Sound(c, rq)
  BY <1>1, <1>2, <1>3, <1>4, OneEntryChanges
<1> QED
  BY <1>5 DEF c

\* The least of some numbers.
LEMMA Least ==
    ASSUME NEW some \in SUBSET Nat, some # {}
    PROVE  \E m \in some : \A n \in some : m <= n
<1>1. PICK m \in some : \A n \in some : <<n, m>> \notin OpToRel(<, Nat)
  BY NatLessThanWellFounded, WFMin
<1>2. ASSUME NEW n \in some
      PROVE  m <= n
  <2>1. <<n, m>> \in OpToRel(<, Nat) <=> n < m
    BY DEF OpToRel
  <2>2. ~(n < m)
    BY <1>1, <2>1
  <2> QED
    BY <2>2
<1> QED
  BY <1>2

\* Eviction leaves no idle entry beyond the capacity: of those it would
\* leave, the least recently used comes after nothing but evicted ones.
LEMMA EvictedKeeps ==
    ASSUME NEW b, NEW rq, Sound(b, rq)
    PROVE  Sound(Evicted(b), rq) /\ Kept(Evicted(b))
<1> DEFINE idle == {s \in b.table : Evictable(b, s)}
           before(s) == {t \in idle : <<t, s>> \in b.older}
           excess == {s \in idle :
               Capacity + Cardinality(before(s)) < Cardinality(b.table)}
           c == Evicted(b)
<1>1. /\ b.table \in SUBSET Slots /\ IsFiniteSet(b.table) /\ Ordered(b)
      /\ idle \subseteq b.table /\ IsFiniteSet(idle)
      /\ excess \subseteq idle /\ IsFiniteSet(excess)
      /\ \A s : before(s) \subseteq idle /\ IsFiniteSet(before(s))
               /\ Cardinality(before(s)) \in Nat
      /\ Cardinality(b.table) \in Nat
  <2>1. b.table \in SUBSET Slots /\ IsFiniteSet(b.table) /\ Ordered(b)
    BY SlotFacts DEF Sound, Books
  <2>2. idle \subseteq b.table /\ excess \subseteq idle
        /\ \A s : before(s) \subseteq idle
    OBVIOUS
  <2>3. IsFiniteSet(idle)
    BY <2>1, <2>2, FS_Subset
  <2>4. IsFiniteSet(excess) /\ \A s : IsFiniteSet(before(s))
    <3> HIDE DEF idle, before, excess
    <3> QED
      BY <2>2, <2>3, FS_Subset
  <2>5. Cardinality(b.table) \in Nat /\ \A s : Cardinality(before(s)) \in Nat
    BY <2>1, <2>4, FS_CardinalityType
  <2> HIDE DEF idle, before, excess
  <2> QED
    BY <2>1, <2>2, <2>3, <2>4, <2>5
<1>2. \A s \in idle : Of(rq, s) = {}
  <2> SUFFICES ASSUME NEW s \in idle
               PROVE  Of(rq, s) = {}
    OBVIOUS
  <2>1. s \in Slots /\ b.slot[s].users = 0
    BY <1>1 DEF Evictable
  <2>2. 0 >= Cardinality(Of(rq, s))
    BY <2>1 DEF Sound, EntryAgrees
  <2>3. Cardinality(Of(rq, s)) = 0
    BY <2>2, OfFacts
  <2> QED
    BY <2>3, OfFacts
<1>3. c = Dispose(Dropped(b, excess), excess)
  BY DEF Evicted
<1>4. /\ Sound(c, rq) /\ c.table = b.table \ excess /\ c.slot = b.slot
  <2>1. excess \in SUBSET Slots /\ \A s \in excess : Of(rq, s) = {}
    BY <1>1, <1>2
  <2> HIDE DEF c, excess
  <2> QED
    BY <1>3, <2>1, RemovedKeeps
<1>5. ASSUME NEW s \in idle \ excess
      PROVE  Cardinality(c.table) <= Capacity
  <2> DEFINE left == idle \ excess
             numbers == {Cardinality(before(t)) : t \in left}
  <2>1. numbers \in SUBSET Nat /\ numbers # {}
    BY <1>1, <1>5
  <2>2. PICK m \in numbers : \A n \in numbers : m <= n
    <3> HIDE DEF numbers
    <3> QED
      BY <2>1, Least
  <2>3. PICK u \in left : m = Cardinality(before(u))
    BY <2>2
  <2>4. u \in b.table /\ u \notin before(u)
    BY <1>1 DEF Ordered
  <2>5. ASSUME NEW t \in before(u)
        PROVE  t \in excess
    <3>1. /\ t \in idle /\ t \in b.table /\ <<t, u>> \in b.older
          /\ t \notin before(t)
      BY <1>1, <2>5 DEF Ordered
    <3>2. before(t) \subseteq before(u)
      BY <1>1, <2>4, <3>1 DEF Ordered
    <3>3. before(t) # before(u)
      BY <2>5, <3>1
    <3>4. Cardinality(before(t)) < Cardinality(before(u))
      <4>1. before(t) \subseteq before(u) \ {t}
        BY <3>1, <3>2
      <4>2. Cardinality(before(u) \ {t}) = Cardinality(before(u)) - 1
        <5> HIDE DEF before, idle
        <5> QED
          BY <1>1, <2>5, FS_RemoveElement
      <4>3. IsFiniteSet(before(u) \ {t})
        <5> HIDE DEF before, idle
        <5> QED
          BY <1>1, FS_RemoveElement
      <4>4. Cardinality(before(t)) <= Cardinality(before(u) \ {t})
        <5> HIDE DEF before, idle
        <5> QED
          BY <4>1, <4>3, FS_Subset
      <4> HIDE DEF before, idle, excess, numbers, left
      <4> QED
        BY <1>1, <4>2, <4>4
    <3>5. ~(m <= Cardinality(before(t)))
      <4> HIDE DEF before, idle, excess, numbers, left
      <4> QED
        BY <1>1, <2>3, <3>4
    <3>6. t \notin left
      BY <2>2, <3>5, ZenonT(30)
    <3> QED
      BY <3>1, <3>6
  <2>6. before(u) \subseteq excess
    BY <2>5
  <2>7. ~(Capacity + Cardinality(before(u)) < Cardinality(b.table))
    BY <2>3
  <2> HIDE DEF before, idle, excess, numbers, left, c
  <2>8. Cardinality(b.table \ before(u)) = Cardinality(b.table) - Cardinality(before(u))
    <3>1. before(u) \subseteq b.table
      BY <1>1
    <3>2. b.table \cap before(u) = before(u)
      BY <3>1
    <3> QED
      BY <1>1, <3>2, FS_Difference
  <2>9. /\ IsFiniteSet(b.table \ before(u))
        /\ c.table \subseteq b.table \ before(u)
    BY <1>1, <1>4, <2>6, FS_Difference
  <2>10. /\ Cardinality(c.table) <= Cardinality(b.table \ before(u))
         /\ Cardinality(c.table) \in Nat
    BY <2>9, FS_Subset, FS_CardinalityType
  <2> QED
    BY <1>1, <2>7, <2>8, <2>10
<1>6. Kept(c)
  <2> SUFFICES ASSUME NEW s \in Ready(c), ~(c.slot[s].users > 0)
               PROVE  ~(Cardinality(Ready(c)) > Capacity)
    BY DEF Kept
  <2>1. s \in b.table \ excess /\ b.slot[s].ready = "done" /\ ~(b.slot[s].users > 0)
    <3> HIDE DEF c, excess
    <3> QED
      BY <1>4 DEF Ready
  <2>2. s \in Slots /\ b.slot[s].users \in Nat
    BY <1>1, <2>1 DEF Sound, Books, Entry
  <2>3. b.slot[s].users = 0
    BY <2>1, <2>2
  <2>4. s \in idle \ excess
    BY <2>1, <2>3 DEF Evictable
  <2>5. Cardinality(c.table) <= Capacity
    BY <1>5, <2>4
  <2>6. c.table \in SUBSET Slots /\ Ready(c) \subseteq c.table
    <3> HIDE DEF c
    <3> QED
      BY <1>4 DEF Ready, Sound, Books
  <2> HIDE DEF c, idle, before, excess
  <2>7. /\ IsFiniteSet(c.table) /\ IsFiniteSet(Ready(c))
        /\ Cardinality(Ready(c)) <= Cardinality(c.table)
    BY <2>6, SlotFacts, FS_Subset
  <2>8. Cardinality(Ready(c)) \in Nat /\ Cardinality(c.table) \in Nat
    BY <2>7, FS_CardinalityType
  <2> QED
    BY <2>5, <2>7, <2>8
<1> QED
  BY <1>4, <1>6

\* An entry that has users besides the requests loses one of them.
LEMMA ReleasedKeeps ==
    ASSUME NEW b, NEW rq, Sound(b, rq), NEW s \in Slots,
           b.slot[s].users > Cardinality(Of(rq, s))
    PROVE  Sound(Released(b, s), rq) /\ Kept(Released(b, s))
<1> DEFINE n == b.slot[s].users - 1
           entry == [b.slot[s] EXCEPT !.users = n]
           m == Cardinality(Of(rq, s))
           less == WithUsers(b, s, n)
<1>1. /\ b \in Books /\ Ordered(b) /\ b.slot[s] \in Entry
      /\ b.slot[s].users \in Nat /\ m \in Nat
  BY OfFacts DEF Sound, Books, Entry
<1>2. n \in Nat /\ n >= m
  BY <1>1
<1>3. /\ less = With(b, s, entry) /\ entry \in Entry /\ entry.users = n
      /\ entry.key = b.slot[s].key /\ entry.ready = b.slot[s].ready
      /\ entry.signatures = b.slot[s].signatures
      /\ entry.installed = b.slot[s].installed
  <2> HIDE DEF n
  <2> QED
    BY <1>1, <1>2, WithUsersIs
<1> HIDE DEF n, entry
<1>4. /\ less \in Books /\ less.table = b.table /\ less.older = b.older
      /\ less.directories = b.directories /\ less.slot[s] = entry
      /\ \A t \in Slots \ {s} : less.slot[t] = b.slot[t]
  BY <1>1, <1>3, WithIs
<1> HIDE DEF less
<1>5. EntryAgrees(b, rq, s) /\ EntryIsFresh(b, s)
  BY DEF Sound
<1>6. ASSUME NEW q \in Of(rq, s), NEW c, c.slot[s] = entry
      PROVE  RequestKnows(c, rq[q])
  <2>1. rq[q].slot = s /\ RequestKnows(b, rq[q])
    BY <1>6 DEF Of, Sound
  <2> QED
    BY <1>3, <1>6, <2>1 DEF RequestKnows, Installing
<1>7. CASE n = 0 /\ ~Cached(b, s)
  <2> DEFINE c == Dispose(less, {s})
  <2>1. /\ c \in Books /\ c.table = b.table /\ c.older = b.older
        /\ c.slot = less.slot /\ c.directories = b.directories \ {s}
    BY <1>4, DisposeIs
  <2> HIDE DEF c
  <2>2. Of(rq, s) = {} /\ s \notin b.table
    <3>1. m = 0 /\ ~Cached(b, s)
      BY <1>1, <1>2, <1>7
    <3> QED
      BY <3>1, OfFacts DEF Cached
  <2>3. EntryAgrees(c, rq, s)
    BY <1>2, <1>3, <1>4, <2>1, <2>2 DEF EntryAgrees
  <2>4. EntryIsFresh(c, s)
    BY <1>3, <1>4, <1>5, <2>1 DEF EntryIsFresh
  <2>5. Ordered(c) /\ rq \in [Requests -> Request] /\ OneInstalls(rq)
    BY <2>1 DEF Ordered, Sound
  <2>6. Sound(c, rq)
    BY <1>4, <2>1, <2>2, <2>3, <2>4, <2>5, OneEntryChanges
  <2>7. Released(b, s) = Evicted(c)
    BY <1>7 DEF Released, Left, c, less, n
  <2> QED
    BY <2>6, <2>7, EvictedKeeps
<1>8. CASE ~(n = 0 /\ ~Cached(b, s))
  <2>1. s \in less.directories =>
           s \in less.table \/ Of(rq, s) # {} \/ n > m
    <3>1. Of(rq, s) = {} => m = 0
      BY OfFacts
    <3> QED
      BY <1>2, <1>4, <1>8, <3>1 DEF Cached
  <2>2. EntryAgrees(less, rq, s)
    BY <1>2, <1>3, <1>4, <1>5, <2>1 DEF EntryAgrees
  <2>3. EntryIsFresh(less, s)
    BY <1>3, <1>4, <1>5 DEF EntryIsFresh
  <2>4. Ordered(less) /\ rq \in [Requests -> Request] /\ OneInstalls(rq)
    BY <1>4 DEF Ordered, Sound
  <2>5. Sound(less, rq)
    BY <1>4, <1>6, <2>2, <2>3, <2>4, OneEntryChanges
  <2>6. Released(b, s) = Evicted(less)
    BY <1>8 DEF Released, Left, less, n
  <2> QED
    BY <2>5, <2>6, EvictedKeeps
<1> QED
  BY <1>7, <1>8

\* The entries nothing refers to go, and take with them nothing that counts.
LEMMA CollectedKeeps ==
    ASSUME NEW b, NEW rq, Sound(b, rq), NEW held,
           \A q \in Requests : rq[q].slot \in held
    PROVE  LET e == Collected(b, held)
               c == Book(b.table, b.older, e, b.directories) IN
           /\ Sound(c, rq) /\ (Kept(b) => Kept(c))
           /\ c.table = b.table /\ c.older = b.older
           /\ c.slot = e /\ c.directories = b.directories
<1> DEFINE e == Collected(b, held)
           c == Book(b.table, b.older, e, b.directories)
<1>1. /\ b.table \in SUBSET Slots /\ b.older \in SUBSET (Slots \X Slots)
      /\ b.slot \in [Slots -> Entry] /\ b.directories \in SUBSET Slots
      /\ Ordered(b) /\ rq \in [Requests -> Request]
  BY DEF Sound, Books
<1>2. /\ FreeSlot \in Entry /\ FreeSlot.users = 0 /\ FreeSlot.key = NoKey
      /\ FreeSlot.ready = "free"
  BY DEF FreeSlot, Entry, Readiness
<1>3. ASSUME NEW n \in Nat
      PROVE  LET f == [FreeSlot EXCEPT !.users = n] IN
             f \in Entry /\ f.users = n /\ f.key = NoKey /\ f.ready = "free"
  BY <1>3 DEF FreeSlot, Entry, Readiness
<1>4. ASSUME NEW s \in Slots
      PROVE  /\ e[s] \in Entry
             /\ e[s] = b.slot[s]
                \/ /\ s \notin b.table /\ s \notin held
                   /\ e[s].key = NoKey /\ e[s].ready = "free"
                   /\ IF s \in b.directories THEN e[s].users = b.slot[s].users
                                             ELSE e[s].users = 0
  <2>1. b.slot[s].users \in Nat
    BY <1>1 DEF Entry
  <2>2. CASE s \in b.table \/ s \in held
    BY <1>1, <2>2 DEF Collected, Cached
  <2>3. CASE ~(s \in b.table \/ s \in held) /\ s \notin b.directories
    BY <1>2, <2>3 DEF Collected, Cached
  <2>4. CASE ~(s \in b.table \/ s \in held) /\ s \in b.directories
    <3> DEFINE f == [FreeSlot EXCEPT !.users = b.slot[s].users]
    <3>1. e[s] = f
      BY <2>4 DEF Collected, Cached
    <3>2. f \in Entry /\ f.users = b.slot[s].users /\ f.key = NoKey /\ f.ready = "free"
      BY <1>3, <2>1
    <3> HIDE DEF e, f
    <3> QED
      BY <2>4, <3>1, <3>2
  <2> QED
    BY <2>2, <2>3, <2>4
<1>5. e \in [Slots -> Entry]
  <2>1. e = [s \in Slots |-> e[s]]
    BY DEF Collected
  <2> HIDE DEF e
  <2> QED
    BY <1>4, <2>1
<1> HIDE DEF e
<1>6. /\ c \in Books /\ c.table = b.table /\ c.older = b.older
      /\ c.slot = e /\ c.directories = b.directories
  BY <1>1, <1>5, BookIs
<1> HIDE DEF c
<1>7. ASSUME NEW s \in Slots
      PROVE  EntryAgrees(c, rq, s) /\ EntryIsFresh(c, s)
  <2>1. EntryAgrees(b, rq, s) /\ EntryIsFresh(b, s)
    BY DEF Sound
  <2>2. CASE e[s] = b.slot[s]
    BY <1>6, <2>1, <2>2 DEF EntryAgrees, EntryIsFresh
  <2>3. CASE e[s] # b.slot[s]
    <3>1. Of(rq, s) = {}
      BY <1>4, <2>3 DEF Of
    <3>2. Cardinality(Of(rq, s)) = 0
      BY <3>1, OfFacts
    <3>3. EntryAgrees(c, rq, s)
      BY <1>4, <1>6, <2>1, <2>3, <3>1, <3>2 DEF EntryAgrees
    <3>4. EntryIsFresh(c, s)
      BY <1>4, <1>6, <2>3 DEF EntryIsFresh
    <3> QED
      BY <3>3, <3>4
  <2> QED
    BY <2>2, <2>3
<1>8. ASSUME NEW q \in Requests
      PROVE  RequestKnows(c, rq[q])
  <2>1. RequestKnows(b, rq[q]) /\ rq[q] \in Request /\ rq[q].slot \in held
    BY <1>1 DEF Sound
  <2>2. rq[q].slot = NoSlot \/ c.slot[rq[q].slot] = b.slot[rq[q].slot]
    BY <1>4, <1>6, <2>1 DEF Request
  <2> QED
    BY <2>1, <2>2 DEF RequestKnows, Installing
<1>9. Sound(c, rq)
  BY <1>1, <1>6, <1>7, <1>8 DEF Sound, Ordered
<1>10. ASSUME Kept(b)
       PROVE  Kept(c)
  <2>1. \A s \in b.table : c.slot[s] = b.slot[s]
    BY <1>1, <1>4, <1>6
  <2>2. Ready(c) = Ready(b)
    BY <1>6, <2>1 DEF Ready
  <2>3. \A s \in Ready(b) : c.slot[s] = b.slot[s]
    BY <2>1 DEF Ready
  <2> QED
    BY <1>10, <2>2, <2>3 DEF Kept
<1> QED
  BY <1>6, <1>9, <1>10 DEF c, e

LEMMA CreateIs ==
    ASSUME NEW b \in Books, NEW s \in Slots, NEW k \in Keys
    PROVE  LET c == Create(b, s, k) IN
           /\ c \in Books /\ c.table = b.table /\ c.older = b.older
           /\ c.directories = b.directories \cup {s}
           /\ c.slot[s].key = k /\ c.slot[s].users = 1
           /\ c.slot[s].ready = "pending" /\ c.slot[s].installed = 0
           /\ \A t \in Slots \ {s} : c.slot[t] = b.slot[t]
<1> DEFINE entry == [FreeSlot EXCEPT !.key = k, !.users = 1, !.ready = "pending"]
           e == [b.slot EXCEPT ![s] = entry]
           d == b.directories \cup {s}
           half == With(b, s, entry)
           c == Create(b, s, k)
<1>1. /\ entry \in Entry /\ entry.key = k /\ entry.users = 1
      /\ entry.ready = "pending" /\ entry.installed = 0
  <2>1. entry = [key |-> k, users |-> 1, ready |-> "pending",
                 signatures |-> 0, installed |-> 0]
    <3> DEFINE named == [FreeSlot EXCEPT !.key = k]
               used == [named EXCEPT !.users = 1]
    <3>1. named = [key |-> k, users |-> 0, ready |-> "free",
                   signatures |-> 0, installed |-> 0]
      BY DEF FreeSlot
    <3> HIDE DEF named
    <3>2. used = [key |-> k, users |-> 1, ready |-> "free",
                  signatures |-> 0, installed |-> 0]
      BY <3>1
    <3> HIDE DEF used
    <3>3. [used EXCEPT !.ready = "pending"]
          = [key |-> k, users |-> 1, ready |-> "pending",
             signatures |-> 0, installed |-> 0]
      BY <3>2
    <3> QED
      BY <3>3 DEF named, used
  <2> HIDE DEF entry
  <2>2. 0 \in 0..MaxSignatures
    OBVIOUS
  <2> QED
    BY <2>1, <2>2 DEF Entry, Readiness
<1>2. c = WithDirectories(half, d)
  BY DEF Create, WithDirectories, With
<1> HIDE DEF entry
<1>3. /\ half \in Books /\ half.table = b.table /\ half.older = b.older
      /\ half.directories = b.directories /\ half.slot[s] = entry
      /\ \A t \in Slots \ {s} : half.slot[t] = b.slot[t]
  BY <1>1, WithIs
<1> HIDE DEF half
<1>4. /\ d \in SUBSET Slots /\ half.slot \in [Slots -> Entry]
      /\ half.table \in SUBSET Slots /\ half.older \in SUBSET (Slots \X Slots)
  BY <1>3 DEF Books
<1> HIDE DEF c, d
<1>5. c = Book(half.table, half.older, half.slot, d)
  BY <1>2, <1>3, RewrittenBooks
<1>6. /\ c \in Books /\ c.table = half.table /\ c.older = half.older
      /\ c.slot = half.slot /\ c.directories = d
  BY <1>4, <1>5, BookIs
<1> QED
  BY <1>1, <1>3, <1>6 DEF c, d

\* A request that comes to a step with an entry.
To(a, x, s) == [a EXCEPT !.step = x, !.slot = s]
Moved(rq, r, record) == [rq EXCEPT ![r] = record]
LEMMA ToIs ==
    ASSUME NEW a \in Request, NEW x \in Suspended, NEW s \in Slots
    PROVE  LET to == To(a, x, s) IN
           /\ to \in Request /\ to.step = x /\ to.slot = s
           /\ to.key = a.key /\ to.since = a.since /\ to.listed = a.listed
BY DEF Request, To

----------------------------------------------------------------------------
(* What each step keeps *)

LEMMA NowIs ==
    ASSUME TypeOK
    PROVE  /\ Now \in Books /\ Now.table = table /\ Now.older = older
           /\ Now.slot = slot /\ Now.directories = directories
<1>1. /\ table \in SUBSET Slots /\ older \in SUBSET (Slots \X Slots)
      /\ slot \in [Slots -> Entry] /\ directories \in SUBSET Slots
  BY DEF TypeOK
<1> QED
  BY <1>1, BookIs DEF Now

LEMMA StateIs ==
    ASSUME TypeOK, Ungoverned, NEW c, NEW rq, Sound(c, rq), Kept(c),
           c = Book(table', older', slot', directories'), c.table = table',
           c.older = older', c.slot = slot', c.directories = directories',
           req' = rq, UNCHANGED referrers, closed' \in BOOLEAN
    PROVE  IInv'
<1>1. Now' = c
  BY DEF Now
<1>2. /\ table' \in SUBSET Slots /\ slot' \in [Slots -> Entry]
      /\ directories' \in SUBSET Slots /\ rq \in [Requests -> Request]
      /\ Ordered(c)
  BY DEF Sound, Books
<1>3. TypeOK'
  BY <1>2 DEF TypeOK, Ordered
<1>4. \A s \in Slots : EntryAgrees(c, rq, s)
  BY DEF Sound
<1>5. \A s \in Slots : EntryIsFresh(c, s)'
  BY DEF Sound, EntryIsFresh
<1>6. \A q \in Requests : RequestKnows(c, rq[q])'
  BY DEF Sound, RequestKnows
<1>7. Sound(Now, req)'
  BY <1>1, <1>2, <1>4, <1>5, <1>6 DEF Sound, OneInstalls, EntryIsFresh, RequestKnows
<1>8. Kept(Now)' /\ Ungoverned'
  BY <1>1 DEF Ungoverned, Kept, Ready
<1> QED
  BY <1>3, <1>7, <1>8 DEF IInv

LEMMA SettleKeeps ==
    ASSUME TypeOK, Ungoverned, NEW r \in Requests, NEW record \in Request,
           NEW b, Sound(b, [req EXCEPT ![r] = record]), Kept(b),
           Settle(r, record, b), UNCHANGED <<referrers, closed>>
    PROVE  IInv'
<1> DEFINE rq == [req EXCEPT ![r] = record]
           held == {record.slot} \cup {req[q].slot : q \in Requests \ {r}}
           e == Collected(b, held)
           c == Book(b.table, b.older, e, b.directories)
<1>1. /\ req' = rq /\ table' = b.table /\ older' = b.older
      /\ directories' = b.directories /\ slot' = e
      /\ closed' \in BOOLEAN
  BY DEF Settle, TypeOK
<1>2. \A q \in Requests : rq[q].slot \in held
  BY DEF TypeOK
<1> HIDE DEF held, rq
<1>3. /\ Sound(c, rq) /\ Kept(c) /\ c.table = b.table /\ c.older = b.older
      /\ c.slot = e /\ c.directories = b.directories
  BY <1>2, CollectedKeeps DEF rq
<1> HIDE DEF e
<1>4. c = Book(table', older', slot', directories')
  BY <1>1
<1> HIDE DEF c
<1> QED
  BY <1>1, <1>3, <1>4, StateIs

\* A request that ends its step with the entry it had, or without one.
LEMMA GoesOnKeeps ==
    ASSUME IInv, NEW r \in Requests, NEW record \in Request,
           record.slot = req[r].slot,
           record.step \in Installing => req[r].step \in Installing,
           RequestKnows(Now, record), req' = [req EXCEPT ![r] = record],
           UNCHANGED <<table, older, slot, directories, referrers, closed>>
    PROVE  IInv'
<1> DEFINE rq == [req EXCEPT ![r] = record]
<1>1. TypeOK /\ Ungoverned /\ Kept(Now) /\ Sound(Now, req) /\ closed' \in BOOLEAN
  BY DEF IInv, TypeOK
<1>2. Sound(Now, rq)
  BY <1>1, GoesOn
<1>3. /\ Now = Book(table', older', slot', directories') /\ Now.table = table'
      /\ Now.older = older' /\ Now.slot = slot' /\ Now.directories = directories'
  BY <1>1, NowIs DEF Now
<1>4. req' = rq
  OBVIOUS
<1> HIDE DEF rq
<1> QED
  BY <1>1, <1>2, <1>3, <1>4, StateIs

\* acquire's bookkeeping, from the books b and for requests rq, of which r
\* has no entry yet.
LEMMA LookKeeps ==
    ASSUME TypeOK, Ungoverned, NEW r \in Requests, NEW b, NEW rq,
           Sound(b, rq), Kept(b), rq[r].slot = NoSlot,
           req[r].key \in Keys, req[r].since <= referrers[req[r].key],
           \A q \in Requests \ {r} : rq[q] = req[q],
           Look(r, b), UNCHANGED <<referrers, closed>>
    PROVE  IInv'
<1> DEFINE k == req[r].key
<1>1. /\ req \in [Requests -> Request] /\ req[r] \in Request
      /\ b \in Books /\ Ordered(b) /\ rq \in [Requests -> Request]
      /\ referrers[k] \in 0..MaxSignatures /\ req[r].since \in 0..MaxSignatures
      /\ b.slot \in [Slots -> Entry] /\ b.table \in SUBSET Slots
  BY DEF TypeOK, Sound, Books, Request
<1>2. ASSUME NEW s \in Slots, NEW record \in Request, record.slot = s
      PROVE  LET now == Moved(req, r, record) IN
             /\ now \in [Requests -> Request] /\ now[r] = record
             /\ Of(now, s) = Of(rq, s) \cup {r}
             /\ Cardinality(Of(now, s)) = Cardinality(Of(rq, s)) + 1
             /\ \A q \in Requests :
                  now[q] = rq[q] \/ (now[q].slot = s /\ rq[q].slot \in {s, NoSlot})
             /\ \A q \in Requests \ {r} : now[q] = rq[q]
  <2> DEFINE now == Moved(req, r, record)
  <2>1. /\ now \in [Requests -> Request] /\ now[r] = record
        /\ \A q \in Requests \ {r} : now[q] = rq[q]
    BY <1>1, <1>2 DEF Moved
  <2> HIDE DEF now
  <2>2. Of(now, s) = Of(rq, s) \cup {r}
        /\ Cardinality(Of(now, s)) = Cardinality(Of(rq, s)) + 1
    <3>1. now[r].slot = s
      BY <1>2, <2>1
    <3>2. \A t \in Slots : t = now[r].slot =>
             /\ Of(now, t) = Of(rq, t) \cup {r}
             /\ Cardinality(Of(now, t)) = Cardinality(Of(rq, t)) + 1
      BY <1>1, <2>1, OfMore
    <3> QED
      BY <3>1, <3>2
  <2>3. \A q \in Requests :
           now[q] = rq[q] \/ (now[q].slot = s /\ rq[q].slot \in {s, NoSlot})
    BY <1>2, <2>1
  <2> QED
    BY <2>1, <2>2, <2>3 DEF now
<1>3. CASE Found(b, k) = {} /\ Unused(b, r) # {} /\
           LET s == CHOOSE s \in Unused(b, r) : TRUE IN
           Settle(r, [req[r] EXCEPT !.step = "list", !.slot = s],
                  Create(Latest(b, s), s, k))
  <2>1. PICK s \in Unused(b, r) :
           Settle(r, [req[r] EXCEPT !.step = "list", !.slot = s],
                  Create(Latest(b, s), s, k))
    <3> DEFINE s == CHOOSE s \in Unused(b, r) : TRUE
    <3>1. s \in Unused(b, r)
      BY <1>3
    <3> QED
      BY <1>3, <3>1
  <2>2. s \in Slots /\ s \notin b.table /\ Of(rq, s) = {}
    <3>1. s \in Slots /\ s \notin b.table /\ Holders(s) \subseteq {r}
      BY <2>1 DEF Unused, Cached
    <3>2. r \notin Of(rq, s)
      BY <3>1, SlotFacts DEF Of
    <3> QED
      BY <3>1, <3>2 DEF Holders, Of
  <2> DEFINE record == [req[r] EXCEPT !.step = "list", !.slot = s]
             now == [req EXCEPT ![r] = record]
             d == Latest(b, s)
             c == Create(d, s, k)
  <2>3. /\ record \in Request /\ record.step = "list" /\ record.slot = s
        /\ record.key = k /\ record.since = req[r].since
    <3>1. record = To(req[r], "list", s)
      BY DEF To
    <3>2. "list" \in Suspended
      BY DEF Suspended
    <3> HIDE DEF record
    <3> QED
      BY <1>1, <2>2, <3>1, <3>2, ToIs
  <2> HIDE DEF record
  <2>4. /\ now \in [Requests -> Request] /\ now[r] = record
        /\ Of(now, s) = {r} /\ Cardinality(Of(now, s)) = 1
        /\ \A q \in Requests :
             now[q] = rq[q] \/ (now[q].slot = s /\ rq[q].slot \in {s, NoSlot})
        /\ \A q \in Requests \ {r} : now[q] = rq[q]
    <3>1. Cardinality(Of(rq, s)) = 0
      BY <2>2, OfFacts
    <3> HIDE DEF now
    <3>2. now = Moved(req, r, record)
      BY DEF now, Moved
    <3>3. /\ now \in [Requests -> Request] /\ now[r] = record
          /\ Of(now, s) = Of(rq, s) \cup {r}
          /\ Cardinality(Of(now, s)) = Cardinality(Of(rq, s)) + 1
          /\ \A q \in Requests :
               now[q] = rq[q] \/ (now[q].slot = s /\ rq[q].slot \in {s, NoSlot})
          /\ \A q \in Requests \ {r} : now[q] = rq[q]
      <4>1. s \in Slots /\ record \in Request /\ record.slot = s
        BY <2>2, <2>3
      <4> QED
        BY <1>2, <3>2, <4>1
    <3>4. Cardinality(Of(now, s)) = 1
      BY <3>1, <3>3
    <3>5. Of(now, s) = {r}
      BY <2>2, <3>3
    <3> QED
      BY <3>3, <3>4, <3>5
  <2>5. /\ d \in Books /\ Ordered(d) /\ d.table = b.table \cup {s}
        /\ d.slot = b.slot /\ d.directories = b.directories
    BY <1>1, <2>2, LatestIs
  <2> HIDE DEF d
  <2>6. /\ c \in Books /\ c.table = d.table /\ c.older = d.older
        /\ c.directories = d.directories \cup {s}
        /\ c.slot[s].key = k /\ c.slot[s].users = 1
        /\ c.slot[s].ready = "pending" /\ c.slot[s].installed = 0
        /\ \A t \in Slots \ {s} : c.slot[t] = d.slot[t]
    BY <2>2, <2>5, CreateIs
  <2>7. Settle(r, record, c)
    BY <2>1 DEF record, d
  <2> HIDE DEF c, now
  <2>8. EntryAgrees(c, now, s) /\ EntryIsFresh(c, s)
    BY <1>1, <2>4, <2>5, <2>6 DEF EntryAgrees, EntryIsFresh
  <2>9. \A q \in Of(now, s) : RequestKnows(c, now[q])
    <3>1. RequestKnows(c, record)
      BY <2>2, <2>3, <2>6, SlotFacts DEF RequestKnows, Installing
    <3> QED
      BY <2>4, <3>1
  <2>10. OneInstalls(now) /\ Ordered(c)
    <3>1. \A q \in Requests \ {r} : now[q].slot # s
      BY <2>4 DEF Of
    <3>2. OneInstalls(now)
      BY <2>3, <2>4, <3>1 DEF OneInstalls, Sound
    <3> QED
      BY <2>5, <2>6, <3>2 DEF Ordered
  <2>11. \A t \in Slots \ {s} :
            /\ c.slot[t] = b.slot[t] /\ (t \in c.table <=> t \in b.table)
            /\ t \in c.directories <=> t \in b.directories
    BY <2>5, <2>6
  <2>12. Sound(c, now)
    BY <2>2, <2>4, <2>6, <2>8, <2>9, <2>10, <2>11, OneEntryChanges
  <2>13. Kept(c)
    <3>1. \A t \in b.table : t \in Slots \ {s}
      BY <1>1, <2>2
    <3>2. Ready(c) = Ready(b)
      BY <2>5, <2>6, <3>1 DEF Ready
    <3>3. \A t \in Ready(b) : c.slot[t] = b.slot[t]
      BY <2>11, <3>1 DEF Ready
    <3> QED
      BY <3>2, <3>3 DEF Kept
  <2> QED
    BY <2>3, <2>7, <2>12, <2>13, SettleKeeps DEF now
<1>4. CASE \E s \in Found(b, k) :
             Settle(r, IF b.slot[s].ready = "done" THEN Held(r, s)
                       ELSE [req[r] EXCEPT !.step = "wait", !.slot = s],
                    WithUsers(Latest(Without(b, s), s), s, b.slot[s].users + 1))
  <2>1. PICK s \in Found(b, k) :
             Settle(r, IF b.slot[s].ready = "done" THEN Held(r, s)
                       ELSE [req[r] EXCEPT !.step = "wait", !.slot = s],
                    WithUsers(Latest(Without(b, s), s), s, b.slot[s].users + 1))
    BY <1>4
  <2>2. /\ s \in Slots /\ s \in b.table /\ b.slot[s].key = k
        /\ b.slot[s] \in Entry /\ EntryAgrees(b, rq, s) /\ EntryIsFresh(b, s)
    BY <1>1, <2>1 DEF Found, Sound
  <2> DEFINE record == IF b.slot[s].ready = "done" THEN Held(r, s)
                       ELSE [req[r] EXCEPT !.step = "wait", !.slot = s]
             now == [req EXCEPT ![r] = record]
             o == Without(b, s)
             d == Latest(o, s)
             n == b.slot[s].users + 1
             entry == [d.slot[s] EXCEPT !.users = n]
             c == WithUsers(d, s, n)
  <2>3. /\ record \in Request /\ record.slot = s
        /\ record.key = k /\ record.since = req[r].since
        /\ IF b.slot[s].ready = "done"
           THEN record.step = IF k \in GovernedKeys THEN "compare" ELSE "use"
           ELSE record.step = "wait"
    <3>1. ASSUME NEW x \in Suspended
          PROVE  LET to == To(req[r], x, s) IN
                 /\ to \in Request /\ to.step = x /\ to.slot = s
                 /\ to.key = k /\ to.since = req[r].since
      BY <1>1, <2>2, <3>1, ToIs
    <3>2. Held(r, s) = [req[r] EXCEPT
                !.step = IF k \in GovernedKeys THEN "compare" ELSE "use", !.slot = s]
      BY <1>1 DEF Held, Request
    <3>3. CASE b.slot[s].ready = "done" /\ k \in GovernedKeys
      <4>1. record = To(req[r], "compare", s)
        BY <3>2, <3>3 DEF To
      <4> HIDE DEF record
      <4> QED
        BY <3>1, <3>3, <4>1 DEF Suspended
    <3>4. CASE b.slot[s].ready = "done" /\ k \notin GovernedKeys
      <4>1. record = To(req[r], "use", s)
        BY <3>2, <3>4 DEF To
      <4> HIDE DEF record
      <4> QED
        BY <3>1, <3>4, <4>1 DEF Suspended
    <3>5. CASE b.slot[s].ready # "done"
      <4>1. record = To(req[r], "wait", s)
        BY <3>5 DEF To
      <4> HIDE DEF record
      <4> QED
        BY <3>1, <3>5, <4>1 DEF Suspended
    <3> QED
      BY <3>3, <3>4, <3>5
  <2>4. Settle(r, record, c)
    BY <2>1
  <2> HIDE DEF record
  <2>5. /\ now \in [Requests -> Request] /\ now[r] = record
        /\ Of(now, s) = Of(rq, s) \cup {r}
        /\ Cardinality(Of(now, s)) = Cardinality(Of(rq, s)) + 1
        /\ \A q \in Requests :
             now[q] = rq[q] \/ (now[q].slot = s /\ rq[q].slot \in {s, NoSlot})
        /\ \A q \in Requests \ {r} : now[q] = rq[q]
    <3> HIDE DEF now
    <3>1. now = Moved(req, r, record)
      BY DEF now, Moved
    <3> QED
      BY <1>2, <2>2, <2>3, <3>1
  <2>6. /\ d \in Books /\ Ordered(d) /\ d.table = b.table
        /\ d.slot = b.slot /\ d.directories = b.directories
    <3>1. /\ o \in Books /\ Ordered(o) /\ o.table = b.table \ {s}
          /\ o.slot = b.slot /\ o.directories = b.directories
      BY <1>1, DroppedIs DEF Without
    <3> HIDE DEF o
    <3>2. /\ d \in Books /\ Ordered(d) /\ d.table = o.table \cup {s}
          /\ d.slot = o.slot /\ d.directories = o.directories
      BY <2>2, <3>1, LatestIs
    <3> QED
      BY <2>2, <3>1, <3>2
  <2> HIDE DEF d
  <2>7. n \in Nat /\ n > 0 /\ b.slot[s].users \in Nat
    BY <2>2 DEF Entry
  <2>8. /\ c = With(d, s, entry) /\ entry \in Entry /\ entry.users = n
        /\ entry.key = k /\ entry.ready = b.slot[s].ready
        /\ entry.signatures = b.slot[s].signatures
        /\ entry.installed = b.slot[s].installed
    <3> HIDE DEF n
    <3> QED
      BY <2>2, <2>6, <2>7, WithUsersIs
  <2> HIDE DEF entry, c
  <2>9. /\ c \in Books /\ c.table = d.table /\ c.older = d.older
        /\ c.directories = d.directories /\ c.slot[s] = entry
        /\ \A t \in Slots \ {s} : c.slot[t] = d.slot[t]
    BY <2>2, <2>6, <2>8, WithIs
  <2> HIDE DEF now
  <2>10. EntryAgrees(c, now, s)
    <3>1. n >= Cardinality(Of(now, s))
      BY <2>2, <2>5, <2>7, OfFacts DEF EntryAgrees
    <3>2. s \in b.directories
      BY <2>2 DEF EntryAgrees
    <3> HIDE DEF n
    <3> QED
      BY <2>2, <2>5, <2>6, <2>8, <2>9, <3>1, <3>2 DEF EntryAgrees
  <2>11. EntryIsFresh(c, s)
    BY <2>2, <2>8, <2>9 DEF EntryIsFresh
  <2>12. ASSUME NEW q \in Of(now, s)
         PROVE  RequestKnows(c, now[q])
    <3>1. CASE q # r
      <4>1. now[q] = rq[q] /\ rq[q].slot = s /\ RequestKnows(b, rq[q])
        BY <2>5, <3>1 DEF Of, Sound
      <4> QED
        BY <2>2, <2>8, <2>9, <4>1 DEF RequestKnows, Installing
    <3>2. CASE q = r
      <4>1. k \in GovernedKeys \/ req[r].since = 0
        BY <1>1 DEF Ungoverned
      <4>2. entry.installed \in Nat
        BY <2>8 DEF Entry
      <4>3. RequestKnows(c, record)
        BY <2>2, <2>3, <2>8, <2>9, <4>1, <4>2, SlotFacts
           DEF RequestKnows, Installing
      <4> QED
        BY <2>5, <3>2, <4>3
    <3> QED
      BY <3>1, <3>2
  <2>13. OneInstalls(now) /\ Ordered(c)
    <3>1. record.step \notin Installing
      BY <2>3 DEF Installing
    <3>2. OneInstalls(now)
      BY <2>5, <3>1 DEF OneInstalls, Sound
    <3> QED
      BY <2>6, <2>9, <3>2 DEF Ordered
  <2>14. \A t \in Slots \ {s} :
            /\ c.slot[t] = b.slot[t] /\ (t \in c.table <=> t \in b.table)
            /\ t \in c.directories <=> t \in b.directories
    BY <2>6, <2>9
  <2>15. Sound(c, now)
    BY <2>2, <2>5, <2>9, <2>10, <2>11, <2>12, <2>13, <2>14, OneEntryChanges
  <2>16. Kept(c)
    <3>1. \A t \in b.table : t = s \/ c.slot[t] = b.slot[t]
      BY <1>1, <2>14
    <3>2. Ready(c) = Ready(b)
      BY <2>6, <2>8, <2>9, <3>1 DEF Ready
    <3>3. \A t \in Ready(b) : t = s \/ c.slot[t] = b.slot[t]
      BY <3>1 DEF Ready
    <3>4. c.slot[s].users > 0
      BY <2>7, <2>8, <2>9
    <3> QED
      BY <3>2, <3>3, <3>4 DEF Kept
  <2> QED
    BY <2>3, <2>4, <2>15, <2>16, SettleKeeps DEF now
<1> QED
  BY <1>3, <1>4 DEF Look

\* A request ends, and what it does to the books as it ends.
LEMMA IdleIs ==
    /\ Idle \in Request /\ Idle.slot = NoSlot /\ Idle.step = "idle"
    /\ \A b : RequestKnows(b, Idle)
<1>1. Idle \in Request /\ Idle.slot = NoSlot /\ Idle.step = "idle"
  BY DEF Idle, Request
<1> QED
  BY <1>1 DEF RequestKnows, Installing

LEMMA EndsKeeps ==
    ASSUME IInv, NEW r \in Requests, NEW b,
           Sound(b, [req EXCEPT ![r] = Idle]), Kept(b),
           Ends(r, b), UNCHANGED <<referrers, closed>>
    PROVE  IInv'
BY IdleIs, SettleKeeps DEF Ends, IInv

\* What is true of a request that has an entry, and of the others once it
\* has left.
LEMMA LeavingIs ==
    ASSUME IInv, NEW r \in Requests, req[r].step \notin {"idle", "resolve"},
           NEW record \in Request, record.slot = NoSlot,
           record.step \notin Installing, RequestKnows(Now, record)
    PROVE  LET gone == [req EXCEPT ![r] = record]
               s == req[r].slot IN
           /\ s \in Slots /\ Sound(Now, gone)
           /\ slot[s].users > Cardinality(Of(gone, s))
<1>1. Sound(Now, req) /\ TypeOK
  BY DEF IInv
<1>2. req[r].slot # NoSlot /\ req[r].slot \in Slots
  BY <1>1 DEF Sound, RequestKnows, TypeOK, Request
<1> QED
  BY <1>1, <1>2, GoesOnWithout, NowIs

LEMMA KeepsBegin ==
    ASSUME IInv, NEW r \in Requests, NEW k \in Keys, Begin(r, k)
    PROVE  IInv'
<1> DEFINE record == [Idle EXCEPT !.step = "resolve", !.key = k,
                                  !.since = referrers[k]]
<1>1. /\ TypeOK /\ referrers[k] \in 0..MaxSignatures
      /\ req' = [req EXCEPT ![r] = record] /\ req[r].step = "idle"
      /\ UNCHANGED <<table, older, slot, directories, referrers, closed>>
  BY DEF IInv, TypeOK, Begin
<1>2. record = [step |-> "resolve", key |-> k, slot |-> NoSlot, listed |-> 0,
                since |-> referrers[k]]
  <2> DEFINE stepped == [Idle EXCEPT !.step = "resolve"]
             named == [stepped EXCEPT !.key = k]
  <2>1. stepped = [step |-> "resolve", key |-> NoKey, slot |-> NoSlot,
                   listed |-> 0, since |-> 0]
    BY DEF Idle
  <2> HIDE DEF stepped
  <2>2. named = [step |-> "resolve", key |-> k, slot |-> NoSlot,
                 listed |-> 0, since |-> 0]
    BY <2>1
  <2> HIDE DEF named
  <2>3. [named EXCEPT !.since = referrers[k]]
        = [step |-> "resolve", key |-> k, slot |-> NoSlot,
           listed |-> 0, since |-> referrers[k]]
    BY <2>2
  <2> QED
    BY <2>3 DEF stepped, named
<1> HIDE DEF record
<1>3. /\ record \in Request /\ record.slot = NoSlot /\ record.step = "resolve"
      /\ record.key = k /\ record.since = referrers[k]
  <2>1. 0 \in 0..MaxSignatures /\ "resolve" \in Suspended
    BY DEF Suspended
  <2> QED
    BY <1>1, <1>2, <2>1 DEF Request
<1>4. RequestKnows(Now, record)
  BY <1>1, <1>3 DEF RequestKnows, Installing
<1>5. req[r].slot = NoSlot
  BY <1>1 DEF IInv, Sound, RequestKnows
<1> QED
  BY <1>1, <1>3, <1>4, <1>5, GoesOnKeeps DEF Installing

LEMMA KeepsResolve ==
    ASSUME IInv, NEW r \in Requests, Resolve(r)
    PROVE  IInv'
<1>1. TypeOK /\ Ungoverned /\ Sound(Now, req) /\ Kept(Now)
  BY DEF IInv
<1>2. req[r].step = "resolve" /\ Look(r, Now) /\ UNCHANGED <<referrers, closed>>
  BY DEF Resolve
<1>3. /\ req[r].slot = NoSlot /\ req[r].key \in Keys
      /\ req[r].since <= referrers[req[r].key]
  BY <1>1, <1>2 DEF Sound, RequestKnows
<1> QED
  BY <1>1, <1>2, <1>3, LookKeeps

LEMMA KeepsResolveFails ==
    ASSUME IInv, NEW r \in Requests, ResolveFails(r)
    PROVE  IInv'
<1>1. Sound(Now, req) /\ Kept(Now) /\ req[r].step = "resolve"
  BY DEF IInv, ResolveFails
<1>2. req[r].slot = NoSlot
  BY <1>1 DEF Sound, RequestKnows
<1>3. Sound(Now, [req EXCEPT ![r] = Idle])
  BY <1>1, <1>2, IdleIs, GoesOn DEF Installing
<1> QED
  BY <1>1, <1>3, EndsKeeps DEF ResolveFails

\* The records of a request that has an entry.
Listed(a, x, n) == [a EXCEPT !.step = x, !.listed = n]
Stepped(a, x) == [a EXCEPT !.step = x]
LEMMA ListedIs ==
    ASSUME NEW a \in Request, NEW x \in Suspended
    PROVE  /\ Stepped(a, x) \in Request /\ Stepped(a, x).step = x
           /\ Stepped(a, x).slot = a.slot /\ Stepped(a, x).key = a.key
           /\ Stepped(a, x).since = a.since /\ Stepped(a, x).listed = a.listed
           /\ \A n \in 0..MaxSignatures :
                /\ Listed(a, x, n) \in Request /\ Listed(a, x, n).step = x
                /\ Listed(a, x, n).slot = a.slot /\ Listed(a, x, n).key = a.key
                /\ Listed(a, x, n).since = a.since /\ Listed(a, x, n).listed = n
BY DEF Request, Listed, Stepped

LEMMA OwnIs ==
    ASSUME IInv, NEW r \in Requests
    PROVE  /\ TypeOK /\ Sound(Now, req) /\ Kept(Now) /\ Ungoverned
           /\ req \in [Requests -> Request] /\ req[r] \in Request
           /\ RequestKnows(Now, req[r]) /\ Now.slot = slot
           /\ req[r].step \notin {"idle", "resolve"} =>
                /\ req[r].slot \in Slots /\ slot[req[r].slot] \in Entry
                /\ req[r].key \in Keys /\ slot[req[r].slot].key = req[r].key
                /\ referrers[req[r].key] \in 0..MaxSignatures
                /\ req[r].since <= referrers[req[r].key]
                /\ EntryAgrees(Now, req, req[r].slot)
                /\ EntryIsFresh(Now, req[r].slot)
<1>1. /\ TypeOK /\ Sound(Now, req) /\ Kept(Now) /\ Ungoverned
      /\ req \in [Requests -> Request] /\ req[r] \in Request
      /\ RequestKnows(Now, req[r]) /\ Now.slot = slot
  BY NowIs DEF IInv, Sound
<1>2. ASSUME req[r].step \notin {"idle", "resolve"}
      PROVE  /\ req[r].slot \in Slots /\ slot[req[r].slot] \in Entry
             /\ req[r].key \in Keys /\ slot[req[r].slot].key = req[r].key
             /\ referrers[req[r].key] \in 0..MaxSignatures
             /\ req[r].since <= referrers[req[r].key]
  BY <1>1, <1>2 DEF RequestKnows, TypeOK, Request
<1> QED
  BY <1>1, <1>2 DEF Sound

LEMMA KeepsListSignatures ==
    ASSUME IInv, NEW r \in Requests, ListSignatures(r)
    PROVE  IInv'
<1> DEFINE record == Listed(req[r], "pull", referrers[req[r].key])
<1>1. /\ req[r].step = "list" /\ req' = [req EXCEPT ![r] = record]
      /\ UNCHANGED <<table, older, slot, directories, referrers, closed>>
  BY DEF ListSignatures, Listed
<1>2. /\ record \in Request /\ record.slot = req[r].slot /\ record.step = "pull"
      /\ record.key = req[r].key /\ record.since = req[r].since
      /\ record.listed = referrers[req[r].key]
  <2>1. "pull" \in Suspended
    BY DEF Suspended
  <2> QED
    BY <1>1, <2>1, OwnIs, ListedIs
<1> HIDE DEF record
<1>3. RequestKnows(Now, record)
  BY <1>1, <1>2, OwnIs DEF RequestKnows, Installing
<1> QED
  BY <1>1, <1>2, <1>3, GoesOnKeeps DEF Installing

LEMMA KeepsListAgain ==
    ASSUME IInv, NEW r \in Requests, ListAgain(r)
    PROVE  IInv'
<1> DEFINE record == Listed(req[r], "compared", referrers[req[r].key])
<1>1. /\ req[r].step = "compare" /\ req' = [req EXCEPT ![r] = record]
      /\ UNCHANGED <<table, older, slot, directories, referrers, closed>>
  BY DEF ListAgain, Listed
<1>2. /\ record \in Request /\ record.slot = req[r].slot /\ record.step = "compared"
      /\ record.key = req[r].key /\ record.since = req[r].since
      /\ record.listed = referrers[req[r].key]
  <2>1. "compared" \in Suspended
    BY DEF Suspended
  <2> QED
    BY <1>1, <2>1, OwnIs, ListedIs, SMTT(30)
<1> HIDE DEF record
<1>3. RequestKnows(Now, record)
  BY <1>1, <1>2, OwnIs DEF RequestKnows, Installing
<1> QED
  BY <1>1, <1>2, <1>3, GoesOnKeeps DEF Installing

LEMMA KeepsWoken ==
    ASSUME IInv, NEW r \in Requests, Woken(r)
    PROVE  IInv'
<1> DEFINE s == req[r].slot
<1>1. req[r].step = "wait" /\ slot[s].ready \in {"done", "failed"}
      /\ UNCHANGED <<referrers, closed>>
  BY DEF Woken
<1>2. CASE slot[s].ready = "done"
  <2> DEFINE x == IF req[r].key \in GovernedKeys THEN "compare" ELSE "use"
             record == To(req[r], x, s)
  <2>1. Held(r, s) = record
    <3>1. \A y : [req[r] EXCEPT !.slot = s, !.step = y]
                 = [req[r] EXCEPT !.step = y, !.slot = s]
      BY OwnIs DEF Request
    <3> QED
      BY <3>1 DEF Held, To
  <2>2. /\ req' = [req EXCEPT ![r] = record]
        /\ UNCHANGED <<table, older, slot, directories>>
    BY <1>2, <2>1 DEF Woken
  <2>3. /\ record \in Request /\ record.step = x /\ record.slot = s
        /\ record.key = req[r].key /\ record.since = req[r].since
    <3>1. x \in Suspended /\ s \in Slots
      BY <1>1, OwnIs DEF Suspended
    <3> HIDE DEF x
    <3> QED
      BY <3>1, OwnIs, ToIs
  <2> HIDE DEF record
  <2>4. req[r].key \in GovernedKeys \/ req[r].since = 0
    BY <1>1, OwnIs DEF Ungoverned, Request
  <2>5. slot[s].installed \in Nat
    BY <1>1, OwnIs DEF Entry
  <2>6. RequestKnows(Now, record)
    BY <1>1, <1>2, <2>3, <2>4, <2>5, OwnIs DEF RequestKnows, Installing
  <2> QED
    BY <1>1, <2>2, <2>3, <2>6, GoesOnKeeps DEF Installing
<1>3. CASE slot[s].ready # "done"
  <2>1. Ends(r, Released(Now, s))
    BY <1>3 DEF Woken
  <2>2. /\ s \in Slots /\ Sound(Now, [req EXCEPT ![r] = Idle])
        /\ slot[s].users > Cardinality(Of([req EXCEPT ![r] = Idle], s))
    BY <1>1, IdleIs, LeavingIs DEF Installing
  <2>3. Sound(Released(Now, s), [req EXCEPT ![r] = Idle]) /\ Kept(Released(Now, s))
    BY <2>2, OwnIs, ReleasedKeeps
  <2> QED
    BY <1>1, <2>1, <2>3, EndsKeeps
<1> QED
  BY <1>2, <1>3

\* A waiter that is cancelled, a handler that is done.
LEMMA KeepsReleasing ==
    ASSUME IInv, NEW r \in Requests, WaitCancelled(r) \/ Finish(r)
    PROVE  IInv'
<1> DEFINE s == req[r].slot
           gone == [req EXCEPT ![r] = Idle]
<1>1. /\ req[r].step \in {"wait", "use"} /\ Ends(r, Released(Now, s))
      /\ UNCHANGED <<referrers, closed>>
  BY DEF WaitCancelled, Finish
<1>2. /\ s \in Slots /\ Sound(Now, gone) /\ slot[s].users > Cardinality(Of(gone, s))
  BY <1>1, IdleIs, LeavingIs DEF Installing
<1>3. Sound(Released(Now, s), gone) /\ Kept(Released(Now, s))
  <2> HIDE DEF gone
  <2> QED
    BY <1>2, OwnIs, ReleasedKeeps
<1> QED
  BY <1>1, <1>3, EndsKeeps

LEMMA KeepsListAgainFails ==
    ASSUME IInv, NEW r \in Requests, ListAgainFails(r)
    PROVE  IInv'
<1>1. /\ req[r].step \in {"compare", "compared"} /\ Ends(r, Now)
      /\ UNCHANGED <<referrers, closed>>
  BY DEF ListAgainFails
<1>2. Sound(Now, [req EXCEPT ![r] = Idle])
  BY <1>1, IdleIs, LeavingIs DEF Installing
<1> QED
  BY <1>1, <1>2, OwnIs, EndsKeeps

\* The entry objects an installation writes.
Pulled(e, n) == [e EXCEPT !.installed = n]
Filled(e, n) == [e EXCEPT !.signatures = n, !.ready = "done"]
Failed(e) == [e EXCEPT !.ready = "failed"]
LEMMA EntryIs ==
    ASSUME NEW e \in Entry
    PROVE  /\ \A n \in 0..MaxSignatures :
                LET x == Pulled(e, n) IN
                /\ x \in Entry /\ x.users = e.users /\ x.key = e.key
                /\ x.ready = e.ready /\ x.signatures = e.signatures
                /\ x.installed = n
           /\ \A n \in 0..MaxSignatures :
                LET x == Filled(e, n) IN
                /\ x \in Entry /\ x.users = e.users /\ x.key = e.key
                /\ x.ready = "done" /\ x.signatures = n
                /\ x.installed = e.installed
           /\ LET x == Failed(e) IN
                /\ x \in Entry /\ x.users = e.users /\ x.key = e.key
                /\ x.ready = "failed" /\ x.signatures = e.signatures
                /\ x.installed = e.installed
BY DEF Entry, Readiness, Pulled, Filled, Failed

\* While a request installs an entry, the others that refer to it wait.
LEMMA OthersWait ==
    ASSUME IInv, NEW r \in Requests, req[r].step \in Installing
    PROVE  /\ slot[req[r].slot].ready = "pending" /\ r \in Of(req, req[r].slot)
           /\ \A q \in Of(req, req[r].slot) \ {r} : req[q].step = "wait"
<1>1. Sound(Now, req) /\ Now.slot = slot /\ req \in [Requests -> Request]
      /\ slot[req[r].slot].ready = "pending" /\ r \in Of(req, req[r].slot)
  BY OwnIs DEF RequestKnows, Of
<1>2. ASSUME NEW q \in Of(req, req[r].slot) \ {r}
      PROVE  req[q].step = "wait"
  <2>1. /\ q \in Requests /\ q # r /\ req[q].slot = req[r].slot
        /\ req[q].step \in Suspended \cup {"idle"} /\ req[q].slot # NoSlot
    BY <1>1, OwnIs, SlotFacts DEF Of, Request, Installing
  <2>2. req[q].step \notin Installing
    BY <1>1, <2>1 DEF Sound, OneInstalls
  <2>3. RequestKnows(Now, req[q])
    BY <1>1, <2>1 DEF Sound
  <2>4. req[q].step \notin {"compare", "compared", "use", "idle", "resolve"}
    BY <1>1, <2>1, <2>3 DEF RequestKnows
  <2> QED
    BY <2>1, <2>2, <2>4 DEF Suspended, Installing
<1> QED
  BY <1>1, <1>2

\* And nobody that waits knows more of it than its key.
LEMMA WaiterKnows ==
    ASSUME IInv, NEW q \in Requests, req[q].step = "wait", NEW c,
           c.slot[req[q].slot].key = slot[req[q].slot].key
    PROVE  RequestKnows(c, req[q])
BY OwnIs DEF RequestKnows, Installing

LEMMA KeepsPull ==
    ASSUME IInv, NEW r \in Requests, Pull(r)
    PROVE  IInv'
<1> DEFINE s == req[r].slot
           n == referrers[req[r].key]
           entry == Pulled(slot[s], n)
           c == With(Now, s, entry)
           record == Stepped(req[r], "pulled")
           now == [req EXCEPT ![r] = record]
<1>1. /\ req[r].step = "pull" /\ req' = now
      /\ slot' = [slot EXCEPT ![s] = entry]
      /\ UNCHANGED <<table, older, directories, referrers, closed>>
      /\ closed' \in BOOLEAN
  BY OwnIs DEF Pull, Stepped, Pulled, TypeOK
<1>2. /\ s \in Slots /\ slot[s] \in Entry /\ n \in 0..MaxSignatures
      /\ entry \in Entry /\ entry.users = slot[s].users
      /\ entry.key = slot[s].key /\ entry.ready = slot[s].ready
      /\ entry.signatures = slot[s].signatures /\ entry.installed = n
      /\ slot[s].ready = "pending" /\ slot[s].key = req[r].key
      /\ req[r].step \in Installing /\ Now \in Books
  <2>1. req[r].step \in Installing
    BY <1>1 DEF Installing
  <2>2. s \in Slots /\ slot[s] \in Entry /\ n \in 0..MaxSignatures
        /\ slot[s].key = req[r].key
    BY <1>1, OwnIs
  <2>3. slot[s].ready = "pending"
    BY <2>1, OthersWait
  <2> HIDE DEF n, s
  <2>4. /\ entry \in Entry /\ entry.users = slot[s].users
        /\ entry.key = slot[s].key /\ entry.ready = slot[s].ready
        /\ entry.signatures = slot[s].signatures /\ entry.installed = n
    BY <2>2, EntryIs
  <2> QED
    BY <2>1, <2>2, <2>3, <2>4, OwnIs, NowIs
<1> HIDE DEF entry
<1>3. /\ c \in Books /\ c.table = table /\ c.older = older
      /\ c.directories = directories /\ c.slot[s] = entry
      /\ \A t \in Slots \ {s} : c.slot[t] = slot[t]
  BY <1>2, OwnIs, NowIs, WithIs
<1>4. c = Book(table', older', slot', directories') /\ c.slot = slot'
  BY <1>1, OwnIs DEF With, Now, Book
<1> HIDE DEF c
<1>5. /\ record \in Request /\ record.step = "pulled" /\ record.slot = s
      /\ record.key = req[r].key /\ record.since = req[r].since
      /\ record.listed = req[r].listed
  <2>1. "pulled" \in Suspended
    BY DEF Suspended
  <2> QED
    BY <2>1, OwnIs, ListedIs
<1> HIDE DEF record
<1>6. /\ now \in [Requests -> Request] /\ now[r] = record
      /\ \A q \in Requests \ {r} : now[q] = req[q]
      /\ req[r].slot = s
  BY <1>5, OwnIs
<1> HIDE DEF now
<1>7. Of(now, s) = Of(req, s)
  BY <1>5, <1>6 DEF Of
<1>8. EntryAgrees(c, now, s) /\ EntryIsFresh(c, s)
  <2>1. EntryAgrees(Now, req, s) /\ Now.slot = slot
        /\ Now.table = table /\ Now.directories = directories
    BY <1>1, OwnIs, NowIs
  <2>2. EntryAgrees(c, now, s)
    BY <1>2, <1>3, <1>7, <2>1 DEF EntryAgrees
  <2>3. EntryIsFresh(c, s)
    BY <1>2, <1>3 DEF EntryIsFresh
  <2> QED
    BY <2>2, <2>3
<1>9. ASSUME NEW q \in Of(now, s)
      PROVE  RequestKnows(c, now[q])
  <2>1. CASE q = r
    <3>1. RequestKnows(Now, req[r]) /\ Now.slot = slot
      BY OwnIs
    <3>2. RequestKnows(c, record)
      BY <1>1, <1>2, <1>3, <1>5, <3>1 DEF RequestKnows, Installing
    <3> QED
      BY <1>6, <2>1, <3>2
  <2>2. CASE q # r
    <3>1. q \in Of(req, s) \ {r} /\ now[q] = req[q] /\ req[q].slot = s
      BY <1>6, <1>7, <2>2 DEF Of
    <3>2. req[q].step = "wait"
      BY <1>2, <3>1, OthersWait
    <3> QED
      BY <1>2, <1>3, <3>1, <3>2, WaiterKnows DEF Of
  <2> QED
    BY <2>1, <2>2
<1>10. OneInstalls(now) /\ Ordered(c) /\ Sound(Now, req)
  <2>1. Sound(Now, req) /\ Now.table = table /\ Now.older = older
    BY OwnIs, NowIs
  <2>2. Ordered(c)
    BY <1>3, <2>1 DEF Sound, Ordered
  <2>3. OneInstalls(now)
    BY <1>2, <1>5, <1>6, <2>1 DEF Sound, OneInstalls
  <2> QED
    BY <2>1, <2>2, <2>3
<1>11. /\ \A t \in Slots \ {s} :
             /\ c.slot[t] = Now.slot[t] /\ (t \in c.table <=> t \in Now.table)
             /\ t \in c.directories <=> t \in Now.directories
       /\ \A q \in Requests :
             now[q] = req[q] \/ (now[q].slot = s /\ req[q].slot \in {s, NoSlot})
  <2>1. Now.slot = slot /\ Now.table = table /\ Now.directories = directories
    BY OwnIs, NowIs
  <2> QED
    BY <1>3, <1>5, <1>6, <2>1
<1>12. Sound(c, now)
  <2> HIDE DEF s
  <2> QED
    BY <1>2, <1>3, <1>6, <1>8, <1>9, <1>10, <1>11, OneEntryChanges
<1>13. Kept(c)
  <2>1. Kept(Now) /\ Now.slot = slot /\ Now.table = table /\ table \subseteq Slots
    BY OwnIs, NowIs DEF TypeOK
  <2>2. Ready(c) = Ready(Now)
    BY <1>2, <1>3, <2>1 DEF Ready
  <2>3. \A t \in Ready(Now) : c.slot[t] = slot[t]
    BY <1>2, <1>3, <2>1 DEF Ready
  <2> QED
    BY <2>1, <2>2, <2>3 DEF Kept
<1> QED
  BY <1>1, <1>3, <1>4, <1>12, <1>13, OwnIs, StateIs

LEMMA KeepsInstalled ==
    ASSUME IInv, NEW r \in Requests, Installed(r)
    PROVE  IInv'
<1> DEFINE s == req[r].slot
           entry == Filled(slot[s], req[r].listed)
           c == With(Now, s, entry)
           record == Stepped(req[r], "use")
           now == [req EXCEPT ![r] = record]
<1>1. /\ req[r].step = "pulled" /\ Settle(r, record, Evicted(c))
      /\ UNCHANGED <<referrers, closed>>
  BY DEF Installed, Stepped, Filled
<1>2. /\ s \in Slots /\ slot[s] \in Entry /\ req[r].step \in Installing
      /\ slot[s].ready = "pending" /\ slot[s].key = req[r].key /\ Now \in Books
      /\ req[r].listed \in 0..MaxSignatures /\ req[r].since \in 0..MaxSignatures
      /\ slot[s].installed \in 0..MaxSignatures
  <2>1. req[r].step \in Installing
    BY <1>1 DEF Installing
  <2> QED
    BY <1>1, <2>1, OwnIs, OthersWait, NowIs DEF Request, Entry
<1>3. /\ entry \in Entry /\ entry.users = slot[s].users
      /\ entry.key = slot[s].key /\ entry.ready = "done"
      /\ entry.signatures = req[r].listed
      /\ entry.installed = slot[s].installed
  <2> HIDE DEF s
  <2> QED
    BY <1>2, EntryIs
<1> HIDE DEF entry
<1>4. /\ c \in Books /\ c.table = table /\ c.older = older
      /\ c.directories = directories /\ c.slot[s] = entry
      /\ \A t \in Slots \ {s} : c.slot[t] = slot[t]
  BY <1>2, <1>3, OwnIs, NowIs, WithIs
<1> HIDE DEF c
<1>5. /\ record \in Request /\ record.step = "use" /\ record.slot = s
      /\ record.key = req[r].key /\ record.since = req[r].since
  <2>1. "use" \in Suspended
    BY DEF Suspended
  <2> QED
    BY <2>1, OwnIs, ListedIs
<1> HIDE DEF record
<1>6. /\ now \in [Requests -> Request] /\ now[r] = record
      /\ \A q \in Requests \ {r} : now[q] = req[q]
      /\ req[r].slot = s
  BY <1>5, OwnIs
<1>7. now = [req EXCEPT ![r] = record]
  OBVIOUS
<1> HIDE DEF now
<1>8. Of(now, s) = Of(req, s)
  BY <1>5, <1>6 DEF Of
<1>9. /\ req[r].since <= req[r].listed
      /\ req[r].listed <= slot[s].installed
      /\ slot[s].installed <= referrers[req[r].key]
  <2>1. RequestKnows(Now, req[r]) /\ EntryIsFresh(Now, s) /\ Now.slot = slot
        /\ req[r].key \in Keys
    BY <1>1, OwnIs
  <2> QED
    BY <1>1, <1>2, <2>1 DEF RequestKnows, EntryIsFresh
<1>10. EntryAgrees(c, now, s) /\ EntryIsFresh(c, s)
  <2>1. EntryAgrees(Now, req, s) /\ Now.slot = slot
        /\ Now.table = table /\ Now.directories = directories
    BY <1>1, OwnIs, NowIs
  <2>2. EntryAgrees(c, now, s)
    BY <1>2, <1>3, <1>4, <1>8, <2>1 DEF EntryAgrees
  <2>3. EntryIsFresh(c, s)
    BY <1>2, <1>3, <1>4, <1>9 DEF EntryIsFresh
  <2> QED
    BY <2>2, <2>3
<1>11. ASSUME NEW q \in Of(now, s)
       PROVE  RequestKnows(c, now[q])
  <2>1. CASE q = r
    <3>1. req[r].since <= slot[s].installed
      BY <1>2, <1>9
    <3>2. /\ record.key \in Keys /\ record.since <= referrers[record.key]
      BY <1>1, <1>5, OwnIs
    <3>3. RequestKnows(c, record)
      BY <1>2, <1>3, <1>4, <1>5, <3>1, <3>2, SlotFacts
         DEF RequestKnows, Installing
    <3> QED
      BY <1>6, <2>1, <3>3
  <2>2. CASE q # r
    <3>1. q \in Of(req, s) \ {r} /\ now[q] = req[q] /\ req[q].slot = s
      BY <1>6, <1>8, <2>2 DEF Of
    <3>2. req[q].step = "wait"
      BY <1>2, <3>1, OthersWait
    <3> QED
      BY <1>3, <1>4, <3>1, <3>2, WaiterKnows DEF Of
  <2> QED
    BY <2>1, <2>2
<1>12. OneInstalls(now) /\ Ordered(c) /\ Sound(Now, req)
  <2>1. Sound(Now, req) /\ Now.table = table /\ Now.older = older
    BY OwnIs, NowIs
  <2>2. Ordered(c)
    BY <1>4, <2>1 DEF Sound, Ordered
  <2>3. OneInstalls(now)
    BY <1>5, <1>6, <2>1 DEF Sound, OneInstalls, Installing
  <2> QED
    BY <2>1, <2>2, <2>3
<1>13. /\ \A t \in Slots \ {s} :
             /\ c.slot[t] = Now.slot[t] /\ (t \in c.table <=> t \in Now.table)
             /\ t \in c.directories <=> t \in Now.directories
       /\ \A q \in Requests :
             now[q] = req[q] \/ (now[q].slot = s /\ req[q].slot \in {s, NoSlot})
  <2>1. Now.slot = slot /\ Now.table = table /\ Now.directories = directories
    BY OwnIs, NowIs
  <2> QED
    BY <1>4, <1>5, <1>6, <2>1
<1>14. Sound(c, now)
  <2> HIDE DEF s
  <2> QED
    BY <1>2, <1>4, <1>6, <1>10, <1>11, <1>12, <1>13, OneEntryChanges
<1>15. Sound(Evicted(c), now) /\ Kept(Evicted(c))
  BY <1>14, EvictedKeeps
<1> QED
  BY <1>1, <1>5, <1>7, <1>15, OwnIs, SettleKeeps

LEMMA KeepsInstallFails ==
    ASSUME IInv, NEW r \in Requests, InstallFails(r)
    PROVE  IInv'
<1> DEFINE s == req[r].slot
           gone == [req EXCEPT ![r] = Idle]
           b == Without(Now, s)
           entry == Failed(Now.slot[s])
           c == Failing(Now, s)
<1>1. /\ req[r].step \in Installing /\ req[r].step \notin {"idle", "resolve"}
      /\ Ends(r, Released(c, s)) /\ UNCHANGED <<referrers, closed>>
  BY DEF InstallFails, Installing
<1>2. /\ s \in Slots /\ Sound(Now, gone) /\ slot[s].users > Cardinality(Of(gone, s))
  BY <1>1, IdleIs, LeavingIs DEF Installing
<1>3. \A q \in Of(gone, s) : gone[q] = req[q] /\ req[q].step = "wait" /\ q \in Requests
                             /\ req[q].slot = s
  <2>1. \A q \in Requests \ {r} : gone[q] = req[q]
    BY OwnIs
  <2>2. gone[r].slot = NoSlot
    BY OwnIs, IdleIs
  <2> HIDE DEF gone
  <2>3. \A q \in Of(gone, s) : q \in Of(req, s) \ {r} /\ gone[q] = req[q]
    BY <1>2, <2>1, <2>2, SlotFacts DEF Of
  <2> QED
    BY <1>1, <2>3, OthersWait DEF Of
<1> HIDE DEF gone
<1>4. /\ Sound(b, gone) /\ b.table = table \ {s} /\ b.slot = slot
      /\ b.directories = directories /\ b \in Books
  BY <1>2, OwnIs, NowIs, WithoutKeeps DEF Sound
<1>5. c = With(b, s, entry)
  BY DEF Failing, Failed
<1> HIDE DEF b, c
<1>6. /\ entry \in Entry /\ entry.users = slot[s].users
      /\ entry.key = slot[s].key /\ entry.ready = "failed"
      /\ entry.installed = slot[s].installed
  <2>1. Now.slot = slot /\ slot[s] \in Entry
    BY <1>1, OwnIs
  <2> HIDE DEF s
  <2> QED
    BY <2>1, EntryIs
<1> HIDE DEF entry
<1>7. c.slot[s] = entry
  BY <1>2, <1>4, <1>5, <1>6, WithIs
<1>8. Sound(c, gone)
  <2>1. EntryIsFresh(c, s)
    <3>1. EntryIsFresh(b, s)
      BY <1>2, <1>4 DEF Sound
    <3> QED
      BY <1>4, <1>6, <1>7, <3>1 DEF EntryIsFresh
  <2>2. \A q \in Of(gone, s) : RequestKnows(c, gone[q])
    BY <1>3, <1>6, <1>7, WaiterKnows
  <2>3. entry.users >= Cardinality(Of(gone, s))
    <3>1. slot[s].users \in Nat /\ Cardinality(Of(gone, s)) \in Nat
      BY <1>4, <1>6, OfFacts DEF Entry
    <3> QED
      BY <1>2, <1>6, <3>1
  <2>4. entry.users > Cardinality(Of(gone, s))
    BY <1>2, <1>6
  <2> HIDE DEF s
  <2> QED
    BY <1>2, <1>4, <1>5, <1>6, <2>1, <2>2, <2>3, <2>4, RewrittenKeeps
<1>9. c.slot[s].users > Cardinality(Of(gone, s))
  BY <1>2, <1>6, <1>7
<1>10. Sound(Released(c, s), gone) /\ Kept(Released(c, s))
  <2> HIDE DEF s
  <2> QED
    BY <1>2, <1>8, <1>9, ReleasedKeeps
<1> QED
  BY <1>1, <1>10, EndsKeeps DEF gone

\* A stale entry is retired, and the key looked up again without it.
LEMMA KeepsCompared ==
    ASSUME IInv, NEW r \in Requests, Compared(r)
    PROVE  IInv'
<1> DEFINE s == req[r].slot
<1>1. req[r].step = "compared" /\ UNCHANGED <<referrers, closed>>
  BY DEF Compared
<1>2. CASE req[r].listed = slot[s].signatures
  <2> DEFINE record == Stepped(req[r], "use")
  <2>1. /\ req' = [req EXCEPT ![r] = record]
        /\ UNCHANGED <<table, older, slot, directories>>
    BY <1>2 DEF Compared, Stepped
  <2>2. /\ record \in Request /\ record.step = "use" /\ record.slot = s
        /\ record.key = req[r].key /\ record.since = req[r].since
    <3>1. "use" \in Suspended
      BY DEF Suspended
    <3> QED
      BY <3>1, OwnIs, ListedIs
  <2> HIDE DEF record
  <2>3. req[r].since <= slot[s].installed
    <3>1. /\ RequestKnows(Now, req[r]) /\ EntryIsFresh(Now, s) /\ Now.slot = slot
          /\ slot[s] \in Entry /\ req[r] \in Request
      BY <1>1, OwnIs
    <3>2. /\ req[r].since <= req[r].listed
          /\ slot[s].signatures <= slot[s].installed
      BY <1>1, <3>1 DEF RequestKnows, EntryIsFresh
    <3>3. /\ req[r].since \in Nat /\ req[r].listed \in Nat
          /\ slot[s].signatures \in Nat /\ slot[s].installed \in Nat
      BY <3>1 DEF Request, Entry
    <3> QED
      BY <1>2, <3>2, <3>3
  <2>4. RequestKnows(Now, record)
    BY <1>1, <2>2, <2>3, OwnIs DEF RequestKnows, Installing
  <2> QED
    BY <1>1, <2>1, <2>2, <2>4, GoesOnKeeps DEF Installing
<1>3. CASE req[r].listed # slot[s].signatures
  <2> DEFINE record == [req[r] EXCEPT !.step = "resolve", !.slot = NoSlot]
             gone == [req EXCEPT ![r] = record]
             d == Without(Now, s)
             b == Released(d, s)
             held == {req[q].slot : q \in Requests \ {r}}
             e == Collected(b, held)
             wide == {NoSlot} \cup held
             c == Book(b.table, b.older, e, b.directories)
  <2>1. Look(r, [b EXCEPT !.slot = e])
    BY <1>3 DEF Compared
  <2>2. /\ record \in Request /\ record.slot = NoSlot /\ record.step = "resolve"
        /\ record.key = req[r].key /\ record.since = req[r].since
    BY OwnIs DEF Request, Suspended
  <2> HIDE DEF record
  <2>3. RequestKnows(Now, record)
    BY <1>1, <2>2, OwnIs DEF RequestKnows, Installing
  <2>4. /\ s \in Slots /\ Sound(Now, gone)
        /\ slot[s].users > Cardinality(Of(gone, s))
    BY <1>1, <2>2, <2>3, LeavingIs DEF Installing
  <2>5. /\ gone[r] = record /\ \A q \in Requests \ {r} : gone[q] = req[q]
    BY OwnIs
  <2> HIDE DEF gone
  <2>6. Sound(d, gone) /\ d.slot = slot
    BY <2>4, OwnIs, WithoutKeeps
  <2> HIDE DEF d
  <2>7. Sound(b, gone) /\ Kept(b)
    <3> HIDE DEF s
    <3> QED
      BY <2>4, <2>6, ReleasedKeeps
  <2> HIDE DEF b
  <2>8. e = Collected(b, wide)
    <3>1. \A t \in Slots : t \in wide <=> t \in held
      BY SlotFacts
    <3> HIDE DEF wide, held
    <3> QED
      BY <3>1 DEF Collected
  <2>9. \A q \in Requests : gone[q].slot \in wide
    BY <2>2, <2>5
  <2> HIDE DEF held, wide
  <2>10. Sound(c, gone) /\ Kept(c)
    BY <2>7, <2>8, <2>9, CollectedKeeps
  <2>11. [b EXCEPT !.slot = e] = c
    <3> HIDE DEF e
    <3>1. b = [table |-> b.table, older |-> b.older, slot |-> b.slot,
               directories |-> b.directories]
      BY <2>7 DEF Sound, Books
    <3> QED
      BY <3>1 DEF Book
  <2> HIDE DEF c, e
  <2>12. Look(r, c)
    BY <2>1, <2>11
  <2> QED
    BY <1>1, <2>2, <2>5, <2>10, <2>12, OwnIs, LookKeeps
<1> QED
  BY <1>2, <1>3

LEMMA KeepsSign ==
    ASSUME IInv, NEW k \in Keys, Sign(k)
    PROVE  IInv'
<1>1. /\ TypeOK /\ Sound(Now, req) /\ Kept(Now) /\ Ungoverned
      /\ k \in GovernedKeys /\ referrers[k] < MaxSignatures
      /\ referrers' = [referrers EXCEPT ![k] = @ + 1]
      /\ table' = table /\ older' = older /\ slot' = slot
      /\ directories' = directories /\ req' = req /\ closed' = closed
      /\ referrers \in [Keys -> 0..MaxSignatures]
  BY DEF IInv, Sign, TypeOK
<1>2. /\ referrers' \in [Keys -> 0..MaxSignatures]
      /\ \A j \in Keys : referrers[j] <= referrers'[j]
      /\ \A j \in Keys \ GovernedKeys : referrers'[j] = referrers[j]
  BY <1>1
<1>3. TypeOK'
  BY <1>1, <1>2 DEF TypeOK
<1>4. /\ Now' = Now /\ Now \in Books /\ Now.slot = slot
      /\ slot \in [Slots -> Entry] /\ req \in [Requests -> Request]
  BY <1>1, NowIs DEF Now, TypeOK
<1>5. ASSUME NEW s \in Slots
      PROVE  EntryIsFresh(Now, s)'
  <2>1. EntryIsFresh(Now, s) /\ slot[s].installed \in Nat
    BY <1>1, <1>4 DEF Sound, Entry
  <2>2. \A j \in Keys : referrers[j] \in Nat /\ referrers'[j] \in Nat
    BY <1>1, <1>2
  <2> QED
    BY <1>1, <1>2, <1>4, <2>1, <2>2 DEF EntryIsFresh
<1>6. ASSUME NEW q \in Requests
      PROVE  RequestKnows(Now, req[q])'
  <2>1. /\ RequestKnows(Now, req[q]) /\ req[q].since \in Nat
        /\ req[q].listed \in Nat /\ req[q] \in Request
    BY <1>1, <1>4 DEF Sound, Request
  <2>2. \A j \in Keys : referrers[j] \in Nat /\ referrers'[j] \in Nat
    BY <1>1, <1>2
  <2>3. req[q].step # "idle" =>
          /\ req[q].key \in Keys
          /\ req[q].since <= referrers'[req[q].key]
          /\ req[q].listed <= referrers[req[q].key] =>
               req[q].listed <= referrers'[req[q].key]
    BY <1>2, <2>1, <2>2 DEF RequestKnows
  <2> QED
    BY <1>1, <1>4, <2>1, <2>3 DEF RequestKnows, Installing
<1>7. Sound(Now, req)'
  <2>1. \A s \in Slots : EntryAgrees(Now, req, s)
    BY <1>1 DEF Sound
  <2> QED
    BY <1>1, <1>4, <1>5, <1>6, <2>1 DEF Sound, EntryIsFresh, RequestKnows
<1>8. Kept(Now)' /\ Ungoverned'
  BY <1>1, <1>2, <1>4 DEF Kept, Ready, Ungoverned
<1> QED
  BY <1>3, <1>7, <1>8 DEF IInv

LEMMA KeepsClose ==
    ASSUME IInv, Close
    PROVE  IInv'
<1> DEFINE b == Dispose(Dropped(Now, table), table)
           e == Collected(b, {})
           held == {NoSlot}
           c == Book(b.table, b.older, e, b.directories)
<1>1. /\ TypeOK /\ Sound(Now, req) /\ Ungoverned
      /\ \A r \in Requests : req[r].step = "idle"
      /\ table' = b.table /\ older' = b.older /\ directories' = b.directories
      /\ slot' = e /\ UNCHANGED <<req, referrers>> /\ closed' = TRUE
  BY DEF IInv, Close
<1>2. \A r \in Requests : req[r].slot = NoSlot
  BY <1>1 DEF Sound, RequestKnows
<1>3. table \in SUBSET Slots /\ \A s \in table : Of(req, s) = {}
  BY <1>1, <1>2, SlotFacts DEF TypeOK, Of
<1>4. Sound(b, req) /\ b.table = {}
  <2>1. Now.table = table
    BY <1>1, NowIs
  <2> HIDE DEF b
  <2>2. Sound(b, req) /\ b.table = Now.table \ table
    BY <1>1, <1>3, RemovedKeeps DEF b
  <2> QED
    BY <2>1, <2>2
<1> HIDE DEF b
<1>5. Kept(b)
  <2>1. Ready(b) = {}
    BY <1>4 DEF Ready
  <2> QED
    BY <2>1 DEF Kept
<1>6. e = Collected(b, held)
  <2>1. \A t \in Slots : t \notin held
    BY SlotFacts
  <2> HIDE DEF held
  <2> QED
    BY <2>1 DEF Collected
<1>7. \A q \in Requests : req[q].slot \in held
  BY <1>2
<1> HIDE DEF e, held
<1>8. /\ Sound(c, req) /\ Kept(c) /\ c.table = b.table /\ c.older = b.older
      /\ c.slot = e /\ c.directories = b.directories
  BY <1>4, <1>5, <1>6, <1>7, CollectedKeeps
<1>9. c = Book(table', older', slot', directories')
  BY <1>1
<1> HIDE DEF c
<1>10. req' = req /\ closed' \in BOOLEAN
  BY <1>1
<1> QED
  BY <1>1, <1>8, <1>9, <1>10, StateIs

----------------------------------------------------------------------------
(* The theorems *)

LEMMA InitIInv ==
    ASSUME Init
    PROVE  IInv
<1>1. \A s \in Slots : slot[s] = FreeSlot /\ Of(req, s) = {}
  BY IdleIs, SlotFacts DEF Init, Of
<1>2. /\ FreeSlot \in Entry /\ FreeSlot.users = 0 /\ FreeSlot.key = NoKey
      /\ FreeSlot.ready = "free"
  BY DEF FreeSlot, Entry, Readiness
<1>3. TypeOK
  <2>1. slot \in [Slots -> Entry]
    BY <1>2 DEF Init
  <2>2. req \in [Requests -> Request]
    BY IdleIs DEF Init
  <2>3. referrers \in [Keys -> 0..MaxSignatures]
    BY DEF Init
  <2> QED
    BY <2>1, <2>2, <2>3 DEF Init, TypeOK
<1>4. /\ Now \in Books /\ Now.table = {} /\ Now.older = {}
      /\ Now.slot = slot /\ Now.directories = {}
  BY <1>3, NowIs DEF Init
<1>5. ASSUME NEW s \in Slots
      PROVE  EntryAgrees(Now, req, s) /\ EntryIsFresh(Now, s)
  <2>1. Cardinality(Of(req, s)) = 0
    BY <1>1, OfFacts
  <2> QED
    BY <1>1, <1>2, <1>4, <2>1 DEF EntryAgrees, EntryIsFresh
<1>6. Sound(Now, req)
  <2>1. \A q \in Requests : req[q] = Idle
    BY DEF Init
  <2>2. OneInstalls(req)
    BY <2>1, IdleIs DEF OneInstalls, Installing
  <2>3. \A q \in Requests : RequestKnows(Now, req[q])
    BY <2>1, IdleIs
  <2> QED
    BY <1>3, <1>4, <1>5, <2>2, <2>3 DEF Sound, Ordered, TypeOK
<1>7. Kept(Now)
  <2>1. Ready(Now) = {}
    BY <1>4 DEF Ready
  <2> QED
    BY <2>1 DEF Kept
<1> QED
  BY <1>3, <1>6, <1>7 DEF IInv, Ungoverned, Init

LEMMA NextIInv ==
    ASSUME IInv, [Next]_vars
    PROVE  IInv'
<1>1. ASSUME NEW r \in Requests, Proceed(r) \/ Interrupted(r)
      PROVE  IInv'
  BY <1>1, KeepsResolve, KeepsListSignatures, KeepsPull, KeepsInstalled,
     KeepsWoken, KeepsListAgain, KeepsCompared, KeepsReleasing,
     KeepsResolveFails, KeepsInstallFails, KeepsListAgainFails, SMTT(30)
     DEF Proceed, Interrupted
<1>2. CASE UNCHANGED vars
  BY <1>2, SMTT(30)
     DEF vars, IInv, TypeOK, Sound, Now, Books, Ordered, EntryAgrees,
         EntryIsFresh, RequestKnows, OneInstalls, Of, Kept, Ready, Ungoverned
<1> QED
  BY <1>1, <1>2, KeepsSign, KeepsBegin, KeepsClose DEF Next

THEOREM Invariance == Spec => []IInv
<1>1. Init => IInv
  BY InitIInv
<1>2. IInv /\ [Next]_vars => IInv'
  BY NextIInv
<1> QED
  BY <1>1, <1>2, PTL DEF Spec

\* Every variable of the cache has its type, and its dictionary order stays a
\* strict one through hits, evictions and retirements.
THEOREM Typing == Spec => []TypeOK
<1>1. IInv => TypeOK
  BY DEF IInv
<1> QED
  BY <1>1, Invariance, PTL

\* No request works on a directory removed under it, and no directory is left
\* that nobody can reach but those of requests that left without a release.
THEOREM DirectoriesHold == Spec => []DirectoriesFollowUsers
<1>1. IInv => DirectoriesFollowUsers
  <2> SUFFICES ASSUME IInv PROVE DirectoriesFollowUsers
    OBVIOUS
  <2>1. /\ TypeOK /\ Sound(Now, req) /\ Now.slot = slot
        /\ Now.directories = directories
    BY NowIs DEF IInv
  <2>2. \A s \in Slots : EntryAgrees(Now, req, s) /\ Of(req, s) = Holders(s)
    BY <2>1 DEF Sound, Of, Holders
  <2>3. ASSUME NEW r \in Requests, req[r].slot # NoSlot,
               slot[req[r].slot].ready # "failed"
        PROVE  req[r].slot \in directories
    <3>1. req[r].slot \in Slots /\ r \in Of(req, req[r].slot)
      BY <2>1, <2>3 DEF TypeOK, Request, Of
    <3> QED
      BY <2>1, <2>2, <2>3, <3>1 DEF EntryAgrees
  <2>4. ASSUME NEW s \in directories
        PROVE  \/ Cached(Now, s) \/ Holders(s) # {}
               \/ slot[s].users > Cardinality(Holders(s))
    <3>1. s \in Slots
      BY <2>1 DEF TypeOK
    <3> QED
      BY <2>1, <2>2, <3>1 DEF EntryAgrees, Cached
  <2> QED
    BY <2>3, <2>4 DEF DirectoriesFollowUsers
<1> QED
  BY <1>1, Invariance, PTL

\* What is installed beyond the capacity is in use: eviction, which walks
\* the table from the least recently used entry, never leaves an idle one.
THEOREM EvictionHolds == Spec => []KeptOnlyInUse
<1>1. IInv => KeptOnlyInUse
  <2> SUFFICES ASSUME IInv PROVE KeptOnlyInUse
    OBVIOUS
  <2>1. Kept(Now) /\ Now.slot = slot /\ Now.table = table
    BY NowIs DEF IInv
  <2> QED
    BY <2>1 DEF Kept, Ready, KeptOnlyInUse
<1> QED
  BY <1>1, Invariance, PTL

\* Every signature that had landed when a request began is in the
\* installation it uses.
THEOREM AnswersStayFresh == Spec => []AnswersAreFresh
<1>1. IInv => AnswersAreFresh
  <2> SUFFICES ASSUME IInv, NEW r \in Requests, req[r].step = "use"
               PROVE  slot[req[r].slot].installed >= req[r].since
    BY DEF AnswersAreFresh
  <2>1. RequestKnows(Now, req[r]) /\ Now.slot = slot /\ slot[req[r].slot] \in Entry
        /\ req[r] \in Request
    BY OwnIs
  <2>2. req[r].since <= slot[req[r].slot].installed
    BY <2>1 DEF RequestKnows
  <2>3. req[r].since \in Nat /\ slot[req[r].slot].installed \in Nat
    BY <2>1 DEF Request, Entry
  <2> QED
    BY <2>2, <2>3
<1> QED
  BY <1>1, Invariance, PTL
=============================================================================
