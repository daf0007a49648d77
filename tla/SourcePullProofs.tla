--------------------------- MODULE SourcePullProofs ---------------------------
(***************************************************************************)
(* What TLAPS proves of SourcePull, for any sources, listings, offers,     *)
(* declarations and options: a pull never brings back redacted bytes; what *)
(* it accounted for is in the brain as it is declared now; and what it     *)
(* accounted for is not downloaded again.  The first needs only that the   *)
(* store has an answer for every byte sequence.  The other two follow from *)
(* IInv, whose heart is Accounts: an item that is settled under a          *)
(* declaration and an offer is Taken, so that the declaration is in        *)
(* effect, and would be Found, so that another pull finds nothing to do.   *)
(* Found is kept by every write because a write to an item's origin        *)
(* unsettles it, and it serves a pull because the index that the pull took *)
(* still has the origin's records of what is left in the queue             *)
(* (IndexServes), whose items are all different (PullOK).                  *)
(***************************************************************************)
EXTENDS SourcePull, SequenceTheorems, TLAPS

Answers == {"absent", "held", "tombstoned"}
StoreOK == store \in [Data -> Answers]

\* A redaction is undone by nothing but the store's own variable changing.
Kept == \A d \in Data : store[d] = "tombstoned" => store'[d] = "tombstoned"

LEMMA Stores == ASSUME StoreOK, NEW d, NEW a \in Answers
                PROVE  [store EXCEPT ![d] = a] \in [Data -> Answers]
  BY DEF StoreOK

\* The steps that leave the store alone.
LEMMA QuietSteps ==
    ASSUME [Next]_vars,
           ~ Register, ~ RegisterFails,
           ~ (\E b \in blocks : Redact(b)),
           ~ (\E b \in Blocks, o \in Origins : RegisterByHand(b, o))
    PROVE  store' = store
<1>1. CASE Begins
  BY <1>1 DEF Begins, Begin, brain
<1>2. CASE Pulling
  BY <1>2 DEF Pulling, List, Unlisted, Enter, NextSource, Return, NotReached,
              Skip, Preflight, GoFetch, Fetch, FetchFails, FetchUnavailable, FetchRaises,
              Refuse, brain
<1>3. CASE Busy
  BY <1>3 DEF Busy, brain
<1>4. CASE Around
  BY <1>4 DEF Around, Edit, Outage, Redeclare, brain
<1>5. CASE UNCHANGED vars
  BY <1>5 DEF vars, brain
<1> QED
  BY <1>1, <1>2, <1>3, <1>4, <1>5 DEF Next

\* The store keeps an answer for every byte sequence.
LEMMA StoreInvariance == Spec => []StoreOK
<1>1. Init => StoreOK
  BY DEF Init, StoreOK, Answers
<1>2. StoreOK /\ [Next]_vars => StoreOK'
  <2> SUFFICES ASSUME StoreOK, [Next]_vars PROVE StoreOK'
    OBVIOUS
  <2>1. CASE Register
    BY <2>1, Stores DEF Register, Registers, StoreOK, Answers
  <2>2. CASE RegisterFails
    BY <2>2, Stores DEF RegisterFails, StoreOK, Answers
  <2>3. CASE \E b \in blocks : Redact(b)
    BY <2>3, Stores DEF Redact, StoreOK, Answers
  <2>4. CASE \E b \in Blocks, o \in Origins : RegisterByHand(b, o)
    BY <2>4, Stores DEF RegisterByHand, Registers, StoreOK, Answers
  <2>5. CASE store' = store
    BY <2>5 DEF StoreOK
  <2> QED
    BY <2>1, <2>2, <2>3, <2>4, <2>5, QuietSteps
<1> QED
  BY <1>1, <1>2, PTL DEF Spec

\* No step of a pull's write brings back bytes that were redacted, whatever
\* the pull lists, fetches, or was told to refetch (_tombstoned).
THEOREM RedactionsAreKept == Spec => RedactionsHold
<1>1. StoreOK /\ [Next]_vars =>
          [step # "idle" /\ ~Writable =>
              \A d \in Data : store[d] = "tombstoned" => store'[d] = "tombstoned"]_vars
  <2> SUFFICES ASSUME StoreOK, Next, ~Writable
               PROVE  Kept
    BY DEF Kept, vars
  <2>1. CASE Register
    BY <2>1 DEF Register, Registers, Refused, StoreOK, Kept
  <2>2. CASE RegisterFails
    BY <2>2 DEF RegisterFails, Refused, StoreOK, Kept
  <2>3. CASE \E b \in blocks : Redact(b)
    BY <2>3 DEF Redact
  <2>4. CASE \E b \in Blocks, o \in Origins : RegisterByHand(b, o)
    BY <2>4 DEF RegisterByHand
  <2>5. CASE store' = store
    BY <2>5 DEF Kept
  <2> QED
    BY <2>1, <2>2, <2>3, <2>4, <2>5, QuietSteps
<1> QED
  BY <1>1, StoreInvariance, PTL DEF Spec, RedactionsHold
----------------------------------------------------------------------------
(* What an item is accounted for as *)

\* ListedType, FetchedType and Matches, of a declaration and an
\* offer given.
ListedOf(table, deal) == IF table.type # Unknown THEN table.type ELSE deal.listed
FetchedOf(table, deal) ==
    IF table.type # Unknown THEN table.type
    ELSE IF deal.found # Unknown THEN deal.found
    ELSE IF deal.listed # Unknown THEN deal.listed ELSE Generic
Suits(table, deal, b) ==
    LET viewed == (b.view # Unknown) = (table.view # Unknown) IN
    IF ListedOf(table, deal) = Unknown
    THEN b \notin redacted /\ b.type # Generic /\ viewed
    ELSE b \in redacted \/ (b.type = ListedOf(table, deal) /\ viewed)

\* The item is in the brain as declared, and would be found there again.
Taken(i, table, deal) ==
    \E b \in blocks :
        \/ b.data = deal.data /\ Says(table, b)
        \/ /\ b \in Range(records[Origin[i]])
           /\ b \in redacted \/ Says(table, b)
Found(i, table, deal) ==
    \/ Len(records[Origin[i]]) > 1
    \/ \E o \in Origins \ {Origin[i]} : \E b \in Range(records[o]) : b.data = deal.data
    \/ ListedOf(table, deal) # FetchedOf(table, deal)
    \/ \E b \in blocks : records[Origin[i]] = << b >> /\ Suits(table, deal, b)

PullOK ==
    /\ offer \in [Items -> AnyOffer] /\ declared \in [Sources -> Declarations]
    /\ step \in {"idle", "list", "enter", "item", "fetch", "check"}
    /\ mode \in Modes /\ todo \in Seq(Sources)
    /\ step \in {"enter", "item", "fetch", "check"} => todo # << >>
    /\ queue \in Seq([item : Items, as : AnyOffer])
    /\ step \in {"fetch", "check"} => queue # << >> /\ ~mode.dry
    /\ \A m, n \in DOMAIN queue : queue[m].item = queue[n].item => m = n
BrainOK ==
    /\ records \in [Origins -> Seq(blocks)] /\ index \in [Origins -> Seq(blocks)]
    /\ \A b \in blocks : \E o \in Origins : b \in Range(records[o])
    /\ \A o \in Origins : /\ Len(index[o]) =< Len(records[o])
                         /\ Range(index[o]) \subseteq Range(records[o])
\* What the pull has yet to decide about has not been registered since its
\* brain was opened, or is not settled.
IndexServes ==
    step \in {"item", "fetch", "check"} =>
        \A n \in DOMAIN queue :
            LET i == queue[n].item IN
            settled[i] # Unsettled => index[Origin[i]] = records[Origin[i]]
FetchIsDue == step = "fetch" => \E r \in RegisteredAs : ~Held(r)
Accounts ==
    /\ settled \in [Items -> {Unsettled} \cup (Declarations \X AnyOffer)]
    /\ \A i \in Items, table \in Declarations, deal \in AnyOffer :
          settled[i] = << table, deal >> => Taken(i, table, deal) /\ Found(i, table, deal)

IInv == PullOK /\ BrainOK /\ IndexServes /\ FetchIsDue /\ Accounts
\* A record that is inserted among its origin's keeps the others.
LEMMA InsertIs ==
    ASSUME NEW S, NEW s \in Seq(S), NEW e \in S, NEW n \in 1..(Len(s) + 1)
    PROVE  /\ InsertAt(s, n, e) \in Seq(S) /\ Len(InsertAt(s, n, e)) = Len(s) + 1
           /\ Range(s) \subseteq Range(InsertAt(s, n, e))
           /\ e \in Range(InsertAt(s, n, e))
<1> DEFINE front == SubSeq(s, 1, n - 1)
           back == SubSeq(s, n, Len(s))
           all == (front \o << e >>) \o back
<1>1. /\ front \in Seq(S) /\ Len(front) = n - 1
      /\ \A k \in 1..(n - 1) : front[k] = s[k]
  OBVIOUS
<1>2. /\ back \in Seq(S) /\ Len(back) = Len(s) - n + 1
      /\ \A k \in 1..(Len(s) - n + 1) : back[k] = s[n + k - 1]
  OBVIOUS
<1> HIDE DEF front, back
<1>3. /\ all \in Seq(S) /\ Len(all) = Len(s) + 1
      /\ \A k \in 1..(n - 1) : all[k] = s[k]
      /\ all[n] = e
      /\ \A k \in (n + 1)..(Len(s) + 1) : all[k] = s[k - 1]
  <2>1. /\ front \o << e >> \in Seq(S) /\ Len(front \o << e >>) = n
        /\ \A k \in 1..(n - 1) : (front \o << e >>)[k] = s[k]
        /\ (front \o << e >>)[n] = e
    BY <1>1
  <2> DEFINE half == front \o << e >>
  <2> HIDE DEF half
  <2>2. /\ half \in Seq(S) /\ Len(half) = n /\ half[n] = e
        /\ \A k \in 1..(n - 1) : half[k] = s[k]
    BY <2>1 DEF half
  <2>3. /\ half \o back \in Seq(S) /\ Len(half \o back) = Len(s) + 1
        /\ \A k \in 1..n : (half \o back)[k] = half[k]
        /\ \A k \in (n + 1)..(Len(s) + 1) : (half \o back)[k] = back[k - n]
    BY <1>2, <2>2
  <2>4. \A k \in (n + 1)..(Len(s) + 1) :
           k - n \in 1..(Len(s) - n + 1) /\ n + (k - n) - 1 = k - 1
    OBVIOUS
  <2>5. \A k \in (n + 1)..(Len(s) + 1) : (half \o back)[k] = s[k - 1]
    BY <1>2, <2>3, <2>4
  <2>6. all = half \o back
    BY DEF half
  <2> HIDE DEF all
  <2>7. \A k \in 1..n : all[k] = half[k]
    BY <2>3, <2>6
  <2>8. \A k \in 1..(n - 1) : all[k] = s[k]
    BY <2>2, <2>7
  <2>9. all[n] = e
    BY <2>2, <2>7
  <2> QED
    BY <2>3, <2>5, <2>6, <2>8, <2>9
<1> HIDE DEF all
<1>4. InsertAt(s, n, e) = all
  BY DEF InsertAt, all, front, back
<1>5. \A k \in 1..Len(s) : \E m \in 1..(Len(s) + 1) : all[m] = s[k]
  <2> SUFFICES ASSUME NEW k \in 1..Len(s)
               PROVE  \E m \in 1..(Len(s) + 1) : all[m] = s[k]
    OBVIOUS
  <2>1. CASE k < n
    BY <1>3, <2>1
  <2>2. CASE k >= n
    <3>1. k + 1 \in (n + 1)..(Len(s) + 1) /\ (k + 1) - 1 = k
      BY <2>2
    <3> QED
      BY <1>3, <3>1
  <2> QED
    BY <2>1, <2>2
<1>6. DOMAIN all = 1..(Len(s) + 1) /\ DOMAIN s = 1..Len(s) /\ n \in DOMAIN all
  BY <1>3
<1>7. Range(s) \subseteq Range(all)
  BY <1>5, <1>6 DEF Range
<1>8. e \in Range(all)
  BY <1>3, <1>6 DEF Range
<1> QED
  BY <1>3, <1>4, <1>7, <1>8

\* What a registration does to the brain.
LEMMA RegistersIs ==
    ASSUME BrainOK, NEW b, NEW o \in Origins, Registers(b, o), index' = index
    PROVE  /\ BrainOK' /\ blocks' = blocks \cup {b}
           /\ redacted' \in {redacted, redacted \ {b}}
           /\ \A p \in Origins \ {o} : records'[p] = records[p]
           /\ \A p \in Origins : Range(records[p]) \subseteq Range(records'[p])
           /\ b \in blocks => records' = records
           /\ b \notin blocks => /\ Len(records'[o]) = Len(records[o]) + 1
                                 /\ b \in Range(records'[o])
<1>1. /\ blocks' = blocks \cup {b} /\ redacted' \in {redacted, redacted \ {b}}
      /\ IF b \in blocks THEN UNCHANGED records ELSE Recorded(o, b)
  BY DEF Registers
<1>2. CASE b \in blocks
  <2>1. blocks' = blocks /\ records' = records
    BY <1>1, <1>2
  <2> QED
    BY <1>1, <1>2, <2>1 DEF BrainOK
<1>3. CASE b \notin blocks
  <2>1. PICK n \in 1..(Len(records[o]) + 1) :
           records' = [records EXCEPT ![o] = InsertAt(records[o], n, b)]
    BY <1>1, <1>3 DEF Recorded
  <2>2. /\ records \in [Origins -> Seq(blocks')] /\ index \in [Origins -> Seq(blocks')]
        /\ b \in blocks'
    <3>1. blocks \subseteq blocks' /\ b \in blocks'
      BY <1>1
    <3>2. Seq(blocks) \subseteq Seq(blocks')
      BY <3>1, SeqMonotonic
    <3> QED
      BY <3>1, <3>2 DEF BrainOK
  <2> DEFINE new == InsertAt(records[o], n, b)
  <2>3. /\ new \in Seq(blocks') /\ Len(new) = Len(records[o]) + 1
        /\ Range(records[o]) \subseteq Range(new) /\ b \in Range(new)
    BY <2>2, InsertIs
  <2> HIDE DEF new
  <2>4. /\ records' \in [Origins -> Seq(blocks')] /\ records'[o] = new
        /\ \A p \in Origins \ {o} : records'[p] = records[p]
    BY <2>1, <2>2, <2>3 DEF new
  <2>5. \A p \in Origins : Range(records[p]) \subseteq Range(records'[p])
    BY <2>3, <2>4
  <2>6. \A c \in blocks' : \E p \in Origins : c \in Range(records'[p])
    BY <1>1, <2>3, <2>4, <2>5 DEF BrainOK
  <2>7. \A p \in Origins : /\ Len(index[p]) =< Len(records'[p])
                           /\ Range(index[p]) \subseteq Range(records'[p])
    <3> SUFFICES ASSUME NEW p \in Origins
                 PROVE  /\ Len(index[p]) =< Len(records'[p])
                        /\ Range(index[p]) \subseteq Range(records'[p])
      OBVIOUS
    <3>1. /\ Len(index[p]) =< Len(records[p]) /\ Range(index[p]) \subseteq Range(records[p])
          /\ Len(index[p]) \in Nat /\ Len(records[p]) \in Nat
      BY DEF BrainOK
    <3>2. Len(records'[p]) = Len(records[p]) \/ Len(records'[p]) = Len(records[p]) + 1
      BY <2>3, <2>4
    <3> QED
      BY <2>5, <3>1, <3>2, SMTT(30)
  <2>8. BrainOK'
    BY <2>2, <2>4, <2>6, <2>7 DEF BrainOK
  <2> QED
    BY <1>1, <1>3, <2>3, <2>4, <2>5, <2>8
<1> QED
  BY <1>2, <1>3

\* The rest of a queue is of other items.
LEMMA TailIs ==
    ASSUME PullOK, queue # << >>
    PROVE  /\ Tail(queue) \in Seq([item : Items, as : AnyOffer])
           /\ Item \in Items /\ AsListed \in AnyOffer
           /\ \A n \in DOMAIN Tail(queue) :
                n + 1 \in DOMAIN queue /\ Tail(queue)[n] = queue[n + 1]
           /\ \A n \in DOMAIN Tail(queue) : Tail(queue)[n].item # Item
           /\ \A m, n \in DOMAIN Tail(queue) :
                Tail(queue)[m].item = Tail(queue)[n].item => m = n
           /\ 1 \in DOMAIN queue /\ queue[1].item = Item
<1> DEFINE entries == [item : Items, as : AnyOffer]
<1>1. queue \in Seq(entries) /\ queue # << >>
      /\ \A m, n \in DOMAIN queue : queue[m].item = queue[n].item => m = n
  BY DEF PullOK
<1>2. /\ Head(queue) = queue[1] /\ queue[1] \in entries /\ 1 \in DOMAIN queue
  <2> HIDE DEF entries
  <2> QED
    BY <1>1
<1>3. /\ Tail(queue) \in Seq(entries)
      /\ \A n \in DOMAIN Tail(queue) : n \in Nat /\ n >= 1 /\
            n + 1 \in DOMAIN queue /\ Tail(queue)[n] = queue[n + 1]
  <2> HIDE DEF entries
  <2> QED
    BY <1>1
<1>4. Item \in Items /\ AsListed \in AnyOffer /\ queue[1].item = Item
  BY <1>2 DEF Item, AsListed
<1> HIDE DEF entries
<1>5. \A n \in DOMAIN Tail(queue) : Tail(queue)[n].item # Item
  <2> SUFFICES ASSUME NEW n \in DOMAIN Tail(queue), Tail(queue)[n].item = Item
               PROVE  FALSE
    OBVIOUS
  <2>1. n + 1 = 1
    BY <1>1, <1>2, <1>3, <1>4
  <2> QED
    BY <1>3, <2>1
<1>6. \A m, n \in DOMAIN Tail(queue) :
         Tail(queue)[m].item = Tail(queue)[n].item => m = n
  <2> SUFFICES ASSUME NEW m \in DOMAIN Tail(queue), NEW n \in DOMAIN Tail(queue),
                      Tail(queue)[m].item = Tail(queue)[n].item
               PROVE  m = n
    OBVIOUS
  <2>1. m + 1 = n + 1
    BY <1>1, <1>3
  <2> QED
    BY <1>3, <2>1
<1> QED
  BY <1>2, <1>3, <1>4, <1>5, <1>6 DEF entries

\* The steps that write an item's row.
Rowing == \/ NotReached \/ Skip \/ Preflight \/ FetchFails \/ Refuse \/ Register
          \/ RegisterFails
LEMMA RowIs ==
    ASSUME PullOK, Rowing
    PROVE  /\ queue # << >> /\ step \in {"item", "fetch", "check"}
           /\ step' = "item" /\ queue' = Tail(queue)
           /\ UNCHANGED << offer, declared, mode, todo, index >>
BY DEF PullOK, Rowing, NotReached, Skip, Preflight, FetchFails, Refuse, Register,
       RegisterFails, Reached, Row, outside

LEMMA PullKeeps ==
    ASSUME PullOK, [Next]_vars
    PROVE  PullOK'
<1>1. /\ offer \in [Items -> AnyOffer] /\ declared \in [Sources -> Declarations]
      /\ step \in {"idle", "list", "enter", "item", "fetch", "check"}
      /\ mode \in Modes /\ todo \in Seq(Sources)
      /\ step \in {"enter", "item", "fetch", "check"} => todo # << >>
      /\ queue \in Seq([item : Items, as : AnyOffer])
      /\ step \in {"fetch", "check"} => queue # << >> /\ ~mode.dry
      /\ \A m, n \in DOMAIN queue : queue[m].item = queue[n].item => m = n
  BY DEF PullOK
<1>2. << >> \in Seq(Sources) /\ << >> \in Seq([item : Items, as : AnyOffer])
      /\ DOMAIN << >> = {} /\ (todo # << >> => Tail(todo) \in Seq(Sources))
  BY <1>1
<1>3. ASSUME NEW options \in Modes,
             \/ Begin(AllSources, options)
             \/ \E s \in Sources : Begin(<< s >>, options)
      PROVE  PullOK'
  <2>1. /\ step' = "list" /\ mode' = options
        /\ UNCHANGED << offer, declared, queue >>
    BY <1>3 DEF Begin, outside
  <2>2. todo' \in Seq(Sources)
    <3>1. CASE Begin(AllSources, options)
      BY <3>1, PullAssumption DEF Begin
    <3>2. CASE \E s \in Sources : Begin(<< s >>, options)
      BY <3>2 DEF Begin
    <3> QED
      BY <1>3, <3>1, <3>2
  <2> QED
    BY <1>1, <2>1, <2>2 DEF PullOK
<1>4. CASE List
  <2> DEFINE listed == Listing[Head(todo)]
  <2>1. /\ todo # << >> /\ step' = "enter"
        /\ UNCHANGED << offer, declared, mode, todo >>
        /\ queue' = [n \in DOMAIN listed |-> [item |-> listed[n], as |-> offer[listed[n]]]]
    BY <1>4 DEF List, outside
  <2>2. Head(todo) \in Sources
    BY <1>1, <2>1
  <2>3. listed \in Seq(Items) /\ \A m, n \in DOMAIN listed : listed[m] = listed[n] => m = n
    BY <2>2, PullAssumption DEF IsInjective
  <2> HIDE DEF listed
  <2>4. DOMAIN listed = 1..Len(listed) /\ Len(listed) \in Nat
        /\ \A n \in DOMAIN listed : listed[n] \in Items
    BY <2>3
  <2>5. \A n \in DOMAIN listed :
           /\ queue'[n] \in [item : Items, as : AnyOffer] /\ queue'[n].item = listed[n]
    BY <1>1, <2>1, <2>4
  <2>6. queue' \in Seq([item : Items, as : AnyOffer]) /\ DOMAIN queue' = DOMAIN listed
    <3> DEFINE entries == [item : Items, as : AnyOffer]
    <3> HIDE DEF entries
    <3>1. DOMAIN queue' = 1..Len(listed) /\ \A n \in 1..Len(listed) : queue'[n] \in entries
      BY <2>1, <2>4, <2>5 DEF entries
    <3>2. queue' = [n \in 1..Len(listed) |-> queue'[n]]
      BY <2>1, <2>4
    <3>3. queue' \in Seq(entries)
      BY <2>4, <3>1, <3>2, IsASeq
    <3> QED
      BY <2>4, <3>1, <3>3 DEF entries
  <2>7. \A m, n \in DOMAIN queue' : queue'[m].item = queue'[n].item => m = n
    BY <2>3, <2>5, <2>6
  <2> QED
    BY <1>1, <2>1, <2>6, <2>7 DEF PullOK
<1>5. CASE Unlisted
  BY <1>1, <1>2, <1>5 DEF PullOK, Unlisted, outside
<1>6. CASE Enter \/ Return
  BY <1>1, <1>6 DEF PullOK, Enter, Return, outside
<1>7. CASE NextSource
  BY <1>1, <1>2, <1>7 DEF PullOK, NextSource, outside
<1>8. CASE GoFetch
  BY <1>1, <1>8 DEF PullOK, GoFetch, Reached, outside
<1>9. CASE Fetch
  BY <1>1, <1>9 DEF PullOK, Fetch, outside
<1>10. CASE FetchRaises
  <2>1. step' = "idle" /\ todo' = << >> /\ queue' = << >>
        /\ UNCHANGED << offer, declared, mode >>
    BY <1>10 DEF FetchRaises, outside
  <2> QED
    BY <1>1, <1>2, <2>1 DEF PullOK
<1>11. CASE Busy \/ FetchUnavailable
  <2>1. /\ step \in {"enter", "fetch"} /\ step' = "list"
        /\ todo' = Tail(todo) /\ queue' = << >>
        /\ UNCHANGED << offer, declared, mode >>
    BY <1>11 DEF Busy, FetchUnavailable, outside
  <2> QED
    BY <1>1, <1>2, <2>1 DEF PullOK
<1>12. CASE Rowing
  <2>1. /\ queue # << >> /\ step \in {"item", "fetch", "check"}
        /\ step' = "item" /\ queue' = Tail(queue)
        /\ UNCHANGED << offer, declared, mode, todo >>
    BY <1>12, RowIs
  <2>2. /\ queue' \in Seq([item : Items, as : AnyOffer])
        /\ \A m, n \in DOMAIN queue' : queue'[m].item = queue'[n].item => m = n
    BY <2>1, TailIs
  <2> QED
    BY <1>1, <2>1, <2>2 DEF PullOK
<1>13. CASE Around
  <2>1. UNCHANGED << step, mode, todo, queue >>
    BY <1>13 DEF Around, Edit, Outage, Redeclare, Redact, RegisterByHand, pulling
  <2>2. offer' \in [Items -> AnyOffer]
    <3>1. ASSUME NEW i \in Items, NEW new \in AnyOffer, Edit(i, new)
          PROVE  offer' \in [Items -> AnyOffer]
      BY <1>1, <3>1 DEF Edit
    <3>2. CASE ~ \E i \in Items, new \in AnyOffer : Edit(i, new)
      BY <1>1, <1>13, <3>2 DEF Around, Outage, Redeclare, Redact, RegisterByHand
    <3> QED
      BY <3>1, <3>2
  <2>3. declared' \in [Sources -> Declarations]
    <3>1. ASSUME NEW s \in Sources, NEW new \in Declarations, Redeclare(s, new)
          PROVE  declared' \in [Sources -> Declarations]
      BY <1>1, <3>1 DEF Redeclare
    <3>2. CASE ~ \E s \in Sources, new \in Declarations : Redeclare(s, new)
      BY <1>1, <1>13, <3>2 DEF Around, Edit, Outage, Redact, RegisterByHand
    <3> QED
      BY <3>1, <3>2
  <2> QED
    BY <1>1, <2>1, <2>2, <2>3 DEF PullOK
<1>14. CASE UNCHANGED vars
  BY <1>14 DEF PullOK, vars, outside, pulling
<1> QED
  BY <1>3, <1>4, <1>5, <1>6, <1>7, <1>8, <1>9, <1>10, <1>11, <1>12, <1>13, <1>14
     DEF Next, Begins, Pulling, Rowing

\* The steps that leave the brain's blocks and the opened index alone.
LEMMA BrainRests ==
    ASSUME [Next]_vars, ~ Register, ~ Enter,
           ~ (\E b \in blocks : Redact(b)),
           ~ (\E b \in Blocks, o \in Origins : RegisterByHand(b, o))
    PROVE  UNCHANGED << blocks, redacted, records, index >>
<1>1. CASE Begins
  BY <1>1 DEF Begins, Begin, brain
<1>2. CASE Pulling
  BY <1>2 DEF Pulling, List, Unlisted, NextSource, Return, NotReached, Row,
              Skip, Preflight, GoFetch, Fetch, FetchFails, FetchUnavailable, FetchRaises,
              Refuse, brain
<1>3. CASE Busy \/ RegisterFails
  BY <1>3 DEF Busy, RegisterFails, brain
<1>4. CASE Around
  BY <1>4 DEF Around, Edit, Outage, Redeclare, brain, pulling
<1>5. CASE UNCHANGED vars
  BY <1>5 DEF vars, brain, pulling
<1> QED
  BY <1>1, <1>2, <1>3, <1>4, <1>5 DEF Next

LEMMA RegisterIs ==
    ASSUME PullOK, Register
    PROVE  /\ Item \in Items /\ AsListed \in AnyOffer /\ Declared \in Declarations
           /\ Origin[Item] \in Origins /\ Registers(got, Origin[Item])
           /\ index' = index /\ RegistrationAccounted
<1>1. /\ Registers(got, Origin[Item]) /\ index' = index /\ RegistrationAccounted
      /\ queue # << >> /\ todo # << >> /\ todo \in Seq(Sources)
      /\ declared \in [Sources -> Declarations]
  BY DEF Register, Row, PullOK
<1>2. Item \in Items /\ AsListed \in AnyOffer
  BY <1>1, TailIs
<1>3. Head(todo) \in Sources
  BY <1>1
<1> QED
  BY <1>1, <1>2, <1>3 DEF Declared, Origins

LEMMA BrainKeeps ==
    ASSUME PullOK, BrainOK, [Next]_vars
    PROVE  BrainOK'
<1>1. CASE Register
  BY <1>1, RegisterIs, RegistersIs
<1>2. ASSUME NEW b \in Blocks, NEW o \in Origins, RegisterByHand(b, o)
      PROVE  BrainOK'
  BY <1>2, RegistersIs DEF RegisterByHand, pulling
<1>3. CASE \E b \in blocks : Redact(b)
  BY <1>3 DEF Redact, pulling, BrainOK
<1>4. CASE Enter
  <2>1. index' = records /\ UNCHANGED << blocks, records >>
    BY <1>4 DEF Enter, brain
  <2>2. \A o \in Origins : Len(records[o]) \in Nat
    BY DEF BrainOK
  <2> QED
    BY <2>1, <2>2 DEF BrainOK
<1>5. CASE UNCHANGED << blocks, redacted, records, index >>
  BY <1>5 DEF BrainOK
<1> QED
  BY <1>1, <1>2, <1>3, <1>4, <1>5, BrainRests

----------------------------------------------------------------------------
(* Accounts are kept, and made *)

LEMMA FetchedIs ==
    ASSUME NEW table, NEW deal
    PROVE  FetchedOf(table, deal) # Unknown
BY PullAssumption DEF FetchedOf

\* An item whose records stay, and stay redacted, stays as accounted for.
LEMMA AccountStays ==
    ASSUME BrainOK, NEW i \in Items, NEW table, NEW deal,
           Taken(i, table, deal), Found(i, table, deal), blocks \subseteq blocks',
           records'[Origin[i]] = records[Origin[i]],
           \A p \in Origins : Range(records[p]) \subseteq Range(records'[p]),
           \A b \in Range(records[Origin[i]]) : b \in redacted => b \in redacted'
    PROVE  Taken(i, table, deal)' /\ Found(i, table, deal)'
<1>1. Taken(i, table, deal)'
  BY DEF Taken
<1>2. CASE \E b \in blocks : records[Origin[i]] = << b >> /\ Suits(table, deal, b)
  <2>1. PICK b \in blocks : records[Origin[i]] = << b >> /\ Suits(table, deal, b)
    BY <1>2
  <2>2. b \in Range(records[Origin[i]])
    BY <2>1 DEF Range
  <2>3. CASE ListedOf(table, deal) = FetchedOf(table, deal)
    <3>1. ListedOf(table, deal) # Unknown
      BY <2>3, FetchedIs
    <3>2. Suits(table, deal, b)'
      BY <2>1, <2>2, <3>1 DEF Suits
    <3> QED
      BY <1>1, <2>1, <3>2 DEF Found
  <2>4. CASE ListedOf(table, deal) # FetchedOf(table, deal)
    BY <1>1, <2>4 DEF Found
  <2> QED
    BY <2>3, <2>4
<1>3. CASE ~ \E b \in blocks : records[Origin[i]] = << b >> /\ Suits(table, deal, b)
  BY <1>1, <1>3 DEF Found
<1> QED
  BY <1>1, <1>2, <1>3

\* What a pull skips is registered, and found so again.
LEMMA SkippedIs ==
    ASSUME BrainOK, NEW i \in Items, NEW table, NEW deal,
           NEW r \in {index[Origin[i]], records[Origin[i]]},
           r # << >>, Suits(table, deal, r[1])
    PROVE  Taken(i, table, deal) /\ Found(i, table, deal)
<1> DEFINE own == records[Origin[i]]
<1>1. /\ own \in Seq(blocks) /\ r \in Seq(blocks) /\ Range(r) \subseteq Range(own)
  BY DEF BrainOK, Origins
<1>2. r[1] \in Range(r) /\ r[1] \in blocks
  BY <1>1 DEF Range
<1>3. Taken(i, table, deal)
  BY <1>1, <1>2 DEF Suits, Taken, Says, ListedOf
<1>4. Len(own) \in Nat /\ DOMAIN own = 1..Len(own)
  BY <1>1
<1>5. PICK k \in 1..Len(own) : own[k] = r[1]
  BY <1>1, <1>2, <1>4 DEF Range
<1>6. CASE Len(own) = 1
  <2>1. own = << r[1] >>
    BY <1>1, <1>4, <1>5, <1>6
  <2> QED
    BY <1>2, <1>3, <2>1 DEF Found
<1>7. CASE Len(own) > 1
  BY <1>3, <1>7 DEF Found
<1>8. Len(own) = 1 \/ Len(own) > 1
  <2> HIDE DEF own
  <2> QED
    BY <1>4, <1>5
<1> QED
  BY <1>6, <1>7, <1>8

\* What a pull registers is as declared, and is found again unless its bytes
\* are registered elsewhere.
LEMMA RegisteredIs ==
    ASSUME BrainOK, NEW i \in Items, NEW table, NEW deal, NEW b,
           b.data = deal.data, b.type = FetchedOf(table, deal),
           b.view = table.view, Registers(b, Origin[i]), index' = index
    PROVE  Taken(i, table, deal)' /\ Found(i, table, deal)'
<1>1. /\ b.data = deal.data /\ b.type = FetchedOf(table, deal) /\ b.view = table.view
  OBVIOUS
<1>2. Origin[i] \in Origins
  BY DEF Origins
<1>3. BrainOK' /\ b \in blocks'
  BY <1>2, RegistersIs
<1>4. Taken(i, table, deal)'
  BY <1>1, <1>3 DEF Taken, Says, FetchedOf
<1>5. PICK o \in Origins : b \in Range(records'[o])
  BY <1>3 DEF BrainOK
<1>6. CASE o # Origin[i]
  BY <1>1, <1>4, <1>5, <1>6 DEF Found
<1>7. CASE o = Origin[i]
  <2> DEFINE own == records'[o]
  <2>1. own \in Seq(blocks')
    BY <1>3 DEF BrainOK
  <2>2. PICK k \in 1..Len(own) : own[k] = b
    BY <1>5, <2>1 DEF Range
  <2>3. CASE Len(own) > 1
    BY <1>4, <1>7, <2>3 DEF Found
  <2>4. CASE Len(own) = 1
    <3>1. own = << b >>
      BY <2>1, <2>2, <2>4
    <3>2. CASE ListedOf(table, deal) = FetchedOf(table, deal)
      <4>1. ListedOf(table, deal) # Unknown
        BY <3>2, FetchedIs
      <4>2. Suits(table, deal, b)'
        BY <1>1, <3>2, <4>1 DEF Suits
      <4> QED
        BY <1>3, <1>4, <1>7, <3>1, <4>2 DEF Found
    <3> QED
      BY <1>4, <3>2 DEF Found
  <2>5. Len(own) = 1 \/ Len(own) > 1
    <3>1. PICK m \in Nat : m = Len(own)
      BY <2>1
    <3>2. k \in 1..m
      BY <3>1
    <3>3. m = 1 \/ m > 1
      BY <3>2
    <3> QED
      BY <3>1, <3>3
  <2> QED
    BY <2>3, <2>4, <2>5
<1> QED
  BY <1>6, <1>7

----------------------------------------------------------------------------
(* Every step keeps the accounts *)

LEMMA SettledStays ==
    ASSUME Accounts, settled' = settled,
           \A i \in Items, table \in Declarations, deal \in AnyOffer :
              Taken(i, table, deal) /\ Found(i, table, deal)
              => Taken(i, table, deal)' /\ Found(i, table, deal)'
    PROVE  Accounts'
BY DEF Accounts

\* What a registration of b from o changes, an item it does not concern is
\* not accounted for by.
LEMMA UnconcernedStays ==
    ASSUME BrainOK, NEW b, NEW o \in Origins, Registers(b, o), index' = index,
           NEW i \in Items, ~ Concerns(b, o, i), NEW table, NEW deal,
           Taken(i, table, deal), Found(i, table, deal)
    PROVE  Taken(i, table, deal)' /\ Found(i, table, deal)'
<1>1. Origin[i] \in Origins /\ Origin[i] # o
      /\ ~ (b \in redacted /\ b \in Range(records[Origin[i]]))
  BY DEF Concerns, Origins
<1>2. /\ blocks' = blocks \cup {b} /\ redacted' \in {redacted, redacted \ {b}}
      /\ records'[Origin[i]] = records[Origin[i]]
      /\ \A p \in Origins : Range(records[p]) \subseteq Range(records'[p])
  BY <1>1, RegistersIs
<1>3. \A c \in Range(records[Origin[i]]) : c \in redacted => c \in redacted'
  BY <1>1, <1>2
<1> QED
  BY <1>2, <1>3, AccountStays

LEMMA AccountsKeep ==
    ASSUME IInv, [Next]_vars
    PROVE  Accounts'
<1>1. PullOK /\ BrainOK /\ Accounts
  BY DEF IInv
<1>2. /\ settled \in [Items -> {Unsettled} \cup (Declarations \X AnyOffer)]
      /\ \A i \in Items, table \in Declarations, deal \in AnyOffer :
           settled[i] = << table, deal >> => Taken(i, table, deal) /\ Found(i, table, deal)
      /\ \A table, deal : << table, deal >> # Unsettled
  BY <1>1 DEF Accounts, Unsettled
<1>3. CASE Register
  <2>1. /\ Item \in Items /\ AsListed \in AnyOffer /\ Declared \in Declarations
        /\ Origin[Item] \in Origins /\ Registers(got, Origin[Item])
        /\ index' = index /\ RegistrationAccounted
    BY <1>1, <1>3, RegisterIs
  <2> PICK b : b = got
    OBVIOUS
  <2> PICK it \in Items, table \in Declarations, deal \in AnyOffer :
        it = Item /\ table = Declared /\ deal = AsListed
    BY <2>1
  <2>2. settled' = [i \in Items |->
                      IF i = it THEN Account(got = Acquired(AsListed))
                      ELSE IF Concerns(b, Origin[it], i) THEN Unsettled ELSE settled[i]]
    BY <2>1 DEF RegistrationAccounted
  <2>3. Account(got = Acquired(AsListed)) \in {Unsettled, << table, deal >>}
    BY DEF Account
  <2>4. settled' \in [Items -> {Unsettled} \cup (Declarations \X AnyOffer)]
    BY <1>2, <2>2, <2>3
  <2>5. ASSUME settled'[it] = << table, deal >>
        PROVE  Taken(it, table, deal)' /\ Found(it, table, deal)'
    <3>1. got = Acquired(AsListed)
      BY <1>2, <2>2, <2>5 DEF Account
    <3>2. FetchedType(AsListed) = FetchedOf(table, deal)
      BY DEF FetchedType, FetchedOf
    <3>3. /\ b.data = deal.data /\ b.type = FetchedOf(table, deal)
          /\ b.view = table.view
      BY <3>1, <3>2 DEF Acquired
    <3> QED
      BY <1>1, <2>1, <3>3, RegisteredIs
  <2>6. ASSUME NEW i \in Items, NEW t \in Declarations, NEW d \in AnyOffer,
               settled'[i] = << t, d >>
        PROVE  Taken(i, t, d)' /\ Found(i, t, d)'
    <3>1. CASE i = it
      <4>1. t = table /\ d = deal
        BY <1>2, <2>2, <2>3, <2>6, <3>1
      <4> QED
        BY <2>5, <2>6, <3>1, <4>1
    <3>2. CASE i # it
      <4>1. ~ Concerns(b, Origin[it], i) /\ settled[i] = << t, d >>
        BY <1>2, <2>2, <2>6, <3>2
      <4> QED
        BY <1>1, <1>2, <2>1, <4>1, UnconcernedStays
    <3> QED
      BY <3>1, <3>2
  <2> QED
    BY <2>4, <2>6 DEF Accounts
<1>4. ASSUME NEW b \in Blocks, NEW o \in Origins, RegisterByHand(b, o)
      PROVE  Accounts'
  <2>1. /\ Registers(b, o) /\ index' = index
        /\ settled' = [i \in Items |-> IF Concerns(b, o, i) THEN Unsettled ELSE settled[i]]
    BY <1>4 DEF RegisterByHand, pulling
  <2>2. settled' \in [Items -> {Unsettled} \cup (Declarations \X AnyOffer)]
    BY <1>2, <2>1
  <2>3. ASSUME NEW i \in Items, NEW t \in Declarations, NEW d \in AnyOffer,
               settled'[i] = << t, d >>
        PROVE  Taken(i, t, d)' /\ Found(i, t, d)'
    <3>1. ~ Concerns(b, o, i) /\ settled[i] = << t, d >>
      BY <1>2, <2>1, <2>3
    <3> QED
      BY <1>1, <1>2, <2>1, <3>1, UnconcernedStays
  <2> QED
    BY <2>2, <2>3 DEF Accounts
<1>5. CASE \E b \in blocks : Redact(b)
  <2>1. /\ settled' = settled /\ blocks' = blocks /\ records' = records
        /\ redacted \subseteq redacted'
    BY <1>5 DEF Redact
  <2>2. \A i \in Items, table \in Declarations, deal \in AnyOffer :
           Taken(i, table, deal) /\ Found(i, table, deal)
           => Taken(i, table, deal)' /\ Found(i, table, deal)'
    BY <1>1, <2>1, AccountStays
  <2> QED
    BY <1>1, <2>1, <2>2, SettledStays
<1>6. CASE Skip
  <2>1. /\ queue # << >> /\ todo # << >> /\ todo \in Seq(Sources)
        /\ declared \in [Sources -> Declarations]
        /\ UNCHANGED << blocks, redacted, records >>
        /\ settled' \in {settled, [settled EXCEPT ![Item] = Account(TRUE)]}
    BY <1>1, <1>6 DEF Skip, Reached, PullOK, brain
  <2>2. Item \in Items /\ AsListed \in AnyOffer /\ Declared \in Declarations
    <3>1. Head(todo) \in Sources
      BY <2>1
    <3> QED
      BY <1>1, <2>1, <3>1, TailIs DEF Declared
  <2> PICK it \in Items, table \in Declarations, deal \in AnyOffer :
        it = Item /\ table = Declared /\ deal = AsListed
    BY <2>2
  <2>3. PICK r \in RegisteredAs : r # << >> /\ Matches(r[1])
    BY <1>6 DEF Skip, Held
  <2>4. /\ r \in {index[Origin[it]], records[Origin[it]]} /\ Suits(table, deal, r[1])
    BY <2>3 DEF RegisteredAs, Matches, Suits, ListedType, ListedOf
  <2>5. Taken(it, table, deal) /\ Found(it, table, deal)
    BY <1>1, <2>3, <2>4, SkippedIs
  <2>6. \A i \in Items, t \in Declarations, d \in AnyOffer :
           Taken(i, t, d) /\ Found(i, t, d) => Taken(i, t, d)' /\ Found(i, t, d)'
    BY <2>1 DEF Taken, Found, Suits
  <2>7. CASE settled' = settled
    BY <1>1, <2>6, <2>7, SettledStays
  <2>8. CASE settled' = [settled EXCEPT ![it] = Account(TRUE)]
    <3>1. PICK now \in {Unsettled, << table, deal >>} : now = Account(TRUE)
      BY DEF Account
    <3> settled' = [settled EXCEPT ![it] = now]
      BY <2>8, <3>1
    <3>2. settled' \in [Items -> {Unsettled} \cup (Declarations \X AnyOffer)]
      BY <1>2
    <3>3. ASSUME NEW i \in Items, NEW t \in Declarations, NEW d \in AnyOffer,
                 settled'[i] = << t, d >>
          PROVE  Taken(i, t, d)' /\ Found(i, t, d)'
      <4>1. CASE i = it
        <5>1. t = table /\ d = deal
          BY <1>2, <3>3, <4>1
        <5> QED
          BY <2>5, <2>6, <4>1, <5>1
      <4>2. CASE i # it
        <5>1. settled[i] = << t, d >>
          BY <1>2, <3>3, <4>2
        <5> QED
          BY <1>2, <2>6, <5>1
      <4> QED
        BY <4>1, <4>2
    <3> QED
      BY <3>2, <3>3 DEF Accounts
  <2> QED
    BY <2>1, <2>7, <2>8
<1>7. CASE UNCHANGED << blocks, redacted, records, settled >>
  BY <1>7, <1>1, SettledStays DEF Taken, Found, Suits
<1>8. CASE Enter
  BY <1>7, <1>8 DEF Enter, brain
<1>9. ASSUME ~ Register, ~ Skip, ~ Enter,
             ~ (\E b \in Blocks, o \in Origins : RegisterByHand(b, o)),
             ~ (\E b \in blocks : Redact(b))
      PROVE  settled' = settled
  <2>1. CASE Begins
    BY <2>1 DEF Begins, Begin
  <2>2. CASE Pulling
    BY <1>9, <2>2 DEF Pulling, List, Unlisted, NextSource, Return, NotReached,
                      Preflight, GoFetch, Fetch, FetchFails, FetchUnavailable, FetchRaises, Refuse
  <2>3. CASE Busy \/ RegisterFails
    BY <2>3 DEF Busy, RegisterFails
  <2>4. CASE Around
    BY <1>9, <2>4 DEF Around, Edit, Outage, Redeclare
  <2>5. CASE UNCHANGED vars
    BY <2>5 DEF vars
  <2> QED
    BY <2>1, <2>2, <2>3, <2>4, <2>5 DEF Next
<1> QED
  BY <1>3, <1>4, <1>5, <1>6, <1>7, <1>8, <1>9, BrainRests

LEMMA IndexKeeps ==
    ASSUME IInv, [Next]_vars
    PROVE  IndexServes'
<1>1. PullOK /\ BrainOK /\ IndexServes
      /\ settled \in [Items -> {Unsettled} \cup (Declarations \X AnyOffer)]
      /\ \A n \in DOMAIN queue : queue[n].item \in Items
  <2> DEFINE entries == [item : Items, as : AnyOffer]
  <2>1. queue \in Seq(entries)
    BY DEF IInv, PullOK
  <2> HIDE DEF entries
  <2>2. \A n \in DOMAIN queue : queue[n] \in entries
    BY <2>1
  <2> USE DEF entries
  <2> QED
    BY <2>2 DEF IInv, Accounts
<1> SUFFICES ASSUME step' \in {"item", "fetch", "check"}, NEW n \in DOMAIN queue',
                    NEW i, i = queue'[n].item, settled'[i] # Unsettled
             PROVE  index'[Origin[i]] = records'[Origin[i]]
  BY DEF IndexServes
<1>2. ASSUME step \in {"item", "fetch", "check"}, NEW m \in DOMAIN queue, i = queue[m].item
      PROVE  /\ i \in Items
             /\ settled[i] # Unsettled => index[Origin[i]] = records[Origin[i]]
  BY <1>1, <1>2 DEF IndexServes
<1>3. CASE Rowing
  <2>1. /\ queue # << >> /\ step \in {"item", "fetch", "check"}
        /\ queue' = Tail(queue) /\ index' = index
    BY <1>1, <1>3, RowIs
  <2>2. /\ n + 1 \in DOMAIN queue /\ i = queue[n + 1].item /\ i # Item
        /\ Item \in Items
    BY <1>1, <2>1, TailIs
  <2>3. i \in Items /\ (settled[i] # Unsettled => index[Origin[i]] = records[Origin[i]])
    BY <1>2, <2>1, <2>2
  <2>4. CASE Register
    <3>1. /\ Origin[Item] \in Origins /\ Registers(got, Origin[Item])
          /\ RegistrationAccounted
      BY <1>1, <2>4, RegisterIs
    <3>2. ~ Concerns(got, Origin[Item], i) /\ settled[i] # Unsettled
      BY <2>2, <2>3, <3>1 DEF RegistrationAccounted
    <3>3. Origin[i] # Origin[Item] /\ Origin[i] \in Origins
      BY <2>3, <3>2 DEF Concerns, Origins
    <3>4. records'[Origin[i]] = records[Origin[i]]
      BY <1>1, <2>1, <3>1, <3>3, RegistersIs
    <3> QED
      BY <2>1, <2>3, <3>2, <3>4
  <2>5. CASE Skip
    <3>1. records' = records /\ settled'[i] = settled[i]
      BY <1>1, <2>2, <2>3, <2>5 DEF Skip, brain
    <3> QED
      BY <2>1, <2>3, <3>1
  <2>6. CASE NotReached \/ Preflight \/ FetchFails \/ Refuse \/ RegisterFails
    <3>1. records' = records /\ settled' = settled
      BY <2>6 DEF NotReached, Preflight, FetchFails, Refuse, RegisterFails, brain
    <3> QED
      BY <2>1, <2>3, <3>1
  <2> QED
    BY <1>3, <2>4, <2>5, <2>6 DEF Rowing
<1>4. CASE Enter
  BY <1>4 DEF Enter, brain
<1>5. CASE GoFetch \/ Fetch
  <2>1. /\ step \in {"item", "fetch", "check"}
        /\ UNCHANGED << queue, index, records, settled >>
    BY <1>5 DEF GoFetch, Fetch, Reached, brain
  <2> QED
    BY <1>2, <2>1
<1>6. CASE Around
  <2>1. UNCHANGED << step, queue, index >>
    BY <1>6 DEF Around, Edit, Outage, Redeclare, Redact, RegisterByHand, pulling
  <2>2. ASSUME NEW b \in Blocks, NEW o \in Origins, RegisterByHand(b, o)
        PROVE  index'[Origin[i]] = records'[Origin[i]]
    <3>1. Registers(b, o) /\ i \in Items /\ ~ Concerns(b, o, i) /\ settled[i] # Unsettled
      BY <1>2, <2>1, <2>2 DEF RegisterByHand
    <3>2. Origin[i] # o /\ Origin[i] \in Origins
      BY <3>1 DEF Concerns, Origins
    <3>3. records'[Origin[i]] = records[Origin[i]]
      BY <1>1, <2>1, <3>1, <3>2, RegistersIs
    <3> QED
      BY <1>2, <2>1, <3>1, <3>3
  <2>3. CASE UNCHANGED << records, settled >>
    BY <1>2, <2>1, <2>3
  <2> QED
    BY <1>6, <2>2, <2>3 DEF Around, Edit, Outage, Redeclare, Redact, brain
<1>7. CASE UNCHANGED vars
  <2>1. UNCHANGED << step, queue, index, records, settled >>
    BY <1>7 DEF vars, pulling, brain
  <2> QED
    BY <1>2, <2>1
<1>8. ASSUME Begins \/ List \/ Unlisted \/ Return \/ FetchUnavailable \/ FetchRaises
             \/ Busy \/ NextSource
      PROVE  FALSE
  <2>1. CASE Unlisted
    BY <1>1, <2>1 DEF Unlisted
  <2> QED
    BY <1>8, <2>1 DEF Begins, Begin, List, Return, FetchUnavailable, FetchRaises, Busy, NextSource
<1> QED
  BY <1>3, <1>4, <1>5, <1>6, <1>7, <1>8 DEF Next, Pulling, Rowing

\* Between the decision to fetch an item and the fetch nothing of it changes.
LEMMA FetchKeeps ==
    ASSUME IInv, [Next]_vars
    PROVE  FetchIsDue'
<1> SUFFICES ASSUME step' = "fetch"
             PROVE  (\E r \in RegisteredAs : ~ Held(r))'
  BY DEF FetchIsDue
<1>1. PullOK /\ FetchIsDue
  BY DEF IInv
<1>2. ASSUME UNCHANGED << index, records, redacted, queue, todo, mode, declared >>,
             \E r \in RegisteredAs : ~ Held(r)
      PROVE  (\E r \in RegisteredAs : ~ Held(r))'
  BY <1>2 DEF RegisteredAs, Held, Matches, ListedType, Declared, AsListed, Item
<1>3. CASE GoFetch
  <2>1. /\ UNCHANGED << index, records, redacted, queue, todo, mode, declared >>
        /\ \E r \in RegisteredAs : ~ Held(r)
    BY <1>3 DEF GoFetch, outside, brain
  <2> QED
    BY <1>2, <2>1
<1>4. CASE step = "fetch" /\ (Around \/ UNCHANGED vars)
  <2>1. ~ Writable /\ step # "idle"
    BY <1>1, <1>4 DEF Writable, PullOK
  <2>2. UNCHANGED << index, records, redacted, queue, todo, mode, declared >>
    <3>1. CASE Around
      BY <2>1, <3>1 DEF Around, Edit, Outage, Redeclare, Redact, RegisterByHand,
                        pulling, brain
    <3>2. CASE UNCHANGED vars
      BY <3>2 DEF vars, outside, pulling, brain
    <3> QED
      BY <1>4, <3>1, <3>2
  <2>3. \E r \in RegisteredAs : ~ Held(r)
    BY <1>1, <1>4 DEF FetchIsDue
  <2> QED
    BY <1>2, <2>2, <2>3
<1>5. ASSUME Around \/ UNCHANGED vars
      PROVE  step = "fetch"
  BY <1>5 DEF Around, Edit, Outage, Redeclare, Redact, RegisterByHand, pulling, vars
<1>6. ASSUME Rowing
      PROVE  FALSE
  BY <1>1, <1>6, RowIs
<1>7. ASSUME \/ Begins \/ List \/ Unlisted \/ Return \/ FetchUnavailable
             \/ FetchRaises \/ Busy \/ NextSource \/ Enter \/ Fetch
      PROVE  FALSE
  <2>1. CASE Unlisted
    BY <2>1 DEF Unlisted
  <2> QED
    BY <1>7, <2>1 DEF Begins, Begin, List, Return, FetchUnavailable, FetchRaises,
                      Busy, NextSource, Enter, Fetch
<1> QED
  BY <1>3, <1>4, <1>5, <1>6, <1>7 DEF Next, Pulling, Rowing

LEMMA InitHolds == Init => IInv
<1> SUFFICES ASSUME Init
             PROVE  IInv
  OBVIOUS
<1>1. /\ DOMAIN << >> = {} /\ Len(<< >>) = 0 /\ Range(<< >>) = {}
      /\ \A S : << >> \in Seq(S)
  BY DEF Range
<1>2. PullOK
  <2>1. offer \in [Items -> AnyOffer] /\ declared \in [Sources -> Declarations]
        /\ step = "idle" /\ mode \in Modes /\ todo = << >> /\ queue = << >>
    BY DEF Init
  <2> QED
    BY <1>1, <2>1 DEF PullOK
<1>3. BrainOK
  <2>1. blocks = {} /\ index = records /\ records = [o \in Origins |-> << >>]
    BY DEF Init
  <2>2. /\ records \in [Origins -> Seq(blocks)]
        /\ \A o \in Origins : records[o] = << >>
    BY <1>1, <2>1
  <2> QED
    BY <1>1, <2>1, <2>2 DEF BrainOK
<1>4. IndexServes /\ FetchIsDue
  BY DEF Init, IndexServes, FetchIsDue
<1>5. Accounts
  <2>1. settled = [i \in Items |-> Unsettled]
    BY DEF Init
  <2>2. \A table, deal : << table, deal >> # Unsettled
    BY DEF Unsettled
  <2> QED
    BY <2>1, <2>2 DEF Accounts
<1> QED
  BY <1>2, <1>3, <1>4, <1>5 DEF IInv

LEMMA Invariant == Spec => []IInv
<1>1. IInv /\ [Next]_vars => IInv'
  BY PullKeeps, BrainKeeps, IndexKeeps, FetchKeeps, AccountsKeep DEF IInv
<1> QED
  BY <1>1, InitHolds, PTL DEF Spec

\* An item a pull accounted for, skips included, is in the brain the way its
\* source declares it now, whatever was edited, registered or redacted around
\* the pulls (_matches_declaration).
THEOREM DeclarationsHold == Spec => []DeclarationsTakeEffect
<1>1. ASSUME IInv
      PROVE  DeclarationsTakeEffect
  <2> SUFFICES ASSUME NEW i \in Items, Unchanged(i)
               PROVE  \E b \in blocks :
                         /\ b.data = offer[i].data \/ b \in Range(records[Origin[i]])
                         /\ b \in redacted \/ Says(declared[SourceOf(i)], b)
    BY DEF DeclarationsTakeEffect
  <2>1. offer[i] \in AnyOffer /\ SourceOf(i) \in Sources
    BY <1>1 DEF IInv, PullOK, SourceOf, Items
  <2>2. declared[SourceOf(i)] \in Declarations
    BY <1>1, <2>1 DEF IInv, PullOK
  <2>3. Taken(i, declared[SourceOf(i)], offer[i])
    BY <1>1, <2>1, <2>2 DEF IInv, Accounts, Unchanged
  <2> QED
    BY <2>3 DEF Taken
<1> QED
  BY <1>1, Invariant, PTL

\* What a pull accounted for and nobody changed is not downloaded again, but
\* for what was corrected, is registered elsewhere or of an unknown type.
THEOREM HeldStays == Spec => []HeldIsNotFetched
<1>1. ASSUME IInv
      PROVE  HeldIsNotFetched
  <2> SUFFICES ASSUME step = "fetch", ~ mode.refetch,
                      settled[Item] = << Declared, AsListed >>,
                      ~ (Len(records[Origin[Item]]) > 1),
                      ~ \E o \in Origins \ {Origin[Item]} :
                           \E b \in Range(records[o]) : b.data = AsListed.data,
                      ListedType = FetchedType(AsListed)
               PROVE  FALSE
    BY DEF HeldIsNotFetched
  <2>1. /\ queue # << >> /\ todo # << >> /\ todo \in Seq(Sources)
        /\ declared \in [Sources -> Declarations] /\ PullOK
    BY <1>1 DEF IInv, PullOK
  <2>2. /\ Item \in Items /\ AsListed \in AnyOffer /\ 1 \in DOMAIN queue
        /\ queue[1].item = Item
    BY <2>1, TailIs
  <2>3. Declared \in Declarations
    <3>1. Head(todo) \in Sources
      BY <2>1
    <3> QED
      BY <2>1, <3>1 DEF Declared
  <2>4. Found(Item, Declared, AsListed)
    BY <1>1, <2>2, <2>3 DEF IInv, Accounts
  <2>5. /\ ListedType = ListedOf(Declared, AsListed)
        /\ FetchedType(AsListed) = FetchedOf(Declared, AsListed)
    BY DEF ListedType, ListedOf, FetchedType, FetchedOf
  <2>6. PICK b \in blocks :
           records[Origin[Item]] = << b >> /\ Suits(Declared, AsListed, b)
    BY <2>4, <2>5 DEF Found
  <2>7. index[Origin[Item]] = records[Origin[Item]]
    <3>1. settled[Item] # Unsettled
      BY DEF Unsettled
    <3> QED
      BY <1>1, <2>2, <3>1 DEF IInv, IndexServes
  <2>8. \A r \in RegisteredAs : r = << b >>
    BY <2>6, <2>7 DEF RegisteredAs
  <2>9. Matches(b)
    BY <2>6 DEF Suits, Matches, ListedType, ListedOf
  <2>10. \A r \in RegisteredAs : Held(r)
    BY <2>8, <2>9 DEF Held
  <2> QED
    BY <1>1, <2>10 DEF IInv, FetchIsDue
<1> QED
  BY <1>1, Invariant, PTL
=============================================================================
