---------------------------- MODULE BranchesProofs ----------------------------
(***************************************************************************)
(* Proofs about the branches of a brain, for any actors, branches and      *)
(* bounds.  A line moves only by its own operations, what was committed    *)
(* here stays named, a push goes under the tag of the branch it is of, an  *)
(* open reconciliation stands, and a fetch decides nothing.                *)
(*                                                                         *)
(* IInv says what an actor relies on between two of its steps: of whoever  *)
(* is inside the session's write, that nobody else moved the pointers; of  *)
(* whoever only looked, that it was overtaken or what it saw still holds.  *)
(* WorkIsNamed is proved of the lines alone, since a checkout overwrites   *)
(* what the table last recorded of the branch it leaves.                   *)
(***************************************************************************)
EXTENDS Branches, TLAPS

USE BranchesAssumption

\* The table, the branch it says the brain is on, and the lines.
CurrentOf(t, h) ==
    IF t.switching \in DOMAIN t.at /\ t.at[t.switching] = h
    THEN t.switching ELSE t.current
NamedOf(t, h) == DOMAIN t.at \cup {CurrentOf(t, h)}
LineOf(t, h, b) == IF b = CurrentOf(t, h) THEN h ELSE t.at[b]
Table(current, switching, at, aligned) ==
    [current |-> current, switching |-> switching, at |-> at, aligned |-> aligned]
TableOK(t, some) ==
    /\ t = Table(t.current, t.switching, t.at, t.aligned)
    /\ DOMAIN t.at \subseteq Branches /\ \A b \in DOMAIN t.at : t.at[b] \in some
    /\ DOMAIN t.at # {} =>
         t.current \in DOMAIN t.at /\ t.switching \in DOMAIN t.at \cup {None}
    /\ DOMAIN t.at = {} => t.current = Main /\ t.switching = None
    /\ t.aligned \in BOOLEAN
Named == NamedOf(table, head)

PastOK ==
    /\ past \in Seq(SUBSET Snapshots) /\ Len(past) \in 1..MaxSnapshots
    /\ \A s \in Snapshots : s \in past[s]
    /\ \A s, t \in Snapshots : s \in past[t] => past[s] \subseteq past[t]
Pointers ==
    /\ head \in Snapshots /\ published \in SUBSET Snapshots
    /\ mine \in SUBSET Snapshots /\ TableOK(table, Snapshots)
    /\ tags \in [Tags -> Snapshots \cup {Nothing}] /\ tags[Main] # Nothing
    /\ open \in [ours : Snapshots \cup {Nothing},
                 theirs : Snapshots \cup {Nothing}, answered : BOOLEAN]
    /\ writer \in Actors \cup {None}

Within(r) ==
    \/ r.pc \in {"moving", "moved", "align", "pushing", "confirm", "install"}
    \/ r.pc = "checkout" /\ r.creates
Writes == \A a \in Actors : Within(op[a]) <=> writer = a

\* What an actor with operation r may rely on.
Knows(r) ==
    /\ r.pc \in {"contains", "plan", "reconcile"} => r.theirs \in Snapshots
    /\ r.pc = "moving" =>
         /\ r.branch \in Known /\ table.switching = r.branch
         /\ table.at[table.current] = head /\ open = Closed
    /\ r.pc = "moved" =>
         /\ r.branch \in Known /\ table.switching = r.branch
         /\ table.at[r.branch] = head
    /\ r.pc = "install" => tags[r.branch] # Nothing /\ table.aligned
    /\ r.pc \in {"push", "pushing", "confirm"} /\ ~r.given /\ ~r.overtaken =>
         r.branch = Current
    /\ r.pc \in {"plan", "reconcile"} /\ r.fetched /\ ~r.overtaken =>
         r.theirs \notin past[head]
    /\ r.pc = "reconcile" /\ r.fetched /\ ~r.overtaken => Clean(head, r.theirs)

OpenOK == open # Closed => open.ours = head /\ open.theirs \in Snapshots
OnLine(s) == \E b \in Named : s \in past[Line(b)]
WorkOnLines == \A s \in mine : OnLine(s) \/ \E h \in published : s \in past[h]

IInv ==
    /\ PastOK /\ Pointers /\ op \in [Actors -> Operations] /\ Writes
    /\ \A a \in Actors : Knows(op[a])
    /\ OpenOK /\ WorkOnLines

\* What a step may do, as the action properties say it.
StepLines ==
    \A b \in (Known \cup {Current}) \cap (Known' \cup {Current'}) :
        \/ Line(b)' = Line(b)
        \/ Installing(b)
        \/ b = Current /\ \A c \in Branches : ~Installing(c)
StepOpen ==
    open # Closed =>
        \/ open' = Closed
        \/ open'.theirs = open.theirs /\ open'.ours = head' /\ head' = head
StepFetch ==
    \A a \in Actors :
        /\ op[a].pc = "reconcile" /\ op'[a].pc = "idle"
        /\ op[a].fetched /\ ~op[a].overtaken
        => /\ open' = open
           /\ head' # head => op[a].theirs \notin past[head]
Advances == IInv' /\ StepLines /\ StepOpen /\ StepFetch

PastGrows ==
    /\ Snapshots \subseteq Snapshots'
    /\ \A s \in Snapshots : past'[s] = past[s]

----------------------------------------------------------------------------
(* Histories, tables and lines *)

\* A minted snapshot descends from its parents and from what they do.
LEMMA MintIs ==
    ASSUME PastOK, NEW parents \in SUBSET Snapshots, Mint(parents)
    PROVE  /\ PastOK' /\ PastGrows /\ New \in Snapshots'
           /\ New \in past'[New]
           /\ \A p \in parents : past[p] \subseteq past'[New]
<1> DEFINE newest == {New} \cup UNION {past[p] : p \in parents}
           n == Len(past)
<1>1. /\ past' = Append(past, newest) /\ n \in Nat /\ n >= 1 /\ New = n + 1
      /\ New <= MaxSnapshots /\ past \in Seq(SUBSET (1..n))
      /\ Snapshots = 1..n
  BY DEF Mint, PastOK, New, Snapshots
<1>2. \A s \in 1..n : past[s] \in SUBSET (1..n)
  BY <1>1
<1>3. newest \in SUBSET (1..(n + 1))
  BY <1>1, <1>2
<1> HIDE DEF newest
<1>4. past \in Seq(SUBSET (1..(n + 1)))
  <2>1. SUBSET (1..n) \subseteq SUBSET (1..(n + 1))
    BY <1>1
  <2> HIDE DEF n
  <2> QED
    BY <1>1, <1>2, <2>1
<1>5. /\ past' \in Seq(SUBSET (1..(n + 1))) /\ Len(past') = n + 1
      /\ past'[n + 1] = newest /\ \A s \in 1..n : past'[s] = past[s]
  BY <1>1, <1>3, <1>4
<1>6. Snapshots' = 1..(n + 1)
  BY <1>5 DEF Snapshots
<1>7. PastGrows /\ New \in Snapshots'
  BY <1>1, <1>5, <1>6 DEF PastGrows
<1>8. /\ New \in newest
      /\ \A p \in parents : past[p] \subseteq newest
      /\ \A s \in newest : s = New \/ \E p \in parents : s \in past[p]
  BY DEF newest
<1>9. ASSUME NEW s \in 1..(n + 1)
      PROVE  s \in past'[s]
  BY <1>1, <1>5, <1>8, <1>9 DEF PastOK
<1>10. ASSUME NEW s \in 1..(n + 1), NEW t \in 1..(n + 1), s \in past'[t]
       PROVE  past'[s] \subseteq past'[t]
  <2>1. CASE t \in 1..n
    <3>1. s \in past[t] /\ s \in 1..n
      BY <1>2, <1>5, <1>10, <2>1
    <3> QED
      BY <1>1, <1>5, <2>1, <3>1 DEF PastOK
  <2>2. CASE t = n + 1 /\ s # New
    <3>1. PICK p \in parents : s \in past[p]
      BY <1>5, <1>8, <1>10, <2>2
    <3>2. p \in 1..n /\ s \in 1..n
      BY <1>1, <1>2, <3>1
    <3>3. past[s] \subseteq past[p]
      BY <1>1, <3>1, <3>2 DEF PastOK
    <3> QED
      BY <1>5, <1>8, <2>2, <3>1, <3>2, <3>3
  <2>3. CASE t = n + 1 /\ s = New
    BY <1>1, <2>3
  <2> QED
    BY <1>1, <2>1, <2>2, <2>3
<1>11. PastOK'
  BY <1>1, <1>5, <1>6, <1>9, <1>10 DEF PastOK
<1> QED
  BY <1>1, <1>5, <1>7, <1>8, <1>11

LEMMA PastStays ==
    ASSUME PastOK, UNCHANGED past
    PROVE  PastOK' /\ PastGrows
BY DEF PastOK, PastGrows, Snapshots

\* The branch a brain is on is one of its branches.
LEMMA TableIs ==
    ASSUME NEW t, NEW some, TableOK(t, some), NEW h
    PROVE  /\ CurrentOf(t, h) \in Branches /\ NamedOf(t, h) \subseteq Branches
           /\ DOMAIN t.at # {} =>
                CurrentOf(t, h) \in DOMAIN t.at /\ NamedOf(t, h) = DOMAIN t.at
           /\ DOMAIN t.at = {} => CurrentOf(t, h) = Main /\ NamedOf(t, h) = {Main}
           /\ t.switching = None => CurrentOf(t, h) = t.current
           /\ h \in some => \A b \in NamedOf(t, h) : LineOf(t, h, b) \in some
BY DEF TableOK, CurrentOf, NamedOf, LineOf

LEMMA NowIs ==
    /\ Current = CurrentOf(table, head) /\ Current' = CurrentOf(table', head')
    /\ Known = DOMAIN table.at /\ Known' = DOMAIN table'.at
    /\ Named = Known \cup {Current} /\ Named' = Known' \cup {Current'}
    /\ Named = NamedOf(table, head) /\ Named' = NamedOf(table', head')
    /\ \A b : /\ Line(b) = LineOf(table, head, b)
              /\ Line(b)' = LineOf(table', head', b)
BY DEF Current, CurrentOf, Known, Named, NamedOf, Line, LineOf

\* A settled table says the same of every branch, and in plain words.
LEMMA SettledIs ==
    ASSUME TableOK(table, Snapshots)
    PROVE  /\ Settled = Table(Current, None, table.at, table.aligned)
           /\ Settled.current = Current /\ Settled.switching = None
           /\ Settled.at = table.at /\ Settled.aligned = table.aligned
           /\ TableOK(Settled, Snapshots)
<1>1. Settled = Table(Current, None, table.at, table.aligned)
  <2> DEFINE half == [table EXCEPT !.current = Current]
  <2>1. half = Table(Current, table.switching, table.at, table.aligned)
    BY DEF TableOK, Table
  <2>2. [half EXCEPT !.switching = None]
        = Table(Current, None, table.at, table.aligned)
    <3> HIDE DEF half
    <3> QED
      BY <2>1 DEF Table
  <2> QED
    BY <2>2 DEF Settled
<1>2. /\ Settled.current = Current /\ Settled.switching = None
      /\ Settled.at = table.at /\ Settled.aligned = table.aligned
  BY <1>1 DEF Table
<1>3. TableOK(Settled, Snapshots)
  <2>1. /\ DOMAIN table.at # {} => Current \in DOMAIN table.at
        /\ DOMAIN table.at = {} => Current = Main
    BY NowIs, TableIs
  <2> QED
    BY <1>1, <1>2, <2>1 DEF TableOK
<1> QED
  BY <1>1, <1>2, <1>3

\* The lines after a step that settles the table and may move the head.
LEMMA SettledLines ==
    ASSUME TableOK(table, Snapshots), table'.at = table.at,
           table'.current = Current, table'.switching = None
    PROVE  /\ Current' = Current /\ Named' = Named /\ Known' = Known
           /\ Line(Current) = head /\ Line(Current)' = head'
           /\ \A b \in Named \ {Current} : Line(b)' = Line(b)
           /\ head' = head => \A b \in Named : Line(b)' = Line(b)
<1>1. None \notin DOMAIN table.at
  BY DEF TableOK
<1>2. Current' = Current /\ Known' = Known
  BY <1>1, NowIs DEF CurrentOf
<1> QED
  BY <1>2, NowIs DEF LineOf

\* An aligned table says the same of every branch.
LEMMA AlignedIs ==
    ASSUME NEW t, NEW some, TableOK(t, some)
    PROVE  /\ [t EXCEPT !.aligned = TRUE].current = t.current
           /\ [t EXCEPT !.aligned = TRUE].switching = t.switching
           /\ [t EXCEPT !.aligned = TRUE].at = t.at
           /\ [t EXCEPT !.aligned = TRUE].aligned
           /\ TableOK([t EXCEPT !.aligned = TRUE], some)
<1> SUFFICES ASSUME NEW yes \in BOOLEAN, yes
             PROVE  /\ [t EXCEPT !.aligned = yes].current = t.current
                    /\ [t EXCEPT !.aligned = yes].switching = t.switching
                    /\ [t EXCEPT !.aligned = yes].at = t.at
                    /\ [t EXCEPT !.aligned = yes].aligned
                    /\ TableOK([t EXCEPT !.aligned = yes], some)
  OBVIOUS
<1> DEFINE u == [t EXCEPT !.aligned = yes]
<1>1. u = Table(t.current, t.switching, t.at, yes)
  <2>1. t = Table(t.current, t.switching, t.at, t.aligned)
    BY DEF TableOK
  <2>2. PICK c, s, f, y : t = Table(c, s, f, y)
    BY <2>1
  <2>3. t.current = c /\ t.switching = s /\ t.at = f
    BY <2>2 DEF Table
  <2>4. u = Table(c, s, f, yes)
    BY ONLY <2>2 DEF Table
  <2> QED
    BY <2>3, <2>4
<1> HIDE DEF u
<1>2. /\ u.current = t.current /\ u.switching = t.switching
      /\ u.at = t.at /\ u.aligned = yes
  BY <1>1 DEF Table
<1>3. TableOK(u, some)
  BY <1>1, <1>2 DEF TableOK
<1> QED
  BY <1>2, <1>3 DEF u

----------------------------------------------------------------------------
(* What every step owes *)

\* Whoever is not the one that steps keeps its operation, and is overtaken
\* when what it read changes.
LEMMA GoesIs ==
    ASSUME op \in [Actors -> Operations], NEW a \in Actors,
           NEW record \in Operations, Goes(a, record)
    PROVE  /\ op' \in [Actors -> Operations] /\ op'[a] = record
           /\ \A c \in Actors \ {a} :
                /\ op'[c].pc = op[c].pc /\ op'[c].branch = op[c].branch
                /\ op'[c].theirs = op[c].theirs /\ op'[c].creates = op[c].creates
                /\ op'[c].given = op[c].given
                /\ op'[c].fetched = op[c].fetched
                /\ ~op'[c].overtaken =>
                     /\ ~op[c].overtaken
                     /\ op[c].pc = "push" => Current' = Current
                     /\ op[c].pc \in {"plan", "reconcile"} => head' = head
<1> DEFINE late(c) == \/ op[c].overtaken
                      \/ op[c].pc = "push" /\ Current' # Current
                      \/ op[c].pc \in {"plan", "reconcile"} /\ head' # head
<1>1. op' = [c \in Actors |->
                IF c = a THEN record ELSE [op[c] EXCEPT !.overtaken = late(c)]]
  BY DEF Goes
<1>2. op'[a] = record
  BY <1>1
<1>3. ASSUME NEW c \in Actors \ {a}
      PROVE  /\ op'[c] \in Operations
             /\ op'[c].pc = op[c].pc /\ op'[c].branch = op[c].branch
             /\ op'[c].theirs = op[c].theirs /\ op'[c].creates = op[c].creates
             /\ op'[c].given = op[c].given
             /\ op'[c].fetched = op[c].fetched
             /\ op'[c].overtaken <=> late(c)
  <2>1. op'[c] = [op[c] EXCEPT !.overtaken = late(c)] /\ op[c] \in Operations
    BY <1>1
  <2>2. PICK o \in BOOLEAN : o = late(c)
    <3>1. late(c) \in BOOLEAN
      BY <2>1 DEF Operations
    <3> QED
      BY <3>1
  <2>3. op'[c] = [op[c] EXCEPT !.overtaken = o]
    BY <2>1, <2>2
  <2> HIDE DEF late
  <2> QED
    BY <2>1, <2>2, <2>3 DEF Operations
<1>4. op' \in [Actors -> Operations]
  <2>1. op' = [c \in Actors |-> op'[c]]
    BY <1>1
  <2> QED
    BY <1>2, <1>3, <2>1
<1> QED
  BY <1>2, <1>3, <1>4

\* What the others rely on is still so.
LEMMA OthersKnow ==
    ASSUME IInv, NEW a \in Actors, NEW record \in Operations, Goes(a, record),
           PastGrows,
           writer \in {None, a} \/ UNCHANGED <<head, table, open>>,
           \A t \in Tags : tags'[t] = Nothing => tags[t] = Nothing
    PROVE  \A c \in Actors \ {a} : Knows(op[c])'
<1> SUFFICES ASSUME NEW c \in Actors \ {a}
             PROVE  Knows(op[c])'
  OBVIOUS
<1> DEFINE now == op'[c]
           was == op[c]
<1>1. /\ now.pc = was.pc /\ now.branch = was.branch /\ now.theirs = was.theirs
      /\ now.creates = was.creates /\ now.given = was.given
      /\ now.fetched = was.fetched
      /\ ~now.overtaken =>
           /\ ~was.overtaken
           /\ was.pc = "push" => Current' = Current
           /\ was.pc \in {"plan", "reconcile"} => head' = head
      /\ was \in Operations
  BY GoesIs DEF IInv
<1>2. Knows(was) /\ head \in Snapshots /\ writer \in Actors \cup {None}
  BY DEF IInv, Pointers
<1>3. Within(was) => UNCHANGED <<head, table, open>> /\ Current' = Current
  <2>1. Within(was) => writer = c
    BY DEF IInv, Writes
  <2>2. UNCHANGED <<head, table>> => Current' = Current
    BY NowIs
  <2> QED
    BY <2>1, <2>2
<1> HIDE DEF now, was
<1>4. now.pc \in {"contains", "plan", "reconcile"} => now.theirs \in Snapshots'
  BY <1>1, <1>2 DEF Knows, PastGrows
<1>5. now.pc = "moving" =>
         /\ now.branch \in Known' /\ table'.switching = now.branch
         /\ table'.at[table'.current] = head' /\ open' = Closed
  BY <1>1, <1>2, <1>3 DEF Knows, Within, Known
<1>6. now.pc = "moved" =>
         /\ now.branch \in Known' /\ table'.switching = now.branch
         /\ table'.at[now.branch] = head'
  BY <1>1, <1>2, <1>3 DEF Knows, Within, Known
<1>7. now.pc = "install" => tags'[now.branch] # Nothing /\ table'.aligned
  BY <1>1, <1>2, <1>3 DEF Knows, Within, Operations
<1>8. now.pc \in {"push", "pushing", "confirm"} /\ ~now.given /\ ~now.overtaken =>
         now.branch = Current'
  BY <1>1, <1>2, <1>3 DEF Knows, Within
<1>9. now.pc \in {"plan", "reconcile"} /\ now.fetched /\ ~now.overtaken =>
         now.theirs \notin past'[head']
  BY <1>1, <1>2 DEF Knows, PastGrows
<1>10. now.pc = "reconcile" /\ now.fetched /\ ~now.overtaken =>
         \/ Disputed \cap (past'[head'] \ past'[now.theirs]) = {}
         \/ Disputed \cap (past'[now.theirs] \ past'[head']) = {}
  BY <1>1, <1>2 DEF Knows, PastGrows, Clean
<1> QED
  BY <1>4, <1>5, <1>6, <1>7, <1>8, <1>9, <1>10 DEF Knows, Clean, now

\* A step of an actor keeps the invariant if it keeps the pointers, the work
\* and what the actor itself relies on.
LEMMA StepKeeps ==
    ASSUME IInv, NEW a \in Actors, NEW record \in Operations, Goes(a, record),
           PastOK', PastGrows, Pointers', OpenOK', WorkOnLines',
           writer \in {None, a} \/ UNCHANGED <<head, table, open>>,
           \A t \in Tags : tags'[t] = Nothing => tags[t] = Nothing,
           IF Within(record) THEN writer' = a /\ writer \in {None, a}
           ELSE \/ writer' = None /\ writer \in {None, a}
                \/ writer' = writer /\ writer # a,
           Knows(record)'
    PROVE  IInv'
<1>1. op \in [Actors -> Operations] /\ Writes
  BY DEF IInv
<1>2. /\ op' \in [Actors -> Operations] /\ op'[a] = record
      /\ \A c \in Actors \ {a} : op'[c].pc = op[c].pc /\ op'[c].creates = op[c].creates
  BY <1>1, GoesIs
<1>3. Writes'
  <2>1. ASSUME NEW c \in Actors
        PROVE  Within(op'[c]) <=> writer' = c
    <3>1. CASE c = a
      BY <1>2, <3>1
    <3>2. CASE c # a
      <4>1. Within(op'[c]) <=> Within(op[c])
        BY <1>2, <3>2 DEF Within
      <4> QED
        BY <1>1, <3>2, <4>1 DEF Writes
    <3> QED
      BY <3>1, <3>2
  <2> QED
    BY <2>1 DEF Writes, Within
<1>4. \A c \in Actors : Knows(op[c])'
  <2>1. \A c \in Actors \ {a} : Knows(op[c])'
    BY OthersKnow
  <2>2. Knows(op[a])'
    BY <1>2 DEF Knows, Clean
  <2> QED
    BY <2>1, <2>2
<1> QED
  BY <1>2, <1>3, <1>4 DEF IInv

\* Work stays on the lines when these only grow.
LEMMA WorkStays ==
    ASSUME IInv, PastGrows, published \subseteq published',
           \A b \in Named : b \in Named' /\ past[Line(b)] \subseteq past'[Line(b)'],
           \A s \in mine' \ mine : \E b \in Named' : s \in past'[Line(b)']
    PROVE  WorkOnLines'
<1> SUFFICES ASSUME NEW s \in mine'
             PROVE  \/ \E b \in Named' : s \in past'[Line(b)']
                    \/ \E h \in published' : s \in past'[h]
  BY DEF WorkOnLines, OnLine
<1>1. CASE s \notin mine
  BY <1>1
<1>2. CASE s \in mine
  <2>1. \/ \E b \in Named : s \in past[Line(b)]
        \/ \E h \in published : s \in past[h]
    BY <1>2 DEF IInv, WorkOnLines, OnLine
  <2>2. \A h \in published : past'[h] = past[h]
    BY DEF IInv, Pointers, PastGrows
  <2> QED
    BY <2>1, <2>2
<1> QED
  BY <1>1, <1>2

\* A step that only looks, or that leaves the write it was in.
LEMMA LooksKeep ==
    ASSUME IInv, NEW a \in Actors, NEW record \in Operations, Goes(a, record),
           UNCHANGED <<past, local, tags, mine>>, ~Within(record),
           \/ writer' = writer /\ writer # a
           \/ writer' = None /\ writer = a,
           Knows(record)
    PROVE  Advances
<1>1. PastOK' /\ PastGrows
  BY PastStays DEF IInv
<1>2. /\ UNCHANGED <<head, table, open, published>>
      /\ Current' = Current /\ Named' = Named /\ \A b : Line(b)' = Line(b)
      /\ Snapshots' = Snapshots
  BY NowIs DEF local, Snapshots
<1>3. Pointers' /\ OpenOK'
  BY <1>2 DEF IInv, Pointers, OpenOK
<1>4. WorkOnLines'
  BY <1>1, <1>2, WorkStays
<1>5. Knows(record)'
  BY <1>2 DEF Knows, Clean, Known
<1>6. IInv'
  BY <1>1, <1>2, <1>3, <1>4, <1>5, StepKeeps
<1>7. StepLines /\ StepOpen /\ StepFetch
  BY <1>2 DEF StepLines, StepOpen, StepFetch, IInv, OpenOK
<1> QED
  BY <1>6, <1>7 DEF Advances

\* A step of an actor that enters the write, or is one, settles the table and
\* moves no line but that of the branch the brain is on.
LEMMA SettlesKeeps ==
    ASSUME IInv, NEW a \in Actors, NEW record \in Operations, Goes(a, record),
           writer = None, IF Within(record) THEN writer' = a ELSE writer' = None,
           PastOK', PastGrows, Pointers', OpenOK', StepOpen, StepFetch,
           table'.at = table.at, table'.current = Current,
           table'.switching = None,
           past[head] \subseteq past'[head'], published \subseteq published',
           mine' \subseteq mine \cup past'[head'], UNCHANGED tags, Knows(record)'
    PROVE  Advances
<1>1. TableOK(table, Snapshots) /\ Writes /\ head \in Snapshots
      /\ \A b \in Named : Line(b) \in Snapshots
  BY NowIs, TableIs DEF IInv, Pointers
<1>2. /\ Current' = Current /\ Named' = Named /\ Known' = Known
      /\ Line(Current) = head /\ Line(Current)' = head'
      /\ \A b \in Named \ {Current} : Line(b)' = Line(b)
      /\ Current \in Named
  BY <1>1, SettledLines, NowIs
<1>3. \A b \in Named : past[Line(b)] \subseteq past'[Line(b)']
  BY <1>1, <1>2 DEF PastGrows
<1>4. WorkOnLines'
  BY <1>2, <1>3, WorkStays
<1>5. IInv'
  BY <1>4, StepKeeps
<1>6. \A c \in Branches : ~Installing(c)
  BY <1>1 DEF Installing, Writes, Within
<1>7. StepLines
  BY <1>2, <1>6, NowIs DEF StepLines
<1> QED
  BY <1>5, <1>7 DEF Advances

----------------------------------------------------------------------------
(* Operations *)

LEMMA IdleIs ==
    /\ Idle \in Operations /\ ~Within(Idle) /\ Idle.pc = "idle"
    /\ Idle.theirs = Nothing /\ ~Idle.overtaken
BY DEF Idle, Operations, Within, Steps, Nothing, Tags

LEMMA IdleKnows == Knows(Idle) /\ Knows(Idle)'
BY IdleIs DEF Knows

LEMMA StartsIs ==
    ASSUME NEW pc \in Steps, NEW b \in Tags, NEW c \in BOOLEAN
    PROVE  /\ Starts(pc, b, c) \in Operations /\ Starts(pc, b, c).pc = pc
           /\ Starts(pc, b, c).branch = b /\ Starts(pc, b, c).creates = c
           /\ ~Starts(pc, b, c).fetched /\ ~Starts(pc, b, c).overtaken
           /\ Starts(pc, b, c).theirs = Nothing
<1> DEFINE one == [Idle EXCEPT !.pc = pc]
           two == [one EXCEPT !.branch = b]
           three == [two EXCEPT !.creates = c]
<1>1. /\ Idle \in Operations /\ Idle.theirs = Nothing
      /\ ~Idle.fetched /\ ~Idle.overtaken
  BY IdleIs DEF Idle
<1>2. /\ one \in Operations /\ one.pc = pc /\ one.theirs = Nothing
      /\ ~one.fetched /\ ~one.overtaken
  BY <1>1 DEF Operations
<1>3. /\ two \in Operations /\ two.pc = pc /\ two.branch = b
      /\ two.theirs = Nothing /\ ~two.fetched /\ ~two.overtaken
  <2> HIDE DEF one
  <2> QED
    BY <1>2 DEF Operations
<1>4. /\ three \in Operations /\ three.pc = pc /\ three.branch = b
      /\ three.creates = c
      /\ three.theirs = Nothing /\ ~three.fetched /\ ~three.overtaken
  <2> HIDE DEF two
  <2> QED
    BY <1>3 DEF Operations
<1>5. Starts(pc, b, c) = three
  BY DEF Starts
<1> QED
  BY <1>4, <1>5

LEMMA AtIs ==
    ASSUME op \in [Actors -> Operations], NEW a \in Actors, NEW pc \in Steps
    PROVE  /\ At(a, pc) \in Operations /\ At(a, pc).pc = pc
           /\ At(a, pc).branch = op[a].branch /\ At(a, pc).theirs = op[a].theirs
           /\ At(a, pc).creates = op[a].creates
           /\ At(a, pc).given = op[a].given
           /\ At(a, pc).fetched = op[a].fetched
           /\ At(a, pc).overtaken = op[a].overtaken
BY DEF At, Operations

\* The pointers, and what an actor is and is not inside of.
LEMMA OwnIs ==
    ASSUME IInv, NEW a \in Actors
    PROVE  /\ PastOK /\ Pointers /\ op \in [Actors -> Operations] /\ OpenOK
           /\ op[a] \in Operations /\ op[a].branch \in Tags
           /\ Knows(op[a]) /\ (Within(op[a]) <=> writer = a) /\ a # None
           /\ TableOK(table, Snapshots) /\ head \in Snapshots
           /\ Current \in Branches /\ Line(Current) = head
BY NowIs, TableIs DEF IInv, Pointers, Writes, Operations, LineOf

LEMMA Looking ==
    ASSUME IInv, NEW a \in Actors, NEW record \in Operations, Goes(a, record),
           ~Within(op[a]), ~Within(record), Knows(record),
           UNCHANGED <<past, local, tags, writer, mine>>
    PROVE  Advances
BY LooksKeep, OwnIs

LEMMA AdvancesByLooking ==
    ASSUME IInv, NEW a \in Actors,
           \/ \E b \in Branches : Switch(a, b)
           \/ CheckoutRefused(a) \/ Push(a) \/ PushRefused(a)
           \/ \E t \in Tags : PushTo(a, t)
           \/ \E t \in Tags : Pull(a, t)
           \/ \E t \in Tags : Fetch(a, t)
           \/ FetchMissing(a) \/ NotForward(a)
           \/ \E b \in Branches, pc \in {"join", "record"} : Merge(a, b, pc)
    PROVE  Advances
<1>1. \A pc \in {"checkout", "pull", "push", "fetch", "join", "record"} :
         pc \in Steps
  BY DEF Steps
<1>2. ASSUME NEW b \in Tags, NEW pc \in {"checkout", "pull", "fetch", "join", "record"}
      PROVE  /\ Starts(pc, b, FALSE) \in Operations
             /\ ~Within(Starts(pc, b, FALSE)) /\ Knows(Starts(pc, b, FALSE))
  <2> DEFINE r == Starts(pc, b, FALSE)
  <2>1. r \in Operations /\ r.pc = pc /\ ~r.creates
    <3>1. pc \in Steps
      BY <1>1
    <3>2. PICK no \in BOOLEAN : no = FALSE
      OBVIOUS
    <3>3. /\ Starts(pc, b, no) \in Operations /\ Starts(pc, b, no).pc = pc
          /\ Starts(pc, b, no).creates = no
      BY ONLY <3>1, <3>2, b \in Tags, StartsIs
    <3> QED
      BY <3>2, <3>3
  <2> HIDE DEF r
  <2>2. ~Within(r) /\ Knows(r)
    BY <2>1 DEF Within, Knows
  <2> QED
    BY <2>1, <2>2 DEF r
<1>3. ASSUME NEW b \in Branches, Switch(a, b)
      PROVE  Advances
  <2> DEFINE pc == IF b \in Known \cup {Main} THEN "checkout" ELSE "pull"
             r == Starts(pc, b, FALSE)
  <2>1. /\ Goes(a, r) /\ UNCHANGED <<past, local, tags, writer, mine>>
        /\ ~Within(op[a])
    BY <1>3 DEF Switch, Free, Within
  <2>2. r \in Operations /\ ~Within(r) /\ Knows(r)
    <3>1. pc \in {"checkout", "pull", "fetch", "join", "record"} /\ b \in Tags
      BY DEF Tags
    <3> HIDE DEF pc
    <3> QED
      BY <1>2, <3>1
  <2> HIDE DEF r
  <2> QED
    BY <2>1, <2>2, Looking
<1>4. CASE CheckoutRefused(a)
  <2>1. writer = None /\ Goes(a, Idle) /\ UNCHANGED <<past, local, tags, writer, mine>>
    BY <1>4 DEF CheckoutRefused
  <2> QED
    BY <2>1, IdleIs, IdleKnows, OwnIs, Looking
<1>5. CASE Push(a)
  <2> DEFINE r == Starts("push", DefaultTag, FALSE)
  <2>1. /\ Goes(a, r) /\ UNCHANGED <<past, local, tags, writer, mine>>
        /\ ~Within(op[a])
    BY <1>5 DEF Push, Free, Within
  <2>2. DefaultTag = Current /\ DefaultTag \in Tags
    BY OwnIs DEF DefaultTag, Current, Tags
  <2>3. r \in Operations /\ r.pc = "push" /\ r.branch = Current
    <3>1. "push" \in Steps /\ FALSE \in BOOLEAN
      BY <1>1
    <3>2. r \in Operations /\ r.pc = "push" /\ r.branch = DefaultTag
      <4> HIDE <1>1
      <4> QED
        BY <2>2, <3>1, StartsIs
    <3> QED
      BY <2>2, <3>2
  <2> HIDE DEF r
  <2>4. ~Within(r) /\ Knows(r)
    BY <2>3 DEF Within, Knows
  <2> QED
    BY <2>1, <2>3, <2>4, Looking
<1>6. CASE PushRefused(a)
  <2>1. writer = None /\ Goes(a, Idle) /\ UNCHANGED <<past, local, tags, writer, mine>>
    BY <1>6 DEF PushRefused
  <2> QED
    BY <2>1, IdleIs, IdleKnows, OwnIs, Looking
<1>7. ASSUME NEW t \in Tags, Pull(a, t)
      PROVE  Advances
  <2>1. /\ Goes(a, Starts("pull", t, FALSE)) /\ ~Within(op[a])
        /\ UNCHANGED <<past, local, tags, writer, mine>>
    BY <1>7 DEF Pull, Free, Within
  <2> QED
    BY <1>2, <2>1, Looking
<1>8. ASSUME NEW t \in Tags, Fetch(a, t)
      PROVE  Advances
  <2>1. /\ Goes(a, Starts("fetch", t, FALSE)) /\ ~Within(op[a])
        /\ UNCHANGED <<past, local, tags, writer, mine>>
    BY <1>8 DEF Fetch, Free, Within
  <2> QED
    BY <1>2, <2>1, Looking
<1>9. CASE FetchMissing(a)
  <2>1. writer = None /\ Goes(a, Idle) /\ UNCHANGED <<past, local, tags, writer, mine>>
    BY <1>9 DEF FetchMissing
  <2> QED
    BY <2>1, IdleIs, IdleKnows, OwnIs, Looking
<1>10. CASE NotForward(a)
  <2> DEFINE forward == Joinable(op[a].branch) /\ ~Ahead(op[a].branch)
  <2>1. /\ writer = None /\ UNCHANGED <<past, local, tags, writer, mine>>
        /\ Goes(a, IF forward THEN At(a, "record") ELSE Idle)
    BY <1>10 DEF NotForward
  <2>2. /\ At(a, "record") \in Operations /\ ~Within(At(a, "record"))
        /\ Knows(At(a, "record"))
    BY <1>1, OwnIs, AtIs DEF Within, Knows
  <2>3. CASE forward
    <3>1. Goes(a, At(a, "record"))
      BY <2>1, <2>3
    <3> QED
      BY <2>1, <2>2, <3>1, OwnIs, Looking
  <2>4. CASE ~forward
    <3>1. Goes(a, Idle)
      BY <2>1, <2>4
    <3> QED
      BY <2>1, <3>1, IdleIs, IdleKnows, OwnIs, Looking
  <2> QED
    BY <2>3, <2>4
<1>11. ASSUME NEW b \in Branches, NEW pc \in {"join", "record"}, Merge(a, b, pc)
       PROVE  Advances
  <2>1. /\ Goes(a, Starts(pc, b, FALSE)) /\ ~Within(op[a])
        /\ UNCHANGED <<past, local, tags, writer, mine>>
    BY <1>11 DEF Merge, Free, Within
  <2>2. b \in Tags
    BY DEF Tags
  <2> QED
    BY <1>2, <2>1, <2>2, Looking
<1>12. ASSUME NEW t \in Tags, PushTo(a, t)
       PROVE  Advances
  <2> DEFINE one == Starts("push", t, FALSE)
             r == [one EXCEPT !.given = TRUE]
  <2>1. /\ Goes(a, r) /\ UNCHANGED <<past, local, tags, writer, mine>>
        /\ ~Within(op[a])
    BY <1>12 DEF PushTo, Free, Within
  <2>2. one \in Operations /\ one.pc = "push"
    <3>1. "push" \in Steps /\ FALSE \in BOOLEAN
      BY <1>1
    <3> QED
      BY ONLY <3>1, t \in Tags, StartsIs
  <2> HIDE DEF one
  <2>3. r \in Operations /\ r.pc = "push" /\ r.given
    BY <2>2 DEF Operations
  <2> HIDE DEF r
  <2>4. ~Within(r) /\ Knows(r)
    BY <2>3 DEF Within, Knows
  <2> QED
    BY <2>1, <2>3, <2>4, Looking
<1> QED
  BY <1>3, <1>4, <1>5, <1>6, <1>7, <1>8, <1>9, <1>10, <1>11, <1>12

\* A fetch that has brought something, and what it goes on with.
LEMMA AdvancesByFetching ==
    ASSUME IInv, NEW a \in Actors,
           \/ FetchBrings(a) \/ Contains(a) \/ Plan(a) \/ InstallRefused(a)
           \/ \E s \in Snapshots : ByHand(a, s)
    PROVE  Advances
<1>1. \A pc \in {"contains", "plan", "reconcile"} : pc \in Steps
  BY DEF Steps
<1>2. /\ op \in [Actors -> Operations] /\ op[a] \in Operations
      /\ op[a].branch \in Tags /\ Knows(op[a])
      /\ (Within(op[a]) <=> writer = a) /\ a # None
      /\ Snapshots \subseteq 0..MaxSnapshots
      /\ tags \in [Tags -> Snapshots \cup {Nothing}]
  BY OwnIs DEF PastOK, Pointers, Snapshots
<1>3. CASE FetchBrings(a)
  <2> DEFINE there == tags[op[a].branch]
             one == At(a, "contains")
             two == [one EXCEPT !.theirs = there]
             r == [two EXCEPT !.fetched = TRUE]
  <2>1. /\ Goes(a, r) /\ writer = None /\ there # Nothing
        /\ UNCHANGED <<past, local, tags, writer, mine>>
    BY <1>3 DEF FetchBrings, local
  <2>2. there \in Snapshots
    BY <1>2, <2>1
  <2>3. one \in Operations /\ one.pc = "contains"
    BY <1>1, <1>2, AtIs
  <2>4. two \in Operations /\ two.pc = "contains" /\ two.theirs = there
    <3> HIDE DEF one
    <3> QED
      BY <1>2, <2>2, <2>3 DEF Operations
  <2>5. r \in Operations /\ r.pc = "contains" /\ r.theirs = there
    <3> HIDE DEF two
    <3> QED
      BY <2>4 DEF Operations
  <2> HIDE DEF r
  <2>6. ~Within(r) /\ Knows(r)
    BY <2>2, <2>5 DEF Within, Knows
  <2> QED
    BY <1>2, <2>1, <2>5, <2>6, Looking
<1>4. CASE Contains(a)
  <2> DEFINE r == At(a, "plan")
  <2>1. /\ op[a].pc = "contains" /\ UNCHANGED <<past, local, tags, writer, mine>>
        /\ Goes(a, IF op[a].theirs \in past[head] THEN Idle ELSE r)
        /\ ~Within(op[a])
    BY <1>4 DEF Contains, Within
  <2>2. /\ r \in Operations /\ r.pc = "plan" /\ r.theirs = op[a].theirs
    BY <1>1, <1>2, AtIs
  <2>3. op[a].theirs \in Snapshots
    BY <1>2, <2>1 DEF Knows
  <2> HIDE DEF r
  <2>4. ASSUME op[a].theirs \notin past[head]
        PROVE  Knows(r) /\ ~Within(r)
    BY <2>2, <2>3, <2>4 DEF Knows, Within
  <2>5. CASE op[a].theirs \in past[head]
    <3>1. Goes(a, Idle)
      BY <2>1, <2>5
    <3> QED
      BY <2>1, <3>1, IdleIs, IdleKnows, Looking
  <2>6. CASE op[a].theirs \notin past[head]
    <3>1. Goes(a, r)
      BY <2>1, <2>6
    <3> QED
      BY <2>1, <2>2, <2>4, <2>6, <3>1, Looking
  <2> QED
    BY <2>5, <2>6
<1>5. CASE Plan(a)
  <2> DEFINE r == At(a, "reconcile")
  <2>1. /\ op[a].pc = "plan" /\ UNCHANGED <<past, local, tags, writer, mine>>
        /\ Goes(a, IF Clean(head, op[a].theirs) THEN r ELSE Idle)
        /\ ~Within(op[a])
    BY <1>5 DEF Plan, Within
  <2>2. /\ r \in Operations /\ r.pc = "reconcile" /\ r.theirs = op[a].theirs
        /\ r.fetched = op[a].fetched /\ r.overtaken = op[a].overtaken
    BY <1>1, <1>2, AtIs
  <2>3. /\ op[a].theirs \in Snapshots
        /\ op[a].fetched /\ ~op[a].overtaken => op[a].theirs \notin past[head]
    BY <1>2, <2>1 DEF Knows
  <2> HIDE DEF r
  <2>4. CASE Clean(head, op[a].theirs)
    <3>1. Goes(a, r)
      BY <2>1, <2>4
    <3>2. Knows(r) /\ ~Within(r)
      BY <2>2, <2>3, <2>4 DEF Knows, Within
    <3> QED
      BY <2>1, <2>2, <3>1, <3>2, Looking
  <2>5. CASE ~Clean(head, op[a].theirs)
    <3>1. Goes(a, Idle)
      BY <2>1, <2>5
    <3> QED
      BY <2>1, <3>1, IdleIs, IdleKnows, Looking
  <2> QED
    BY <2>4, <2>5
<1>6. CASE InstallRefused(a)
  <2>1. /\ writer = a /\ writer' = None /\ Goes(a, Idle)
        /\ UNCHANGED <<past, local, tags, mine>>
    BY <1>2, <1>6 DEF InstallRefused, Within
  <2> QED
    BY <2>1, IdleIs, IdleKnows, LooksKeep
<1>7. ASSUME NEW s \in Snapshots, ByHand(a, s)
      PROVE  Advances
  <2> DEFINE one == Starts("reconcile", Main, FALSE)
             r == [one EXCEPT !.theirs = s]
  <2>1. /\ Goes(a, r) /\ UNCHANGED <<past, local, tags, writer, mine>>
        /\ ~Within(op[a])
    BY <1>7 DEF ByHand, Free, Within
  <2>2. one \in Operations /\ one.pc = "reconcile" /\ ~one.fetched
    <3>1. "reconcile" \in Steps /\ FALSE \in BOOLEAN /\ Main \in Tags
      BY DEF Steps, Tags
    <3> QED
      BY <3>1, StartsIs
  <2>3. r \in Operations /\ r.pc = "reconcile" /\ ~r.fetched /\ r.theirs = s
    <3> HIDE DEF one
    <3> QED
      BY <1>2, <2>2 DEF Operations
  <2> HIDE DEF r
  <2>4. ~Within(r) /\ Knows(r)
    BY <2>3 DEF Within, Knows
  <2> QED
    BY <2>1, <2>3, <2>4, Looking
<1> QED
  BY <1>3, <1>4, <1>5, <1>6, <1>7

\* What a fetch may not do, of the one that steps.
LEMMA FetchIs ==
    ASSUME IInv, NEW a \in Actors, NEW record \in Operations, Goes(a, record),
           op[a].pc = "reconcile" /\ op[a].fetched /\ ~op[a].overtaken =>
             /\ open' = open
             /\ head' # head => op[a].theirs \notin past[head]
    PROVE  StepFetch
<1>1. \A c \in Actors \ {a} : op'[c].pc = op[c].pc
  BY GoesIs DEF IInv
<1> QED
  BY <1>1 DEF StepFetch

LEMMA TableGrows ==
    ASSUME NEW t, NEW some, NEW more, TableOK(t, some), some \subseteq more
    PROVE  TableOK(t, more)
BY DEF TableOK

\* A snapshot of the head's line is committed, or joined to it.
LEMMA MintingAdvances ==
    ASSUME IInv, NEW a \in Actors, writer = None,
           NEW parents \in SUBSET Snapshots, head \in parents, Mint(parents),
           head' = New, mine' = mine \cup {New}, table' = Settled,
           open' = Closed,
           \/ open = Closed
           \/ op[a].pc # "reconcile",
           UNCHANGED <<published, tags, writer>>, Goes(a, Idle),
           op[a].pc = "reconcile" /\ op[a].fetched /\ ~op[a].overtaken =>
             op[a].theirs \notin past[head]
    PROVE  Advances
<1>1. /\ PastOK /\ Pointers /\ a # None /\ TableOK(table, Snapshots)
      /\ Idle \in Operations
  BY OwnIs, IdleIs
<1>2. /\ PastOK' /\ PastGrows /\ New \in Snapshots' /\ New \in past'[New]
      /\ past[head] \subseteq past'[head']
  BY <1>1, MintIs
<1>3. /\ table'.current = Current /\ table'.switching = None
      /\ table'.at = table.at /\ TableOK(table', Snapshots')
  <2>1. Snapshots \subseteq Snapshots'
    BY <1>2 DEF PastGrows
  <2>2. TableOK(table', Snapshots)
    BY <1>1, SettledIs
  <2> QED
    BY <1>1, <2>1, <2>2, SettledIs, TableGrows
<1>4. Pointers' /\ OpenOK'
  <2>1. /\ head' \in Snapshots' /\ published' \in SUBSET Snapshots'
        /\ mine' \in SUBSET Snapshots'
        /\ tags' \in [Tags -> Snapshots' \cup {Nothing}]
        /\ tags'[Main] # Nothing /\ writer' \in Actors \cup {None}
    BY <1>1, <1>2 DEF Pointers, PastGrows
  <2>2. Closed \in [ours : Snapshots' \cup {Nothing},
                    theirs : Snapshots' \cup {Nothing}, answered : BOOLEAN]
    BY DEF Closed
  <2> QED
    BY <1>3, <2>1, <2>2 DEF Pointers, OpenOK
<1>5. StepOpen /\ StepFetch
  BY <1>1, FetchIs DEF StepOpen
<1>6. mine' \subseteq mine \cup past'[head'] /\ published \subseteq published'
  BY <1>2
<1>7. ~Within(Idle) /\ Knows(Idle)'
  BY IdleIs, IdleKnows
<1> QED
  BY <1>1, <1>2, <1>3, <1>4, <1>5, <1>6, <1>7, SettlesKeeps

\* The writes that mint nothing and move the head, if at all, along its line.
LEMMA SettlingAdvances ==
    ASSUME IInv, NEW a \in Actors, writer = None,
           NEW record \in Operations, Goes(a, record), Knows(record)',
           IF Within(record) THEN writer' = a ELSE writer' = None,
           table'.at = table.at, table'.current = Current,
           table'.switching = None, TableOK(table', Snapshots),
           head' \in Snapshots, head \in past[head'],
           \/ UNCHANGED open /\ (open # Closed => head' = head)
           \/ /\ open = Closed /\ head' = head
              /\ open' \in [ours : {head}, theirs : Snapshots, answered : BOOLEAN],
           op[a].pc = "reconcile" /\ op[a].fetched /\ ~op[a].overtaken =>
             UNCHANGED <<open, head>>,
           UNCHANGED <<past, published, tags, mine>>
    PROVE  Advances
<1>1. /\ PastOK /\ Pointers /\ a # None /\ OpenOK /\ head \in Snapshots
      /\ a \in Actors
  BY OwnIs
<1>2. PastOK' /\ PastGrows /\ Snapshots' = Snapshots
  BY <1>1, PastStays DEF Snapshots
<1>3. past[head] \subseteq past'[head']
  BY <1>1 DEF PastOK
<1>4. Pointers'
  <2>1. open' \in [ours : Snapshots \cup {Nothing},
                   theirs : Snapshots \cup {Nothing}, answered : BOOLEAN]
    BY <1>1 DEF Pointers
  <2>2. writer' \in Actors \cup {None}
    BY <1>1
  <2> QED
    BY <1>1, <1>2, <2>1, <2>2 DEF Pointers
<1>5. OpenOK' /\ StepOpen
  BY <1>1, <1>2 DEF OpenOK, StepOpen
<1>6. StepFetch
  BY FetchIs
<1> QED
  BY <1>2, <1>3, <1>4, <1>5, <1>6, SettlesKeeps

LEMMA AdvancesByCommitting ==
    ASSUME IInv, NEW a \in Actors, Commit(a)
    PROVE  Advances
<1>1. /\ writer = None /\ open = Closed /\ Mint({head}) /\ head' = New
      /\ mine' = mine \cup {New} /\ table' = Settled /\ op[a].pc = "idle"
      /\ UNCHANGED <<open, published, tags, writer>> /\ Goes(a, Idle)
  BY DEF Commit, Free
<1>2. {head} \in SUBSET Snapshots
  BY OwnIs
<1> QED
  BY <1>1, <1>2, MintingAdvances

\* The strategies differ in whether what is minted descends from theirs.
LEMMA JoinOfIs ==
    ASSUME IInv, NEW theirs \in Snapshots, JoinOf(theirs)
    PROVE  \E parents \in SUBSET Snapshots : head \in parents /\ Mint(parents)
<1>1. head \in Snapshots
  BY DEF IInv, Pointers
<1>2. PICK s \in Strategies : Mint(IF s = "merge" THEN {head, theirs} ELSE {head})
  BY DEF JoinOf
<1>3. CASE s = "merge"
  <2>1. Mint({head, theirs})
    BY <1>2, <1>3
  <2> QED
    BY <1>1, <2>1
<1>4. CASE s # "merge"
  <2>1. Mint({head})
    BY <1>2, <1>4
  <2> QED
    BY <1>1, <2>1
<1> QED
  BY <1>3, <1>4

LEMMA AdvancesByReconciling ==
    ASSUME IInv, NEW a \in Actors, writer = None, NEW theirs \in Snapshots,
           op[a].pc = "reconcile" => op[a].theirs = theirs,
           Reconciles(a, theirs)
    PROVE  Advances
<1>1. /\ Knows(op[a]) /\ a # None /\ (Within(op[a]) <=> writer = a)
      /\ Pointers /\ TableOK(table, Snapshots) /\ PastOK /\ head \in Snapshots
  BY OwnIs
<1>2. CASE open # Closed
  <2>1. Goes(a, Idle) /\ UNCHANGED <<past, local, tags, writer, mine>>
    BY <1>2 DEF Reconciles, Refused
  <2> QED
    BY <1>1, <2>1, IdleIs, IdleKnows, Looking
<1>3. CASE open = Closed /\ Clean(head, theirs)
  <2>1. /\ JoinOf(theirs) /\ head' = New /\ mine' = mine \cup {New}
        /\ table' = Settled /\ UNCHANGED <<open, published, tags, writer>>
        /\ Goes(a, Idle)
    BY <1>3 DEF Reconciles, Joins
  <2>2. PICK parents \in SUBSET Snapshots : head \in parents /\ Mint(parents)
    BY <2>1, JoinOfIs
  <2>3. op[a].pc = "reconcile" /\ op[a].fetched /\ ~op[a].overtaken =>
          op[a].theirs \notin past[head]
    BY <1>1 DEF Knows
  <2> QED
    BY <1>3, <2>1, <2>2, <2>3, MintingAdvances
<1>4. CASE open = Closed /\ ~Clean(head, theirs)
  <2>1. /\ open' = [ours |-> head, theirs |-> theirs, answered |-> FALSE]
        /\ table' = Settled /\ Goes(a, Idle)
        /\ UNCHANGED <<past, head, published, tags, writer, mine>>
    BY <1>4 DEF Reconciles, Halts
  <2>2. ~(op[a].pc = "reconcile" /\ op[a].fetched /\ ~op[a].overtaken)
    BY <1>1, <1>4 DEF Knows
  <2>3. /\ table'.at = table.at /\ table'.current = Current
        /\ table'.switching = None /\ TableOK(table', Snapshots)
    BY <1>1, <2>1, SettledIs
  <2>4. head \in past[head'] /\ head' \in Snapshots
    BY <1>1, <2>1 DEF PastOK
  <2>5. open' \in [ours : {head}, theirs : Snapshots, answered : BOOLEAN]
    BY <2>1
  <2> QED
    BY <1>4, <2>1, <2>2, <2>3, <2>4, <2>5, IdleIs, IdleKnows, SettlingAdvances
<1> QED
  BY <1>2, <1>3, <1>4

LEMMA AdvancesByJoining ==
    ASSUME IInv, NEW a \in Actors, Reconcile(a) \/ Record(a) \/ Continue(a)
    PROVE  Advances
<1>1. /\ Knows(op[a]) /\ a # None /\ (Within(op[a]) <=> writer = a)
      /\ Pointers /\ TableOK(table, Snapshots) /\ PastOK /\ head \in Snapshots
  BY OwnIs
<1>2. CASE Reconcile(a)
  <2>1. op[a].theirs \in Snapshots /\ writer = None /\ Reconciles(a, op[a].theirs)
    BY <1>1, <1>2 DEF Reconcile, Knows
  <2> QED
    BY <2>1, AdvancesByReconciling
<1>3. CASE Record(a)
  <2> DEFINE b == op[a].branch
  <2>1. /\ op[a].pc = "record" /\ writer = None
        /\ IF b \notin Known \ {Current} THEN Refused(a)
           ELSE Reconciles(a, table.at[b])
    BY <1>3 DEF Record
  <2>2. CASE b \notin Known \ {Current}
    <3>1. Goes(a, Idle) /\ UNCHANGED <<past, local, tags, writer, mine>>
      BY <2>1, <2>2 DEF Refused
    <3> QED
      BY <1>1, <2>1, <3>1, IdleIs, IdleKnows, Looking
  <2>3. CASE b \in Known \ {Current}
    <3>1. table.at[b] \in Snapshots
      BY <1>1, <2>3, NowIs DEF TableOK
    <3> QED
      BY <2>1, <2>3, <3>1, AdvancesByReconciling
  <2> QED
    BY <2>2, <2>3
<1>4. CASE Continue(a)
  <2>1. /\ writer = None /\ open # Closed /\ JoinOf(open.theirs)
        /\ head' = New /\ mine' = mine \cup {New} /\ table' = Settled
        /\ open' = Closed /\ UNCHANGED <<published, tags, writer>>
        /\ Goes(a, Idle) /\ op[a].pc = "idle" /\ open.ours = head
    BY <1>4 DEF Continue, Free
  <2>2. open.theirs \in Snapshots
    BY <2>1 DEF IInv, OpenOK
  <2>3. PICK parents \in SUBSET Snapshots : head \in parents /\ Mint(parents)
    BY <2>1, <2>2, JoinOfIs
  <2> QED
    BY <2>1, <2>3, MintingAdvances
<1> QED
  BY <1>2, <1>3, <1>4

\* The operations that read the registry inside the session's write.
LEMMA AdvancesBySettling ==
    ASSUME IInv, NEW a \in Actors,
           (\E f \in BOOLEAN : PushChecked(a, f)) \/ PullFetch(a) \/ PullMissing(a) \/ FastForward(a)
    PROVE  Advances
<1>1. /\ Knows(op[a]) /\ a # None /\ op[a].branch \in Tags
      /\ PastOK /\ Pointers /\ op \in [Actors -> Operations]
      /\ TableOK(table, Snapshots) /\ head \in Snapshots /\ head \in past[head]
      /\ None \notin Known
  BY OwnIs DEF PastOK, TableOK, Known
<1>2. /\ Settled = Table(Current, None, table.at, table.aligned)
      /\ Settled.current = Current /\ Settled.switching = None
      /\ Settled.at = table.at /\ TableOK(Settled, Snapshots)
  BY <1>1, SettledIs
<1> DEFINE aligned == [Settled EXCEPT !.aligned = TRUE]
<1>3. /\ aligned.current = Current /\ aligned.switching = None
      /\ aligned.at = table.at /\ aligned.aligned
      /\ TableOK(aligned, Snapshots)
  BY <1>2, AlignedIs
<1> HIDE DEF aligned
<1>4. ASSUME table' \in {Settled, aligned}, UNCHANGED head
      PROVE  Current' = Current
  BY <1>1, <1>2, <1>3, <1>4, SettledLines
<1>5. CASE \E f \in BOOLEAN : PushChecked(a, f)
  <2>1. /\ op[a].pc = "push" /\ writer = None /\ writer' = a
        /\ table' = Settled /\ Goes(a, At(a, "pushing"))
        /\ UNCHANGED <<past, head, open, published, tags, mine>>
    BY <1>5 DEF PushChecked
  <2>2. PICK r \in Operations :
          /\ r = At(a, "pushing") /\ r.pc = "pushing" /\ r.branch = op[a].branch
          /\ r.overtaken = op[a].overtaken /\ r.given = op[a].given
    <3>1. "pushing" \in Steps
      BY DEF Steps
    <3> QED
      BY <1>1, <3>1, AtIs
  <2>3. ~op[a].given /\ ~op[a].overtaken => op[a].branch = Current
    BY <1>1, <2>1 DEF Knows
  <2>4. Current' = Current
    BY <1>4, <2>1
  <2>5. Knows(r)' /\ Within(r)
    <3>1. ~r.given /\ ~r.overtaken => r.branch = Current'
      BY <2>2, <2>3, <2>4
    <3> QED
      BY <2>2, <3>1 DEF Knows, Within
  <2> QED
    BY <1>1, <1>2, <2>1, <2>2, <2>5, SettlingAdvances
<1>6. CASE PullFetch(a)
  <2>1. /\ op[a].pc = "pull" /\ writer = None /\ writer' = a
        /\ table' = aligned /\ Goes(a, At(a, "install"))
        /\ tags[op[a].branch] # Nothing
        /\ UNCHANGED <<past, head, open, published, tags, mine>>
    BY <1>6 DEF PullFetch, aligned
  <2>2. PICK r \in Operations :
          r = At(a, "install") /\ r.pc = "install" /\ r.branch = op[a].branch
    <3>1. "install" \in Steps
      BY DEF Steps
    <3> QED
      BY <1>1, <3>1, AtIs
  <2>3. Knows(r)' /\ Within(r)
    BY <1>3, <2>1, <2>2 DEF Knows, Within
  <2> QED
    BY <1>1, <1>3, <2>1, <2>2, <2>3, SettlingAdvances
<1>7. CASE PullMissing(a)
  <2>1. /\ op[a].pc = "pull" /\ writer = None /\ writer' = None
        /\ table' = aligned /\ Goes(a, Idle)
        /\ UNCHANGED <<past, head, open, published, tags, mine>>
    BY <1>7 DEF PullMissing, aligned
  <2> QED
    BY <1>1, <1>3, <2>1, IdleIs, IdleKnows, SettlingAdvances
<1>8. CASE FastForward(a)
  <2> DEFINE b == op[a].branch
  <2>1. /\ op[a].pc \in {"join", "record"} /\ writer = None /\ writer' = None
        /\ b \in Known /\ open = Closed /\ head \in past[table.at[b]]
        /\ head' = table.at[b] /\ table' = Settled /\ Goes(a, Idle)
        /\ UNCHANGED <<past, open, published, tags, mine>>
    BY <1>8 DEF FastForward, Joinable, Ahead
  <2>2. head' \in Snapshots
    BY <1>1, <2>1, NowIs DEF TableOK
  <2> QED
    BY <1>1, <1>2, <2>1, <2>2, IdleIs, IdleKnows, SettlingAdvances
<1> QED
  BY <1>5, <1>6, <1>7, <1>8

\* A step that leaves every line where it is; it may start one.
LEMMA KeepingAdvances ==
    ASSUME IInv, NEW a \in Actors, writer \in {None, a},
           NEW record \in Operations, Goes(a, record), Knows(record)',
           IF Within(record) THEN writer' = a ELSE writer' = None,
           op[a].pc # "reconcile",
           UNCHANGED <<past, open, mine>>, open # Closed => head' = head,
           head' \in Snapshots, TableOK(table', Snapshots),
           published \subseteq published', published' \subseteq Snapshots,
           tags' \in [Tags -> Snapshots \cup {Nothing}],
           \A t \in Tags : tags'[t] = Nothing => tags[t] = Nothing,
           Named \subseteq Named', \A b \in Named : Line(b)' = Line(b)
    PROVE  Advances
<1>1. /\ PastOK /\ Pointers /\ a # None /\ OpenOK
      /\ PastOK' /\ PastGrows /\ Snapshots' = Snapshots
  BY OwnIs, PastStays DEF Snapshots
<1>2. Pointers'
  <2>1. writer' \in Actors \cup {None}
    BY <1>1
  <2> QED
    BY <1>1, <2>1 DEF Pointers, Tags
<1>3. OpenOK' /\ StepOpen
  BY <1>1 DEF OpenOK, StepOpen
<1>4. WorkOnLines'
  <2>1. \A b \in Named : Line(b) \in Snapshots
    BY <1>1, NowIs, TableIs DEF Pointers
  <2>2. \A b \in Named : b \in Named' /\ past[Line(b)] \subseteq past'[Line(b)']
    BY <2>1
  <2> QED
    BY <1>1, <2>2, WorkStays
<1>5. StepLines
  BY NowIs DEF StepLines
<1>6. StepFetch
  BY FetchIs
<1>7. IInv'
  BY <1>1, <1>2, <1>3, <1>4, StepKeeps
<1> QED
  BY <1>3, <1>5, <1>6, <1>7 DEF Advances

\* The second half of a checkout, and what ends a push.
LEMMA AdvancesByEnding ==
    ASSUME IInv, NEW a \in Actors,
           \/ AlignCreated(a) \/ MoveHead(a) \/ EndCheckout(a)
           \/ PushTag(a) \/ PushEnds(a)
    PROVE  Advances
<1>1. /\ Knows(op[a]) /\ a # None /\ op[a].branch \in Tags
      /\ (Within(op[a]) <=> writer = a) /\ op[a] \in Operations
      /\ PastOK /\ Pointers /\ op \in [Actors -> Operations]
      /\ TableOK(table, Snapshots) /\ head \in Snapshots
      /\ None \notin Known /\ 0 \notin Snapshots
      /\ published \subseteq Snapshots /\ tags \in [Tags -> Snapshots \cup {Nothing}]
  BY OwnIs DEF Pointers, TableOK, Known, Snapshots
<1>2. writer = a
  BY <1>1 DEF AlignCreated, MoveHead, EndCheckout, PushTag, PushEnds, Within
<1>3. CASE AlignCreated(a)
  <2>1. /\ table' = [table EXCEPT !.aligned = TRUE] /\ writer' = None
        /\ UNCHANGED <<past, head, open, published, tags, mine>>
        /\ Goes(a, Idle) /\ op[a].pc = "align"
    BY <1>3 DEF AlignCreated
  <2>2. /\ table'.current = table.current /\ table'.switching = table.switching
        /\ table'.at = table.at /\ TableOK(table', Snapshots)
    BY <1>1, <2>1, AlignedIs
  <2>3. Named' = Named /\ \A b \in Named : Line(b)' = Line(b)
    BY <2>1, <2>2, NowIs DEF CurrentOf, LineOf
  <2> QED
    BY <1>1, <1>2, <2>1, <2>2, <2>3, IdleIs, IdleKnows, KeepingAdvances
<1>4. CASE MoveHead(a)
  <2> DEFINE b == op[a].branch
  <2>1. /\ op[a].pc = "moving" /\ head' = table.at[b] /\ Goes(a, At(a, "moved"))
        /\ UNCHANGED <<past, table, open, published, tags, writer, mine>>
    BY <1>4 DEF MoveHead
  <2>2. /\ b \in Known /\ table.switching = b /\ open = Closed
        /\ table.at[table.current] = head
    BY <1>1, <2>1 DEF Knows
  <2>3. PICK r \in Operations :
          r = At(a, "moved") /\ r.pc = "moved" /\ r.branch = op[a].branch
    <3>1. "moved" \in Steps
      BY DEF Steps
    <3> QED
      BY <1>1, <3>1, AtIs
  <2>4. Knows(r)' /\ Within(r)
    BY <2>1, <2>2, <2>3 DEF Knows, Within, Known
  <2>5. /\ Current' = b /\ Known' = Known /\ table.current \in Known
        /\ Current \in {b, table.current}
        /\ Current = b => table.at[b] = head
    BY <1>1, <2>1, <2>2, NowIs DEF CurrentOf, TableOK
  <2>6. Named' = Named /\ Named = Known
    BY <2>2, <2>5, NowIs, SMTT(30)
  <2>7. \A c \in Named : Line(c)' = table.at[c] /\ Line(c) = table.at[c]
    BY <2>1, <2>2, <2>5, <2>6, NowIs DEF LineOf
  <2>8. head' \in Snapshots
    BY <1>1, <2>1, <2>2, NowIs DEF TableOK
  <2> QED
    BY <1>1, <1>2, <2>1, <2>2, <2>3, <2>4, <2>6, <2>7, <2>8, KeepingAdvances
<1>5. CASE EndCheckout(a)
  <2> DEFINE b == op[a].branch
             half == [table EXCEPT !.current = b]
  <2>1. /\ op[a].pc = "moved" /\ table' = [half EXCEPT !.switching = None]
        /\ writer' = IF op[a].creates THEN a ELSE None
        /\ Goes(a, IF op[a].creates THEN At(a, "align") ELSE Idle)
        /\ UNCHANGED <<past, head, open, published, tags, mine>>
    BY <1>5 DEF EndCheckout
  <2>2. b \in Known /\ table.switching = b /\ table.at[b] = head
    BY <1>1, <2>1 DEF Knows
  <2>3. table' = Table(b, None, table.at, table.aligned)
    <3>1. half = Table(b, table.switching, table.at, table.aligned)
      BY <1>1 DEF TableOK, Table
    <3> HIDE DEF half
    <3>2. table' = [half EXCEPT !.switching = None]
      BY <2>1
    <3> QED
      BY <3>1, <3>2 DEF Table
  <2>4. /\ table'.current = b /\ table'.switching = None /\ table'.at = table.at
        /\ TableOK(table', Snapshots)
    <3>1. /\ table'.current = b /\ table'.switching = None /\ table'.at = table.at
          /\ table'.aligned = table.aligned
      BY <2>3 DEF Table
    <3> QED
      BY <1>1, <2>2, <2>3, <3>1, NowIs DEF TableOK
  <2>5. Current = b /\ Current' = b /\ Known' = Known
    BY <1>1, <2>1, <2>2, <2>4, NowIs DEF CurrentOf
  <2>6. Named' = Named /\ \A c \in Named : Line(c)' = Line(c)
    <3>1. Named' = Named
      BY <2>5, NowIs
    <3>2. \A c : Line(c)' = LineOf(table', head', c) /\ Line(c) = LineOf(table, head, c)
      BY NowIs
    <3>3. CurrentOf(table, head) = b /\ CurrentOf(table', head') = b
      BY <2>5, NowIs
    <3> HIDE DEF b
    <3>4. \A c : LineOf(table', head', c) = LineOf(table, head, c)
      BY <2>1, <2>4, <3>3 DEF LineOf
    <3> QED
      BY <3>1, <3>2, <3>4
  <2>7. CASE op[a].creates
    <3>1. PICK r \in Operations : r = At(a, "align") /\ r.pc = "align"
      <4>1. "align" \in Steps
        BY DEF Steps
      <4> QED
        BY <1>1, <4>1, AtIs
    <3>2. Knows(r)' /\ Within(r)
      BY <3>1 DEF Knows, Within
    <3>3. Goes(a, r) /\ writer' = a
      BY <2>1, <2>7, <3>1
    <3> QED
      BY <1>1, <1>2, <2>1, <2>4, <2>6, <3>2, <3>3, KeepingAdvances
  <2>8. CASE ~op[a].creates
    <3>1. Goes(a, Idle) /\ writer' = None
      BY <2>1, <2>8
    <3> QED
      BY <1>1, <1>2, <2>1, <2>4, <2>6, <3>1, IdleIs, IdleKnows, KeepingAdvances
  <2> QED
    BY <2>7, <2>8
<1>6. CASE PushTag(a)
  <2>1. /\ op[a].pc = "pushing" /\ tags' = [tags EXCEPT ![op[a].branch] = head]
        /\ UNCHANGED <<past, local, writer, mine>> /\ Goes(a, At(a, "confirm"))
    BY <1>6 DEF PushTag
  <2>2. PICK r \in Operations :
          /\ r = At(a, "confirm") /\ r.pc = "confirm" /\ r.branch = op[a].branch
          /\ r.overtaken = op[a].overtaken /\ r.given = op[a].given
    <3>1. "confirm" \in Steps
      BY DEF Steps
    <3> QED
      BY <1>1, <3>1, AtIs
  <2>3. /\ UNCHANGED <<head, table, open, published>>
        /\ Current' = Current /\ Named' = Named /\ \A b : Line(b)' = Line(b)
    BY <2>1, NowIs DEF local
  <2>4. Knows(r)' /\ Within(r)
    <3>1. ~r.given /\ ~r.overtaken => r.branch = Current'
      BY <1>1, <2>1, <2>2, <2>3 DEF Knows
    <3> QED
      BY <2>2, <3>1 DEF Knows, Within
  <2>5. /\ tags' \in [Tags -> Snapshots \cup {Nothing}]
        /\ \A t \in Tags : tags'[t] = Nothing => tags[t] = Nothing
    BY <1>1, <2>1 DEF Nothing
  <2> QED
    BY <1>1, <1>2, <2>1, <2>2, <2>3, <2>4, <2>5, KeepingAdvances
<1>7. CASE PushEnds(a)
  <2>1. /\ op[a].pc = "confirm" /\ published' \in {published, published \cup {head}}
        /\ writer' = None /\ UNCHANGED <<past, head, table, open, tags, mine>>
        /\ Goes(a, Idle)
    BY <1>7 DEF PushEnds
  <2>2. Named' = Named /\ \A b : Line(b)' = Line(b)
    BY <2>1, NowIs
  <2>3. published \subseteq published' /\ published' \subseteq Snapshots
    BY <1>1, <2>1
  <2> QED
    BY <1>1, <1>2, <2>1, <2>2, <2>3, IdleIs, IdleKnows, KeepingAdvances
<1> QED
  BY <1>3, <1>4, <1>5, <1>6, <1>7

\* What the head and the branches name is of this brain's histories.
LEMMA ReachedIs ==
    ASSUME IInv
    PROVE  /\ Reached \subseteq Snapshots
           /\ \A s : OnLine(s) => s \in Reached
<1>1. PastOK /\ TableOK(table, Snapshots) /\ head \in Snapshots
  BY DEF IInv, Pointers
<1>2. \A h \in {head} \cup {table.at[b] : b \in Known} : h \in Snapshots
  BY <1>1, NowIs DEF TableOK
<1>3. \A h \in Snapshots : past[h] \subseteq Snapshots
  BY <1>1 DEF PastOK, Snapshots
<1>4. Reached \subseteq Snapshots
  BY <1>2, <1>3 DEF Reached
<1>5. ASSUME NEW b \in Named
      PROVE  Line(b) \in {head} \cup {table.at[c] : c \in Known}
  BY NowIs DEF Line
<1> QED
  BY <1>4, <1>5 DEF OnLine, Reached

\* A step that records the head under its branch, and may start another.
LEMMA RecordedIs ==
    ASSUME IInv
    PROVE  LET kept == Put(table.at, Current, head) IN
           /\ DOMAIN kept = Named
           /\ \A b \in Named : kept[b] = Line(b) /\ kept[b] \in Snapshots
           /\ kept[Current] = head
<1>1. /\ DOMAIN Put(table.at, Current, head) = DOMAIN table.at \cup {Current}
      /\ Put(table.at, Current, head)[Current] = head
      /\ \A c \in DOMAIN table.at \ {Current} :
           Put(table.at, Current, head)[c] = table.at[c]
  BY DEF Put
<1>2. \A b \in Named : Line(b) \in Snapshots
  <2>1. TableOK(table, Snapshots) /\ head \in Snapshots
    BY DEF IInv, Pointers
  <2> QED
    BY <2>1, NowIs, TableIs
<1> QED
  BY <1>1, <1>2, NowIs DEF Line

LEMMA AdvancesByBranching ==
    ASSUME IInv, NEW a \in Actors,
           \/ \E b \in Branches, s \in Snapshots, w \in BOOLEAN : Create(a, b, s, w)
           \/ Checkout(a)
    PROVE  Advances
<1> DEFINE kept == Put(table.at, Current, head)
<1>1. /\ Knows(op[a]) /\ a # None /\ op[a].branch \in Tags
      /\ op[a] \in Operations
      /\ PastOK /\ Pointers /\ op \in [Actors -> Operations]
      /\ TableOK(table, Snapshots) /\ head \in Snapshots
      /\ published \subseteq Snapshots /\ tags \in [Tags -> Snapshots \cup {Nothing}]
  BY OwnIs DEF Pointers
<1>2. /\ None \notin Branches /\ Known \subseteq Branches /\ Current \in Branches
      /\ Named = Known \cup {Current} /\ Current \in Known \cup {Main}
      /\ Known # {} => Current \in Known
  BY <1>1, NowIs, TableIs DEF TableOK
<1>3. /\ DOMAIN kept = Named /\ kept[Current] = head
      /\ \A b \in Named : kept[b] = Line(b) /\ kept[b] \in Snapshots
  BY RecordedIs
<1> HIDE DEF kept
<1>4. /\ Settled = Table(Current, None, table.at, table.aligned)
      /\ table.aligned \in BOOLEAN
  BY <1>1, SettledIs DEF TableOK
<1>5. ASSUME NEW b \in Branches, NEW s \in Snapshots, NEW w \in BOOLEAN,
             Create(a, b, s, w)
      PROVE  Advances
  <2> DEFINE more == Put(kept, b, s)
             half == [Settled EXCEPT !.at = more]
  <2>1. /\ op[a].pc = "idle" /\ writer = None /\ writer' = a
        /\ b \notin Known \cup {Main}
        /\ Goes(a, Starts(IF w THEN "checkout" ELSE "align", b, TRUE))
        /\ UNCHANGED <<past, head, open, published, tags, mine>>
    BY <1>5 DEF Create, Free
  <2>2. PICK r \in Operations : /\ Goes(a, r) /\ r.pc \in {"checkout", "align"}
                                /\ r.creates
    <3>1. /\ (IF w THEN "checkout" ELSE "align") \in Steps
          /\ (IF w THEN "checkout" ELSE "align") \in {"checkout", "align"}
      BY DEF Steps
    <3> DEFINE pc == IF w THEN "checkout" ELSE "align"
    <3> HIDE DEF pc
    <3>2. /\ Starts(pc, b, TRUE) \in Operations /\ Starts(pc, b, TRUE).pc = pc
          /\ Starts(pc, b, TRUE).creates
      <4>1. pc \in Steps /\ b \in Tags /\ TRUE \in BOOLEAN
        BY <3>1 DEF pc, Tags
      <4> QED
        BY ONLY <4>1, StartsIs
    <3> QED
      BY <2>1, <3>1, <3>2 DEF pc
  <2>3. Knows(r)' /\ Within(r)
    BY <2>2 DEF Knows, Within
  <2>4. PICK al \in BOOLEAN : table' = Table(Current, None, more, al)
    <3>1. half = Table(Current, None, more, table.aligned)
      BY ONLY <1>4 DEF Table
    <3>2. table' = [half EXCEPT !.aligned = HasTable /\ table.aligned]
      BY <1>5 DEF Create, kept
    <3>3. PICK al \in BOOLEAN : al = (HasTable /\ table.aligned)
      BY <1>4
    <3>4. table' = [half EXCEPT !.aligned = al]
      BY <3>2, <3>3
    <3> HIDE DEF half, more
    <3>5. table' = Table(Current, None, more, al)
      BY ONLY <3>1, <3>4 DEF Table
    <3> QED
      BY <3>5
  <2>5. /\ DOMAIN more = Named \cup {b} /\ more[b] = s
        /\ \A c \in Named : more[c] = kept[c]
    <3>1. b \notin Named
      BY <1>2, <2>1
    <3> QED
      BY <1>3, <3>1 DEF Put
  <2> HIDE DEF more
  <2>6. /\ table'.current = Current /\ table'.switching = None
        /\ table'.at = more /\ table'.aligned = al
    BY <2>4 DEF Table
  <2>7. TableOK(table', Snapshots)
    BY <1>2, <1>3, <2>4, <2>5, <2>6 DEF TableOK
  <2>8. Current' = Current /\ Known' = Named \cup {b}
    BY <1>2, <2>5, <2>6, NowIs DEF CurrentOf
  <2>9. Named \subseteq Named' /\ \A c \in Named : Line(c)' = Line(c)
    <3>1. \A c \in Named : Line(c)' = kept[c]
      BY <1>3, <2>1, <2>5, <2>6, <2>8 DEF Line
    <3> QED
      BY <1>3, <2>8, <3>1, NowIs
  <2> QED
    BY <1>1, <2>1, <2>2, <2>3, <2>7, <2>9, KeepingAdvances
<1>6. CASE Checkout(a)
  <2> DEFINE b == op[a].branch
             half == [Settled EXCEPT !.at = kept]
  <2>1. /\ op[a].pc = "checkout" /\ writer \in {None, a} /\ writer' = a
        /\ b \in Known /\ open = Closed /\ Goes(a, At(a, "moving"))
        /\ UNCHANGED <<past, head, open, published, tags, mine>>
        /\ table' = [half EXCEPT !.switching = b]
    BY <1>6 DEF Checkout, kept
  <2>2. PICK r \in Operations :
          r = At(a, "moving") /\ r.pc = "moving" /\ r.branch = op[a].branch
    <3>1. "moving" \in Steps
      BY DEF Steps
    <3> QED
      BY <1>1, <3>1, AtIs
  <2>3. table' = Table(Current, b, kept, table.aligned)
    <3>1. half = Table(Current, None, kept, table.aligned)
      BY ONLY <1>4 DEF Table
    <3>2. table' = [half EXCEPT !.switching = b]
      BY <2>1
    <3> HIDE DEF half
    <3> QED
      BY ONLY <3>1, <3>2 DEF Table
  <2>4. /\ table'.current = Current /\ table'.switching = b
        /\ table'.at = kept /\ table'.aligned = table.aligned
    BY <2>3 DEF Table
  <2>5. Named = Known /\ Current \in Known
    BY <1>2, <2>1
  <2>6. TableOK(table', Snapshots)
    <3>1. b \in DOMAIN kept /\ Current \in DOMAIN kept /\ DOMAIN kept \subseteq Branches
      BY <1>2, <1>3, <2>1, <2>5
    <3> QED
      BY <1>3, <1>4, <2>3, <2>4, <3>1 DEF TableOK
  <2>7. Current' \in {Current, b} /\ kept[Current'] = head /\ Known' = Named
    BY <1>3, <2>1, <2>4, <2>5, NowIs DEF CurrentOf
  <2>8. Named' = Named /\ \A c \in Named : Line(c)' = Line(c)
    <3>1. Named' = Named
      BY <2>1, <2>5, <2>7, NowIs
    <3>2. \A c \in Named : Line(c)' = kept[c]
      BY <2>1, <2>4, <2>7 DEF Line
    <3> QED
      BY <1>3, <3>1, <3>2
  <2>9. Knows(r)' /\ Within(r)
    <3>1. /\ r.branch \in Known' /\ table'.switching = r.branch
          /\ table'.at[table'.current] = head' /\ open' = Closed
      BY <1>3, <2>1, <2>2, <2>4, <2>5, <2>7
    <3> QED
      BY <2>2, <3>1 DEF Knows, Within
  <2> QED
    BY <1>1, <2>1, <2>2, <2>6, <2>8, <2>9, KeepingAdvances
<1> QED
  BY <1>5, <1>6

\* A branch that goes is published, behind another line, or given up by force.
LEMMA AdvancesByDeleting ==
    ASSUME IInv, NEW a \in Actors, NEW b \in Branches, NEW force \in BOOLEAN,
           Delete(a, b, force)
    PROVE  Advances
<1> DEFINE rest == [c \in Known \ {b} |-> table.at[c]]
<1>1. /\ a # None /\ PastOK /\ Pointers /\ TableOK(table, Snapshots)
      /\ head \in Snapshots /\ None \notin Branches /\ OpenOK
  BY OwnIs
<1>2. /\ op[a].pc = "idle" /\ writer = None /\ b \in Known /\ b # Current
      /\ \/ force
         \/ table.at[b] \in published
         \/ \E c \in Known \ {b} : table.at[b] \in past[Line(c)]
      /\ table' = [Settled EXCEPT !.at = rest]
      /\ mine' = IF force THEN mine \ past[table.at[b]] ELSE mine
      /\ UNCHANGED <<past, head, open, published, tags, writer>> /\ Goes(a, Idle)
  BY DEF Delete, Free
<1>3. /\ Current \in Known /\ Named = Known /\ Known \subseteq Branches
      /\ \A c \in Known : Line(c) \in Snapshots /\ table.at[c] \in Snapshots
  BY <1>1, <1>2, NowIs, TableIs DEF TableOK
<1>4. /\ Settled = Table(Current, None, table.at, table.aligned)
      /\ table.aligned \in BOOLEAN
  BY <1>1, SettledIs DEF TableOK
<1>5. table' = Table(Current, None, rest, table.aligned)
  <2>1. table' = [Settled EXCEPT !.at = rest]
    BY <1>2
  <2> HIDE DEF rest
  <2> QED
    BY ONLY <1>4, <2>1 DEF Table
<1>6. DOMAIN rest = Known \ {b} /\ \A c \in Known \ {b} : rest[c] = table.at[c]
  OBVIOUS
<1> HIDE DEF rest
<1>7. /\ table'.current = Current /\ table'.switching = None
      /\ table'.at = rest /\ table'.aligned = table.aligned
  BY <1>5 DEF Table
<1>8. TableOK(table', Snapshots)
  BY <1>2, <1>3, <1>4, <1>5, <1>6, <1>7 DEF TableOK
<1>9. Current' = Current /\ Known' = Known \ {b} /\ Named' = Known \ {b}
  BY <1>1, <1>2, <1>3, <1>6, <1>7, NowIs DEF CurrentOf
<1>10. \A c \in Known \ {b} : Line(c)' = Line(c)
  BY <1>2, <1>6, <1>7, <1>9 DEF Line
<1>11. Line(b) = table.at[b]
  BY <1>2 DEF Line
<1>12. PastOK' /\ PastGrows /\ Snapshots' = Snapshots
  BY <1>1, <1>2, PastStays DEF Snapshots
<1>13. Pointers' /\ OpenOK'
  BY <1>1, <1>2, <1>8, <1>12 DEF Pointers, OpenOK
<1>14. WorkOnLines'
  <2> SUFFICES ASSUME NEW s \in mine'
               PROVE  \/ \E c \in Named' : s \in past'[Line(c)']
                      \/ \E h \in published' : s \in past'[h]
    BY DEF WorkOnLines, OnLine
  <2>1. s \in mine
    BY <1>2
  <2>2. \/ \E c \in Known : s \in past[Line(c)]
        \/ \E h \in published : s \in past[h]
    BY <1>3, <2>1 DEF IInv, WorkOnLines, OnLine
  <2>3. CASE \E h \in published : s \in past[h]
    BY <1>2, <2>3
  <2>4. CASE \E c \in Known \ {b} : s \in past[Line(c)]
    BY <1>2, <1>9, <1>10, <2>4
  <2>5. CASE s \in past[table.at[b]]
    <3>1. ~force
      BY <1>2, <2>5
    <3>2. CASE table.at[b] \in published
      BY <1>2, <2>5, <3>2
    <3>3. CASE \E c \in Known \ {b} : table.at[b] \in past[Line(c)]
      <4>1. PICK c \in Known \ {b} : table.at[b] \in past[Line(c)]
        BY <3>3
      <4>2. past[table.at[b]] \subseteq past[Line(c)]
        BY <1>1, <1>2, <1>3, <4>1 DEF PastOK
      <4> QED
        BY <1>2, <1>9, <1>10, <2>5, <4>1, <4>2
    <3> QED
      BY <1>2, <3>1, <3>2, <3>3
  <2> QED
    BY <1>11, <2>2, <2>3, <2>4, <2>5
<1>15. IInv'
  BY <1>2, <1>12, <1>13, <1>14, IdleIs, IdleKnows, StepKeeps
<1>16. StepLines
  BY <1>3, <1>9, <1>10, NowIs DEF StepLines
<1>17. StepOpen /\ StepFetch
  <2>1. StepFetch
    BY <1>2, IdleIs, FetchIs
  <2> QED
    BY <1>1, <1>2, <2>1 DEF StepOpen, OpenOK
<1> QED
  BY <1>15, <1>16, <1>17 DEF Advances

\* A pull moves the line of the tag's branch, which an aligned table routes it
\* to, or of the current one when the tag is no branch's, and no other.
LEMMA AdvancesByInstalling ==
    ASSUME IInv, NEW a \in Actors, Install(a)
    PROVE  Advances
<1> PICK tag : tag = Replaced(op[a].branch)
  OBVIOUS
<1> DEFINE served == tags[op[a].branch]
           kept == Put(table.at, Current, head)
           more == Put(kept, tag, served)
<1>1. /\ a # None /\ PastOK /\ Pointers /\ TableOK(table, Snapshots)
      /\ head \in Snapshots /\ None \notin Branches /\ OpenOK
      /\ op[a].branch \in Tags /\ Knows(op[a]) /\ (Within(op[a]) <=> writer = a)
      /\ tag \in Branches
      /\ \/ op[a].branch = tag
         \/ tag = Current /\ op[a].branch \notin Branches
      /\ tags \in [Tags -> Snapshots \cup {Nothing}]
  BY OwnIs DEF Pointers, Replaced, Tags
<1>2. /\ op[a].pc = "install" /\ open = Closed /\ head' = served
      /\ published' = published \cup {served} /\ writer' = None
      /\ mine' = IF tag \in Known \cup {Current}
                 THEN mine \ (past[Line(tag)] \ past[served]) ELSE mine
      /\ UNCHANGED <<past, open, tags>> /\ Goes(a, Idle)
  BY DEF Install
<1>3. served \in Snapshots /\ Routed(op[a].branch) = tag /\ writer = a
  BY <1>1, <1>2 DEF Knows, Routed, Within
<1>4. /\ table' = IF ~HasTable /\ tag = Current THEN table
                  ELSE Table(tag, None, more, table.aligned)
  BY <1>3 DEF Install, Table
<1>5. /\ DOMAIN kept = Named
      /\ \A c \in Named : kept[c] = Line(c) /\ kept[c] \in Snapshots
  BY RecordedIs
<1>6. /\ Named \subseteq Branches /\ Named = Known \cup {Current}
      /\ ~HasTable => Named = {Main} /\ Current = Main /\ table.switching = None
                      /\ table.current = Main
      /\ table.aligned \in BOOLEAN
  <2>1. /\ NamedOf(table, head) \subseteq Branches
        /\ DOMAIN table.at = {} =>
             CurrentOf(table, head) = Main /\ NamedOf(table, head) = {Main}
    BY <1>1, TableIs
  <2> QED
    BY <1>1, <2>1, NowIs DEF TableOK, HasTable
<1>7. /\ Current' = tag /\ Named' = Named \cup {tag} /\ Line(tag)' = served
      /\ \A c \in Named \ {tag} : Line(c)' = Line(c)
      /\ TableOK(table', Snapshots)
  <2>1. CASE ~HasTable /\ tag = Current
    <3>1. table' = table /\ Named = {tag} /\ tag = Main
      BY <1>4, <1>6, <2>1
    <3>2. Known' = {} /\ Current' = Main /\ Named' = {Main}
      BY <1>6, <2>1, <3>1, NowIs DEF CurrentOf, HasTable
    <3>3. Line(tag)' = head'
      BY <3>1, <3>2 DEF Line
    <3> QED
      BY <1>1, <1>2, <3>1, <3>2, <3>3
  <2>2. CASE HasTable \/ tag # Current
    <3>1. /\ DOMAIN more = Named \cup {tag} /\ more[tag] = served
          /\ \A c \in Named \ {tag} : more[c] = Line(c) /\ more[c] \in Snapshots
      <4> HIDE DEF kept, served
      <4> QED
        BY <1>5 DEF Put
    <3> HIDE DEF more, served
    <3>2. table' = Table(tag, None, more, table.aligned)
      BY <1>4, <2>2
    <3>3. /\ table'.current = tag /\ table'.switching = None
          /\ table'.at = more /\ table'.aligned = table.aligned
      BY <3>2 DEF Table
    <3>4. TableOK(table', Snapshots)
      BY <1>1, <1>3, <1>6, <3>1, <3>2, <3>3 DEF TableOK
    <3>5. Current' = tag /\ Known' = Named \cup {tag}
      BY <1>1, <1>6, <3>1, <3>3, NowIs DEF CurrentOf
    <3>6. Named' = Named \cup {tag}
      BY <3>5, NowIs
    <3>7. Line(tag)' = served /\ \A c \in Named \ {tag} : Line(c)' = Line(c)
      BY <1>2, <3>1, <3>3, <3>5 DEF Line
    <3> QED
      BY <3>4, <3>5, <3>6, <3>7
  <2> QED
    BY <2>1, <2>2
<1> HIDE DEF served, kept, more
<1>8. PastOK' /\ PastGrows /\ Snapshots' = Snapshots
  BY <1>1, <1>2, PastStays DEF Snapshots
<1>9. Pointers' /\ OpenOK'
  BY <1>1, <1>2, <1>3, <1>7, <1>8 DEF Pointers, OpenOK
<1>10. WorkOnLines'
  <2> SUFFICES ASSUME NEW s \in mine'
               PROVE  \/ \E c \in Named' : s \in past'[Line(c)']
                      \/ \E h \in published' : s \in past'[h]
    BY DEF WorkOnLines, OnLine
  <2>1. s \in mine
    BY <1>2
  <2>2. \/ \E c \in Named : s \in past[Line(c)]
        \/ \E h \in published : s \in past[h]
    BY <2>1 DEF IInv, WorkOnLines, OnLine
  <2>3. CASE \E h \in published : s \in past[h]
    BY <1>2, <2>3
  <2>4. CASE \E c \in Named \ {tag} : s \in past[Line(c)]
    BY <1>2, <1>7, <2>4
  <2>5. CASE tag \in Named /\ s \in past[Line(tag)]
    <3>1. s \in past[served]
      BY <1>2, <1>6, <2>5
    <3> QED
      BY <1>2, <1>7, <3>1
  <2> QED
    BY <2>2, <2>3, <2>4, <2>5
<1>11. IInv'
  BY <1>2, <1>3, <1>8, <1>9, <1>10, IdleIs, IdleKnows, StepKeeps
<1>12. StepLines
  <2>1. \/ Installing(tag)
        \/ tag = Current /\ \A c \in Branches : ~Installing(c)
    <3>1. \A c \in Actors : op[c].pc = "install" => c = a
      BY <1>1, <1>3 DEF IInv, Writes, Within
    <3> QED
      BY <1>1, <1>2, <3>1 DEF Installing
  <2> QED
    BY <1>6, <1>7, <2>1 DEF StepLines
<1>13. StepOpen /\ StepFetch
  <2>1. StepFetch
    BY <1>2, IdleIs, FetchIs
  <2> QED
    BY <1>2, <2>1 DEF StepOpen
<1> QED
  BY <1>11, <1>12, <1>13 DEF Advances

\* A step outside any operation: of somebody else, or on what is open.
LEMMA OutsideAdvances ==
    ASSUME IInv, PastOK', PastGrows,
           UNCHANGED <<head, table, published, writer, op, mine>>,
           writer = None \/ UNCHANGED open,
           tags' \in [Tags -> Snapshots' \cup {Nothing}],
           \A t \in Tags : tags'[t] = Nothing => tags[t] = Nothing,
           open' \in [ours : Snapshots \cup {Nothing},
                      theirs : Snapshots \cup {Nothing}, answered : BOOLEAN],
           OpenOK', StepOpen
    PROVE  Advances
<1>1. /\ Pointers /\ PastOK /\ op \in [Actors -> Operations] /\ Writes
      /\ TableOK(table, Snapshots) /\ head \in Snapshots
      /\ \A a \in Actors : Knows(op[a]) /\ op[a] \in Operations
      /\ \A a \in Actors : a # None
      /\ Snapshots \subseteq Snapshots'
  BY DEF IInv, Pointers, PastGrows
<1>2. Current' = Current /\ Named' = Named /\ \A b : Line(b)' = Line(b)
  BY NowIs
<1>3. Pointers'
  <2>1. TableOK(table', Snapshots')
    BY <1>1, TableGrows
  <2> QED
    BY <1>1, <2>1 DEF Pointers, Tags
<1>4. WorkOnLines'
  <2>1. \A b \in Named : Line(b) \in Snapshots
    BY <1>1, NowIs, TableIs
  <2>2. \A b \in Named : b \in Named' /\ past[Line(b)] \subseteq past'[Line(b)']
    BY <1>2, <2>1 DEF PastGrows
  <2> QED
    BY <2>2, WorkStays
<1>5. ASSUME NEW a \in Actors
      PROVE  Knows(op[a])'
  <2> DEFINE r == op[a]
  <2>1. Knows(r) /\ op' = op /\ r \in Operations /\ head' = head
        /\ table' = table /\ Current' = Current /\ Known' = Known
    BY <1>1, <1>2 DEF Known
  <2>2. r.pc = "moving" => UNCHANGED open
    BY <1>1 DEF Writes, Within
  <2>3. PICK w \in Operations : w = op[a] /\ w = op'[a]
    BY <1>1
  <2> HIDE DEF r
  <2>4. Knows(w)
    BY <1>1, <2>3
  <2>5. w.pc \in {"plan", "reconcile", "contains"} =>
           /\ w.theirs \in Snapshots /\ w.theirs \in Snapshots'
           /\ past'[head'] = past[head] /\ past'[w.theirs] = past[w.theirs]
    BY <1>1, <2>1, <2>4 DEF Knows, PastGrows
  <2>6. w.pc = "install" => tags'[w.branch] # Nothing
    BY <2>3, <2>4 DEF Knows, Operations
  <2>7. Knows(w)'
    BY <2>1, <2>2, <2>3, <2>4, <2>5, <2>6 DEF Knows, Clean, r
  <2> QED
    BY <2>3, <2>7 DEF Knows, Clean
<1>6. Writes'
  BY <1>1 DEF Writes, Within
<1>7. IInv'
  BY <1>1, <1>3, <1>4, <1>5, <1>6 DEF IInv
<1>8. StepLines /\ StepFetch
  BY <1>2 DEF StepLines, StepFetch
<1> QED
  BY <1>7, <1>8 DEF Advances

LEMMA AdvancesOutside ==
    ASSUME IInv,
           \/ \E a \in Actors : Resolve(a) \/ Abort(a)
           \/ \E t \in Tags : Other(t)
    PROVE  Advances
<1>1. /\ Pointers /\ PastOK /\ OpenOK /\ head \in Snapshots
      /\ tags \in [Tags -> Snapshots \cup {Nothing}] /\ tags[Main] # Nothing
      /\ open \in [ours : Snapshots \cup {Nothing},
                   theirs : Snapshots \cup {Nothing}, answered : BOOLEAN]
  BY DEF IInv, Pointers
<1>2. ASSUME NEW a \in Actors, Resolve(a)
      PROVE  Advances
  <2>1. /\ writer = None /\ open # Closed
        /\ open' = [open EXCEPT !.answered = TRUE]
        /\ UNCHANGED <<past, head, table, published, tags, writer, op, mine>>
    BY <1>2 DEF Resolve
  <2>2. PastOK' /\ PastGrows /\ Snapshots' = Snapshots
    BY <1>1, <2>1, PastStays DEF Snapshots
  <2>3. /\ open'.ours = open.ours /\ open'.theirs = open.theirs
        /\ open' \in [ours : Snapshots \cup {Nothing},
                      theirs : Snapshots \cup {Nothing}, answered : BOOLEAN]
    BY <1>1, <2>1
  <2>4. OpenOK' /\ StepOpen
    BY <1>1, <2>1, <2>2, <2>3 DEF OpenOK, StepOpen
  <2> QED
    BY <1>1, <2>1, <2>2, <2>3, <2>4, OutsideAdvances
<1>3. ASSUME NEW a \in Actors, Abort(a)
      PROVE  Advances
  <2>1. /\ writer = None /\ open' = Closed
        /\ UNCHANGED <<past, head, table, published, tags, writer, op, mine>>
    BY <1>3 DEF Abort
  <2>2. PastOK' /\ PastGrows /\ Snapshots' = Snapshots
    BY <1>1, <2>1, PastStays DEF Snapshots
  <2>3. open' \in [ours : Snapshots \cup {Nothing},
                   theirs : Snapshots \cup {Nothing}, answered : BOOLEAN]
    BY <2>1 DEF Closed
  <2>4. OpenOK' /\ StepOpen
    BY <2>1 DEF OpenOK, StepOpen
  <2> QED
    BY <1>1, <2>1, <2>2, <2>3, <2>4, OutsideAdvances
<1>4. ASSUME NEW t \in Tags, Other(t)
      PROVE  Advances
  <2> DEFINE base == IF tags[t] = Nothing THEN tags[Main] ELSE tags[t]
  <2>1. /\ Mint({base}) /\ tags' = [tags EXCEPT ![t] = New]
        /\ UNCHANGED <<head, table, open, published, writer, op, mine>>
    BY <1>4 DEF Other, local
  <2>2. {base} \in SUBSET Snapshots
    BY <1>1 DEF Tags
  <2> HIDE DEF base
  <2>3. PastOK' /\ PastGrows /\ New \in Snapshots'
    BY <1>1, <2>1, <2>2, MintIs
  <2>4. /\ tags' \in [Tags -> Snapshots' \cup {Nothing}]
        /\ \A u \in Tags : tags'[u] = Nothing => tags[u] = Nothing
    <3>1. New # Nothing
      BY <1>1 DEF PastOK, New, Nothing
    <3> QED
      BY <1>1, <2>1, <2>3, <3>1 DEF PastGrows
  <2>5. OpenOK' /\ StepOpen
    BY <1>1, <2>1, <2>3 DEF OpenOK, StepOpen, PastGrows
  <2> QED
    BY <1>1, <2>1, <2>3, <2>4, <2>5, OutsideAdvances
<1> QED
  BY <1>2, <1>3, <1>4

LEMMA AdvancesByKill ==
    ASSUME IInv, Kill
    PROVE  Advances
<1>1. /\ op' = [a \in Actors |-> Idle] /\ writer' = None
      /\ UNCHANGED <<past, head, table, open, published, tags, mine>>
  BY DEF Kill, local
<1>2. /\ Pointers /\ PastOK /\ OpenOK /\ WorkOnLines
      /\ \A a \in Actors : a # None
  BY DEF IInv
<1>3. /\ PastOK' /\ PastGrows /\ Snapshots' = Snapshots
      /\ Current' = Current /\ Named' = Named /\ \A b : Line(b)' = Line(b)
  BY <1>1, <1>2, NowIs, PastStays DEF Snapshots
<1>4. Pointers' /\ OpenOK'
  BY <1>1, <1>2, <1>3 DEF Pointers, OpenOK
<1>5. WorkOnLines'
  BY <1>1, <1>2, <1>3 DEF WorkOnLines, OnLine
<1>6. op' \in [Actors -> Operations] /\ \A a \in Actors : op'[a] = Idle
  BY <1>1, IdleIs
<1>7. Writes'
  <2>1. \A a \in Actors : ~Within(op'[a]) /\ writer' # a
    BY <1>1, <1>2, <1>6, IdleIs
  <2> QED
    BY <2>1 DEF Writes, Within
<1>8. \A a \in Actors : Knows(op[a])'
  BY <1>6, IdleIs DEF Knows
<1>9. IInv'
  BY <1>3, <1>4, <1>5, <1>6, <1>7, <1>8 DEF IInv
<1>10. StepLines /\ StepOpen /\ StepFetch
  BY <1>1, <1>2, <1>3 DEF StepLines, StepOpen, StepFetch, OpenOK
<1> QED
  BY <1>9, <1>10 DEF Advances

----------------------------------------------------------------------------
(* Theorems *)

LEMMA InitHolds == Init => IInv
<1> SUFFICES ASSUME Init
             PROVE  IInv
  OBVIOUS
<1>1. /\ past = << {1} >> /\ head = 1 /\ published = {1} /\ open = Closed
      /\ table = Table(Main, None, << >>, TRUE) /\ mine = {}
      /\ tags = [t \in Tags |-> IF t \in {Main} \cup Releases THEN 1 ELSE Nothing]
      /\ writer = None /\ op = [a \in Actors |-> Idle]
  BY DEF Init, Table
<1>2. Len(past) = 1 /\ Snapshots = {1} /\ past[1] = {1}
  BY <1>1 DEF Snapshots
<1>3. PastOK
  <2>1. past \in Seq(SUBSET {1})
    BY <1>1
  <2> QED
    BY <1>2, <2>1 DEF PastOK
<1>4. TableOK(table, Snapshots)
  <2>1. DOMAIN << >> = {}
    OBVIOUS
  <2>2. /\ table.current = Main /\ table.switching = None
        /\ table.at = << >> /\ table.aligned = TRUE
    BY <1>1 DEF Table
  <2> QED
    BY <1>1, <2>1, <2>2 DEF TableOK
<1>5. Pointers
  <2>1. tags \in [Tags -> Snapshots \cup {Nothing}] /\ tags[Main] # Nothing
    BY <1>1, <1>2 DEF Nothing, Tags
  <2>2. open \in [ours : Snapshots \cup {Nothing},
                  theirs : Snapshots \cup {Nothing}, answered : BOOLEAN]
    BY <1>1 DEF Closed
  <2> QED
    BY <1>1, <1>2, <1>4, <2>1, <2>2 DEF Pointers
<1>6. op \in [Actors -> Operations] /\ Writes
  <2>1. op \in [Actors -> Operations] /\ \A a \in Actors : op[a] = Idle
    BY <1>1, IdleIs
  <2> QED
    BY <1>1, <2>1, IdleIs DEF Writes
<1>7. \A a \in Actors : Knows(op[a])
  BY <1>1, IdleKnows
<1>8. OpenOK /\ WorkOnLines
  BY <1>1 DEF OpenOK, WorkOnLines
<1> QED
  BY <1>3, <1>5, <1>6, <1>7, <1>8 DEF IInv

LEMMA NextAdvances ==
    ASSUME IInv, Next
    PROVE  Advances
<1>1. ASSUME NEW a \in Actors, Acts(a)
      PROVE  Advances
  <2>1. CASE Commit(a)
    BY <2>1, AdvancesByCommitting
  <2>2. CASE \/ \E b \in Branches, s \in Snapshots, w \in BOOLEAN : Create(a, b, s, w)
             \/ Checkout(a)
    BY <2>2, AdvancesByBranching
  <2>3. CASE \/ AlignCreated(a) \/ MoveHead(a) \/ EndCheckout(a)
             \/ PushTag(a) \/ PushEnds(a)
    BY <2>3, AdvancesByEnding
  <2>4. CASE \/ \E b \in Branches : Switch(a, b)
             \/ CheckoutRefused(a) \/ Push(a) \/ PushRefused(a)
             \/ \E t \in Tags : PushTo(a, t)
             \/ \E t \in Tags : Pull(a, t)
             \/ \E t \in Tags : Fetch(a, t)
             \/ FetchMissing(a) \/ NotForward(a)
             \/ \E b \in Branches, pc \in {"join", "record"} : Merge(a, b, pc)
    BY <2>4, AdvancesByLooking
  <2>5. CASE \E b \in Branches, f \in BOOLEAN : Delete(a, b, f)
    BY <2>5, AdvancesByDeleting
  <2>6. CASE (\E f \in BOOLEAN : PushChecked(a, f)) \/ PullFetch(a) \/ PullMissing(a) \/ FastForward(a)
    BY <2>6, AdvancesBySettling
  <2>7. CASE Install(a)
    BY <2>7, AdvancesByInstalling
  <2>8. CASE \/ FetchBrings(a) \/ Contains(a) \/ Plan(a) \/ InstallRefused(a)
             \/ \E s \in Snapshots : ByHand(a, s)
    BY <2>8, AdvancesByFetching
  <2>9. CASE Reconcile(a) \/ Record(a) \/ Continue(a)
    BY <2>9, AdvancesByJoining
  <2>10. CASE Resolve(a) \/ Abort(a)
    BY <2>10, AdvancesOutside
  <2> QED
    BY <1>1, <2>1, <2>2, <2>3, <2>4, <2>5, <2>6, <2>7, <2>8, <2>9, <2>10 DEF Acts
<1> QED
  BY <1>1, AdvancesOutside, AdvancesByKill DEF Next

LEMMA Stutters ==
    ASSUME IInv, UNCHANGED vars
    PROVE  IInv'
<1>1. /\ UNCHANGED <<past, head, table, open, published, tags, writer, op, mine>>
  BY DEF vars, local
<1>2. Snapshots' = Snapshots /\ Current' = Current /\ Known' = Known /\ Named' = Named
      /\ \A b : Line(b)' = Line(b)
  BY <1>1, NowIs DEF Snapshots
<1>3. PastOK' /\ Pointers' /\ Writes' /\ OpenOK' /\ WorkOnLines'
  BY <1>1, <1>2 DEF IInv, PastOK, Pointers, Writes, OpenOK, WorkOnLines, OnLine
<1>4. \A a \in Actors : Knows(op[a])'
  BY <1>1, <1>2 DEF IInv, Knows, Clean
<1> QED
  BY <1>1, <1>2, <1>3, <1>4 DEF IInv

LEMMA Invariant == Spec => []IInv
<1>1. IInv /\ [Next]_vars => IInv'
  BY NextAdvances, Stutters DEF Advances
<1> QED
  BY <1>1, InitHolds, PTL DEF Spec

\* Snapshots descend from snapshots, the table names branches that are in it,
\* and whoever is inside the session's write is the one writer.
THEOREM Typing == Spec => []TypeOK
<1>1. ASSUME IInv
      PROVE  TypeOK
  <2>1. /\ past \in Seq(SUBSET Snapshots) /\ \A s \in Snapshots : s \in past[s]
        /\ published \cup mine \subseteq Snapshots /\ head \in Snapshots
        /\ tags \in [Tags -> Snapshots \cup {Nothing}]
        /\ op \in [Actors -> Operations]
    BY <1>1 DEF IInv, PastOK, Pointers
  <2>2. /\ Known \subseteq Branches /\ \A b \in Known : table.at[b] \in Snapshots
        /\ HasTable => table.current \in Known /\ table.switching \in Known \cup {None}
        /\ ~HasTable => table.current = Main /\ table.switching = None
        /\ table.aligned \in BOOLEAN
    BY <1>1 DEF IInv, Pointers, TableOK, HasTable, Known
  <2>3. \A a \in Actors : Inside(a) <=> writer = a
    BY <1>1 DEF IInv, Writes, Within, Inside
  <2> QED
    BY <2>1, <2>2, <2>3 DEF TypeOK
<1> QED
  BY <1>1, Invariant, PTL

\* No commit made here is left without a name, through checkouts that are
\* interrupted and settled later, pushes that are overtaken, and pulls and
\* deletions, but for what is given up by a forced deletion, by a pull of its
\* own branch's tag, or by a pull of a tag that is no branch's into its branch.
THEOREM WorkHolds == Spec => []WorkIsNamed
<1>1. ASSUME IInv
      PROVE  WorkIsNamed
  BY <1>1, ReachedIs DEF IInv, WorkOnLines, WorkIsNamed
<1> QED
  BY <1>1, Invariant, PTL

\* A push that names no tag publishes the branch the brain is on, unless it
\* was switched after the tag was chosen.
THEOREM PushesHold == Spec => []PublishesItsOwn
<1>1. ASSUME IInv
      PROVE  PublishesItsOwn
  BY <1>1 DEF IInv, Knows, PublishesItsOwn
<1> QED
  BY <1>1, Invariant, PTL

\* A pull moves its branch's line, and nothing moves the line of a branch the
\* brain is not on.
THEOREM LinesHold == Spec => LinesStay
<1>1. IInv /\ [Next]_vars => [StepLines]_vars
  BY NextAdvances DEF Advances
<1>2. StepLines <=>
        \A b \in (Known \cup {Current}) \cap (Known' \cup {Current'}) :
          \/ Line(b)' = Line(b)
          \/ Installing(b)
          \/ b = Current /\ \A c \in Branches : ~Installing(c)
  BY DEF StepLines
<1> QED
  BY <1>1, <1>2, Invariant, PTL DEF Spec, LinesStay

\* A reconciliation that is open stays the one it is, and its head with it.
THEOREM OpenHolds == Spec => OpenStands
<1>1. IInv /\ [Next]_vars => [StepOpen]_vars
  BY NextAdvances DEF Advances
<1> QED
  BY <1>1, Invariant, PTL DEF Spec, OpenStands, StepOpen

\* A fetch that goes on to reconcile opens nothing and joins only what the
\* head does not contain, unless the head moved after it looked.
THEOREM FetchHolds == Spec => FetchDecidesNothing
<1>1. IInv /\ [Next]_vars => [StepFetch]_vars
  BY NextAdvances DEF Advances
<1> QED
  BY <1>1, Invariant, PTL DEF Spec, FetchDecidesNothing, StepFetch
===============================================================================
