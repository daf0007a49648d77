---------------------------- MODULE BrainSession ----------------------------
(***************************************************************************)
(* The session every runtime operation shares (runtime/session.py): one    *)
(* opened brain per capability, the lock around opening and forgetting     *)
(* them, the single writer, and the reads that run meanwhile.              *)
(*                                                                         *)
(* An actor is a task on an event loop or a plain thread.  A version is a  *)
(* position of the durable head pointer, which only a write moves and      *)
(* never back within one scope; a brain is the version it was opened at.   *)
(*                                                                         *)
(* A plain thread may be preempted anywhere.  A task runs alone on its     *)
(* thread except where it may be suspended: outside the session's methods, *)
(* and in the body of a read or a write, which may await a registry.       *)
(*                                                                         *)
(* MaxHead, MaxDepth and MaxGeneration bound the moves of the head, the    *)
(* nesting of writes, and the invalidations asked for explicitly.          *)
(***************************************************************************)
EXTENDS Naturals, Sequences

CONSTANTS
    Actors, Threads,
    Thread,         \* the thread each actor runs on
    Tasks,          \* the actors that are tasks on their thread's loop
    Capabilities, WRITE,
    MaxHead, MaxDepth, MaxGeneration,
    None

ASSUME SessionAssumption ==
    /\ Thread \in [Actors -> Threads]
    /\ Tasks \subseteq Actors
    /\ \A a, b \in Actors : a # b /\ Thread[a] = Thread[b] => {a, b} \subseteq Tasks
    /\ WRITE \in Capabilities
    /\ MaxHead \in Nat /\ MaxDepth \in Nat /\ MaxGeneration \in Nat
    /\ None \notin Actors /\ None \notin Nat
    /\ \A a \in Actors, t \in Threads : None # <<t, a>> /\ None # <<t, None>>

VARIABLES
    head,       \* the durable head pointer
    cache,      \* _cache
    generation, \* _generation
    lock,       \* the holder of _lock
    writer,     \* _writer
    depth,      \* _depth
    pc, goal,   \* where each actor is, and in which of the session's methods
    cap, seen,  \* the capability it asked for, and the brain it holds
    gen,        \* the generation its pinned read began at
    frames,     \* `before` of each write it is inside, outermost first
    settled,    \* history: the head when a write last finished
    since       \* history: `settled` when the actor's read began

session == <<cache, generation, lock>>
writing == <<writer, depth>>
asked == <<goal, cap, since>>
vars == <<head, session, writing, pc, seen, gen, frames, asked, settled>>

Versions == 0..MaxHead
Suspendable == {"idle", "read", "pinned", "body"}
Steps == Suspendable \cup {"look", "blocked", "locked", "opening", "install",
                           "before", "invalidate", "exit"}

\* MUTANT of Owner: the thread alone.
OwnerThread(a) == <<Thread[a], None>>
\* _writer(): the task when one runs, the thread otherwise.
Owner(a) == <<Thread[a], IF a \in Tasks THEN a ELSE None>>

\* An actor can run unless another task of its thread is between two awaits.
Runs(a) == \A b \in Actors \ {a} : Thread[b] = Thread[a] => pc[b] \in Suspendable

Init ==
    /\ head = 0
    /\ cache = [c \in Capabilities |-> None]
    /\ generation = 0
    /\ lock = None
    /\ writer = None /\ depth = 0
    /\ pc = [a \in Actors |-> "idle"]
    /\ goal = [a \in Actors |-> "read"]
    /\ cap = [a \in Actors |-> WRITE]
    /\ seen = [a \in Actors |-> 0]
    /\ gen = [a \in Actors |-> 0]
    /\ frames = [a \in Actors |-> <<>>]
    /\ settled = 0
    /\ since = [a \in Actors |-> 0]

Goto(a, step) == pc' = [pc EXCEPT ![a] = step]
Asks(a, what, capability) ==
    /\ goal' = [goal EXCEPT ![a] = what]
    /\ cap' = [cap EXCEPT ![a] = capability]
    /\ since' = [since EXCEPT ![a] = settled]

----------------------------------------------------------------------------
(* brain, and the session methods that begin with it *)

\* An operation calls session.brain(c) and reads from what it gets.
Read(a, c) ==
    /\ Runs(a) /\ pc[a] = "idle"
    /\ Asks(a, "read", c)
    /\ Goto(a, "look")
    /\ UNCHANGED <<head, session, writing, seen, gen, frames, settled>>

\* pinned takes the lock before it asks for the brain.
Pin(a, c) ==
    /\ Runs(a) /\ pc[a] = "idle"
    /\ Asks(a, "pin", c)
    /\ Goto(a, "blocked")
    /\ UNCHANGED <<head, session, writing, seen, gen, frames, settled>>

\* MUTANT of Enter: a nested write is not counted.
EnterUncounted(a, install) ==
    /\ Runs(a)
    /\ pc[a] = "idle" \/ (pc[a] = "body" /\ Len(frames[a]) < MaxDepth)
    /\ writer \in {None, Owner(a)}
    /\ writer' = Owner(a) /\ depth' = IF writer = None THEN 1 ELSE depth
    /\ Asks(a, "write", WRITE)
    /\ Goto(a, IF install THEN "install" ELSE "look")
    /\ UNCHANGED <<head, session, seen, gen, frames, settled>>
\* write: admitted when there is no writer, or when it is this actor, nesting.
\* Anyone else is refused at once (SessionBusyError), which changes nothing.
Enter(a, install) ==
    /\ Runs(a)
    /\ pc[a] = "idle" \/ (pc[a] = "body" /\ Len(frames[a]) < MaxDepth)
    /\ writer \in {None, Owner(a)}
    /\ writer' = Owner(a) /\ depth' = depth + 1
    /\ Asks(a, "write", WRITE)
    /\ Goto(a, IF install THEN "install" ELSE "look")
    /\ UNCHANGED <<head, session, seen, gen, frames, settled>>

\* What the actor does next once it holds a brain opened at version v.
Obtain(a, v) ==
    /\ seen' = [seen EXCEPT ![a] = v]
    /\ gen' = [gen EXCEPT ![a] = generation]
    /\ Goto(a, CASE goal[a] = "read" -> "read"
                 [] goal[a] = "pin" -> "pinned"
                 [] OTHER -> "before")

\* The unlocked look at the cache.
Hit(a) ==
    /\ Runs(a) /\ pc[a] = "look" /\ cache[cap[a]] # None
    /\ Obtain(a, cache[cap[a]])
    /\ UNCHANGED <<head, session, writing, frames, asked, settled>>

Miss(a) ==
    /\ Runs(a) /\ pc[a] = "look" /\ cache[cap[a]] = None
    /\ Goto(a, "blocked")
    /\ UNCHANGED <<head, session, writing, seen, gen, frames, asked, settled>>

TakeLock(a) ==
    /\ Runs(a) /\ pc[a] = "blocked" /\ lock = None
    /\ lock' = a
    /\ Goto(a, "locked")
    /\ UNCHANGED <<head, cache, generation, writing, seen, gen, frames, asked,
                   settled>>

\* The second look, under the lock.
LockedHit(a) ==
    /\ Runs(a) /\ pc[a] = "locked" /\ cache[cap[a]] # None
    /\ Obtain(a, cache[cap[a]])
    /\ lock' = None
    /\ UNCHANGED <<head, cache, generation, writing, frames, asked, settled>>

\* open_brain reads the head pointer and builds the view it names...
Open(a) ==
    /\ Runs(a) /\ pc[a] = "locked" /\ cache[cap[a]] = None
    /\ seen' = [seen EXCEPT ![a] = head]
    /\ Goto(a, "opening")
    /\ UNCHANGED <<head, session, writing, gen, frames, asked, settled>>

\* ...which is cached when it is built.
Opened(a) ==
    /\ Runs(a) /\ pc[a] = "opening"
    /\ cache' = [cache EXCEPT ![cap[a]] = seen[a]]
    /\ Obtain(a, seen[a])
    /\ lock' = None
    /\ UNCHANGED <<head, generation, writing, frames, asked, settled>>

\* An open that raises: a write still leaves its scope.
OpenFails(a) ==
    /\ Runs(a) /\ pc[a] = "opening"
    /\ Goto(a, IF goal[a] = "write" THEN "exit" ELSE "idle")
    /\ lock' = None
    /\ UNCHANGED <<head, cache, generation, writing, seen, gen, frames, asked,
                   settled>>

\* write(install=True) opens a brain of its own, outside the cache.
OpenInstall(a) ==
    /\ Runs(a) /\ pc[a] = "install"
    /\ \/ /\ seen' = [seen EXCEPT ![a] = head]
          /\ Goto(a, "before")
       \/ /\ Goto(a, "exit")
          /\ UNCHANGED seen
    /\ UNCHANGED <<head, session, writing, gen, frames, asked, settled>>

----------------------------------------------------------------------------
(* The bodies *)

\* The head as the body of a write begins.
Before(a) ==
    /\ Runs(a) /\ pc[a] = "before"
    /\ frames' = [frames EXCEPT ![a] = Append(@, head)]
    /\ Goto(a, "body")
    /\ UNCHANGED <<head, session, writing, seen, gen, asked, settled>>

\* A commit, a checkout, a pull: the operation moves the head pointer.
MoveHead(a) ==
    /\ Runs(a) /\ pc[a] = "body" /\ head < MaxHead
    /\ head' = head + 1
    /\ UNCHANGED <<session, writing, pc, seen, gen, frames, asked, settled>>

\* MUTANT of Forgotten: the generation is not bumped.
ForgottenQuietly ==
    /\ lock = None
    /\ cache' = [c \in Capabilities |-> None]
    /\ UNCHANGED <<generation, lock>>
\* MUTANT of Forgotten: the lock is not taken.
ForgottenUnlocked ==
    /\ cache' = [c \in Capabilities |-> None]
    /\ generation' = generation + 1
    /\ UNCHANGED lock
\* MUTANT of Forgotten: the writer's own view is kept.
ForgottenButWrite ==
    /\ lock = None
    /\ cache' = [c \in Capabilities |-> IF c = WRITE THEN cache[c] ELSE None]
    /\ generation' = generation + 1
    /\ UNCHANGED lock
\* invalidate, which waits for the lock and keeps it for one step.
Forgotten ==
    /\ lock = None
    /\ cache' = [c \in Capabilities |-> None]
    /\ generation' = generation + 1
    /\ UNCHANGED lock

\* The operations that invalidate explicitly: the index build inside its
\* write, the choice of an embedder outside any.
Forget(a) ==
    /\ Runs(a) /\ pc[a] \in {"idle", "body"} /\ generation < MaxGeneration
    /\ Forgotten
    /\ UNCHANGED <<head, writing, pc, seen, gen, frames, asked, settled>>

EndRead(a) ==
    /\ Runs(a) /\ pc[a] = "read"
    /\ Goto(a, "idle")
    /\ UNCHANGED <<head, session, writing, seen, gen, frames, asked, settled>>

\* pinned returns its answer when no invalidation came between.
AcceptPin(a) ==
    /\ Runs(a) /\ pc[a] = "pinned" /\ generation = gen[a]
    /\ Goto(a, "idle")
    /\ UNCHANGED <<head, session, writing, seen, gen, frames, asked, settled>>

\* StaleBrainError, or a body that raised.
RefusePin(a) ==
    /\ Runs(a) /\ pc[a] = "pinned"
    /\ Goto(a, "idle")
    /\ UNCHANGED <<head, session, writing, seen, gen, frames, asked, settled>>

----------------------------------------------------------------------------
(* The end of a write, whether its body returned, raised or was cancelled *)

Innermost(a) == frames[a][Len(frames[a])]
Outer(a) == SubSeq(frames[a], 1, Len(frames[a]) - 1)

\* MUTANT of Leave: the head is not compared.
LeaveUnchecked(a) ==
    /\ Runs(a) /\ pc[a] = "body"
    /\ frames' = [frames EXCEPT ![a] = Outer(a)]
    /\ Goto(a, "exit")
    /\ UNCHANGED <<head, session, writing, seen, gen, asked, settled>>
\* The head is compared with what it was.
Leave(a) ==
    /\ Runs(a) /\ pc[a] = "body"
    /\ frames' = [frames EXCEPT ![a] = Outer(a)]
    /\ Goto(a, IF head # Innermost(a) THEN "invalidate" ELSE "exit")
    /\ UNCHANGED <<head, session, writing, seen, gen, asked, settled>>

Invalidate(a) ==
    /\ Runs(a) /\ pc[a] = "invalidate"
    /\ Forgotten
    /\ Goto(a, "exit")
    /\ UNCHANGED <<head, writing, seen, gen, frames, asked, settled>>

\* MUTANT of Exit: the end of a nested write admits other writers.
ExitReleasing(a) ==
    /\ Runs(a) /\ pc[a] = "exit"
    /\ depth' = depth - 1
    /\ writer' = None
    /\ settled' = IF depth = 1 THEN head ELSE settled
    /\ Goto(a, IF frames[a] = <<>> THEN "idle" ELSE "body")
    /\ UNCHANGED <<head, session, seen, gen, frames, asked>>
Exit(a) ==
    /\ Runs(a) /\ pc[a] = "exit"
    /\ depth' = depth - 1
    /\ writer' = IF depth = 1 THEN None ELSE writer
    /\ settled' = IF depth = 1 THEN head ELSE settled
    /\ Goto(a, IF frames[a] = <<>> THEN "idle" ELSE "body")
    /\ UNCHANGED <<head, session, seen, gen, frames, asked>>

Next == \E a \in Actors :
    \/ \E c \in Capabilities : Read(a, c) \/ Pin(a, c)
    \/ \E install \in BOOLEAN : Enter(a, install)
    \/ Hit(a) \/ Miss(a) \/ TakeLock(a) \/ LockedHit(a)
    \/ Open(a) \/ Opened(a) \/ OpenFails(a) \/ OpenInstall(a)
    \/ Before(a) \/ MoveHead(a) \/ Forget(a)
    \/ EndRead(a) \/ AcceptPin(a) \/ RefusePin(a)
    \/ Leave(a) \/ Invalidate(a) \/ Exit(a)

Spec == Init /\ [][Next]_vars

----------------------------------------------------------------------------
TypeOK ==
    /\ head \in Versions
    /\ cache \in [Capabilities -> Versions \cup {None}]
    /\ generation \in Nat
    /\ lock \in Actors \cup {None}
    /\ writer \in {Owner(a) : a \in Actors} \cup {None}
    /\ depth \in Nat
    /\ pc \in [Actors -> Steps]
    /\ goal \in [Actors -> {"read", "pin", "write"}]
    /\ cap \in [Actors -> Capabilities]
    /\ seen \in [Actors -> Versions]
    /\ gen \in [Actors -> Nat]
    /\ frames \in [Actors -> Seq(Versions)]
    /\ settled \in Versions
    /\ since \in [Actors -> Versions]

\* Between the two ends of a write's scope, its body included.
Entering(a) ==
    \/ pc[a] \in {"install", "before", "invalidate", "exit"}
    \/ pc[a] \in {"look", "blocked", "locked", "opening"} /\ goal[a] = "write"
Inside(a) == Entering(a) \/ frames[a] # <<>>
Nesting(a) == Len(frames[a]) + (IF Entering(a) THEN 1 ELSE 0)

\* One task or thread at a time is inside the session's write, however
\* deeply nested and however its scopes end, and the session knows which
\* (write's refusal, its reentrancy by owner, its finally).
OneWriter ==
    /\ \A a, b \in Actors : Inside(a) /\ Inside(b) => a = b
    /\ \A a \in Actors : Inside(a) => writer = Owner(a) /\ depth = Nesting(a)
    /\ (\A a \in Actors : ~Inside(a)) => writer = None /\ depth = 0

\* While nobody writes, every opened brain the session would hand out
\* describes the durable head, failed and cancelled writes included.
CachesDescribeTheHead ==
    writer = None => \A c \in Capabilities : cache[c] \in {None, head}

\* A write that is not nested starts from the head it will move, never from
\* a composition an earlier write replaced.
WritesBuildOnTheHead ==
    \A a \in Actors : pc[a] = "before" /\ frames[a] = <<>> => seen[a] = head

\* A read that began after a write finished does not answer from before it,
\* whatever is being opened or invalidated at that moment.
ReadsFollowWrites == \A a \in Actors : pc[a] = "read" => seen[a] >= since[a]

AcceptedIsCurrent(a) == AcceptPin(a) => seen[a] >= settled
\* A pinned read is answered only from a brain at least as new as every
\* write finished before its answer (pinned's generation, invalidate).
PinnedAnswersAreCurrent == [][\A a \in Actors : AcceptedIsCurrent(a)]_vars
=============================================================================
