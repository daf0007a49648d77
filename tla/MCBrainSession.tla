---------------------------- MODULE MCBrainSession ----------------------------
(* Instances of BrainSession for TLC: two tasks on one loop, one thread. *)
EXTENDS BrainSession, TLC

CONSTANTS t1, t2, p, loop, own

TwoTasksAndAThread == t1 :> loop @@ t2 :> loop @@ p :> own
TaskSymmetry == Permutations(Tasks)

\* What the future of a state depends on: an actor's variables where they
\* are still read, and generations by their being current or not.
Live(a) ==
    <<pc[a], frames[a],
      IF pc[a] \in {"look", "blocked", "locked", "opening"}
      THEN <<goal[a], cap[a]>> ELSE <<>>,
      IF pc[a] \in {"opening", "read", "pinned", "before"} THEN seen[a] ELSE 0,
      pc[a] = "pinned" /\ gen[a] = generation,
      IF goal[a] = "read" /\ pc[a] # "idle" THEN since[a] ELSE 0>>
LiveState ==
    <<head, cache, lock, writer, depth, settled,
      IF generation < MaxGeneration THEN generation ELSE MaxGeneration,
      [a \in Actors |-> Live(a)]>>
=============================================================================
