------------------------- MODULE BrainSessionProofs -------------------------
(***************************************************************************)
(* What the session keeps, for any tasks and threads, capabilities, heads  *)
(* and depth of nesting: one writer, cached brains that describe the head, *)
(* writes that build on it, and reads and pinned answers that follow the   *)
(* writes finished before them.                                            *)
(***************************************************************************)
EXTENDS BrainSession, TLAPS

USE SessionAssumption

\* Where an actor is agrees with the method it is in and its open scopes.
Shape ==
    \A a \in Actors :
        /\ pc[a] \in {"install", "before", "body", "invalidate", "exit"}
              => goal[a] = "write"
        /\ pc[a] = "read" => goal[a] = "read"
        /\ pc[a] = "body" => frames[a] # <<>>
        /\ frames[a] # <<>> => pc[a] = "body" \/ Entering(a)

\* The lock is held exactly while a brain is looked for under it, or opened.
LockShape ==
    \A a \in Actors : lock = a <=> pc[a] \in {"locked", "opening"}

FramesBelow ==
    \A a \in Actors : \A i \in 1..Len(frames[a]) : frames[a][i] <= head

\* An open scope began at another head, or is about to invalidate.
DirtyScope(a) ==
    \/ pc[a] = "invalidate"
    \/ \E i \in 1..Len(frames[a]) : frames[a][i] # head
Dirty == \E a \in Actors : DirtyScope(a)

\* An answer that its actor may still use or cache.
Pending(a) ==
    pc[a] = "opening" \/ (pc[a] = "pinned" /\ gen[a] = generation)

\* Only an open write leaves a brain behind the head.
Fresh ==
    Dirty \/ /\ \A c \in Capabilities : cache[c] \in {None, head}
             /\ \A a \in Actors : Pending(a) => seen[a] = head

\* Nothing the session would answer from is behind a finished write.
SettledBelow == settled <= head /\ \A a \in Actors : since[a] <= settled
CacheFollows == \A c \in Capabilities : cache[c] # None => cache[c] >= settled
AnswersFollow == \A a \in Actors : Pending(a) => seen[a] >= settled

Generations == \A a \in Actors : gen[a] <= generation

IInv == /\ TypeOK /\ Shape /\ LockShape /\ OneWriter /\ FramesBelow
        /\ Generations /\ Fresh /\ WritesBuildOnTheHead
        /\ SettledBelow /\ CacheFollows /\ AnswersFollow /\ ReadsFollowWrites

----------------------------------------------------------------------------
\* The task, or the thread when there is none, identifies the actor.
LEMMA OwnerIdentifies ==
    ASSUME NEW a \in Actors, NEW b \in Actors, Owner(a) = Owner(b)
    PROVE  a = b
BY DEF Owner

LEMMA OwnerIsSomebody == ASSUME NEW a \in Actors PROVE Owner(a) # None
BY DEF Owner

\* The initial state satisfies the invariant.
THEOREM InitIInv == Init => IInv
<1> SUFFICES ASSUME Init PROVE IInv
  OBVIOUS
<1> USE DEF Init
<1>1. TypeOK
  BY DEF TypeOK, Versions, Steps, Suspendable
<1>2. Shape /\ LockShape /\ FramesBelow /\ Generations
  BY DEF Shape, LockShape, FramesBelow, Generations
<1>3. OneWriter
  BY DEF OneWriter, Inside, Entering
<1>4. Fresh /\ WritesBuildOnTheHead
  BY DEF Fresh, Pending, WritesBuildOnTheHead
<1>5. SettledBelow /\ CacheFollows /\ AnswersFollow /\ ReadsFollowWrites
  BY DEF SettledBelow, CacheFollows, AnswersFollow, Pending, ReadsFollowWrites
<1> QED
  BY <1>1, <1>2, <1>3, <1>4, <1>5 DEF IInv

----------------------------------------------------------------------------
\* What an actor does.
Step(a) ==
    \/ \E c \in Capabilities : Read(a, c)
    \/ \E c \in Capabilities : Pin(a, c)
    \/ \E install \in BOOLEAN : Enter(a, install)
    \/ Hit(a) \/ Miss(a) \/ TakeLock(a) \/ LockedHit(a)
    \/ Open(a) \/ Opened(a) \/ OpenFails(a) \/ OpenInstall(a)
    \/ Before(a) \/ MoveHead(a) \/ Forget(a)
    \/ EndRead(a) \/ AcceptPin(a) \/ RefusePin(a)
    \/ Leave(a) \/ Invalidate(a) \/ Exit(a)

LEMMA Appended ==
    ASSUME NEW S, NEW s \in Seq(S), NEW e \in S
    PROVE  Append(s, e) # <<>> /\ Len(Append(s, e)) = Len(s) + 1
OBVIOUS

\* An actor in the body of a write has one scope per nested write.
LEMMA BodyNesting ==
    ASSUME NEW a \in Actors, ~Entering(a), frames[a] \in Seq(Versions)
    PROVE  Nesting(a) = Len(frames[a])
<1>1. Nesting(a) = Len(frames[a]) + 0
  BY DEF Nesting
<1>2. Len(frames[a]) \in Nat
  OBVIOUS
<1> QED
  BY <1>1, <1>2

\* A step moves at most one actor.
LEMMA Moves ==
    ASSUME TypeOK, NEW a \in Actors, NEW step \in Steps, Goto(a, step)
    PROVE  /\ pc' \in [Actors -> Steps]
           /\ pc'[a] = step
           /\ \A b \in Actors \ {a} : pc'[b] = pc[b]
BY DEF TypeOK, Goto

\* The writer of a scope that is left counts it, and leaves nothing behind
\* the head when it is the last.
LEMMA LastScope ==
    ASSUME IInv, NEW a \in Actors, Inside(a)
    PROVE  /\ \A b \in Actors \ {a} : ~Inside(b)
           /\ depth \in Nat \ {0}
           /\ depth = 1 /\ Entering(a) => frames[a] = <<>>
           /\ frames[a] = <<>> /\ pc[a] # "invalidate" => ~Dirty
<1>1. \A b \in Actors \ {a} : ~Inside(b)
  BY DEF IInv, OneWriter
<1>2. frames[a] \in Seq(Versions) /\ depth = Nesting(a) /\ depth \in Nat
  BY DEF IInv, TypeOK, OneWriter
<1>3. Len(frames[a]) \in Nat /\ (Len(frames[a]) = 0 <=> frames[a] = <<>>)
  BY <1>2
<1>4. depth \in Nat \ {0} /\ (depth = 1 /\ Entering(a) => frames[a] = <<>>)
  <2>1. CASE Entering(a)
    <3>1. depth = Len(frames[a]) + 1
      BY <1>2, <2>1 DEF Nesting
    <3> QED
      BY <1>3, <3>1
  <2>2. CASE ~Entering(a)
    <3>1. depth = Len(frames[a]) /\ frames[a] # <<>>
      BY <1>2, <1>3, <2>2 DEF Nesting, Inside
    <3> QED
      BY <1>3, <2>2, <3>1
  <2> QED
    BY <2>1, <2>2
<1>5. ASSUME frames[a] = <<>>, pc[a] # "invalidate" PROVE ~Dirty
  BY <1>1, <1>5 DEF Dirty, DirtyScope, Inside, Entering
<1> QED
  BY <1>1, <1>4, <1>5

\* Types are kept.
LEMMA StepTypeOK ==
    ASSUME IInv, NEW a \in Actors, Step(a)
    PROVE  TypeOK'
<1> USE DEF IInv, session, writing, asked, Goto
<1>1. CASE \E c \in Capabilities : Read(a, c)
  BY <1>1
     DEF Read, Asks, TypeOK, Versions, Steps, Suspendable
<1>2. CASE \E c \in Capabilities : Pin(a, c)
  BY <1>2
     DEF Pin, Asks, TypeOK, Versions, Steps, Suspendable
<1>3. CASE \E install \in BOOLEAN : Enter(a, install)
  BY <1>3, SMTT(20)
     DEF Enter, Asks, TypeOK, Versions, Steps, Suspendable
<1>4. CASE Hit(a)
  BY <1>4
     DEF Hit, Obtain, TypeOK, Versions, Steps, Suspendable
<1>5. CASE Miss(a)
  BY <1>5
     DEF Miss, TypeOK, Versions, Steps, Suspendable
<1>6. CASE TakeLock(a)
  BY <1>6
     DEF TakeLock, TypeOK, Versions, Steps, Suspendable
<1>7. CASE LockedHit(a)
  BY <1>7
     DEF LockedHit, Obtain, TypeOK, Versions, Steps, Suspendable
<1>8. CASE Open(a)
  BY <1>8
     DEF Open, TypeOK, Versions, Steps, Suspendable
<1>9. CASE Opened(a)
  BY <1>9
     DEF Opened, Obtain, TypeOK, Versions, Steps, Suspendable
<1>10. CASE OpenFails(a)
  BY <1>10, SMTT(30)
     DEF OpenFails, TypeOK, Versions, Steps, Suspendable
<1>11. CASE OpenInstall(a)
  <2>1. seen' \in [Actors -> Versions]
    <3>1. seen' = [seen EXCEPT ![a] = head] \/ seen' = seen
      BY <1>11 DEF OpenInstall
    <3>2. seen \in [Actors -> Versions] /\ head \in Versions
      BY DEF TypeOK
    <3> QED
      BY <3>1, <3>2
  <2>2. pc' \in [Actors -> Steps]
    BY <1>11 DEF OpenInstall, TypeOK, Steps
  <2> QED
    BY <1>11, <2>1, <2>2 DEF OpenInstall, TypeOK
<1>12. CASE Before(a)
  BY <1>12, SMTT(20)
     DEF Before, TypeOK, Versions, Steps, Suspendable
<1>13. CASE MoveHead(a)
  BY <1>13
     DEF MoveHead, TypeOK, Versions, Steps, Suspendable
<1>14. CASE Forget(a)
  BY <1>14
     DEF Forget, Forgotten, TypeOK, Versions, Steps, Suspendable
<1>15. CASE EndRead(a)
  BY <1>15
     DEF EndRead, TypeOK, Versions, Steps, Suspendable
<1>16. CASE AcceptPin(a)
  BY <1>16
     DEF AcceptPin, TypeOK, Versions, Steps, Suspendable
<1>17. CASE RefusePin(a)
  BY <1>17
     DEF RefusePin, TypeOK, Versions, Steps, Suspendable
<1>18. CASE Leave(a)
  BY <1>18, SMTT(20)
     DEF Leave, TypeOK, Versions, Steps, Suspendable, Innermost, Outer
<1>19. CASE Invalidate(a)
  BY <1>19
     DEF Invalidate, Forgotten, TypeOK, Versions, Steps, Suspendable
<1>20. CASE Exit(a)
  BY <1>20, LastScope, SMTT(30)
     DEF Exit, TypeOK, Versions, Steps, Suspendable, Inside, Entering
<1> QED
  BY <1>1, <1>2, <1>3, <1>4, <1>5, <1>6, <1>7, <1>8, <1>9, <1>10, <1>11,
     <1>12, <1>13, <1>14, <1>15, <1>16, <1>17, <1>18, <1>19, <1>20 DEF Step

\* A step ends where it says it is.
LEMMA StepShape ==
    ASSUME IInv, NEW a \in Actors, Step(a)
    PROVE  Shape'
<1> USE DEF IInv, session, writing, asked, Goto
<1>1. CASE \E c \in Capabilities : Read(a, c)
  BY <1>1
     DEF Read, Asks, TypeOK, Shape, Entering, Steps, Suspendable
<1>2. CASE \E c \in Capabilities : Pin(a, c)
  BY <1>2
     DEF Pin, Asks, TypeOK, Shape, Entering, Steps, Suspendable
<1>3. CASE \E install \in BOOLEAN : Enter(a, install)
  BY <1>3
     DEF Enter, Asks, TypeOK, Shape, Entering, Steps, Suspendable
<1>4. CASE Hit(a)
  BY <1>4
     DEF Hit, Obtain, TypeOK, Shape, Entering, Steps, Suspendable
<1>5. CASE Miss(a)
  BY <1>5
     DEF Miss, TypeOK, Shape, Entering, Steps, Suspendable
<1>6. CASE TakeLock(a)
  BY <1>6
     DEF TakeLock, TypeOK, Shape, Entering, Steps, Suspendable
<1>7. CASE LockedHit(a)
  BY <1>7
     DEF LockedHit, Obtain, TypeOK, Shape, Entering, Steps, Suspendable
<1>8. CASE Open(a)
  BY <1>8
     DEF Open, TypeOK, Shape, Entering, Steps, Suspendable
<1>9. CASE Opened(a)
  BY <1>9
     DEF Opened, Obtain, TypeOK, Shape, Entering, Steps, Suspendable
<1>10. CASE OpenFails(a)
  BY <1>10
     DEF OpenFails, TypeOK, Shape, Entering, Steps, Suspendable
<1>11. CASE OpenInstall(a)
  BY <1>11
     DEF OpenInstall, TypeOK, Shape, Entering, Steps, Suspendable
<1>12. CASE Before(a)
  <2>1. frames'[a] = Append(frames[a], head) /\ frames[a] \in Seq(Versions)
    BY <1>12 DEF Before, TypeOK
  <2>2. frames'[a] # <<>>
    BY <2>1, Appended DEF TypeOK
  <2> QED
    BY <1>12, <2>2
       DEF Before, TypeOK, Shape, Entering, Steps, Suspendable
<1>13. CASE MoveHead(a)
  BY <1>13
     DEF MoveHead, TypeOK, Shape, Entering, Steps, Suspendable
<1>14. CASE Forget(a)
  BY <1>14
     DEF Forget, Forgotten, TypeOK, Shape, Entering, Steps, Suspendable
<1>15. CASE EndRead(a)
  BY <1>15
     DEF EndRead, TypeOK, Shape, Entering, Steps, Suspendable
<1>16. CASE AcceptPin(a)
  BY <1>16
     DEF AcceptPin, TypeOK, Shape, Entering, Steps, Suspendable
<1>17. CASE RefusePin(a)
  BY <1>17
     DEF RefusePin, TypeOK, Shape, Entering, Steps, Suspendable
<1>18. CASE Leave(a)
  BY <1>18
     DEF Leave, TypeOK, Shape, Entering, Steps, Suspendable, Innermost, Outer
<1>19. CASE Invalidate(a)
  BY <1>19
     DEF Invalidate, Forgotten, TypeOK, Shape, Entering, Steps, Suspendable
<1>20. CASE Exit(a)
  BY <1>20
     DEF Exit, TypeOK, Shape, Entering, Steps, Suspendable
<1> QED
  BY <1>1, <1>2, <1>3, <1>4, <1>5, <1>6, <1>7, <1>8, <1>9, <1>10, <1>11,
     <1>12, <1>13, <1>14, <1>15, <1>16, <1>17, <1>18, <1>19, <1>20 DEF Step

\* The lock is taken and returned with its step.
LEMMA StepLockShape ==
    ASSUME IInv, NEW a \in Actors, Step(a)
    PROVE  LockShape'
<1> USE DEF IInv, session, writing, asked, Goto
<1>1. CASE \E c \in Capabilities : Read(a, c)
  BY <1>1
     DEF Read, Asks, TypeOK, LockShape
<1>2. CASE \E c \in Capabilities : Pin(a, c)
  BY <1>2
     DEF Pin, Asks, TypeOK, LockShape
<1>3. CASE \E install \in BOOLEAN : Enter(a, install)
  BY <1>3
     DEF Enter, Asks, TypeOK, LockShape
<1>4. CASE Hit(a)
  BY <1>4
     DEF Hit, Obtain, TypeOK, LockShape
<1>5. CASE Miss(a)
  BY <1>5
     DEF Miss, TypeOK, LockShape
<1>6. CASE TakeLock(a)
  BY <1>6
     DEF TakeLock, TypeOK, LockShape
<1>7. CASE LockedHit(a)
  BY <1>7
     DEF LockedHit, Obtain, TypeOK, LockShape
<1>8. CASE Open(a)
  BY <1>8
     DEF Open, TypeOK, LockShape
<1>9. CASE Opened(a)
  BY <1>9
     DEF Opened, Obtain, TypeOK, LockShape
<1>10. CASE OpenFails(a)
  BY <1>10
     DEF OpenFails, TypeOK, LockShape
<1>11. CASE OpenInstall(a)
  BY <1>11
     DEF OpenInstall, TypeOK, LockShape
<1>12. CASE Before(a)
  BY <1>12
     DEF Before, TypeOK, LockShape
<1>13. CASE MoveHead(a)
  BY <1>13
     DEF MoveHead, TypeOK, LockShape
<1>14. CASE Forget(a)
  BY <1>14
     DEF Forget, Forgotten, TypeOK, LockShape
<1>15. CASE EndRead(a)
  BY <1>15
     DEF EndRead, TypeOK, LockShape
<1>16. CASE AcceptPin(a)
  BY <1>16
     DEF AcceptPin, TypeOK, LockShape
<1>17. CASE RefusePin(a)
  BY <1>17
     DEF RefusePin, TypeOK, LockShape
<1>18. CASE Leave(a)
  BY <1>18
     DEF Leave, TypeOK, LockShape
<1>19. CASE Invalidate(a)
  BY <1>19
     DEF Invalidate, Forgotten, TypeOK, LockShape
<1>20. CASE Exit(a)
  BY <1>20
     DEF Exit, TypeOK, LockShape
<1> QED
  BY <1>1, <1>2, <1>3, <1>4, <1>5, <1>6, <1>7, <1>8, <1>9, <1>10, <1>11,
     <1>12, <1>13, <1>14, <1>15, <1>16, <1>17, <1>18, <1>19, <1>20 DEF Step

\* An actor that is, or becomes, the writer alone keeps the books right.
LEMMA AloneIsCounted ==
    ASSUME NEW a \in Actors, Inside(a)', \A b \in Actors \ {a} : ~Inside(b)',
           writer' = Owner(a), depth' = Nesting(a)'
    PROVE  OneWriter'
BY DEF OneWriter, Owner

\* Nobody enters or leaves a write.
Unmoved ==
    /\ frames' = frames /\ writer' = writer /\ depth' = depth
    /\ \A b \in Actors : Entering(b)' <=> Entering(b)

LEMMA StandingKept ==
    ASSUME OneWriter, Unmoved
    PROVE  OneWriter'
<1>1. \A b \in Actors : Inside(b)' <=> Inside(b)
  BY DEF Unmoved, Inside
<1>2. \A b \in Actors : Nesting(b)' = Nesting(b)
  BY DEF Unmoved, Nesting
<1>3. \A b \in Actors : Owner(b)' = Owner(b)
  BY DEF Owner
<1> QED
  BY <1>1, <1>2, <1>3 DEF OneWriter, Unmoved

\* A step admits no second writer.
LEMMA StepOneWriter ==
    ASSUME IInv, NEW a \in Actors, Step(a)
    PROVE  OneWriter'
<1> USE DEF IInv, session, writing, asked, Goto
<1>1. CASE \E c \in Capabilities : Read(a, c)
  <2>1. Unmoved
    BY <1>1 DEF Read, Asks, Unmoved, TypeOK, Entering
  <2> QED
    BY <2>1, StandingKept
<1>2. CASE \E c \in Capabilities : Pin(a, c)
  <2>1. Unmoved
    BY <1>2 DEF Pin, Asks, Unmoved, TypeOK, Entering
  <2> QED
    BY <2>1, StandingKept
<1>3. CASE \E install \in BOOLEAN : Enter(a, install)
  <2>1. ASSUME NEW b \in Actors \ {a} PROVE ~Inside(b) /\ ~Inside(b)'
    <3>1. ~Inside(b)
      BY <1>3, OwnerIdentifies, OwnerIsSomebody DEF Enter, OneWriter
    <3> QED
      BY <1>3, <3>1 DEF Enter, Asks, TypeOK, Inside, Entering
  <2>2. Inside(a)' /\ Entering(a)' /\ frames' = frames /\ writer' = Owner(a)
    BY <1>3 DEF Enter, Asks, TypeOK, Inside, Entering
  <2>3. frames[a] \in Seq(Versions)
    BY DEF TypeOK
  <2>4. depth = Len(frames[a])
    <3>1. CASE pc[a] = "idle"
      <4>1. ~Inside(a) /\ frames[a] = <<>>
        BY <3>1 DEF Shape, Inside, Entering
      <4>2. depth = 0
        BY <2>1, <4>1 DEF OneWriter
      <4> QED
        BY <2>3, <4>1, <4>2
    <3>2. CASE pc[a] = "body"
      <4>1. Inside(a) /\ ~Entering(a)
        BY <3>2 DEF Shape, Inside, Entering
      <4> QED
        BY <2>3, <4>1, BodyNesting DEF OneWriter
    <3> QED
      BY <1>3, <3>1, <3>2 DEF Enter
  <2>5. depth' = Nesting(a)'
    BY <1>3, <2>2, <2>4 DEF Enter, Nesting
  <2> QED
    BY <2>1, <2>2, <2>5, AloneIsCounted
<1>4. CASE Hit(a)
  <2>1. Unmoved
    BY <1>4 DEF Hit, Obtain, Unmoved, TypeOK, Entering
  <2> QED
    BY <2>1, StandingKept
<1>5. CASE Miss(a)
  <2>1. Unmoved
    BY <1>5 DEF Miss, Unmoved, TypeOK, Entering
  <2> QED
    BY <2>1, StandingKept
<1>6. CASE TakeLock(a)
  <2>1. Unmoved
    BY <1>6 DEF TakeLock, Unmoved, TypeOK, Entering
  <2> QED
    BY <2>1, StandingKept
<1>7. CASE LockedHit(a)
  <2>1. Unmoved
    BY <1>7 DEF LockedHit, Obtain, Unmoved, TypeOK, Entering
  <2> QED
    BY <2>1, StandingKept
<1>8. CASE Open(a)
  <2>1. Unmoved
    BY <1>8 DEF Open, Unmoved, TypeOK, Entering
  <2> QED
    BY <2>1, StandingKept
<1>9. CASE Opened(a)
  <2>1. Unmoved
    BY <1>9 DEF Opened, Obtain, Unmoved, TypeOK, Entering
  <2> QED
    BY <2>1, StandingKept
<1>10. CASE OpenFails(a)
  <2>1. Unmoved
    BY <1>10 DEF OpenFails, Unmoved, TypeOK, Entering
  <2> QED
    BY <2>1, StandingKept
<1>11. CASE OpenInstall(a)
  <2>1. Unmoved
    BY <1>11 DEF OpenInstall, Unmoved, TypeOK, Entering
  <2> QED
    BY <2>1, StandingKept
<1>12. CASE Before(a)
  <2>1. Inside(a) /\ Entering(a)
    BY <1>12 DEF Before, Inside, Entering
  <2>2. \A b \in Actors \ {a} : ~Inside(b)'
    BY <1>12, <2>1 DEF Before, TypeOK, OneWriter, Inside, Entering
  <2>3. frames[a] \in Seq(Versions) /\ frames'[a] = Append(frames[a], head)
    BY <1>12 DEF Before, TypeOK
  <2>4. /\ frames'[a] # <<>> /\ Len(frames'[a]) = Len(frames[a]) + 1
    <3>1. head \in Versions
      BY DEF TypeOK
    <3> QED
      BY ONLY <2>3, <3>1, Appended
  <2>5. Inside(a)' /\ ~Entering(a)'
    BY <1>12, <2>4 DEF Before, TypeOK, Inside, Entering
  <2>6. depth = Len(frames[a]) + 1 /\ writer = Owner(a)
    BY <2>1 DEF OneWriter, Nesting
  <2>7. depth' = Nesting(a)' /\ writer' = Owner(a)
    <3>1. depth' = depth /\ writer' = writer /\ Owner(a)' = Owner(a)
      BY <1>12 DEF Before, Owner
    <3>2. Nesting(a)' = Len(frames'[a]) + 0
      BY <2>5 DEF Nesting
    <3> QED
      BY <2>3, <2>4, <2>6, <3>1, <3>2
  <2> QED
    BY <2>2, <2>5, <2>7, AloneIsCounted
<1>13. CASE MoveHead(a)
  <2>1. Unmoved
    BY <1>13 DEF MoveHead, Unmoved, TypeOK, Entering
  <2> QED
    BY <2>1, StandingKept
<1>14. CASE Forget(a)
  <2>1. Unmoved
    BY <1>14 DEF Forget, Forgotten, Unmoved, TypeOK, Entering
  <2> QED
    BY <2>1, StandingKept
<1>15. CASE EndRead(a)
  <2>1. Unmoved
    BY <1>15 DEF EndRead, Unmoved, TypeOK, Entering
  <2> QED
    BY <2>1, StandingKept
<1>16. CASE AcceptPin(a)
  <2>1. Unmoved
    BY <1>16 DEF AcceptPin, Unmoved, TypeOK, Entering
  <2> QED
    BY <2>1, StandingKept
<1>17. CASE RefusePin(a)
  <2>1. Unmoved
    BY <1>17 DEF RefusePin, Unmoved, TypeOK, Entering
  <2> QED
    BY <2>1, StandingKept
<1>18. CASE Leave(a)
  <2>1. Inside(a) /\ ~Entering(a) /\ frames[a] # <<>>
    BY <1>18 DEF Leave, Shape, Inside, Entering
  <2>2. \A b \in Actors \ {a} : ~Inside(b)'
    BY <1>18, <2>1 DEF Leave, TypeOK, OneWriter, Inside, Entering
  <2>3. frames[a] \in Seq(Versions) /\ frames'[a] = Outer(a)
    BY <1>18 DEF Leave, TypeOK
  <2>4. Len(frames'[a]) = Len(frames[a]) - 1 /\ Len(frames[a]) \in Nat \ {0}
    BY <2>1, <2>3 DEF Outer
  <2>5. Inside(a)' /\ Entering(a)'
    BY <1>18 DEF Leave, TypeOK, Inside, Entering
  <2>6. depth = Len(frames[a]) /\ writer = Owner(a)
    BY <2>1, <2>3, BodyNesting DEF OneWriter
  <2>7. depth' = Nesting(a)' /\ writer' = Owner(a)
    <3>1. depth' = depth /\ writer' = writer
      BY <1>18 DEF Leave
    <3>2. Nesting(a)' = Len(frames'[a]) + 1
      BY <2>5 DEF Nesting
    <3> QED
      BY <2>4, <2>6, <3>1, <3>2
  <2> QED
    BY <2>2, <2>5, <2>7, AloneIsCounted
<1>19. CASE Invalidate(a)
  <2>1. Unmoved
    BY <1>19 DEF Invalidate, Forgotten, Unmoved, TypeOK, Entering
  <2> QED
    BY <2>1, StandingKept
<1>20. CASE Exit(a)
  BY <1>20, OwnerIdentifies, OwnerIsSomebody
     DEF Exit, TypeOK, Shape, OneWriter, Inside, Entering, Nesting
<1> QED
  BY <1>1, <1>2, <1>3, <1>4, <1>5, <1>6, <1>7, <1>8, <1>9, <1>10, <1>11,
     <1>12, <1>13, <1>14, <1>15, <1>16, <1>17, <1>18, <1>19, <1>20 DEF Step

\* Scopes began at heads no later than this one.
LEMMA StepFramesBelow ==
    ASSUME IInv, NEW a \in Actors, Step(a)
    PROVE  FramesBelow'
<1> USE DEF IInv, session, writing, asked, Goto
<1>1. CASE Before(a)
  <2>1. /\ head' = head /\ frames' = [frames EXCEPT ![a] = Append(@, head)]
        /\ frames \in [Actors -> Seq(Versions)] /\ head \in Versions
    BY <1>1 DEF Before, TypeOK
  <2>2. frames'[a] = Append(frames[a], head) /\ frames[a] \in Seq(Versions)
    BY <2>1
  <2>3. \A i \in 1..Len(frames'[a]) : frames'[a][i] = head \/
            (i \in 1..Len(frames[a]) /\ frames'[a][i] = frames[a][i])
    BY <2>1, <2>2
  <2>4. \A b \in Actors \ {a} : frames'[b] = frames[b]
    BY <2>1
  <2>5. head <= head
    BY <2>1 DEF Versions
  <2> QED
    BY <2>1, <2>3, <2>4, <2>5 DEF FramesBelow
<1>2. CASE MoveHead(a)
  BY <1>2, SMTT(30)
     DEF MoveHead, TypeOK, FramesBelow, Versions
<1>3. CASE Leave(a)
  BY <1>3
     DEF Leave, TypeOK, FramesBelow, Versions, Innermost, Outer
<1>4. CASE UNCHANGED <<head, frames>>
  BY <1>4
     DEF FramesBelow
<1> QED
  BY <1>1, <1>2, <1>3, <1>4
     DEF Step, Read, Pin, Enter, Hit, Miss, TakeLock, LockedHit, Open, Opened,
         OpenFails, OpenInstall, Forget, EndRead, AcceptPin, RefusePin,
         Invalidate, Exit, Asks, Obtain, Forgotten

\* Generations only grow.
LEMMA StepGenerations ==
    ASSUME IInv, NEW a \in Actors, Step(a)
    PROVE  Generations'
<1> USE DEF IInv, session, writing, asked, Goto
<1>1. CASE Hit(a)
  BY <1>1
     DEF Hit, Obtain, TypeOK, Generations
<1>2. CASE LockedHit(a)
  BY <1>2
     DEF LockedHit, Obtain, TypeOK, Generations
<1>3. CASE Opened(a)
  BY <1>3
     DEF Opened, Obtain, TypeOK, Generations
<1>4. CASE Forget(a)
  BY <1>4
     DEF Forget, Forgotten, TypeOK, Generations
<1>5. CASE Invalidate(a)
  BY <1>5
     DEF Invalidate, Forgotten, TypeOK, Generations
<1>6. CASE UNCHANGED <<gen, generation>>
  BY <1>6
     DEF Generations
<1> QED
  BY <1>1, <1>2, <1>3, <1>4, <1>5, <1>6
     DEF Step, Read, Pin, Enter, Miss, TakeLock, Open, OpenFails, OpenInstall,
         Before, MoveHead, EndRead, AcceptPin, RefusePin, Leave, Exit, Asks

\* A commit opens a gap between the scope's head and the head.
LEMMA MoveIsDirty ==
    ASSUME IInv, NEW a \in Actors, MoveHead(a)
    PROVE  Dirty'
<1>1. frames[a] \in Seq(Versions) /\ frames[a] # <<>> /\ frames'[a] = frames[a]
  BY DEF IInv, TypeOK, Shape, MoveHead
<1>2. 1 \in 1..Len(frames[a]) /\ frames[a][1] <= head /\ frames[a][1] \in Nat
  BY <1>1 DEF IInv, FramesBelow, Versions
<1>3. frames'[a][1] # head'
  BY <1>1, <1>2 DEF IInv, TypeOK, Versions, MoveHead
<1> QED
  BY <1>1, <1>2, <1>3 DEF Dirty, DirtyScope

\* A scope stays behind the head until its write invalidates.
LEMMA DirtyStays ==
    ASSUME IInv, NEW a \in Actors, Step(a), Dirty, ~Invalidate(a)
    PROVE  Dirty'
<1> USE DEF IInv, session, writing, asked, Goto
<1>1. CASE /\ UNCHANGED <<head, frames>>
           /\ \A b \in Actors : pc[b] = "invalidate" => pc'[b] = "invalidate"
  BY <1>1 DEF Dirty, DirtyScope
<1>2. CASE MoveHead(a)
  BY <1>2, MoveIsDirty
<1>3. CASE Before(a)
  <2>1. PICK b \in Actors : DirtyScope(b)
    BY DEF Dirty
  <2>2. CASE b # a
    BY <1>3, <2>1, <2>2 DEF Before, Dirty, DirtyScope, TypeOK
  <2>3. CASE b = a
    <3>1. frames[a] \in Seq(Versions) /\ frames'[a] = Append(frames[a], head)
      BY <1>3 DEF Before, TypeOK
    <3>2. PICK i \in 1..Len(frames[a]) : frames[a][i] # head
      BY <1>3, <2>1, <2>3 DEF DirtyScope, Before
    <3>3. i \in 1..Len(frames'[a]) /\ frames'[a][i] # head'
      BY <1>3, <3>1, <3>2 DEF Before
    <3> QED
      BY <3>3 DEF Dirty, DirtyScope
  <2> QED
    BY <2>2, <2>3
<1>4. CASE Leave(a)
  <2>1. PICK b \in Actors : DirtyScope(b)
    BY DEF Dirty
  <2>2. CASE b # a
    BY <1>4, <2>1, <2>2 DEF Leave, Dirty, DirtyScope, TypeOK
  <2>3. CASE b = a /\ head # Innermost(a)
    BY <1>4, <2>3 DEF Leave, Dirty, DirtyScope, TypeOK
  <2>4. CASE b = a /\ head = Innermost(a)
    <3>1. frames[a] \in Seq(Versions) /\ frames'[a] = Outer(a)
      BY <1>4 DEF Leave, TypeOK
    <3>2. PICK i \in 1..Len(frames[a]) : frames[a][i] # head
      BY <1>4, <2>1, <2>4 DEF DirtyScope, Leave
    <3>3. i \in 1..(Len(frames[a]) - 1)
      BY <2>4, <3>1, <3>2 DEF Innermost
    <3>4. i \in 1..Len(frames'[a]) /\ frames'[a][i] = frames[a][i]
      BY <3>1, <3>3 DEF Outer
    <3>5. head' = head
      BY <1>4 DEF Leave
    <3> QED
      BY <3>2, <3>4, <3>5 DEF Dirty, DirtyScope
  <2> QED
    BY <2>2, <2>3, <2>4
<1> QED
  BY <1>1, <1>2, <1>3, <1>4 DEF TypeOK, Step, Read, Pin, Enter, Hit, Miss, TakeLock,
     LockedHit, Open, Opened, OpenFails, OpenInstall, Forget, EndRead,
     AcceptPin, RefusePin, Exit, Asks, Obtain, Forgotten

\* A step leaves nothing behind the head unless a write is open.
LEMMA StepFresh ==
    ASSUME IInv, NEW a \in Actors, Step(a)
    PROVE  Fresh'
<1> USE DEF IInv, session, writing, asked, Goto
<1> SUFFICES ASSUME ~Dirty'
             PROVE  /\ \A c \in Capabilities : cache'[c] \in {None, head'}
                    /\ \A b \in Actors : Pending(b)' => seen'[b] = head'
  BY DEF Fresh
<1> DEFINE AllFresh == /\ \A c \in Capabilities : cache[c] \in {None, head}
                       /\ \A b \in Actors : Pending(b) => seen[b] = head
<1>a. pc[a] # "invalidate" => AllFresh
  BY DirtyStays DEF Fresh, Invalidate
<1>1. CASE MoveHead(a)
  BY <1>1, MoveIsDirty
     DEF MoveHead, TypeOK, Pending
<1>2. CASE Forget(a)
  BY <1>2, <1>a
     DEF Forget, Forgotten, TypeOK, Pending, Generations, LockShape
<1>3. CASE Invalidate(a)
  BY <1>3
     DEF Invalidate, Forgotten, TypeOK, Pending, Generations, LockShape
<1>4. CASE \E c \in Capabilities : Read(a, c)
  BY <1>4, <1>a
     DEF Read, Asks, TypeOK, Pending
<1>5. CASE \E c \in Capabilities : Pin(a, c)
  BY <1>5, <1>a
     DEF Pin, Asks, TypeOK, Pending
<1>6. CASE \E install \in BOOLEAN : Enter(a, install)
  BY <1>6, <1>a
     DEF Enter, Asks, TypeOK, Pending
<1>7. CASE Hit(a)
  BY <1>7, <1>a
     DEF Hit, Obtain, TypeOK, Pending
<1>8. CASE Miss(a)
  BY <1>8, <1>a
     DEF Miss, TypeOK, Pending
<1>9. CASE TakeLock(a)
  BY <1>9, <1>a
     DEF TakeLock, TypeOK, Pending
<1>10. CASE LockedHit(a)
  BY <1>10, <1>a
     DEF LockedHit, Obtain, TypeOK, Pending, LockShape
<1>11. CASE Open(a)
  BY <1>11, <1>a
     DEF Open, TypeOK, Pending
<1>12. CASE Opened(a)
  BY <1>12, <1>a
     DEF Opened, Obtain, TypeOK, Pending, LockShape
<1>13. CASE OpenFails(a)
  BY <1>13, <1>a
     DEF OpenFails, TypeOK, Pending
<1>14. CASE OpenInstall(a)
  BY <1>14, <1>a
     DEF OpenInstall, TypeOK, Pending
<1>15. CASE Before(a)
  BY <1>15, <1>a
     DEF Before, TypeOK, Pending
<1>16. CASE EndRead(a)
  BY <1>16, <1>a
     DEF EndRead, TypeOK, Pending
<1>17. CASE AcceptPin(a)
  BY <1>17, <1>a
     DEF AcceptPin, TypeOK, Pending
<1>18. CASE RefusePin(a)
  BY <1>18, <1>a
     DEF RefusePin, TypeOK, Pending
<1>19. CASE Leave(a)
  BY <1>19, <1>a
     DEF Leave, TypeOK, Pending
<1>20. CASE Exit(a)
  BY <1>20, <1>a
     DEF Exit, TypeOK, Pending
<1> QED
  BY <1>1, <1>2, <1>3, <1>4, <1>5, <1>6, <1>7, <1>8, <1>9, <1>10, <1>11,
     <1>12, <1>13, <1>14, <1>15, <1>16, <1>17, <1>18, <1>19, <1>20 DEF Step

\* A write starts from the head.
LEMMA StepBuilt ==
    ASSUME IInv, NEW a \in Actors, Step(a)
    PROVE  WritesBuildOnTheHead'
<1> USE DEF IInv, session, writing, asked, Goto
<1>1. CASE Hit(a)
  BY <1>1, LastScope
     DEF Hit, Obtain, TypeOK, WritesBuildOnTheHead, Fresh, Inside, Entering
<1>2. CASE LockedHit(a)
  BY <1>2, LastScope
     DEF LockedHit, Obtain, TypeOK, WritesBuildOnTheHead, Fresh, Inside,
         Entering
<1>3. CASE Opened(a)
  BY <1>3, LastScope
     DEF Opened, Obtain, TypeOK, WritesBuildOnTheHead, Fresh, Pending, Inside,
         Entering
<1>4. CASE Open(a)
  BY <1>4
     DEF Open, TypeOK, WritesBuildOnTheHead
<1>5. CASE OpenInstall(a)
  BY <1>5
     DEF OpenInstall, TypeOK, WritesBuildOnTheHead
<1>6. CASE Before(a)
  BY <1>6
     DEF Before, TypeOK, WritesBuildOnTheHead
<1>7. CASE Leave(a)
  BY <1>7
     DEF Leave, TypeOK, WritesBuildOnTheHead
<1>8. CASE MoveHead(a)
  BY <1>8, LastScope
     DEF MoveHead, TypeOK, WritesBuildOnTheHead, Inside, Entering, Shape
<1>9. CASE \E c \in Capabilities : Read(a, c)
  BY <1>9
     DEF Read, Asks, TypeOK, WritesBuildOnTheHead
<1>10. CASE \E c \in Capabilities : Pin(a, c)
  BY <1>10
     DEF Pin, Asks, TypeOK, WritesBuildOnTheHead
<1>11. CASE \E install \in BOOLEAN : Enter(a, install)
  BY <1>11
     DEF Enter, Asks, TypeOK, WritesBuildOnTheHead
<1>12. CASE Miss(a)
  BY <1>12
     DEF Miss, TypeOK, WritesBuildOnTheHead
<1>13. CASE TakeLock(a)
  BY <1>13
     DEF TakeLock, TypeOK, WritesBuildOnTheHead
<1>14. CASE OpenFails(a)
  BY <1>14
     DEF OpenFails, TypeOK, WritesBuildOnTheHead
<1>15. CASE Forget(a)
  BY <1>15
     DEF Forget, Forgotten, TypeOK, WritesBuildOnTheHead
<1>16. CASE EndRead(a)
  BY <1>16
     DEF EndRead, TypeOK, WritesBuildOnTheHead
<1>17. CASE AcceptPin(a)
  BY <1>17
     DEF AcceptPin, TypeOK, WritesBuildOnTheHead
<1>18. CASE RefusePin(a)
  BY <1>18
     DEF RefusePin, TypeOK, WritesBuildOnTheHead
<1>19. CASE Invalidate(a)
  BY <1>19
     DEF Invalidate, Forgotten, TypeOK, WritesBuildOnTheHead
<1>20. CASE Exit(a)
  BY <1>20
     DEF Exit, TypeOK, WritesBuildOnTheHead
<1> QED
  BY <1>1, <1>2, <1>3, <1>4, <1>5, <1>6, <1>7, <1>8, <1>9, <1>10, <1>11,
     <1>12, <1>13, <1>14, <1>15, <1>16, <1>17, <1>18, <1>19, <1>20 DEF Step

\* Finished writes are behind the head.
LEMMA StepSettledBelow ==
    ASSUME IInv, NEW a \in Actors, Step(a)
    PROVE  SettledBelow'
<1> USE DEF IInv, session, writing, asked, Goto
<1>1. CASE \/ \E c \in Capabilities : Read(a, c) \/ Pin(a, c)
            \/ \E install \in BOOLEAN : Enter(a, install)
  <2>1. /\ settled' = settled /\ head' = head
        /\ since' = [since EXCEPT ![a] = settled]
    BY <1>1 DEF Read, Pin, Enter, Asks
  <2> QED
    BY <2>1 DEF TypeOK, SettledBelow, Versions
<1>2. CASE MoveHead(a)
  BY <1>2
     DEF MoveHead, TypeOK, SettledBelow, Versions
<1>3. CASE Exit(a)
  BY <1>3
     DEF Exit, TypeOK, SettledBelow, Versions
<1>4. CASE UNCHANGED <<head, settled, since>>
  BY <1>4
     DEF SettledBelow
<1> QED
  BY <1>1, <1>2, <1>3, <1>4
     DEF Step, Hit, Miss, TakeLock, LockedHit, Open, Opened, OpenFails,
         OpenInstall, Before, Forget, EndRead, AcceptPin, RefusePin, Leave,
         Invalidate, Obtain, Forgotten

\* The cache is not behind a finished write.
LEMMA StepCacheFollows ==
    ASSUME IInv, NEW a \in Actors, Step(a)
    PROVE  CacheFollows'
<1> USE DEF IInv, session, writing, asked, Goto
<1>1. CASE Opened(a)
  BY <1>1
     DEF Opened, Obtain, TypeOK, CacheFollows, Versions, AnswersFollow,
         Pending
<1>2. CASE Forget(a)
  BY <1>2
     DEF Forget, Forgotten, TypeOK, CacheFollows, Versions
<1>3. CASE Invalidate(a)
  BY <1>3
     DEF Invalidate, Forgotten, TypeOK, CacheFollows, Versions
<1>4. CASE Exit(a)
  BY <1>4, LastScope
     DEF Exit, TypeOK, CacheFollows, Versions, Fresh, Inside, Entering
<1>5. CASE UNCHANGED <<cache, settled>>
  BY <1>5
     DEF CacheFollows
<1> QED
  BY <1>1, <1>2, <1>3, <1>4, <1>5
     DEF Step, Read, Pin, Enter, Hit, Miss, TakeLock, LockedHit, Open,
         OpenFails, OpenInstall, Before, MoveHead, EndRead, AcceptPin,
         RefusePin, Leave, Asks, Obtain

\* Nor is an answer the session may still give.
LEMMA StepAnswersFollow ==
    ASSUME IInv, NEW a \in Actors, Step(a)
    PROVE  AnswersFollow'
<1> USE DEF IInv, session, writing, asked, Goto
<1>1. CASE Exit(a)
  <2>1. CASE depth = 1
    <3>1. ~Dirty
      BY <1>1, <2>1, LastScope DEF Exit, Inside, Entering
    <3>2. \A b \in Actors : Pending(b) => seen[b] = head
      BY <3>1 DEF Fresh
    <3>3. \A b \in Actors : Pending(b)' => Pending(b)
      BY <1>1 DEF Exit, TypeOK, Pending
    <3>4. settled' = head /\ seen' = seen
      BY <1>1, <2>1 DEF Exit
    <3> QED
      BY <3>2, <3>3, <3>4 DEF AnswersFollow, TypeOK, Versions
  <2>2. CASE depth # 1
    BY <1>1, <2>2 DEF Exit, TypeOK, AnswersFollow, Pending
  <2> QED
    BY <2>1, <2>2
<1>2. CASE Hit(a)
  BY <1>2
     DEF Hit, Obtain, TypeOK, AnswersFollow, Pending, Versions, CacheFollows
<1>3. CASE LockedHit(a)
  BY <1>3
     DEF LockedHit, Obtain, TypeOK, AnswersFollow, Pending, Versions,
         CacheFollows
<1>4. CASE Open(a)
  BY <1>4
     DEF Open, TypeOK, AnswersFollow, Pending, Versions, SettledBelow
<1>5. CASE OpenInstall(a)
  BY <1>5
     DEF OpenInstall, TypeOK, AnswersFollow, Pending, Versions, LockShape
<1>6. CASE Forget(a)
  BY <1>6
     DEF Forget, Forgotten, TypeOK, AnswersFollow, Pending, Versions,
         Generations, LockShape
<1>7. CASE Invalidate(a)
  BY <1>7
     DEF Invalidate, Forgotten, TypeOK, AnswersFollow, Pending, Versions,
         Generations, LockShape
<1>8. CASE \E c \in Capabilities : Read(a, c)
  BY <1>8
     DEF Read, Asks, TypeOK, AnswersFollow, Pending, Versions
<1>9. CASE \E c \in Capabilities : Pin(a, c)
  BY <1>9
     DEF Pin, Asks, TypeOK, AnswersFollow, Pending, Versions
<1>10. CASE \E install \in BOOLEAN : Enter(a, install)
  BY <1>10
     DEF Enter, Asks, TypeOK, AnswersFollow, Pending, Versions
<1>11. CASE Miss(a)
  BY <1>11
     DEF Miss, TypeOK, AnswersFollow, Pending, Versions
<1>12. CASE TakeLock(a)
  BY <1>12
     DEF TakeLock, TypeOK, AnswersFollow, Pending, Versions
<1>13. CASE Opened(a)
  BY <1>13
     DEF Opened, Obtain, TypeOK, AnswersFollow, Pending, Versions
<1>14. CASE OpenFails(a)
  BY <1>14
     DEF OpenFails, TypeOK, AnswersFollow, Pending, Versions
<1>15. CASE Before(a)
  BY <1>15
     DEF Before, TypeOK, AnswersFollow, Pending, Versions
<1>16. CASE MoveHead(a)
  BY <1>16
     DEF MoveHead, TypeOK, AnswersFollow, Pending, Versions
<1>17. CASE EndRead(a)
  BY <1>17
     DEF EndRead, TypeOK, AnswersFollow, Pending, Versions
<1>18. CASE AcceptPin(a)
  BY <1>18
     DEF AcceptPin, TypeOK, AnswersFollow, Pending, Versions
<1>19. CASE RefusePin(a)
  BY <1>19
     DEF RefusePin, TypeOK, AnswersFollow, Pending, Versions
<1>20. CASE Leave(a)
  BY <1>20
     DEF Leave, TypeOK, AnswersFollow, Pending, Versions
<1> QED
  BY <1>1, <1>2, <1>3, <1>4, <1>5, <1>6, <1>7, <1>8, <1>9, <1>10, <1>11,
     <1>12, <1>13, <1>14, <1>15, <1>16, <1>17, <1>18, <1>19, <1>20 DEF Step

\* A read answers from what had finished when it began.
LEMMA StepReadsFollow ==
    ASSUME IInv, NEW a \in Actors, Step(a)
    PROVE  ReadsFollowWrites'
<1> USE DEF IInv, session, writing, asked, Goto
<1>1. CASE Hit(a)
  BY <1>1, SMTT(20)
     DEF Hit, Obtain, TypeOK, ReadsFollowWrites, Versions, CacheFollows,
         SettledBelow
<1>2. CASE LockedHit(a)
  BY <1>2, SMTT(20)
     DEF LockedHit, Obtain, TypeOK, ReadsFollowWrites, Versions, CacheFollows,
         SettledBelow
<1>3. CASE Opened(a)
  <2>1. seen[a] >= settled /\ settled >= since[a]
    BY <1>3 DEF Opened, AnswersFollow, Pending, SettledBelow, TypeOK, Versions
  <2>2. seen[a] >= since[a]
    BY <2>1 DEF TypeOK, Versions
  <2>3. seen'[a] = seen[a] /\ since' = since
    BY <1>3 DEF Opened, Obtain, TypeOK
  <2>4. \A b \in Actors \ {a} : pc'[b] = pc[b] /\ seen'[b] = seen[b]
    BY <1>3 DEF Opened, Obtain, TypeOK
  <2> QED
    BY <2>2, <2>3, <2>4 DEF ReadsFollowWrites
<1>4. CASE \E c \in Capabilities : Read(a, c)
  BY <1>4
     DEF Read, Asks, TypeOK, ReadsFollowWrites, Versions
<1>5. CASE \E c \in Capabilities : Pin(a, c)
  BY <1>5
     DEF Pin, Asks, TypeOK, ReadsFollowWrites, Versions
<1>6. CASE \E install \in BOOLEAN : Enter(a, install)
  BY <1>6
     DEF Enter, Asks, TypeOK, ReadsFollowWrites, Versions
<1>7. CASE Miss(a)
  BY <1>7
     DEF Miss, TypeOK, ReadsFollowWrites, Versions
<1>8. CASE TakeLock(a)
  BY <1>8
     DEF TakeLock, TypeOK, ReadsFollowWrites, Versions
<1>9. CASE Open(a)
  BY <1>9
     DEF Open, TypeOK, ReadsFollowWrites, Versions
<1>10. CASE OpenFails(a)
  BY <1>10
     DEF OpenFails, TypeOK, ReadsFollowWrites, Versions
<1>11. CASE OpenInstall(a)
  BY <1>11
     DEF OpenInstall, TypeOK, ReadsFollowWrites, Versions
<1>12. CASE Before(a)
  BY <1>12
     DEF Before, TypeOK, ReadsFollowWrites, Versions
<1>13. CASE MoveHead(a)
  BY <1>13
     DEF MoveHead, TypeOK, ReadsFollowWrites, Versions
<1>14. CASE Forget(a)
  BY <1>14
     DEF Forget, Forgotten, TypeOK, ReadsFollowWrites, Versions
<1>15. CASE EndRead(a)
  BY <1>15
     DEF EndRead, TypeOK, ReadsFollowWrites, Versions
<1>16. CASE AcceptPin(a)
  BY <1>16
     DEF AcceptPin, TypeOK, ReadsFollowWrites, Versions
<1>17. CASE RefusePin(a)
  BY <1>17
     DEF RefusePin, TypeOK, ReadsFollowWrites, Versions
<1>18. CASE Leave(a)
  BY <1>18
     DEF Leave, TypeOK, ReadsFollowWrites, Versions
<1>19. CASE Invalidate(a)
  BY <1>19
     DEF Invalidate, Forgotten, TypeOK, ReadsFollowWrites, Versions
<1>20. CASE Exit(a)
  BY <1>20
     DEF Exit, TypeOK, ReadsFollowWrites, Versions
<1> QED
  BY <1>1, <1>2, <1>3, <1>4, <1>5, <1>6, <1>7, <1>8, <1>9, <1>10, <1>11,
     <1>12, <1>13, <1>14, <1>15, <1>16, <1>17, <1>18, <1>19, <1>20 DEF Step

----------------------------------------------------------------------------
\* Every step preserves the invariant.
THEOREM NextIInv == IInv /\ [Next]_vars => IInv'
<1> SUFFICES ASSUME IInv, [Next]_vars PROVE IInv'
  OBVIOUS
<1>1. CASE Next
  <2>1. PICK a \in Actors : Step(a)
    BY <1>1 DEF Next, Step
  <2> QED
    BY <2>1, StepTypeOK, StepShape, StepLockShape, StepOneWriter,
       StepFramesBelow, StepGenerations, StepFresh, StepBuilt,
       StepSettledBelow, StepCacheFollows, StepAnswersFollow, StepReadsFollow
       DEF IInv
<1>2. CASE UNCHANGED vars
  BY <1>2 DEF IInv, vars, session, writing, asked, TypeOK, Shape, LockShape,
     OneWriter, FramesBelow, Generations, Fresh, WritesBuildOnTheHead,
     SettledBelow, CacheFollows, AnswersFollow, ReadsFollowWrites, Dirty, DirtyScope, Pending, Inside, Entering, Nesting, Owner
<1> QED
  BY <1>1, <1>2

LEMMA Invariance == Spec => []IInv
BY InitIInv, NextIInv, PTL DEF Spec

\* Types are kept (the session's two pieces of state and its actors).
THEOREM Typing == Spec => []TypeOK
<1>1. IInv => TypeOK
  BY DEF IInv
<1> QED
  BY Invariance, <1>1, PTL

\* One task or thread at a time is inside the session's write.
THEOREM WritersExclude == Spec => []OneWriter
<1>1. IInv => OneWriter
  BY DEF IInv
<1> QED
  BY Invariance, <1>1, PTL

\* Without a writer no scope is open, so every cached brain is the head's.
THEOREM CachesAreCoherent == Spec => []CachesDescribeTheHead
<1>1. IInv => CachesDescribeTheHead
  <2> SUFFICES ASSUME IInv, writer = None PROVE \A c \in Capabilities : cache[c] \in {None, head}
    BY DEF CachesDescribeTheHead
  <2>1. \A a \in Actors : ~Inside(a)
    BY OwnerIsSomebody DEF IInv, OneWriter
  <2>2. ~Dirty
    BY <2>1 DEF Dirty, DirtyScope, Inside, Entering
  <2> QED
    BY <2>2 DEF IInv, Fresh
<1> QED
  BY Invariance, <1>1, PTL

\* A write that is not nested starts from the head it will move.
THEOREM WritesAreBuilt == Spec => []WritesBuildOnTheHead
<1>1. IInv => WritesBuildOnTheHead
  BY DEF IInv
<1> QED
  BY Invariance, <1>1, PTL

\* A read that began after a write finished does not answer from before it.
THEOREM ReadsFollow == Spec => []ReadsFollowWrites
<1>1. IInv => ReadsFollowWrites
  BY DEF IInv
<1> QED
  BY Invariance, <1>1, PTL

\* An accepted pinned answer is as new as every write finished before it.
THEOREM PinnedAnswersFollow == Spec => PinnedAnswersAreCurrent
<1>1. IInv /\ [Next]_vars => [\A a \in Actors : AcceptedIsCurrent(a)]_vars
  BY DEF IInv, AnswersFollow, Pending, AcceptedIsCurrent, AcceptPin
<1> QED
  BY Invariance, <1>1, PTL DEF Spec, PinnedAnswersAreCurrent
=============================================================================
