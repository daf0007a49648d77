------------------------- MODULE IngestQueueProofs -------------------------
(***************************************************************************)
(* Proofs about the ingest service, for any number of jobs, workers,       *)
(* digests, items and failures.                                            *)
(*                                                                         *)
(* What the lease fences holds whether or not a lease may lapse during a   *)
(* push: types are kept, an unfinished job can be resumed, and a terminal  *)
(* status is final (IInv).  What the registry and the hash owe each other  *)
(* holds unless a push outlives its lease (PInv): they agree, an output    *)
(* tag is written once, the reports match the status, and the whole        *)
(* service implements the ledger its clients see.                          *)
(***************************************************************************)
EXTENDS IngestQueue, TLAPS

USE IngestAssumption

\* The steps whose guarded writes assume the job is not finished.
Working == PushSteps \cup
    {"reject", "start", "resolve", "install", "cosign", "verify", "process",
     "items", "gate", "finish", "check", "fail"}

\* Only an attempt that acquired its lease has a token, and only a worker at
\* work has a job, whose entry was delivered.
AttemptShape ==
    \A w \in Workers :
        /\ att[w].token = 0 <=> att[w].step \in {"idle", "dead", "acquire"}
        /\ att[w].step \notin {"idle", "dead"} =>
              att[w].job \in Jobs /\ entry[att[w].job] \in {"pending", "gone"}

\* No two attempts ever share a token.
TokensDiffer ==
    \A v, w \in Workers :
        v # w /\ att[v].token # 0 => att[v].token # att[w].token

\* An attempt that still owns its job and is about to work on it, or to
\* acknowledge it, is right about whether the job is finished.
OwnerKnowsStatus ==
    \A w \in Workers :
        att[w].token # 0 /\ Owns(w) =>
        /\ att[w].step \in Working =>
              status[att[w].job] \in {"queued", "running"}
        /\ att[w].step = "ack" =>
              status[att[w].job] \in Terminal \cup {"absent"}

SubmittedTogether == \A j \in Jobs : status[j] = "none" <=> entry[j] = "none"

IInv == /\ TypeOK /\ AttemptShape /\ TokensDiffer /\ OwnerKnowsStatus
        /\ SubmittedTogether /\ Resumable

----------------------------------------------------------------------------
LEMMA AtType == \A step \in Steps : At(step) \in Attempt
BY DEF At, Attempt, NoArtifact, Artifact

\* The initial state satisfies the invariant.
THEOREM InitIInv == Init => IInv
<1> SUFFICES ASSUME Init PROVE IInv
  OBVIOUS
<1> USE DEF Init
<1>1. TypeOK
  BY AtType DEF TypeOK, Statuses, Terminal, Artifact, NoArtifact, At, Steps
<1>2. AttemptShape /\ TokensDiffer /\ OwnerKnowsStatus
  BY DEF AttemptShape, TokensDiffer, OwnerKnowsStatus, At
<1>3. SubmittedTogether /\ Resumable
  BY DEF SubmittedTogether, Resumable
<1> QED
  BY <1>1, <1>2, <1>3 DEF IInv

\* The move of an attempt within its work, or out of it.
Moves(w) ==
    \E next \in Attempt :
        /\ att' = [att EXCEPT ![w] = next]
        /\ next.token = att[w].token /\ next.job = att[w].job
        /\ next.step \in Working \cup {"release"}

LEMMA GotoMoves ==
    ASSUME TypeOK, NEW w \in Workers,
           NEW step \in Working \cup {"release"}, Goto(w, step)
    PROVE  Moves(w)
<1> DEFINE next == [att[w] EXCEPT !.step = step]
<1>1. att[w] \in Attempt
  BY DEF TypeOK
<1>2. next \in Attempt
  BY <1>1 DEF Attempt, Steps, PushSteps, Working
<1>3. att' = [att EXCEPT ![w] = next]
  BY DEF Goto
<1>4. next.token = att[w].token /\ next.job = att[w].job /\ next.step = step
  BY <1>1 DEF Attempt
<1> QED
  BY <1>2, <1>3, <1>4 DEF Moves

LEMMA GotoWithMoves ==
    ASSUME TypeOK, NEW w \in Workers, NEW retryable \in BOOLEAN,
           NEW step \in Working \cup {"release"}, GotoWith(w, step, retryable)
    PROVE  Moves(w)
<1> DEFINE next == [att[w] EXCEPT !.step = step, !.retryable = retryable]
<1>1. att[w] \in Attempt
  BY DEF TypeOK
<1>2. next \in Attempt
  BY <1>1 DEF Attempt, Steps, PushSteps, Working
<1>3. att' = [att EXCEPT ![w] = next]
  BY DEF GotoWith
<1>4. next.token = att[w].token /\ next.job = att[w].job /\ next.step = step
  BY <1>1 DEF Attempt
<1> QED
  BY <1>2, <1>3, <1>4 DEF Moves

LEMMA RaiseMoves ==
    ASSUME TypeOK, NEW w \in Workers, NEW retryable \in BOOLEAN,
           Raise(w, retryable)
    PROVE  Moves(w)
<1>1. \/ GotoWith(w, "check", retryable) \/ Goto(w, "release")
      \/ GotoWith(w, "fail", retryable)
  BY DEF Raise, Uncertain
<1> QED
  BY <1>1, GotoMoves, GotoWithMoves DEF Working

LEMMA FaultType == ASSUME TypeOK, Fault PROVE faults' \in 0..MaxFaults
BY DEF TypeOK, Fault

LEMMA FailsMoves ==
    ASSUME TypeOK, NEW w \in Workers, CallFails(w)
    PROVE  Moves(w) /\ faults' \in 0..MaxFaults
BY RaiseMoves, FaultType DEF CallFails

\* A worker that moves from a working step and touches neither status,
\* request, stream nor lease keeps the invariant.
LEMMA QuietStep ==
    ASSUME IInv, NEW w \in Workers, att[w].step \in Working, Moves(w),
           UNCHANGED <<status, request, output, error, streamVars, leaseVars>>,
           prepared' \in [Jobs -> Artifact],
           items' \in [Jobs -> [1..NumItems -> {"none", "ok", "failed"}]],
           tag' \in [Jobs -> Digests \cup {NoDigest}],
           signed' \subseteq Digests \cup {NoDigest},
           faults' \in 0..MaxFaults
    PROVE  IInv'
<1> USE DEF IInv, TypeOK, streamVars, leaseVars
<1>0. PICK next \in Attempt :
        /\ att' = [att EXCEPT ![w] = next]
        /\ next.token = att[w].token /\ next.job = att[w].job
        /\ next.step \in Working \cup {"release"}
  BY DEF Moves
<1>a. att'[w] = next /\ \A v \in Workers \ {w} : att'[v] = att[v]
  BY <1>0
<1>1. TypeOK'
  BY <1>0, <1>a
<1>2. AttemptShape'
  BY <1>0, <1>a DEF AttemptShape, Working, PushSteps
<1>3. TokensDiffer'
  BY <1>0, <1>a DEF TokensDiffer
<1>4. OwnerKnowsStatus'
  BY <1>0, <1>a DEF OwnerKnowsStatus, Owns, Working, PushSteps
<1>5. SubmittedTogether' /\ Resumable'
  BY DEF SubmittedTogether, Resumable
<1> QED
  BY <1>1, <1>2, <1>3, <1>4, <1>5

\* Recovery and the push: nothing but the registry changes.
LEMMA RegistrySteps ==
    ASSUME IInv, NEW w \in Workers,
           \/ Resolve(w) \/ Install(w) \/ Verify(w)
           \/ PushCheck(w) \/ PushManifest(w) \/ PushReferrers(w)
    PROVE  IInv'
<1>0. TypeOK
  BY DEF IInv
<1>1. CASE Resolve(w)
  <2>1. Moves(w) /\ faults' \in 0..MaxFaults
    BY <1>0, <1>1, GotoMoves, RaiseMoves, FailsMoves
       DEF Resolve, Working, TypeOK
  <2> QED
    BY <1>0, <1>1, <2>1, QuietStep
       DEF Resolve, Working, TypeOK, jobVars, registryVars
<1>2. CASE Install(w)
  <2>1. Moves(w) /\ faults' \in 0..MaxFaults
    BY <1>0, <1>2, GotoMoves, RaiseMoves, FailsMoves
       DEF Install, Working, TypeOK
  <2> QED
    BY <1>0, <1>2, <2>1, QuietStep
       DEF Install, Working, TypeOK, jobVars, registryVars
<1>3. CASE Verify(w)
  <2>1. Moves(w) /\ faults' \in 0..MaxFaults
    BY <1>0, <1>3, GotoMoves, RaiseMoves, FailsMoves
       DEF Verify, Working, TypeOK
  <2> QED
    BY <1>0, <1>3, <2>1, QuietStep
       DEF Verify, Working, TypeOK, jobVars, registryVars
<1>4. CASE PushCheck(w)
  <2>1. Moves(w) /\ faults' \in 0..MaxFaults
    BY <1>0, <1>4, GotoMoves, RaiseMoves, FailsMoves
       DEF PushCheck, Working, PushSteps, TypeOK
  <2> QED
    BY <1>0, <1>4, <2>1, QuietStep
       DEF PushCheck, Working, PushSteps, TypeOK, jobVars, registryVars
<1>5. CASE PushManifest(w)
  <2>1. Moves(w) /\ faults' \in 0..MaxFaults
    BY <1>0, <1>5, GotoMoves, FailsMoves
       DEF PushManifest, Working, PushSteps, TypeOK
  <2>2. tag' \in [Jobs -> Digests \cup {NoDigest}]
    BY <1>0, <1>5 DEF PushManifest, TypeOK, Attempt, Artifact
  <2>3. UNCHANGED <<jobVars, signed>>
    BY <1>5 DEF PushManifest
  <2> QED
    BY <1>0, <1>5, <2>1, <2>2, <2>3, QuietStep
       DEF PushManifest, jobVars, Working, PushSteps, TypeOK
<1>6. CASE PushReferrers(w)
  <2>1. Moves(w) /\ faults' \in 0..MaxFaults
    BY <1>0, <1>6, GotoMoves, RaiseMoves, FailsMoves
       DEF PushReferrers, Working, PushSteps, TypeOK
  <2>2. signed' \subseteq Digests \cup {NoDigest}
    <3>1. att[w].artifact.digest \in Digests \cup {NoDigest}
      BY <1>0 DEF TypeOK, Attempt, Artifact
    <3>2. signed' \subseteq signed \cup {att[w].artifact.digest}
      BY <1>6 DEF PushReferrers
    <3> QED
      BY <1>0, <3>1, <3>2 DEF TypeOK
  <2>3. UNCHANGED <<jobVars, tag>>
    BY <1>6 DEF PushReferrers
  <2> QED
    BY <1>0, <1>6, <2>1, <2>2, <2>3, QuietStep
       DEF PushReferrers, jobVars, Working, PushSteps, TypeOK
<1> QED
  BY <1>1, <1>2, <1>3, <1>4, <1>5, <1>6

\* Processing, up to and including the prepared record.
LEMMA ProcessingSteps ==
    ASSUME IInv, NEW w \in Workers,
           \/ Cosign(w) \/ Process(w) \/ ProcessItem(w) \/ Pack(w)
           \/ Gate(w) \/ CheckPrepared(w)
    PROVE  IInv'
<1>0. TypeOK /\ att[w] \in Attempt
  BY DEF IInv, TypeOK
<1>1. CASE Cosign(w)
  <2>1. CASE CallFails(w)
    BY <1>0, <1>1, <2>1, FailsMoves, QuietStep
       DEF Cosign, Working, TypeOK, jobVars, registryVars
  <2>2. CASE ~CallFails(w)
    <3> DEFINE next == [att[w] EXCEPT !.step = "push", !.recovering = TRUE]
    <3>1. next \in Attempt
      BY <1>0 DEF Attempt, Steps, PushSteps
    <3>2. /\ next.step \in Working
          /\ next.token = att[w].token /\ next.job = att[w].job
      BY <1>0 DEF Attempt, Working, PushSteps
    <3>3. att' = [att EXCEPT ![w] = next] /\ UNCHANGED faults
      BY <1>1, <2>2 DEF Cosign
    <3>4. Moves(w)
      BY <3>1, <3>2, <3>3 DEF Moves
    <3> QED
      BY <1>0, <1>1, <3>3, <3>4, QuietStep
         DEF Cosign, Working, TypeOK, jobVars, registryVars
  <2> QED
    BY <2>1, <2>2
<1>2. CASE Process(w)
  <2>1. CASE CallFails(w)
    BY <1>0, <1>2, <2>1, FailsMoves, QuietStep
       DEF Process, Working, TypeOK, jobVars, registryVars
  <2>2. CASE ~CallFails(w)
    <3> DEFINE next ==
          [att[w] EXCEPT !.step = "items", !.artifact = NoArtifact]
    <3>1. next \in Attempt
      BY <1>0 DEF Attempt, Steps, PushSteps, NoArtifact, Artifact
    <3>2. /\ next.step \in Working
          /\ next.token = att[w].token /\ next.job = att[w].job
      BY <1>0 DEF Attempt, Working, PushSteps
    <3>3. att' = [att EXCEPT ![w] = next] /\ UNCHANGED faults
      BY <1>2, <2>2 DEF Process
    <3>4. Moves(w)
      BY <3>1, <3>2, <3>3 DEF Moves
    <3> QED
      BY <1>0, <1>2, <3>3, <3>4, QuietStep
         DEF Process, Working, TypeOK, jobVars, registryVars
  <2> QED
    BY <2>1, <2>2
<1>3. CASE ProcessItem(w)
  <2> DEFINE j == att[w].job
             i == att[w].next
  <2>1. PICK report \in {"ok", "failed"} :
          IF Owns(w)
          THEN /\ items' = [items EXCEPT ![j][i] = report]
               /\ att' = [att EXCEPT ![w] = [@ EXCEPT
                     !.next = i + 1,
                     !.artifact = Counting(att[w].artifact, report)]]
          ELSE Goto(w, "release") /\ UNCHANGED items
    BY <1>3 DEF ProcessItem
  <2>2. CASE Owns(w)
    <3> DEFINE next == [att[w] EXCEPT
                 !.next = i + 1,
                 !.artifact = Counting(att[w].artifact, report)]
    <3>1. Counting(att[w].artifact, report) \in Artifact
      <4>1. att[w].artifact \in Artifact
        BY <1>0 DEF Attempt
      <4> QED
        BY <4>1 DEF Counting, Artifact
    <3>2. next \in Attempt
      <4>1. ASSUME NEW n \in Nat, NEW a \in Artifact
            PROVE  [att[w] EXCEPT !.next = n, !.artifact = a] \in Attempt
        BY <1>0 DEF Attempt
      <4>2. i + 1 \in Nat
        BY <1>0 DEF Attempt
      <4> QED
        BY <3>1, <4>1, <4>2
    <3>3. /\ next.step = att[w].step
          /\ next.token = att[w].token /\ next.job = att[w].job
      BY <1>0 DEF Attempt
    <3>4. att' = [att EXCEPT ![w] = next]
      BY <2>1, <2>2
    <3>5. att[w].step = "items"
      BY <1>3 DEF ProcessItem
    <3>6. Moves(w)
      BY <3>2, <3>3, <3>4, <3>5 DEF Moves, Working
    <3>7. items' \in [Jobs -> [1..NumItems -> {"none", "ok", "failed"}]]
      <4>1. items' = [items EXCEPT ![j] = [items[j] EXCEPT ![i] = report]]
        BY <2>1, <2>2
      <4>2. j \in Jobs
        BY <3>5 DEF IInv, AttemptShape
      <4>3. [items[j] EXCEPT ![i] = report]
              \in [1..NumItems -> {"none", "ok", "failed"}]
        BY <1>0, <4>2 DEF TypeOK
      <4> QED
        BY <1>0, <4>1, <4>2, <4>3 DEF TypeOK
    <3>8. UNCHANGED <<status, request, output, error, prepared, tag, signed,
                      faults>>
      BY <1>3 DEF ProcessItem, registryVars
    <3> QED
      BY <1>0, <1>3, <3>5, <3>6, <3>7, <3>8, QuietStep
         DEF ProcessItem, Working, TypeOK
  <2>3. CASE ~Owns(w)
    BY <1>0, <1>3, <2>1, <2>3, GotoMoves, QuietStep
       DEF ProcessItem, Working, TypeOK, registryVars
  <2> QED
    BY <2>2, <2>3
<1>4. CASE Pack(w)
  <2>1. CASE Goto(w, "finish") /\ UNCHANGED faults
    BY <1>0, <1>4, <2>1, GotoMoves, QuietStep
       DEF Pack, Working, TypeOK, jobVars, registryVars
  <2>2. CASE CallFails(w)
    BY <1>0, <1>4, <2>2, FailsMoves, QuietStep
       DEF Pack, Working, TypeOK, jobVars, registryVars
  <2>3. ASSUME NEW d \in Digests, UNCHANGED faults,
               att' = [att EXCEPT ![w] = [@ EXCEPT !.step = "gate",
                                                   !.artifact.digest = d]]
        PROVE  IInv'
    <3> DEFINE next ==
          [att[w] EXCEPT !.step = "gate", !.artifact.digest = d]
    <3>1. next \in Attempt
      BY <1>0 DEF Attempt, Steps, PushSteps, Artifact
    <3>2. /\ next.step \in Working
          /\ next.token = att[w].token /\ next.job = att[w].job
      BY <1>0 DEF Attempt, Working, PushSteps
    <3>3. Moves(w)
      BY <2>3, <3>1, <3>2 DEF Moves
    <3> QED
      BY <1>0, <1>4, <2>3, <3>3, QuietStep
         DEF Pack, Working, TypeOK, jobVars, registryVars
  <2> QED
    BY <1>4, <2>1, <2>2, <2>3 DEF Pack
<1>5. CASE Gate(w)
  <2>1. Moves(w)
    BY <1>0, <1>5, GotoMoves DEF Gate, Working, PushSteps
  <2>2. prepared' \in [Jobs -> Artifact]
    <3>1. att[w].artifact \in Artifact
      BY <1>0 DEF Attempt
    <3> QED
      BY <1>0, <1>5, <3>1 DEF Gate, TypeOK
  <2> QED
    BY <1>0, <1>5, <2>1, <2>2, QuietStep
       DEF Gate, Working, TypeOK, registryVars
<1>6. CASE CheckPrepared(w)
  <2> DEFINE record == prepared[att[w].job]
             next == [att[w] EXCEPT !.step = IF record = NoArtifact
                                             THEN "fail" ELSE "resolve",
                                    !.mode = "fail", !.artifact = record]
  <2>0. att[w].step = "check" /\ att' = [att EXCEPT ![w] = next]
    BY <1>6 DEF CheckPrepared
  <2>1. record \in Artifact
    BY <1>0, <2>0 DEF IInv, TypeOK, AttemptShape
  <2>2. next \in Attempt
    BY <1>0, <2>1 DEF Attempt, Steps, PushSteps
  <2>3. /\ next.step \in Working
        /\ next.token = att[w].token /\ next.job = att[w].job
    BY <1>0 DEF Attempt, Working, PushSteps
  <2>4. Moves(w)
    BY <2>0, <2>2, <2>3 DEF Moves
  <2> QED
    BY <1>0, <1>6, <2>0, <2>4, QuietStep
       DEF CheckPrepared, Working, TypeOK, jobVars, registryVars
<1> QED
  BY <1>1, <1>2, <1>3, <1>4, <1>5, <1>6

\* A write of the status by the attempt that owns the job.  No other attempt
\* owns it, so no other attempt's view of the status is disturbed.
LEMMA OwnedWrite ==
    ASSUME IInv, NEW w \in Workers, att[w].step \in Working, Owns(w),
           NEW st \in Statuses, NEW step, Goto(w, step),
           status' = [status EXCEPT ![att[w].job] = st],
           \/ st = "running" /\ step \in Working /\ UNCHANGED request
           \/ /\ st \in Terminal /\ step = "ack"
              /\ request' = [request EXCEPT ![att[w].job] = FALSE],
           output' \in [Jobs -> Digests \cup {NoDigest}],
           error' \in [Jobs -> {"none", "retryable", "final"}],
           UNCHANGED <<prepared, items, streamVars, leaseVars, registryVars,
                       faults>>
    PROVE  IInv'
<1> USE DEF IInv, TypeOK, streamVars, leaseVars, registryVars
<1> DEFINE j == att[w].job
           next == [att[w] EXCEPT !.step = step]
<1>1. att[w] \in Attempt /\ j \in Jobs /\ att[w].token # 0
  BY DEF AttemptShape, Working, PushSteps
<1>2. step \in Steps \ {"idle", "dead", "acquire"}
  BY DEF Steps, Working, PushSteps
<1>3. /\ next \in Attempt /\ next.step = step
      /\ next.token = att[w].token /\ next.job = j
  BY <1>1, <1>2 DEF Attempt
<1>4. /\ att' = [att EXCEPT ![w] = next] /\ att'[w] = next
      /\ \A v \in Workers \ {w} : att'[v] = att[v]
  BY DEF Goto
<1>5. status[j] \in {"queued", "running"} /\ entry[j] \in {"pending", "gone"}
  BY <1>1 DEF OwnerKnowsStatus, AttemptShape, Working, PushSteps
<1>6. TypeOK'
  <2>1. att' \in [Workers -> Attempt] /\ \A v \in Workers : att'[v].token \in 0..issued
    BY <1>3, <1>4
  <2>2. status' \in [Jobs -> Statuses] /\ request' \in [Jobs -> BOOLEAN]
    OBVIOUS
  <2> QED
    BY <2>1, <2>2
<1>7. AttemptShape'
  BY <1>1, <1>2, <1>3, <1>4 DEF AttemptShape
<1>8. TokensDiffer'
  BY <1>3, <1>4 DEF TokensDiffer
<1>9. OwnerKnowsStatus'
  <2> SUFFICES ASSUME NEW v \in Workers, att'[v].token # 0, Owns(v)'
               PROVE  /\ att'[v].step \in Working =>
                            status'[att'[v].job] \in {"queued", "running"}
                      /\ att'[v].step = "ack" =>
                            status'[att'[v].job] \in Terminal \cup {"absent"}
    BY DEF OwnerKnowsStatus
  <2>1. CASE v = w
    BY <1>1, <1>3, <1>4, <2>1 DEF Working, PushSteps
  <2>2. CASE v # w
    <3>1. att'[v] = att[v] /\ Owns(v)
      BY <1>4, <2>2 DEF Owns
    <3>2. att[v].job # j
      BY <1>1, <2>2, <3>1 DEF Owns, TokensDiffer
    <3>3. att[v].step \in Working \cup {"ack"} => att[v].job \in Jobs
      BY DEF AttemptShape, Working, PushSteps
    <3> QED
      BY <3>1, <3>2, <3>3 DEF OwnerKnowsStatus
  <2> QED
    BY <2>1, <2>2
<1>10. SubmittedTogether'
  BY <1>1, <1>5 DEF SubmittedTogether, Terminal
<1>11. Resumable'
  BY <1>1, <1>5 DEF Resumable, Terminal
<1> QED
  BY <1>6, <1>7, <1>8, <1>9, <1>10, <1>11

\* Every way out that leaves the job hash alone: the process ends, or the
\* attempt is over and the worker idle.
LEMMA Leaves ==
    ASSUME IInv, NEW w \in Workers, NEW step \in {"idle", "dead"},
           att' = [att EXCEPT ![w] = At(step)],
           UNCHANGED <<jobVars, streamVars, issued, registryVars>>,
           lease' = lease \/ lease' = [lease EXCEPT ![att[w].job] = 0],
           faults' \in 0..MaxFaults
    PROVE  IInv'
<1> USE DEF IInv, TypeOK, jobVars, streamVars, registryVars
<1>1. /\ att'[w] = At(step) /\ At(step) \in Attempt
      /\ \A v \in Workers \ {w} : att'[v] = att[v]
  BY AtType DEF Steps
<1>2. At(step).token = 0 /\ At(step).step = step
  BY DEF At
<1>3. /\ lease' \in [Jobs -> 0..issued]
      /\ \A j \in Jobs : lease'[j] \in {0, lease[j]}
  <2>1. lease \in [Jobs -> 0..issued] /\ 0 \in 0..issued
    OBVIOUS
  <2>2. CASE lease' = lease
    BY <2>1, <2>2
  <2>3. CASE lease' = [lease EXCEPT ![att[w].job] = 0]
    BY <2>1, <2>3
  <2> QED
    BY <2>2, <2>3
<1>4. TypeOK'
  BY <1>1, <1>2, <1>3
<1>5. AttemptShape'
  BY <1>1, <1>2 DEF AttemptShape
<1>6. TokensDiffer'
  BY <1>1, <1>2 DEF TokensDiffer
<1>7. OwnerKnowsStatus'
  BY <1>1, <1>2, <1>3 DEF OwnerKnowsStatus, Owns, AttemptShape
<1>8. SubmittedTogether' /\ Resumable'
  BY DEF SubmittedTogether, Resumable
<1> QED
  BY <1>4, <1>5, <1>6, <1>7, <1>8

\* The writes of _run_job and _fail to the job hash.
LEMMA HashSteps ==
    ASSUME IInv, NEW w \in Workers,
           Start(w) \/ Reject(w) \/ Finish(w) \/ Fail(w)
    PROVE  IInv'
<1>0. TypeOK /\ att[w] \in Attempt
  BY DEF IInv, TypeOK
<1>1. CASE Start(w)
  <2> DEFINE step == IF att[w].artifact = NoArtifact
                     THEN "process" ELSE "resolve"
  <2>1. CASE Owns(w)
    BY <1>0, <1>1, <2>1, OwnedWrite
       DEF Start, Working, Statuses, TypeOK
  <2>2. CASE ~Owns(w)
    BY <1>0, <1>1, <2>2, GotoMoves, QuietStep
       DEF Start, Working, TypeOK, registryVars
  <2> QED
    BY <2>1, <2>2
<1>2. CASE Reject(w)
  <2>1. CASE Owns(w)
    <3>1. output' \in [Jobs -> Digests \cup {NoDigest}]
      BY <1>0, <1>2, <2>1 DEF Reject, RecordTerminal, TypeOK
    <3>2. "failed" \in Terminal /\ "failed" \in Statuses
      BY DEF Terminal, Statuses
    <3>3. error' \in [Jobs -> {"none", "retryable", "final"}]
      BY <1>0, <1>2, <2>1 DEF Reject, RecordTerminal, TypeOK
    <3> QED
      BY <1>0, <1>2, <2>1, <3>1, <3>2, <3>3, OwnedWrite
         DEF Reject, RecordTerminal, Working
  <2>2. CASE ~Owns(w)
    BY <1>0, <1>2, <2>2, Leaves
       DEF Reject, Die, TypeOK, leaseVars
  <2> QED
    BY <2>1, <2>2
<1>3. CASE Finish(w)
  <2>1. CASE Owns(w)
    <3>1. att[w].artifact.digest \in Digests \cup {NoDigest}
      BY <1>0 DEF Attempt, Artifact
    <3>2. Outcome(w) \in Terminal
      BY DEF Outcome, Terminal
    <3>3. output' \in [Jobs -> Digests \cup {NoDigest}]
      BY <1>0, <1>3, <2>1, <3>1 DEF Finish, RecordTerminal, TypeOK
    <3>4. error' \in [Jobs -> {"none", "retryable", "final"}]
      BY <1>0, <1>3, <2>1 DEF Finish, RecordTerminal, TypeOK
    <3> QED
      BY <1>0, <1>3, <2>1, <3>2, <3>3, <3>4, OwnedWrite
         DEF Finish, RecordTerminal, Working, Statuses
  <2>2. CASE ~Owns(w) /\ att[w].mode = "run"
    BY <1>0, <1>3, <2>2, GotoMoves, QuietStep
       DEF Finish, Working, TypeOK, jobVars, registryVars
  <2>3. CASE ~Owns(w) /\ att[w].mode # "run"
    BY <1>0, <1>3, <2>3, Leaves
       DEF Finish, Die, TypeOK, leaseVars
  <2> QED
    BY <2>1, <2>2, <2>3
<1>4. CASE Fail(w)
  <2>1. CASE Owns(w)
    <3>1. output' \in [Jobs -> Digests \cup {NoDigest}]
      BY <1>0, <1>4, <2>1 DEF Fail, RecordTerminal, TypeOK
    <3>2. "failed" \in Terminal /\ "failed" \in Statuses
      BY DEF Terminal, Statuses
    <3>3. error' \in [Jobs -> {"none", "retryable", "final"}]
      BY <1>0, <1>4, <2>1 DEF Fail, RecordTerminal, TypeOK
    <3> QED
      BY <1>0, <1>4, <2>1, <3>1, <3>2, <3>3, OwnedWrite
         DEF Fail, RecordTerminal, Working
  <2>2. CASE ~Owns(w)
    BY <1>0, <1>4, <2>2, GotoMoves, QuietStep
       DEF Fail, Working, TypeOK, jobVars, registryVars
  <2> QED
    BY <2>1, <2>2
<1> QED
  BY <1>1, <1>2, <1>3, <1>4

\* Deliveries, leases and the life of a worker process.
LEMMA DeliverySteps ==
    ASSUME IInv, NEW w \in Workers,
           Take(w) \/ Acquire(w) \/ ReadJob(w) \/ Heartbeat(w)
           \/ Acknowledge(w) \/ Release(w) \/ Crash(w) \/ Restart(w)
    PROVE  IInv'
<1> USE DEF IInv
<1>0. TypeOK /\ att[w] \in Attempt
  BY DEF TypeOK
<1>1. ASSUME NEW j \in Jobs, att[w].step = "idle",
             entry[j] \in {"new", "pending"}, Deliver(w, j)
      PROVE  IInv'
  <2> USE DEF Deliver, jobVars, leaseVars, registryVars
  <2> DEFINE next == [At("acquire") EXCEPT !.job = j]
  <2>1. /\ next \in Attempt /\ next.token = 0 /\ next.job = j
        /\ next.step = "acquire"
    BY DEF At, Attempt, NoArtifact, Artifact, Steps
  <2>2. /\ att'[w] = next
        /\ \A v \in Workers \ {w} : att'[v] = att[v]
    BY <1>0, <1>1 DEF TypeOK
  <2>3. TypeOK'
    BY <1>0, <1>1, <2>1, <2>2 DEF TypeOK
  <2>4. AttemptShape'
    BY <1>0, <1>1, <2>1, <2>2 DEF AttemptShape, TypeOK
  <2>5. TokensDiffer' /\ OwnerKnowsStatus'
    BY <1>1, <2>1, <2>2 DEF TokensDiffer, OwnerKnowsStatus, Owns
  <2>6. SubmittedTogether' /\ Resumable'
    BY <1>0, <1>1 DEF SubmittedTogether, Resumable, TypeOK
  <2> QED
    BY <2>3, <2>4, <2>5, <2>6
<1>2. CASE Take(w)
  BY <1>1, <1>2 DEF Take, ReadNew, ClaimAbandoned
<1>3. CASE Acquire(w)
  <2> DEFINE j == att[w].job
  <2>1. CASE lease[j] = 0
    <3> DEFINE next == [att[w] EXCEPT !.step = "read", !.token = issued + 1]
    <3>1. /\ issued' = issued + 1 /\ lease' = [lease EXCEPT ![j] = issued + 1]
          /\ att' = [att EXCEPT ![w] = next]
          /\ UNCHANGED <<jobVars, streamVars, registryVars, faults>>
          /\ att[w].step = "acquire"
      BY <1>3, <2>1 DEF Acquire
    <3>2. /\ issued \in Nat /\ j \in Jobs
          /\ \A v \in Workers : att[v].token \in 0..issued
      BY <1>0, <3>1 DEF TypeOK, AttemptShape
    <3>3. /\ next \in Attempt /\ next.token = issued + 1 /\ next.job = j
          /\ next.step = "read"
      <4>1. ASSUME NEW t \in Nat
            PROVE [att[w] EXCEPT !.step = "read", !.token = t] \in Attempt
        BY <1>0 DEF Attempt, Steps
      <4>2. issued + 1 \in Nat
        BY <3>2
      <4> QED
        BY <1>0, <4>1, <4>2 DEF Attempt
    <3>4. /\ att'[w] = next
          /\ \A v \in Workers \ {w} : att'[v] = att[v]
      BY <1>0, <3>1 DEF TypeOK
    <3>5. TypeOK'
      <4>1. lease' \in [Jobs -> 0..issued']
        BY <1>0, <3>1, <3>2 DEF TypeOK
      <4>2. att' \in [Workers -> Attempt]
        BY <1>0, <3>1, <3>3 DEF TypeOK
      <4>3. \A v \in Workers : att'[v].token \in 0..issued'
        BY <3>1, <3>2, <3>3, <3>4
      <4> QED
        BY <1>0, <3>1, <3>2, <4>1, <4>2, <4>3
           DEF TypeOK, jobVars, streamVars, registryVars
    <3>6. AttemptShape'
      BY <3>1, <3>2, <3>3, <3>4 DEF AttemptShape, streamVars
    <3>7. TokensDiffer'
      BY <3>1, <3>2, <3>3, <3>4 DEF TokensDiffer
    <3>8. OwnerKnowsStatus'
      <4> SUFFICES ASSUME NEW v \in Workers, att'[v].token # 0, Owns(v)',
                          att'[v].step \in Working \cup {"ack"}
                   PROVE  /\ v # w /\ att'[v] = att[v] /\ Owns(v)
                          /\ status' = status
        BY DEF OwnerKnowsStatus
      <4>1. v # w /\ att'[v] = att[v]
        BY <3>3, <3>4 DEF Working, PushSteps
      <4>2. att[v].job \in Jobs /\ att[v].token # issued + 1
        BY <3>2, <4>1 DEF AttemptShape, Working, PushSteps
      <4>3. lease \in [Jobs -> 0..issued]
        BY <1>0 DEF TypeOK
      <4> QED
        BY <3>1, <3>2, <4>1, <4>2, <4>3 DEF Owns, jobVars
    <3>9. SubmittedTogether' /\ Resumable'
      BY <3>1 DEF SubmittedTogether, Resumable, jobVars, streamVars
    <3> QED
      BY <3>5, <3>6, <3>7, <3>8, <3>9
  <2>2. CASE lease[j] # 0
    BY <1>0, <1>3, <2>2, Leaves DEF Acquire, leaseVars, TypeOK
  <2> QED
    BY <2>1, <2>2
<1>4. CASE ReadJob(w)
  <2> USE DEF jobVars, streamVars, leaseVars, registryVars
  <2> DEFINE j == att[w].job
  <2>1. /\ att[w].step = "read" /\ j \in Jobs /\ att[w].token # 0
        /\ status[j] # "none" /\ status[j] \in Statuses
        /\ prepared[j] \in Artifact
    BY <1>0, <1>4 DEF ReadJob, AttemptShape, SubmittedTogether, TypeOK
  <2>2. PICK next \in Attempt :
          /\ att' = [att EXCEPT ![w] = next]
          /\ next.token = att[w].token /\ next.job = j
          /\ next.step \in {"ack", "reject", "start"}
          /\ next.step = "ack" => status[j] \in Terminal \cup {"absent"}
          /\ next.step # "ack" => status[j] \in {"queued", "running"}
    <3>1. CASE status[j] \in Terminal \cup {"absent"}
      <4> DEFINE next == [att[w] EXCEPT !.step = "ack"]
      <4>1. /\ next \in Attempt /\ next.token = att[w].token
            /\ next.job = j /\ next.step = "ack"
        BY <1>0 DEF Attempt, Steps
      <4>2. att' = [att EXCEPT ![w] = next]
        BY <1>4, <3>1 DEF ReadJob
      <4> QED
        BY <3>1, <4>1, <4>2
    <3>2. CASE status[j] \notin Terminal \cup {"absent"}
      <4> DEFINE step == IF j \in UnreadableJobs THEN "reject" ELSE "start"
                 next == [att[w] EXCEPT !.step = step,
                                        !.artifact = prepared[j]]
      <4>1. /\ next \in Attempt /\ next.token = att[w].token
            /\ next.job = j /\ next.step = step
        BY <1>0, <2>1 DEF Attempt, Steps
      <4>2. att' = [att EXCEPT ![w] = next]
        BY <1>4, <3>2 DEF ReadJob
      <4>3. status[j] \in {"queued", "running"}
        BY <2>1, <3>2 DEF Statuses
      <4>4. next.step \in {"ack", "reject", "start"} /\ next.step # "ack"
        BY <4>1
      <4> HIDE DEF next
      <4> QED
        BY <4>1, <4>2, <4>3, <4>4
    <3> QED
      BY <3>1, <3>2
  <2>3. /\ att'[w] = next
        /\ \A v \in Workers \ {w} : att'[v] = att[v]
    BY <1>0, <2>2 DEF TypeOK
  <2>4. TypeOK'
    BY <1>0, <1>4, <2>2, <2>3 DEF ReadJob, TypeOK
  <2>5. AttemptShape' /\ TokensDiffer'
    BY <1>4, <2>1, <2>2, <2>3 DEF ReadJob, AttemptShape, TokensDiffer
  <2>6. OwnerKnowsStatus'
    BY <1>4, <2>2, <2>3
       DEF ReadJob, OwnerKnowsStatus, Owns, Working, PushSteps
  <2>7. SubmittedTogether' /\ Resumable'
    BY <1>4 DEF ReadJob, SubmittedTogether, Resumable
  <2> QED
    BY <2>4, <2>5, <2>6, <2>7
<1>5. CASE Heartbeat(w)
  <2> USE DEF Heartbeat, jobVars, leaseVars, registryVars
  <2>1. TypeOK'
    BY <1>0, <1>5 DEF TypeOK
  <2>2. AttemptShape' /\ TokensDiffer' /\ OwnerKnowsStatus'
    BY <1>5 DEF AttemptShape, TokensDiffer, OwnerKnowsStatus, Owns
  <2>3. SubmittedTogether' /\ Resumable'
    BY <1>5 DEF SubmittedTogether, Resumable
  <2> QED
    BY <2>1, <2>2, <2>3
<1>6. CASE Acknowledge(w)
  <2> USE DEF jobVars, leaseVars, registryVars
  <2> DEFINE j == att[w].job
             next == [att[w] EXCEPT !.step = "release"]
  <2>1. /\ att[w].step = "ack" /\ att[w].token # 0 /\ j \in Jobs
        /\ Owns(w) => status[j] \in Terminal \cup {"absent"}
        /\ Owns(w) => entry' = [entry EXCEPT ![j] = "gone"]
        /\ ~Owns(w) => entry' = entry
        /\ UNCHANGED <<jobVars, idle, leaseVars, registryVars, faults>>
    BY <1>6 DEF Acknowledge, AttemptShape, OwnerKnowsStatus
  <2>2. /\ next \in Attempt /\ next.token = att[w].token
        /\ next.job = j /\ next.step = "release"
    BY <1>0 DEF Attempt, Steps
  <2>3. /\ att' = [att EXCEPT ![w] = next] /\ att'[w] = next
        /\ \A v \in Workers \ {w} : att'[v] = att[v]
    BY <1>0, <1>6 DEF Acknowledge, Goto, TypeOK
  <2>4. entry' \in [Jobs -> {"none", "new", "pending", "gone"}]
    BY <1>0, <2>1 DEF TypeOK
  <2>5. TypeOK'
    BY <1>0, <2>1, <2>2, <2>3, <2>4 DEF TypeOK
  <2>6. \A k \in Jobs : entry'[k] # entry[k] =>
          entry'[k] = "gone" /\ status[k] \in Terminal \cup {"absent"}
    BY <1>0, <2>1 DEF TypeOK
  <2>7. AttemptShape' /\ TokensDiffer'
    BY <2>1, <2>2, <2>3, <2>6 DEF AttemptShape, TokensDiffer
  <2>8. OwnerKnowsStatus'
    BY <2>1, <2>2, <2>3 DEF OwnerKnowsStatus, Owns, Working, PushSteps
  <2>9. SubmittedTogether'
    <3>1. \A k \in Jobs : entry'[k] # entry[k] =>
            entry'[k] # "none" /\ status[k] # "none"
      BY <2>6 DEF Terminal
    <3> QED
      BY <2>1, <2>4, <3>1, <2>6 DEF SubmittedTogether, Terminal
  <2>10. Resumable'
    BY <2>1, <2>6 DEF Resumable, Terminal
  <2> QED
    BY <2>5, <2>7, <2>8, <2>9, <2>10
<1>7. CASE Release(w)
  BY <1>0, <1>7, Leaves DEF Release, ReleaseLease, TypeOK
<1>8. CASE Crash(w)
  BY <1>0, <1>8, Leaves, FaultType DEF Crash, leaseVars
<1>9. CASE Restart(w)
  BY <1>0, <1>9, Leaves DEF Restart, leaseVars, TypeOK
<1> QED
  BY <1>2, <1>3, <1>4, <1>5, <1>6, <1>7, <1>8, <1>9

\* The API and the passage of time.
LEMMA JobSteps ==
    ASSUME IInv, NEW j \in Jobs,
           Submit(j) \/ ExpireJob(j) \/ DeliveryIdles(j) \/ LeaseLapses(j)
    PROVE  IInv'
<1> USE DEF IInv
<1>1. CASE Submit(j)
  <2> USE DEF Submit, leaseVars, registryVars
  <2>1. TypeOK'
    BY <1>1 DEF TypeOK, Statuses
  <2>2. AttemptShape'
    BY <1>1 DEF AttemptShape, SubmittedTogether, TypeOK
  <2>3. TokensDiffer'
    BY <1>1 DEF TokensDiffer
  <2>4. OwnerKnowsStatus'
    BY <1>1 DEF OwnerKnowsStatus, AttemptShape, Owns, TypeOK, Terminal
  <2>5. SubmittedTogether' /\ Resumable'
    BY <1>1 DEF SubmittedTogether, Resumable, TypeOK
  <2> QED
    BY <2>1, <2>2, <2>3, <2>4, <2>5
<1>2. CASE ExpireJob(j)
  <2> USE DEF ExpireJob, streamVars, leaseVars, registryVars
  <2>1. TypeOK'
    BY <1>2 DEF TypeOK, Statuses, Artifact, NoArtifact
  <2>2. AttemptShape' /\ TokensDiffer'
    BY <1>2 DEF AttemptShape, TokensDiffer
  <2>3. OwnerKnowsStatus'
    BY <1>2 DEF OwnerKnowsStatus, AttemptShape, Owns, TypeOK
  <2>4. SubmittedTogether' /\ Resumable'
    BY <1>2 DEF SubmittedTogether, Resumable, TypeOK
  <2> QED
    BY <2>1, <2>2, <2>3, <2>4
<1>3. CASE DeliveryIdles(j)
  <2> USE DEF DeliveryIdles, jobVars, leaseVars, registryVars
  <2>1. TypeOK'
    BY <1>3 DEF TypeOK
  <2>2. AttemptShape' /\ TokensDiffer' /\ OwnerKnowsStatus'
    BY <1>3 DEF AttemptShape, TokensDiffer, OwnerKnowsStatus, Owns
  <2>3. SubmittedTogether' /\ Resumable'
    BY <1>3 DEF SubmittedTogether, Resumable
  <2> QED
    BY <2>1, <2>2, <2>3
<1>4. CASE LeaseLapses(j)
  <2> USE DEF jobVars, streamVars, registryVars
  <2>1. /\ lease' = [lease EXCEPT ![j] = 0]
        /\ UNCHANGED <<jobVars, streamVars, issued, registryVars, att>>
        /\ faults' = faults \/ Fault
    BY <1>4 DEF LeaseLapses
  <2>2. faults' \in 0..MaxFaults
    BY <2>1, FaultType DEF TypeOK
  <2>3. lease' \in [Jobs -> 0..issued]
    BY <2>1 DEF TypeOK
  <2>4. TypeOK'
    BY <2>1, <2>2, <2>3 DEF TypeOK
  <2>5. AttemptShape' /\ TokensDiffer'
    BY <2>1 DEF AttemptShape, TokensDiffer
  <2>6. OwnerKnowsStatus'
    BY <2>1 DEF OwnerKnowsStatus, AttemptShape, Owns, TypeOK
  <2>7. SubmittedTogether' /\ Resumable'
    BY <2>1 DEF SubmittedTogether, Resumable
  <2> QED
    BY <2>4, <2>5, <2>6, <2>7
<1> QED
  BY <1>1, <1>2, <1>3, <1>4

\* Every step keeps the invariant.
THEOREM NextIInv == IInv /\ [Next]_vars => IInv'
<1> SUFFICES ASSUME IInv, [Next]_vars PROVE IInv'
  OBVIOUS
<1>1. ASSUME NEW j \in Jobs,
             Submit(j) \/ ExpireJob(j) \/ DeliveryIdles(j) \/ LeaseLapses(j)
      PROVE  IInv'
  BY <1>1, JobSteps
<1>2. ASSUME NEW w \in Workers,
             Take(w) \/ Heartbeat(w) \/ Crash(w) \/ Restart(w)
      PROVE  IInv'
  BY <1>2, DeliverySteps
<1>3. ASSUME NEW w \in Workers, Run(w) PROVE IInv'
  BY <1>3, DeliverySteps, HashSteps, RegistrySteps, ProcessingSteps DEF Run
<1>4. CASE UNCHANGED vars
  BY <1>4 DEF vars, jobVars, streamVars, leaseVars, registryVars, IInv,
     TypeOK, AttemptShape, TokensDiffer, OwnerKnowsStatus, Owns,
     SubmittedTogether, Resumable
<1> QED
  BY <1>1, <1>2, <1>3, <1>4 DEF Next

\* The variables keep their types, whatever crashes and lapses.
THEOREM Typing == Spec => []TypeOK
<1>1. IInv => TypeOK
  BY DEF IInv
<1> QED
  BY InitIInv, NextIInv, <1>1, PTL DEF Spec

\* No fault, and no order of attempts, leaves an unfinished job without its
\* request or its delivery (Worker._finish, Worker._deliver).
THEOREM JobsStayResumable == Spec => []Resumable
<1>1. IInv => Resumable
  BY SMTT(30) DEF IInv
<1> QED
  BY InitIInv, NextIInv, <1>1, PTL DEF Spec

\* Only an owner writes, and an owner at work holds an unfinished job.
LEMMA RunKeepsTerminal ==
    ASSUME IInv, NEW w \in Workers, Run(w), NEW j \in Jobs
    PROVE  KeepsTerminal(j)
<1> USE DEF IInv, TypeOK, jobVars
<1>1. ASSUME att[w].step \in Working, Owns(w), status[j] \in Terminal
      PROVE  att[w].job \in Jobs \ {j}
  BY <1>1 DEF AttemptShape, OwnerKnowsStatus, Working, PushSteps, Terminal
<1>2. CASE ProcessItem(w)
  <2>1. att[w].step \in Working
    BY <1>2 DEF ProcessItem, Working
  <2>2. status' = status /\ output' = output /\ error' = error
    BY <1>2 DEF ProcessItem
  <2>3. ~Owns(w) => items' = items
    BY <1>2 DEF ProcessItem
  <2>4. att[w].job # j => items'[j] = items[j]
    BY <1>2 DEF ProcessItem
  <2> QED
    BY <1>1, <2>1, <2>2, <2>3, <2>4 DEF KeepsTerminal
<1>3. CASE Start(w)
  BY <1>1, <1>3 DEF Start, Working, KeepsTerminal
<1>4. CASE Reject(w) \/ Finish(w) \/ Fail(w)
  <2>1. att[w].step \in Working /\ items' = items
    BY <1>4 DEF Reject, Finish, Fail, RecordTerminal, Die, Working
  <2>2. ~Owns(w) => UNCHANGED <<status, output, error>>
    BY <1>4 DEF Reject, Finish, Fail, Die
  <2>3. att[w].job # j => /\ status'[j] = status[j]
                          /\ output'[j] = output[j] /\ error'[j] = error[j]
    BY <1>4, <2>2 DEF Reject, Finish, Fail, RecordTerminal, Die
  <2> QED
    BY <1>1, <2>1, <2>2, <2>3 DEF KeepsTerminal
<1>5. CASE UNCHANGED <<status, output, error, items>>
  BY <1>5 DEF KeepsTerminal
<1> QED
  BY <1>2, <1>3, <1>4, <1>5
     DEF Run, Acquire, ReadJob, Resolve, Install, Cosign, Verify, Process,
         Pack, Gate, PushCheck, PushManifest, PushReferrers, CheckPrepared,
         Acknowledge, Release

\* A finished job is never written again, by any attempt, however late
\* (Lease.guarded, Worker._finish).
THEOREM TerminalStaysFinal == Spec => TerminalIsFinal
<1>1. ASSUME IInv, [Next]_vars
      PROVE  \A j \in Jobs : KeepsTerminal(j)
  <2> TAKE j \in Jobs
  <2>1. ASSUME NEW w \in Workers, Run(w) PROVE KeepsTerminal(j)
    BY <1>1, <2>1, RunKeepsTerminal
  <2>2. ASSUME NEW w \in Workers,
               Take(w) \/ Heartbeat(w) \/ Crash(w) \/ Restart(w)
        PROVE  KeepsTerminal(j)
    BY <2>2 DEF Take, ReadNew, ClaimAbandoned, Deliver, Heartbeat, Crash,
       Restart, KeepsTerminal, jobVars
  <2>3. ASSUME NEW k \in Jobs,
               Submit(k) \/ ExpireJob(k) \/ DeliveryIdles(k) \/ LeaseLapses(k)
        PROVE  KeepsTerminal(j)
    BY <1>1, <2>3 DEF Submit, ExpireJob, DeliveryIdles, LeaseLapses,
       KeepsTerminal, Terminal, jobVars, IInv, TypeOK
  <2>4. CASE UNCHANGED vars
    BY <2>4 DEF KeepsTerminal, vars, jobVars
  <2> QED
    BY <1>1, <2>1, <2>2, <2>3, <2>4 DEF Next
<1> QED
  BY <1>1, InitIInv, NextIInv, PTL DEF Spec, TerminalIsFinal

(***************************************************************************)
(* Publication, where a lease never lapses under a push.                   *)
(*                                                                         *)
(* The gate asks for the lease in front of a push, but a recovering        *)
(* attempt pushes again without asking; what makes that sound is that the  *)
(* tag it writes already names its artifact.  Only an owner ever moves a   *)
(* tag, from nothing to the artifact of the prepared record, and an owner  *)
(* that processes anew does so under an absent tag.                        *)
(***************************************************************************)
\* Every item of j is reported, and partial says whether one failed.
Reported(j, partial) ==
    /\ \A i \in 1..NumItems : items[j][i] # "none"
    /\ partial <=> \E i \in 1..NumItems : items[j][i] = "failed"

\* What the registry and the hash of a job owe each other.
JobPublishes(j) ==
    /\ prepared[j] = NoArtifact \/ prepared[j].digest \in Digests
    /\ tag[j] # NoDigest => j \notin UnreadableJobs
    /\ tag[j] # NoDigest /\ status[j] # "absent" =>
          /\ prepared[j].digest = tag[j]
          /\ Reported(j, prepared[j].partial)
    /\ status[j] \in {"completed", "partial"} =>
          /\ Reported(j, status[j] = "partial")
          /\ tag[j] = output[j]
          /\ output[j] # NoDigest => Authorized(j, output[j])
    /\ status[j] \notin Terminal => output[j] = NoDigest /\ error[j] = "none"

Publishing == {"resolve", "install", "cosign", "verify"} \cup PushSteps

\* What holds of an attempt whether or not it still owns its job.
AttemptKnows(w) ==
    LET a == att[w] IN
    /\ a.step \in {"acquire", "read", "reject", "start", "process", "items",
                   "gate"} => a.mode = "run"
    /\ a.mode = "run" /\ a.step \in {"acquire", "read", "start", "resolve",
                                     "process"} => a.next = 1
    /\ a.step = "start" =>
          a.artifact = NoArtifact \/ a.artifact.digest \in Digests
    /\ a.step = "items" => a.next # 0 /\ a.artifact.digest = NoDigest
    /\ a.step \in Publishing \cup {"gate"} => a.artifact.digest \in Digests
    /\ a.step = "cosign" \/ (a.step \in PushSteps /\ a.mode = "fail") =>
          a.job \in GovernedJobs
    /\ a.step = "cosign" \/ (a.step \in PushSteps /\ ~Owns(w)) =>
          tag[a.job] = a.artifact.digest
    /\ a.step = "reject" => a.job \in UnreadableJobs
    /\ a.step \in Working \ {"reject"} => a.job \notin UnreadableJobs

\* What an attempt that owns its job may rely on.
OwnerPublishes(w) ==
    LET a == att[w] IN
    /\ a.step \in Working \ {"reject", "start"} => status[a.job] = "running"
    /\ a.step \in {"process", "items", "gate"} => tag[a.job] = NoDigest
    /\ a.step \in Publishing \cup {"start"} => a.artifact = prepared[a.job]
    /\ a.step = "items" =>
          /\ \A i \in 1..NumItems : i < a.next => items[a.job][i] # "none"
          /\ a.artifact.partial <=>
               \E i \in 1..NumItems : i < a.next /\ items[a.job][i] = "failed"
    /\ a.step \in PushSteps \cup {"gate", "finish"} =>
          Reported(a.job, a.artifact.partial)
    /\ a.step = "finish" =>
          /\ tag[a.job] = a.artifact.digest
          /\ a.artifact.digest # NoDigest =>
                Authorized(a.job, a.artifact.digest)
    /\ a.step = "fail" => tag[a.job] = NoDigest \/ a.retryable = FALSE

Owner(w) == att[w].token # 0 /\ Owns(w)

PInv == /\ \A j \in Jobs : JobPublishes(j)
        /\ \A w \in Workers : AttemptKnows(w)
        /\ \A w \in Workers : Owner(w) => OwnerPublishes(w)

----------------------------------------------------------------------------
\* A step of the attempt of w leaves what every other attempt may rely on:
\* it writes the hash only as its owner, and a tag only when it is absent.
LEMMA OthersAreFenced ==
    ASSUME IInv, PInv, NEW w \in Workers, att[w].token # 0,
           \A v \in Workers \ {w} : att'[v] = att[v],
           UNCHANGED lease, signed \subseteq signed',
           \A k \in Jobs : k # att[w].job \/ ~Owns(w) =>
              /\ status'[k] = status[k] /\ prepared'[k] = prepared[k]
              /\ items'[k] = items[k] /\ output'[k] = output[k]
              /\ error'[k] = error[k]
              /\ tag'[k] = tag[k],
           \A k \in Jobs : tag'[k] # tag[k] => tag[k] = NoDigest
    PROVE  /\ \A v \in Workers \ {w} :
                 AttemptKnows(v)' /\ (Owner(v)' => OwnerPublishes(v)')
           /\ \A k \in Jobs \ {att[w].job} : JobPublishes(k)'
<1> USE DEF IInv
<1>1. ASSUME NEW k \in Jobs \ {att[w].job} PROVE JobPublishes(k)'
  BY DEF PInv, JobPublishes, Reported, Authorized
<1>2. ASSUME NEW v \in Workers \ {w} PROVE AttemptKnows(v)'
  <2>1. AttemptKnows(v) /\ att'[v] = att[v] /\ Owns(v)' = Owns(v)
    BY DEF PInv, Owns
  <2>2. att[v].step \in Working => att[v].job \in Jobs
    BY DEF AttemptShape, Working, PushSteps
  <2>3. /\ att[v].artifact.digest \in Digests
        /\ tag[att[v].job] = att[v].artifact.digest
        /\ att[v].step \in Working
        => tag'[att[v].job] = tag[att[v].job]
    BY <2>2
  <2> QED
    BY <2>1, <2>2, <2>3 DEF AttemptKnows, Working, Publishing
<1>3. ASSUME NEW v \in Workers \ {w}, Owner(v)' PROVE OwnerPublishes(v)'
  <2>1. OwnerPublishes(v) /\ att'[v] = att[v] /\ Owns(v)
    BY <1>3 DEF PInv, Owner, Owns
  <2>2. att[v].job # att[w].job \/ ~Owns(w)
    BY <1>3, <2>1 DEF TokensDiffer, Owner, Owns
  <2>3. att[v].step \in Working => att[v].job \in Jobs
    BY DEF AttemptShape, Working, PushSteps
  <2>4. att[v].step \in Working =>
          LET k == att[v].job IN
          /\ status'[k] = status[k] /\ prepared'[k] = prepared[k]
          /\ items'[k] = items[k] /\ tag'[k] = tag[k]
    BY <2>2, <2>3
  <2> QED
    BY <2>1, <2>4
       DEF OwnerPublishes, Reported, Authorized, Working, Publishing,
           PushSteps
<1> QED
  BY <1>1, <1>2, <1>3

\* A step that leaves the hash and the tags alone.
LEMMA QuietPublishes ==
    ASSUME IInv, PInv, NEW w \in Workers, att[w].token # 0,
           \A v \in Workers \ {w} : att'[v] = att[v],
           UNCHANGED <<jobVars, lease, tag>>, signed \subseteq signed',
           AttemptKnows(w)', Owner(w)' => OwnerPublishes(w)'
    PROVE  PInv'
<1>1. /\ \A v \in Workers \ {w} :
            AttemptKnows(v)' /\ (Owner(v)' => OwnerPublishes(v)')
      /\ \A k \in Jobs \ {att[w].job} : JobPublishes(k)'
  BY OthersAreFenced DEF jobVars
<1>2. \A k \in Jobs : JobPublishes(k)'
  BY DEF PInv, JobPublishes, Reported, Authorized, jobVars
<1> QED
  BY <1>1, <1>2 DEF PInv

LEMMA GotoWithFields ==
    ASSUME TypeOK, NEW w \in Workers, NEW step \in Steps,
           NEW retryable \in BOOLEAN, GotoWith(w, step, retryable)
    PROVE  /\ att'[w].step = step /\ att'[w].mode = att[w].mode
           /\ att'[w].job = att[w].job /\ att'[w].token = att[w].token
           /\ att'[w].artifact = att[w].artifact
           /\ att'[w].next = att[w].next
           /\ att'[w].retryable = retryable
           /\ \A v \in Workers \ {w} : att'[v] = att[v]
BY DEF GotoWith, TypeOK, Attempt

LEMMA GotoFields ==
    ASSUME TypeOK, NEW w \in Workers, NEW step \in Steps, Goto(w, step)
    PROVE  /\ att'[w].step = step /\ att'[w].mode = att[w].mode
           /\ att'[w].job = att[w].job /\ att'[w].token = att[w].token
           /\ att'[w].artifact = att[w].artifact
           /\ att'[w].next = att[w].next
           /\ \A v \in Workers \ {w} : att'[v] = att[v]
BY DEF Goto, TypeOK, Attempt

\* An attempt at work has a token and a job.
LEMMA AtWork ==
    ASSUME IInv, NEW w \in Workers, att[w].step \in Working
    PROVE  att[w].token # 0 /\ att[w].job \in Jobs
BY DEF IInv, AttemptShape, Working, PushSteps

\* An exception leaves everything to _fail, and inside _fail the failure that
\* replaces the first one is final.
LEMMA RaisePublishes ==
    ASSUME IInv, PInv, NEW w \in Workers, NEW retryable \in BOOLEAN,
           Raise(w, retryable), att[w].step \in Working \ {"reject", "start"},
           UNCHANGED <<jobVars, lease, tag>>, signed \subseteq signed'
    PROVE  PInv'
<1>0. TypeOK /\ att[w].token # 0 /\ att[w].job \in Jobs
  BY AtWork DEF IInv
<1>a. AttemptKnows(w) /\ (Owner(w) => OwnerPublishes(w))
  BY DEF PInv
<1>b. att[w].mode \in {"run", "fail"}
  BY <1>0 DEF TypeOK, Attempt
<1>1. CASE att[w].mode = "run"
  <2>1. GotoWith(w, "check", retryable)
    BY <1>1 DEF Raise
  <2>2. AttemptKnows(w)'
    BY <1>0, <1>a, <2>1, GotoWithFields
       DEF AttemptKnows, Working, Publishing, PushSteps, Steps
  <2>3. Owner(w)' => OwnerPublishes(w)'
    BY <1>0, <1>a, <2>1, GotoWithFields
       DEF OwnerPublishes, Owner, Owns, Publishing, PushSteps, Steps, jobVars
  <2> QED
    BY <1>0, <2>1, <2>2, <2>3, QuietPublishes, GotoWithFields DEF Steps
<1>2. CASE att[w].mode = "fail" /\ retryable
  <2>1. Goto(w, "release")
    BY <1>2 DEF Raise, Uncertain
  <2>2. AttemptKnows(w)' /\ OwnerPublishes(w)'
    BY <1>0, <2>1, GotoFields
       DEF AttemptKnows, OwnerPublishes, Working, Publishing, PushSteps, Steps
  <2> QED
    BY <1>0, <2>1, <2>2, QuietPublishes, GotoFields DEF Steps
<1>3. CASE att[w].mode = "fail" /\ ~retryable
  <2>1. GotoWith(w, "fail", retryable)
    BY <1>3 DEF Raise
  <2>2. AttemptKnows(w)'
    BY <1>0, <1>a, <2>1, GotoWithFields
       DEF AttemptKnows, Working, Publishing, PushSteps, Steps
  <2>3. Owner(w)' => OwnerPublishes(w)'
    BY <1>0, <1>a, <1>3, <2>1, GotoWithFields
       DEF OwnerPublishes, Owner, Owns, Publishing, PushSteps, Steps, jobVars
  <2> QED
    BY <1>0, <2>1, <2>2, <2>3, QuietPublishes, GotoWithFields DEF Steps
<1> QED
  BY <1>b, <1>1, <1>2, <1>3

LEMMA FailsPublishes ==
    ASSUME IInv, PInv, NEW w \in Workers, CallFails(w),
           att[w].step \in Working \ {"reject", "start"},
           UNCHANGED <<jobVars, lease, tag>>, signed \subseteq signed'
    PROVE  PInv'
BY RaisePublishes DEF CallFails

\* A move within the work, by Goto, that leaves the hash and the tags alone.
LEMMA GotoPublishes ==
    ASSUME IInv, PInv, NEW w \in Workers, att[w].step \in Working,
           NEW step \in {"process", "install", "cosign", "finish", "fail",
                         "upload", "verify", "release"},
           Goto(w, step), UNCHANGED <<jobVars, lease, tag>>,
           signed \subseteq signed',
           step = "release" \/
             /\ att[w].step \in Working \ {"reject", "start"}
             /\ step = "process" =>
                   /\ att[w].mode = "run" /\ att[w].next = 1
                   /\ Owner(w) => tag[att[w].job] = NoDigest
             /\ step \in {"install", "cosign", "verify", "upload"} =>
                   att[w].step \in Publishing
             /\ step = "upload" => att[w].step \in PushSteps
             /\ step = "cosign" =>
                   /\ att[w].job \in GovernedJobs
                   /\ tag[att[w].job] = att[w].artifact.digest
             /\ step = "finish" /\ Owner(w) =>
                   /\ tag[att[w].job] = att[w].artifact.digest
                   /\ att[w].job \in GovernedJobs =>
                         att[w].artifact.digest \in signed' \cup {NoDigest}
                   /\ Reported(att[w].job, att[w].artifact.partial)
             /\ step = "fail" /\ Owner(w) =>
                   tag[att[w].job] = NoDigest
    PROVE  PInv'
<1>0. TypeOK /\ att[w].token # 0 /\ att[w].job \in Jobs
  BY AtWork DEF IInv
<1>1. AttemptKnows(w) /\ (Owner(w) => OwnerPublishes(w))
  BY DEF PInv
<1>a. step \in Steps
  BY DEF Steps, PushSteps
<1>b. /\ att'[w].step = step /\ att'[w].mode = att[w].mode
      /\ att'[w].job = att[w].job /\ att'[w].token = att[w].token
      /\ att'[w].artifact = att[w].artifact /\ att'[w].next = att[w].next
  BY <1>0, <1>a, GotoFields
<1>c. UNCHANGED <<status, prepared, items, tag, lease>>
  BY DEF jobVars
<1>2. AttemptKnows(w)'
  BY <1>1, <1>b, <1>c DEF AttemptKnows, Working, Publishing, PushSteps, Owns
<1>3. Owner(w)' => OwnerPublishes(w)'
  <2> SUFFICES ASSUME Owner(w)' PROVE OwnerPublishes(w)'
    OBVIOUS
  <2>1. OwnerPublishes(w) /\ Owner(w)
    BY <1>1, <1>b, <1>c DEF Owner, Owns
  <2>2. /\ att'[w].step = step /\ att'[w].job = att[w].job
        /\ att'[w].artifact = att[w].artifact
        /\ UNCHANGED <<status, prepared, items, tag>>
    BY <1>b, <1>c
  <2>3. step # "release" => status[att[w].job] = "running"
    BY <2>1, SMTT(30) DEF OwnerPublishes
  <2>4. CASE step \in {"install", "cosign", "verify", "upload"}
    <3>1. att[w].artifact = prepared[att[w].job]
      BY <2>1, <2>4 DEF OwnerPublishes, Publishing, PushSteps
    <3>2. step = "upload" => Reported(att[w].job, att[w].artifact.partial)
      BY <2>1 DEF OwnerPublishes, PushSteps
    <3> QED
      BY <2>2, <2>3, <2>4, <3>1, <3>2
         DEF OwnerPublishes, PushSteps, Reported
  <2>5. CASE step = "finish"
    BY <2>1, <2>2, <2>3, <2>5
       DEF OwnerPublishes, Publishing, PushSteps, Reported, Authorized
  <2>6. CASE step \in {"process", "fail", "release"}
    BY <2>1, <2>2, <2>3, <2>6
       DEF OwnerPublishes, Working, Publishing, PushSteps
  <2> QED
    BY <2>4, <2>5, <2>6
<1> QED
  BY <1>0, <1>a, <1>2, <1>3, QuietPublishes, GotoFields

\* The tag of an owner's prepared artifact was reported on in full.
LEMMA TagReported ==
    ASSUME IInv, PInv, NEW w \in Workers, Owner(w),
           att[w].step \in Publishing,
           tag[att[w].job] = att[w].artifact.digest
    PROVE  Reported(att[w].job, att[w].artifact.partial)
<1>1. att[w].job \in Jobs
  BY AtWork DEF Publishing, Working
<1>2. /\ att[w].artifact = prepared[att[w].job]
      /\ att[w].artifact.digest \in Digests
      /\ status[att[w].job] = "running"
  BY DEF PInv, OwnerPublishes, AttemptKnows, Publishing, Working, PushSteps
<1> QED
  BY <1>1, <1>2, IngestAssumption DEF PInv, JobPublishes

\* An owner's tag is absent or names its prepared artifact.
LEMMA OwnersTag ==
    ASSUME IInv, PInv, NEW w \in Workers, Owner(w), att[w].step \in Publishing
    PROVE  tag[att[w].job] \in {NoDigest, att[w].artifact.digest}
<1>1. att[w].job \in Jobs
  BY AtWork DEF Publishing, Working
<1>2. /\ att[w].artifact = prepared[att[w].job]
      /\ status[att[w].job] = "running"
  BY DEF PInv, OwnerPublishes, Publishing, Working, PushSteps
<1> QED
  BY <1>1, <1>2 DEF PInv, JobPublishes

\* Recovery and the first look of a push: nothing but the attempt moves.
LEMMA RecoveryPublishes ==
    ASSUME IInv, PInv, NEW w \in Workers,
           Resolve(w) \/ Install(w) \/ Verify(w) \/ PushCheck(w)
    PROVE  PInv'
<1> USE DEF registryVars, leaseVars
<1>0. TypeOK /\ AttemptKnows(w) /\ (Owner(w) => OwnerPublishes(w))
  BY DEF PInv, IInv
<1>1. ASSUME CallFails(w), att[w].step \in Working \ {"reject", "start"},
             UNCHANGED <<jobVars, leaseVars, registryVars>>
      PROVE  PInv'
  BY <1>1, FailsPublishes
<1>2. CASE Resolve(w) /\ ~CallFails(w)
  <2> DEFINE named == tag[att[w].job]
             expected == att[w].artifact.digest
  <2>0. /\ att[w].step = "resolve" /\ att[w].step \in Working
        /\ att[w].step \in Publishing
        /\ UNCHANGED <<jobVars, lease, tag, signed>>
    BY <1>2 DEF Resolve, Working, Publishing
  <2>1. CASE named = NoDigest
               /\ Goto(w, IF att[w].mode = "run" THEN "process" ELSE "fail")
    <3>1. CASE att[w].mode = "run"
      BY <1>0, <2>0, <2>1, <3>1, GotoPublishes DEF AttemptKnows
    <3>2. CASE att[w].mode # "run"
      BY <1>0, <2>0, <2>1, <3>2, GotoPublishes
    <3> QED
      BY <3>1, <3>2
  <2>2. CASE named = expected /\ Goto(w, "install")
    BY <1>0, <2>0, <2>2, GotoPublishes
  <2>3. CASE named \notin {NoDigest, expected} /\ Raise(w, FALSE)
    BY <1>0, <2>0, <2>3, RaisePublishes, OwnersTag
  <2> QED
    BY <1>2, <2>1, <2>2, <2>3 DEF Resolve
<1>3. CASE Install(w) /\ ~CallFails(w)
  <2> DEFINE j == att[w].job
             expected == att[w].artifact.digest
  <2>0. /\ att[w].step = "install" /\ att[w].step \in Working
        /\ att[w].step \in Publishing
        /\ UNCHANGED <<jobVars, lease, tag, signed>>
    BY <1>3 DEF Install, Working, Publishing
  <2>1. CASE Raise(w, TRUE)
    BY <2>0, <2>1, RaisePublishes
  <2>2. CASE tag[j] = expected /\ Authorized(j, expected)
               /\ Goto(w, "finish")
    BY <2>0, <2>2, GotoPublishes, TagReported DEF Authorized
  <2>3. CASE tag[j] = expected /\ ~Authorized(j, expected)
               /\ Goto(w, "cosign")
    BY <2>0, <2>3, GotoPublishes DEF Authorized
  <2> QED
    BY <1>3, <2>1, <2>2, <2>3 DEF Install
<1>4. CASE Verify(w) /\ ~CallFails(w)
  <2> DEFINE j == att[w].job
             expected == att[w].artifact.digest
  <2>0. /\ att[w].step = "verify" /\ att[w].step \in Working
        /\ att[w].step \in Publishing
        /\ UNCHANGED <<jobVars, lease, tag, signed>>
    BY <1>4 DEF Verify, Working, Publishing
  <2>1. CASE Raise(w, TRUE)
    BY <2>0, <2>1, RaisePublishes
  <2>2. CASE tag[j] = expected /\ Authorized(j, expected)
               /\ Goto(w, "finish")
    BY <2>0, <2>2, GotoPublishes, TagReported DEF Authorized
  <2>3. CASE ~Authorized(j, expected) /\ Raise(w, FALSE)
    BY <2>0, <2>3, RaisePublishes DEF Authorized
  <2> QED
    BY <1>4, <2>1, <2>2, <2>3 DEF Verify
<1>5. CASE PushCheck(w) /\ ~CallFails(w)
  <2> DEFINE named == tag[att[w].job]
             expected == att[w].artifact.digest
  <2>0. /\ att[w].step = "push" /\ att[w].step \in Working
        /\ att[w].step \in Publishing /\ att[w].step \in PushSteps
        /\ UNCHANGED <<jobVars, lease, tag, signed>>
    BY <1>5 DEF PushCheck, Working, Publishing, PushSteps
  <2>1. CASE Goto(w, "upload")
    BY <2>0, <2>1, GotoPublishes
  <2>2. CASE named \notin {NoDigest, expected} /\ Raise(w, FALSE)
    BY <2>0, <2>2, RaisePublishes, OwnersTag
  <2> QED
    BY <1>5, <2>1, <2>2 DEF PushCheck
<1> QED
  BY <1>1, <1>2, <1>3, <1>4, <1>5
     DEF Resolve, Install, Verify, PushCheck, Working, PushSteps

\* The push: a tag moves from nothing to the artifact of its owner, or stays.
LEMMA ManifestKeepsTags ==
    ASSUME IInv, PInv, NEW w \in Workers, PushManifest(w)
    PROVE  /\ tag' = tag \/ tag' = [tag EXCEPT ![att[w].job] =
                                           att[w].artifact.digest]
           /\ \A k \in Jobs : tag'[k] # tag[k] =>
                 tag[k] = NoDigest /\ k = att[w].job /\ Owner(w)
<1>1. /\ att[w].step = "upload" /\ att[w].step \in Publishing
      /\ att[w].token # 0 /\ att[w].job \in Jobs
  BY AtWork DEF PushManifest, Publishing, Working, PushSteps
<1>2. ~Owner(w) => tag[att[w].job] = att[w].artifact.digest
  BY <1>1 DEF PInv, AttemptKnows, PushSteps, Owner
<1>3. Owner(w) => tag[att[w].job] \in {NoDigest, att[w].artifact.digest}
  BY <1>1, OwnersTag
<1>4. tag' = tag \/ tag' = [tag EXCEPT ![att[w].job] = att[w].artifact.digest]
  BY DEF PushManifest
<1> QED
  BY <1>1, <1>2, <1>3, <1>4 DEF IInv, TypeOK

LEMMA ManifestPublishes ==
    ASSUME IInv, PInv, NEW w \in Workers, PushManifest(w)
    PROVE  PInv'
<1> DEFINE j == att[w].job
           d == att[w].artifact.digest
<1>0. TypeOK /\ AttemptKnows(w) /\ (Owner(w) => OwnerPublishes(w))
  BY DEF PInv, IInv
<1>1. /\ att[w].step = "upload" /\ att[w].step \in Publishing
      /\ att[w].step \in Working /\ att[w].step \in PushSteps
      /\ att[w].token # 0 /\ j \in Jobs /\ d \in Digests
      /\ j \notin UnreadableJobs
  BY <1>0, AtWork
     DEF PushManifest, Publishing, Working, PushSteps, AttemptKnows
<1>2. UNCHANGED <<jobVars, lease, signed>>
  BY DEF PushManifest, leaseVars
<1>3. PICK step \in {"refer", "check", "release", "fail"} :
        /\ Goto(w, step)
           \/ \E retryable \in BOOLEAN : GotoWith(w, step, retryable)
        /\ step = "refer" => tag' = [tag EXCEPT ![j] = d]
        /\ step = "fail" => GotoWith(w, step, FALSE)
  BY DEF PushManifest, CallFails, Raise, Uncertain
<1>4. \A k \in Jobs : tag'[k] # tag[k] =>
        tag[k] = NoDigest /\ k = j /\ Owner(w) /\ tag'[k] = d
  <2>1. tag' = tag \/ tag' = [tag EXCEPT ![j] = d]
    BY ManifestKeepsTags
  <2>2. tag \in [Jobs -> Digests \cup {NoDigest}]
    BY <1>0 DEF TypeOK
  <2>3. tag'[j] # tag[j] => tag'[j] = d
    BY <1>1, <2>1, <2>2
  <2> QED
    BY <2>3, ManifestKeepsTags
<1>5. /\ att'[w].step = step /\ att'[w].mode = att[w].mode
      /\ att'[w].job = j /\ att'[w].token = att[w].token
      /\ att'[w].artifact = att[w].artifact /\ att'[w].next = att[w].next
      /\ \A v \in Workers \ {w} : att'[v] = att[v]
  BY <1>0, <1>3, GotoFields, GotoWithFields DEF Steps, PushSteps
<1>5a. step = "fail" => att'[w].retryable = FALSE
  BY <1>0, <1>3, GotoWithFields DEF Steps
<1>6. Owns(w)' = Owns(w)
  BY <1>2, <1>5 DEF Owns
<1>7. ASSUME NEW k \in Jobs PROVE JobPublishes(k)'
  <2>0. JobPublishes(k)
    BY DEF PInv
  <2>1. CASE tag'[k] = tag[k]
    BY <1>2, <2>0, <2>1 DEF JobPublishes, Reported, Authorized, jobVars
  <2>2. CASE tag'[k] # tag[k]
    <3>1. /\ Owner(w) /\ k = j /\ tag'[k] = d
          /\ att[w].artifact = prepared[k]
          /\ status[k] = "running" /\ Reported(k, prepared[k].partial)
      BY <1>0, <1>1, <1>4, <2>2
         DEF OwnerPublishes, Publishing, PushSteps, Working
    <3>2. prepared[k].digest = d /\ k \notin UnreadableJobs
      BY <1>1, <3>1
    <3> QED
      BY <1>1, <1>2, <2>0, <3>1, <3>2 DEF JobPublishes, Reported, jobVars
  <2> QED
    BY <2>1, <2>2
<1>8. AttemptKnows(w)'
  BY <1>0, <1>1, <1>3, <1>4, <1>5, <1>6, IngestAssumption
     DEF AttemptKnows, Working, Publishing, PushSteps
<1>9. Owner(w)' => OwnerPublishes(w)'
  BY <1>0, <1>1, <1>2, <1>3, <1>5, <1>5a, <1>6
     DEF OwnerPublishes, Working, Publishing, PushSteps, Owner, Reported,
         jobVars
<1>10. \A k \in Jobs : k # j \/ ~Owns(w) => tag'[k] = tag[k]
  BY <1>4 DEF Owner
<1> QED
  BY <1>1, <1>2, <1>4, <1>5, <1>7, <1>8, <1>9, <1>10, OthersAreFenced
     DEF PInv, jobVars

\* The referrers: what is under the tag becomes authorized.
LEMMA ReferrersPublish ==
    ASSUME IInv, PInv, NEW w \in Workers, PushReferrers(w)
    PROVE  PInv'
<1> DEFINE j == att[w].job
           d == att[w].artifact.digest
<1>0. TypeOK /\ AttemptKnows(w) /\ (Owner(w) => OwnerPublishes(w))
  BY DEF PInv, IInv
<1>1. /\ att[w].step = "refer" /\ att[w].step \in Publishing
      /\ att[w].step \in Working /\ att[w].step \in PushSteps
      /\ att[w].step \in Working \ {"reject", "start"}
  BY DEF PushReferrers, Publishing, Working, PushSteps
<1>2. UNCHANGED <<jobVars, lease, tag>> /\ signed \subseteq signed'
  BY DEF PushReferrers, leaseVars
<1>3. CASE CallFails(w)
  BY <1>1, <1>2, <1>3, FailsPublishes
<1>4. CASE ~CallFails(w)
  <2>0. signed' = IF j \in GovernedJobs THEN signed \cup {d} ELSE signed
    BY <1>4 DEF PushReferrers
  <2>1. CASE tag[j] # d /\ Raise(w, FALSE)
    BY <1>1, <1>2, <2>1, RaisePublishes
  <2>2. CASE tag[j] = d /\ att[w].recovering /\ Goto(w, "verify")
    BY <1>1, <1>2, <2>2, GotoPublishes
  <2>3. CASE tag[j] = d /\ ~att[w].recovering /\ Goto(w, "finish")
    BY <1>1, <1>2, <2>0, <2>3, GotoPublishes, TagReported
  <2> QED
    BY <1>4, <2>1, <2>2, <2>3 DEF PushReferrers
<1> QED
  BY <1>3, <1>4

\* _sign_governed, and the re-read of the hash in _fail.
LEMMA CosignPublishes ==
    ASSUME IInv, PInv, NEW w \in Workers, Cosign(w)
    PROVE  PInv'
<1>0. TypeOK /\ AttemptKnows(w) /\ (Owner(w) => OwnerPublishes(w))
  BY DEF PInv, IInv
<1>1. /\ att[w].step = "cosign" /\ att[w].step \in Publishing
      /\ att[w].step \in Working /\ att[w].job \in GovernedJobs
      /\ att[w].step \in Working \ {"reject", "start"}
      /\ tag[att[w].job] = att[w].artifact.digest
      /\ att[w].token # 0
  BY <1>0, AtWork DEF Cosign, Publishing, Working, PushSteps, AttemptKnows
<1>2. UNCHANGED <<jobVars, lease, tag, signed>>
  BY DEF Cosign, leaseVars, registryVars
<1>3. CASE CallFails(w)
  BY <1>1, <1>2, <1>3, FailsPublishes
<1>4. CASE att' = [att EXCEPT ![w] =
                      [@ EXCEPT !.step = "push", !.recovering = TRUE]]
  <2>1. /\ att'[w].step = "push" /\ att'[w].mode = att[w].mode
        /\ att'[w].job = att[w].job /\ att'[w].token = att[w].token
        /\ att'[w].artifact = att[w].artifact
        /\ \A v \in Workers \ {w} : att'[v] = att[v]
    BY <1>0, <1>4 DEF TypeOK, Attempt
  <2>2. AttemptKnows(w)'
    BY <1>0, <1>1, <1>2, <2>1
       DEF AttemptKnows, Working, Publishing, PushSteps
  <2>3. Owner(w)' => OwnerPublishes(w)'
    <3> SUFFICES ASSUME Owner(w)' PROVE OwnerPublishes(w)'
      OBVIOUS
    <3>1. Owner(w) /\ OwnerPublishes(w)
      BY <1>0, <1>2, <2>1 DEF Owner, Owns
    <3>2. Reported(att[w].job, att[w].artifact.partial)
      BY <1>1, <3>1, TagReported
    <3> QED
      BY <1>1, <1>2, <2>1, <3>1, <3>2
         DEF OwnerPublishes, Working, Publishing, PushSteps, Reported, jobVars
  <2> QED
    BY <1>1, <1>2, <2>1, <2>2, <2>3, QuietPublishes
<1> QED
  BY <1>3, <1>4 DEF Cosign

LEMMA CheckPublishes ==
    ASSUME IInv, PInv, NEW w \in Workers, CheckPrepared(w)
    PROVE  PInv'
<1> DEFINE j == att[w].job
<1>0. TypeOK /\ AttemptKnows(w) /\ (Owner(w) => OwnerPublishes(w))
  BY DEF PInv, IInv
<1>1. /\ att[w].step = "check" /\ att[w].step \in Working \ {"reject", "start"}
      /\ att[w].token # 0 /\ j \in Jobs /\ j \notin UnreadableJobs
  BY <1>0, AtWork DEF CheckPrepared, Working, AttemptKnows
<1>2. UNCHANGED <<jobVars, lease, tag, signed>>
  BY DEF CheckPrepared, leaseVars, registryVars
<1>3. JobPublishes(j)
  BY <1>1 DEF PInv
<1>4. /\ att'[w].step = IF prepared[j] = NoArtifact THEN "fail" ELSE "resolve"
      /\ att'[w].mode = "fail" /\ att'[w].job = j
      /\ att'[w].token = att[w].token /\ att'[w].artifact = prepared[j]
      /\ \A v \in Workers \ {w} : att'[v] = att[v]
  BY <1>0 DEF CheckPrepared, TypeOK, Attempt
<1>5. AttemptKnows(w)'
  BY <1>1, <1>2, <1>3, <1>4
     DEF AttemptKnows, JobPublishes, Working, Publishing, PushSteps
<1>6. Owner(w)' => OwnerPublishes(w)'
  <2> SUFFICES ASSUME Owner(w)' PROVE OwnerPublishes(w)'
    OBVIOUS
  <2>1. status[j] = "running"
    BY <1>0, <1>1, <1>2, <1>4 DEF OwnerPublishes, Owner, Owns
  <2>2. prepared[j] = NoArtifact => tag[j] = NoDigest
    <3>1. NoArtifact.digest = NoDigest
      BY DEF NoArtifact
    <3> QED
      BY <1>3, <2>1, <3>1 DEF JobPublishes
  <2> QED
    BY <1>1, <1>2, <1>4, <2>1, <2>2
       DEF OwnerPublishes, Working, Publishing, PushSteps, jobVars
<1> QED
  BY <1>1, <1>2, <1>4, <1>5, <1>6, QuietPublishes

\* process_job, up to the prepared record that gates the push.
LEMMA ProcessPublishes ==
    ASSUME IInv, PInv, NEW w \in Workers, Process(w)
    PROVE  PInv'
<1> DEFINE j == att[w].job
<1>0. TypeOK /\ AttemptKnows(w) /\ (Owner(w) => OwnerPublishes(w))
  BY DEF PInv, IInv
<1>1. /\ att[w].step = "process"
      /\ att[w].step \in Working \ {"reject", "start"}
      /\ att[w].token # 0 /\ j \in Jobs /\ j \notin UnreadableJobs
      /\ att[w].mode = "run" /\ att[w].next = 1
  BY <1>0, AtWork DEF Process, Working, AttemptKnows
<1>2. UNCHANGED <<jobVars, lease, tag, signed>>
  BY DEF Process, leaseVars, registryVars
<1>3. CASE CallFails(w)
  BY <1>1, <1>2, <1>3, FailsPublishes
<1>4. CASE att' = [att EXCEPT ![w] = [@ EXCEPT !.step = "items",
                                              !.artifact = NoArtifact]]
  <2>1. /\ att'[w].step = "items" /\ att'[w].mode = "run"
        /\ att'[w].job = att[w].job /\ att'[w].token = att[w].token
        /\ att'[w].artifact = NoArtifact /\ att'[w].next = 1
        /\ \A v \in Workers \ {w} : att'[v] = att[v]
    BY <1>0, <1>1, <1>4 DEF TypeOK, Attempt
  <2>2. NoArtifact.digest = NoDigest /\ NoArtifact.partial = FALSE
    BY DEF NoArtifact
  <2>3. AttemptKnows(w)'
    BY <1>1, <1>2, <2>1, <2>2
       DEF AttemptKnows, Working, Publishing, PushSteps
  <2>4. Owner(w)' => OwnerPublishes(w)'
    BY <1>0, <1>1, <1>2, <2>1, <2>2
       DEF OwnerPublishes, Owner, Owns, Working, Publishing, PushSteps,
           jobVars
  <2> QED
    BY <1>1, <1>2, <2>1, <2>3, <2>4, QuietPublishes
<1> QED
  BY <1>3, <1>4 DEF Process

LEMMA PackPublishes ==
    ASSUME IInv, PInv, NEW w \in Workers, Pack(w)
    PROVE  PInv'
<1> DEFINE j == att[w].job
<1>0. TypeOK /\ AttemptKnows(w) /\ (Owner(w) => OwnerPublishes(w))
  BY DEF PInv, IInv
<1>1. /\ att[w].step = "items" /\ att[w].next > NumItems
      /\ att[w].step \in Working \ {"reject", "start"}
      /\ att[w].token # 0 /\ j \in Jobs /\ j \notin UnreadableJobs
      /\ att[w].mode = "run" /\ att[w].artifact.digest = NoDigest
  BY <1>0, AtWork DEF Pack, Working, AttemptKnows
<1>2. UNCHANGED <<jobVars, lease, tag, signed>>
  BY DEF Pack, leaseVars, registryVars
<1>3. Owner(w) => /\ Reported(j, att[w].artifact.partial)
                  /\ tag[j] = NoDigest /\ status[j] = "running"
  <2>1. \A i \in 1..NumItems : i < att[w].next
    BY <1>0, <1>1 DEF TypeOK, Attempt
  <2> QED
    BY <1>0, <1>1, <2>1 DEF OwnerPublishes, Reported, Working
<1>4. CASE Goto(w, "finish")
  BY <1>1, <1>2, <1>3, <1>4, GotoPublishes
<1>5. CASE CallFails(w)
  BY <1>1, <1>2, <1>5, FailsPublishes
<1>6. ASSUME NEW d \in Digests,
             att' = [att EXCEPT ![w] = [@ EXCEPT !.step = "gate",
                                                 !.artifact.digest = d]]
      PROVE  PInv'
  <2>1. /\ att'[w].step = "gate" /\ att'[w].mode = "run"
        /\ att'[w].job = att[w].job /\ att'[w].token = att[w].token
        /\ att'[w].artifact.digest = d
        /\ att'[w].artifact.partial = att[w].artifact.partial
        /\ \A v \in Workers \ {w} : att'[v] = att[v]
    BY <1>0, <1>1, <1>6 DEF TypeOK, Attempt, Artifact
  <2>2. AttemptKnows(w)'
    BY <1>1, <1>2, <2>1 DEF AttemptKnows, Working, Publishing, PushSteps
  <2>3. Owner(w)' => OwnerPublishes(w)'
    <3> SUFFICES ASSUME Owner(w)' PROVE OwnerPublishes(w)'
      OBVIOUS
    <3>1. Owner(w)
      BY <1>1, <1>2, <2>1 DEF Owner, Owns
    <3> QED
      BY <1>2, <1>3, <2>1, <3>1
         DEF OwnerPublishes, Publishing, PushSteps, Reported, jobVars
  <2> QED
    BY <1>1, <1>2, <2>1, <2>2, <2>3, QuietPublishes
<1> QED
  BY <1>4, <1>5, <1>6 DEF Pack

\* One more item: only an owner's report is written.
LEMMA ItemPublishes ==
    ASSUME IInv, PInv, NEW w \in Workers, ProcessItem(w)
    PROVE  PInv'
<1> DEFINE j == att[w].job
           i == att[w].next
<1>0. TypeOK /\ AttemptKnows(w) /\ (Owner(w) => OwnerPublishes(w))
  BY DEF PInv, IInv
<1>1. /\ att[w].step = "items" /\ i \in Nat /\ i <= NumItems
      /\ att[w].step \in Working \ {"reject", "start"}
      /\ att[w].token # 0 /\ j \in Jobs /\ j \notin UnreadableJobs
      /\ att[w].mode = "run" /\ att[w].artifact.digest = NoDigest
      /\ att[w].artifact \in Artifact
  BY <1>0, AtWork DEF ProcessItem, Working, AttemptKnows, TypeOK, Attempt
<1>2. UNCHANGED <<status, request, prepared, output, error, lease, tag, signed>>
  BY DEF ProcessItem, leaseVars, registryVars
<1>3. CASE ~Owns(w)
  BY <1>1, <1>2, <1>3, GotoPublishes DEF ProcessItem, jobVars
<1>4. CASE Owns(w)
  <2>1. PICK report \in {"ok", "failed"} :
          /\ items' = [items EXCEPT ![j][i] = report]
          /\ att' = [att EXCEPT ![w] = [@ EXCEPT
                !.next = i + 1,
                !.artifact = Counting(att[w].artifact, report)]]
    BY <1>4 DEF ProcessItem
  <2>2. /\ att'[w].step = "items" /\ att'[w].mode = "run"
        /\ att'[w].job = att[w].job /\ att'[w].token = att[w].token
        /\ att'[w].artifact = Counting(att[w].artifact, report)
        /\ att'[w].next = i + 1
        /\ \A v \in Workers \ {w} : att'[v] = att[v]
    <3> HIDE DEF Counting
    <3> QED
      BY <1>0, <1>1, <2>1 DEF TypeOK, Attempt
  <2>3. /\ att'[w].artifact.digest = NoDigest
        /\ att'[w].artifact.partial <=>
              att[w].artifact.partial \/ report = "failed"
    BY <1>1, <2>2 DEF Counting, Artifact
  <2>4. /\ \A k \in Jobs \ {j} : items'[k] = items[k]
        /\ items'[j] = [items[j] EXCEPT ![i] = report]
        /\ DOMAIN items[j] = 1..NumItems
    BY <1>0, <1>1, <2>1 DEF TypeOK
  <2>5. Owner(w) /\ tag[j] = NoDigest /\ status[j] = "running"
    BY <1>0, <1>1, <1>4 DEF Owner, OwnerPublishes, Working
  <2>6. AttemptKnows(w)'
    BY <1>1, <1>2, <2>2, <2>3
       DEF AttemptKnows, Working, Publishing, PushSteps
  <2>7. OwnerPublishes(w)'
    <3>1. /\ \A n \in 1..NumItems : n < i => items[j][n] # "none"
          /\ att[w].artifact.partial <=>
               \E n \in 1..NumItems : n < i /\ items[j][n] = "failed"
      BY <1>0, <1>1, <2>5 DEF OwnerPublishes
    <3>2. \A n \in 1..NumItems :
            /\ n < i + 1 <=> n < i \/ n = i
            /\ n = i => items'[j][n] = report
            /\ n # i => items'[j][n] = items[j][n]
      BY <1>1, <2>4
    <3>3. i \in 1..NumItems
      <4>1. i # 0
        BY <1>0, <1>1 DEF AttemptKnows
      <4> QED
        BY <1>1, <4>1
    <3>4. /\ \A n \in 1..NumItems : n < i + 1 => items'[j][n] # "none"
          /\ att'[w].artifact.partial <=>
               \E n \in 1..NumItems : n < i + 1 /\ items'[j][n] = "failed"
      BY <2>1, <2>3, <3>1, <3>2, <3>3
    <3> QED
      BY <1>2, <2>2, <2>5, <3>4 DEF OwnerPublishes, Publishing, PushSteps
  <2>8. ASSUME NEW k \in Jobs PROVE JobPublishes(k)'
    BY <1>2, <2>4, <2>5, <2>8 DEF PInv, JobPublishes, Reported, Authorized
  <2> QED
    BY <1>1, <1>2, <1>4, <2>2, <2>4, <2>6, <2>7, <2>8, OthersAreFenced
       DEF PInv, jobVars
<1> QED
  BY <1>3, <1>4

\* The gate: the artifact an owner is about to push is the prepared record.
LEMMA GatePublishes ==
    ASSUME IInv, PInv, NEW w \in Workers, Gate(w)
    PROVE  PInv'
<1> DEFINE j == att[w].job
<1>0. TypeOK /\ AttemptKnows(w) /\ (Owner(w) => OwnerPublishes(w))
  BY DEF PInv, IInv
<1>1. /\ att[w].step = "gate"
      /\ att[w].step \in Working \ {"reject", "start"}
      /\ att[w].token # 0 /\ j \in Jobs /\ j \notin UnreadableJobs
      /\ att[w].mode = "run" /\ att[w].artifact.digest \in Digests
  BY <1>0, AtWork DEF Gate, Working, AttemptKnows
<1>2. UNCHANGED <<status, request, items, output, error, lease, tag, signed>>
  BY DEF Gate, leaseVars, registryVars
<1>3. CASE ~Owns(w)
  BY <1>1, <1>2, <1>3, GotoPublishes DEF Gate, jobVars
<1>4. CASE Owns(w)
  <2>1. prepared' = [prepared EXCEPT ![j] = att[w].artifact]
        /\ Goto(w, "push")
    BY <1>4 DEF Gate
  <2>2. /\ att'[w].step = "push" /\ att'[w].mode = "run"
        /\ att'[w].job = att[w].job /\ att'[w].token = att[w].token
        /\ att'[w].artifact = att[w].artifact
        /\ \A v \in Workers \ {w} : att'[v] = att[v]
    BY <1>0, <1>1, <2>1, GotoFields DEF Steps, PushSteps
  <2>3. /\ prepared'[j] = att[w].artifact
        /\ \A k \in Jobs \ {j} : prepared'[k] = prepared[k]
    BY <1>0, <1>1, <2>1 DEF TypeOK
  <2>4. /\ Owner(w) /\ tag[j] = NoDigest /\ status[j] = "running"
        /\ Reported(j, att[w].artifact.partial)
    BY <1>0, <1>1, <1>4 DEF Owner, OwnerPublishes, Working
  <2>5. Owns(w)'
    BY <1>2, <1>4, <2>2 DEF Owns
  <2>6. AttemptKnows(w)'
    BY <1>1, <2>2, <2>5 DEF AttemptKnows, Working, Publishing, PushSteps
  <2>7. OwnerPublishes(w)'
    BY <1>2, <2>2, <2>3, <2>4
       DEF OwnerPublishes, Publishing, PushSteps, Reported
  <2>8. ASSUME NEW k \in Jobs PROVE JobPublishes(k)'
    BY <1>1, <1>2, <2>3, <2>4, <2>8
       DEF PInv, JobPublishes, Reported, Authorized
  <2> QED
    BY <1>1, <1>2, <1>4, <2>2, <2>3, <2>6, <2>7, <2>8, OthersAreFenced
       DEF PInv
<1> QED
  BY <1>3, <1>4

\* The writes of _run_job and _fail to the status.
LEMMA StartPublishes ==
    ASSUME IInv, PInv, NEW w \in Workers, Start(w)
    PROVE  PInv'
<1> DEFINE j == att[w].job
<1>0. TypeOK /\ AttemptKnows(w) /\ (Owner(w) => OwnerPublishes(w))
  BY DEF PInv, IInv
<1>1. /\ att[w].step = "start" /\ att[w].step \in Working
      /\ att[w].token # 0 /\ j \in Jobs /\ j \notin UnreadableJobs
      /\ att[w].mode = "run" /\ att[w].next = 1
      /\ att[w].artifact = NoArtifact \/ att[w].artifact.digest \in Digests
  BY <1>0, AtWork DEF Start, Working, AttemptKnows
<1>2. UNCHANGED <<request, prepared, items, output, error, lease, tag, signed>>
  BY DEF Start, leaseVars, registryVars
<1>3. CASE ~Owns(w)
  BY <1>1, <1>2, <1>3, GotoPublishes DEF Start, jobVars
<1>4. CASE Owns(w)
  <2>1. PICK step \in {"process", "resolve"} :
          /\ status' = [status EXCEPT ![j] = "running"]
          /\ Goto(w, step)
          /\ step = "process" <=> att[w].artifact = NoArtifact
    BY <1>4 DEF Start
  <2>2. /\ att'[w].step = step /\ att'[w].mode = "run"
        /\ att'[w].job = att[w].job /\ att'[w].token = att[w].token
        /\ att'[w].artifact = att[w].artifact /\ att'[w].next = 1
        /\ \A v \in Workers \ {w} : att'[v] = att[v]
    BY <1>0, <1>1, <2>1, GotoFields DEF Steps, PushSteps
  <2>3. /\ status'[j] = "running" /\ status[j] \in {"queued", "running"}
        /\ \A k \in Jobs \ {j} : status'[k] = status[k]
    BY <1>0, <1>1, <1>4, <2>1 DEF TypeOK, IInv, OwnerKnowsStatus
  <2>4. att[w].artifact = prepared[j]
    BY <1>0, <1>1, <1>4 DEF Owner, OwnerPublishes
  <2>5. prepared[j] = NoArtifact => tag[j] = NoDigest
    <3>1. NoArtifact.digest = NoDigest
      BY DEF NoArtifact
    <3> QED
      BY <1>1, <2>3, <3>1 DEF PInv, JobPublishes
  <2>6. AttemptKnows(w)'
    BY <1>1, <2>1, <2>2 DEF AttemptKnows, Working, Publishing, PushSteps
  <2>7. OwnerPublishes(w)'
    BY <1>2, <2>1, <2>2, <2>3, <2>4, <2>5
       DEF OwnerPublishes, Publishing, PushSteps
  <2>8. ASSUME NEW k \in Jobs PROVE JobPublishes(k)'
    <3>1. JobPublishes(k)
      BY DEF PInv
    <3> QED
      BY <1>1, <1>2, <2>3, <3>1
         DEF JobPublishes, Reported, Authorized, Terminal
  <2> QED
    BY <1>1, <1>2, <1>4, <2>2, <2>3, <2>6, <2>7, <2>8, OthersAreFenced
       DEF PInv
<1> QED
  BY <1>3, <1>4

\* Every way out of an attempt that leaves the job hash alone.
LEMMA LeavesPublish ==
    ASSUME IInv, PInv, NEW w \in Workers, NEW step \in {"idle", "dead"},
           att' = [att EXCEPT ![w] = At(step)],
           UNCHANGED <<jobVars, registryVars>>,
           \/ UNCHANGED lease
           \/ Owner(w) /\ lease' = [lease EXCEPT ![att[w].job] = 0]
    PROVE  PInv'
<1> USE DEF IInv, jobVars, registryVars
<1>1. /\ att'[w].step = step /\ att'[w].token = 0 /\ att'[w].job = NoJob
      /\ att'[w].mode = "run" /\ att'[w].next = 1
      /\ \A v \in Workers \ {w} : att'[v] = att[v]
  BY DEF TypeOK, At
<1>2. AttemptKnows(w)' /\ ~Owner(w)'
  BY <1>1 DEF AttemptKnows, Owner, Working, Publishing, PushSteps
<1>3. ASSUME NEW v \in Workers \ {w}
      PROVE  AttemptKnows(v)' /\ (Owner(v)' => OwnerPublishes(v)')
  <2>1. att[v].token # 0 => Owns(v)' = Owns(v)
    <3> SUFFICES ASSUME att[v].token # 0 PROVE Owns(v)' = Owns(v)
      OBVIOUS
    <3>1. att[v].job \in Jobs /\ att'[v] = att[v]
      BY <1>1 DEF AttemptShape
    <3>2. CASE Owner(w) /\ lease' = [lease EXCEPT ![att[w].job] = 0]
      <4>1. att[v].token # att[w].token /\ lease[att[w].job] = att[w].token
        BY <3>2 DEF TokensDiffer, Owner, Owns
      <4>2. lease \in [Jobs -> 0..issued]
        BY DEF TypeOK
      <4> QED
        BY <3>1, <3>2, <4>1, <4>2 DEF Owns
    <3> QED
      BY <3>1, <3>2 DEF Owns
  <2>2. att[v].step \in Working => att[v].token # 0
    BY AtWork
  <2>3. AttemptKnows(v) /\ (Owner(v) => OwnerPublishes(v)) /\ att'[v] = att[v]
    BY <1>1 DEF PInv
  <2>4. AttemptKnows(v)'
    BY <2>1, <2>2, <2>3 DEF AttemptKnows, Working
  <2>5. Owner(v)' => OwnerPublishes(v)'
    <3> SUFFICES ASSUME Owner(v)' PROVE OwnerPublishes(v)'
      OBVIOUS
    <3>1. OwnerPublishes(v)
      BY <2>1, <2>3 DEF Owner
    <3> QED
      BY <2>3, <3>1 DEF OwnerPublishes, Reported, Authorized
  <2> QED
    BY <2>4, <2>5
<1>4. ASSUME NEW k \in Jobs PROVE JobPublishes(k)'
  BY DEF PInv, JobPublishes, Reported, Authorized
<1> QED
  BY <1>2, <1>3, <1>4 DEF PInv

\* A terminal status: what it reports is what was published and counted.
LEMMA TerminalPublishes ==
    ASSUME IInv, PInv, NEW w \in Workers, Owns(w),
           Reject(w) \/ Finish(w) \/ Fail(w)
    PROVE  PInv'
<1> DEFINE j == att[w].job
<1>0. TypeOK /\ AttemptKnows(w) /\ (Owner(w) => OwnerPublishes(w))
  BY DEF PInv, IInv
<1>1. /\ att[w].step \in {"reject", "finish", "fail"}
      /\ att[w].step \in Working
      /\ att[w].token # 0 /\ j \in Jobs
  BY <1>0, AtWork DEF Reject, Finish, Fail, Working
<1>2. Owner(w) /\ OwnerPublishes(w)
  BY <1>0, <1>1 DEF Owner
<1>3. PICK st \in Terminal, d \in Digests \cup {NoDigest} :
        /\ \E e \in {"none", "retryable", "final"} : RecordTerminal(w, st, d, e)
        /\ Goto(w, "ack")
        /\ st = "failed" \/
             /\ att[w].step = "finish"
             /\ st = Outcome(w) /\ d = att[w].artifact.digest
  <2>1. att[w].artifact.digest \in Digests \cup {NoDigest}
    BY <1>0 DEF TypeOK, Attempt, Artifact
  <2> QED
    BY <1>1, <2>1 DEF Reject, Finish, Fail, Terminal, Outcome
<1>4. UNCHANGED <<prepared, items, lease, tag, signed>>
  BY <1>3 DEF RecordTerminal, Reject, Finish, Fail, leaseVars, registryVars
<1>5. /\ status'[j] = st /\ output'[j] = d
      /\ \A k \in Jobs \ {j} :
            /\ status'[k] = status[k]
            /\ output'[k] = output[k] /\ error'[k] = error[k]
  BY <1>0, <1>1, <1>3 DEF RecordTerminal, TypeOK
<1>6. /\ att'[w].step = "ack" /\ att'[w].mode = att[w].mode
      /\ att'[w].job = att[w].job /\ att'[w].token = att[w].token
      /\ \A v \in Workers \ {w} : att'[v] = att[v]
  BY <1>0, <1>3, GotoFields DEF Steps
<1>7. AttemptKnows(w)' /\ OwnerPublishes(w)'
  BY <1>6 DEF AttemptKnows, OwnerPublishes, Working, Publishing, PushSteps
<1>8. status[j] \in {"queued", "running"}
  BY <1>1, <1>2 DEF IInv, OwnerKnowsStatus, Owner
<1>9. ASSUME NEW k \in Jobs PROVE JobPublishes(k)'
  <2>0. JobPublishes(k)
    BY DEF PInv
  <2>1. CASE k # j \/ st = "failed"
    BY <1>4, <1>5, <1>8, <2>0, <2>1
       DEF JobPublishes, Reported, Authorized, Terminal
  <2>2. CASE k = j /\ st # "failed"
    <3>1. /\ Reported(k, att[w].artifact.partial)
          /\ tag[k] = d
          /\ d # NoDigest => Authorized(k, d)
          /\ st = IF att[w].artifact.partial THEN "partial" ELSE "completed"
      BY <1>2, <1>3, <2>2 DEF OwnerPublishes, Outcome
    <3>2. att[w].artifact.partial \in BOOLEAN
      BY <1>0 DEF TypeOK, Attempt, Artifact
    <3>3. att[w].artifact.partial <=> st = "partial"
      BY <3>1, <3>2
    <3>4. Reported(k, st = "partial")'
      BY <1>4, <3>1, <3>3 DEF Reported
    <3>5. status'[k] = st /\ status[k] # "absent"
      BY <1>5, <1>8, <2>2
    <3>6. Reported(k, status[k] = "partial")'
      BY <3>4, <3>5 DEF Reported
    <3>7. tag'[k] = output'[k] /\ (output'[k] # NoDigest => Authorized(k, d)')
      BY <1>4, <1>5, <2>2, <3>1 DEF Authorized
    <3>8. tag'[k] # NoDigest =>
            k \notin UnreadableJobs /\ Reported(k, prepared[k].partial)'
            /\ prepared'[k].digest = tag'[k]
      BY <1>4, <2>0, <3>5 DEF JobPublishes, Reported
    <3> QED
      BY <1>4, <1>5, <2>0, <2>2, <3>6, <3>7, <3>8 DEF JobPublishes, Authorized
  <2> QED
    BY <2>1, <2>2
<1> QED
  BY <1>1, <1>2, <1>4, <1>5, <1>6, <1>7, <1>9, OthersAreFenced
     DEF PInv, Owner

LEMMA HashPublishes ==
    ASSUME IInv, PInv, NEW w \in Workers,
           Reject(w) \/ Start(w) \/ Finish(w) \/ Fail(w)
    PROVE  PInv'
<1>1. CASE Start(w)
  BY <1>1, StartPublishes
<1>2. CASE ~Start(w) /\ Owns(w)
  BY <1>2, TerminalPublishes
<1>3. CASE ~Start(w) /\ ~Owns(w)
  <2>1. /\ UNCHANGED <<jobVars, lease, tag, signed, registryVars>>
        /\ att[w].step \in Working
        /\ Goto(w, "release") \/ att' = [att EXCEPT ![w] = At("dead")]
    BY <1>3 DEF Reject, Finish, Fail, Die, Working, leaseVars, registryVars
  <2>2. CASE Goto(w, "release")
    BY <2>1, <2>2, GotoPublishes
  <2>3. CASE att' = [att EXCEPT ![w] = At("dead")]
    BY <2>1, <2>3, LeavesPublish
  <2> QED
    BY <2>1, <2>2, <2>3
<1> QED
  BY <1>1, <1>2, <1>3

\* Deliveries, leases and the life of a worker process.
LEMMA DeliveryPublishes ==
    ASSUME IInv, PInv, NEW w \in Workers,
           Take(w) \/ Acquire(w) \/ ReadJob(w) \/ Heartbeat(w)
           \/ Acknowledge(w) \/ Release(w) \/ Crash(w) \/ Restart(w)
    PROVE  PInv'
<1> USE DEF registryVars
<1>0. /\ TypeOK /\ AttemptKnows(w) /\ (Owner(w) => OwnerPublishes(w))
      /\ \A k \in Jobs : JobPublishes(k)
  BY DEF PInv, IInv
<1>1. ASSUME UNCHANGED <<jobVars, registryVars>>, NEW k \in Jobs
      PROVE  JobPublishes(k)'
  BY <1>0, <1>1 DEF JobPublishes, Reported, Authorized, jobVars
\* Everybody else, while w has no token.
<1>2. ASSUME UNCHANGED <<jobVars, registryVars>>,
             \A v \in Workers \ {w} : att'[v] = att[v],
             \A v \in Workers \ {w} : att[v].token # 0 => Owns(v)' = Owns(v),
             AttemptKnows(w)', Owner(w)' => OwnerPublishes(w)'
      PROVE  PInv'
  <2>1. ASSUME NEW v \in Workers \ {w}
        PROVE  AttemptKnows(v)' /\ (Owner(v)' => OwnerPublishes(v)')
    <3>1. /\ AttemptKnows(v) /\ (Owner(v) => OwnerPublishes(v))
          /\ att'[v] = att[v]
          /\ att[v].step \in Working => att[v].token # 0
      BY <1>2, AtWork DEF PInv
    <3>2. AttemptKnows(v)'
      BY <1>2, <3>1 DEF AttemptKnows, Working
    <3>3. Owner(v)' => OwnerPublishes(v)'
      <4> SUFFICES ASSUME Owner(v)' PROVE OwnerPublishes(v)'
        OBVIOUS
      <4>1. OwnerPublishes(v)
        BY <1>2, <3>1 DEF Owner
      <4> QED
        BY <1>2, <3>1, <4>1 DEF OwnerPublishes, Reported, Authorized, jobVars
    <3> QED
      BY <3>2, <3>3
  <2> QED
    BY <1>1, <1>2, <2>1 DEF PInv
<1>3. ASSUME NEW j \in Jobs, att[w].step = "idle", Deliver(w, j)
      PROVE  PInv'
  <2>1. /\ att'[w].step = "acquire" /\ att'[w].token = 0
        /\ att'[w].mode = "run" /\ att'[w].next = 1
        /\ \A v \in Workers \ {w} : att'[v] = att[v]
        /\ UNCHANGED <<jobVars, registryVars, lease>>
    BY <1>0, <1>3 DEF Deliver, TypeOK, At, leaseVars
  <2>2. AttemptKnows(w)' /\ ~Owner(w)'
    BY <2>1 DEF AttemptKnows, Owner, Working, Publishing, PushSteps
  <2>3. \A v \in Workers \ {w} : Owns(v)' = Owns(v)
    BY <2>1 DEF Owns
  <2> QED
    BY <1>2, <2>1, <2>2, <2>3
<1>4. CASE Take(w)
  BY <1>3, <1>4 DEF Take, ReadNew, ClaimAbandoned
<1>5. CASE Acquire(w)
  <2> DEFINE j == att[w].job
  <2>1. CASE lease[j] = 0
    <3>1. /\ lease' = [lease EXCEPT ![j] = issued + 1]
          /\ att[w].step = "acquire" /\ j \in Jobs
          /\ UNCHANGED <<jobVars, registryVars>>
      BY <1>5, <2>1 DEF Acquire, IInv, AttemptShape
    <3>2. /\ att'[w].step = "read" /\ att'[w].mode = "run"
          /\ att'[w].next = 1
          /\ \A v \in Workers \ {w} : att'[v] = att[v]
      <4>1. ASSUME NEW t
            PROVE  LET next == [att[w] EXCEPT !.step = "read", !.token = t] IN
                   /\ next.step = "read" /\ next.mode = att[w].mode
                   /\ next.next = att[w].next
        BY <1>0 DEF TypeOK, Attempt
      <4>2. att' = [att EXCEPT ![w] = [att[w] EXCEPT !.step = "read",
                                                     !.token = issued + 1]]
        BY <1>5, <2>1 DEF Acquire
      <4>3. att[w].mode = "run" /\ att[w].next = 1
        BY <1>0, <3>1 DEF AttemptKnows
      <4>4. /\ att'[w] = [att[w] EXCEPT !.step = "read", !.token = issued + 1]
            /\ \A v \in Workers \ {w} : att'[v] = att[v]
        BY <1>0, <4>2 DEF TypeOK
      <4> QED
        BY <4>1, <4>3, <4>4
    <3>3. AttemptKnows(w)' /\ OwnerPublishes(w)'
      BY <3>2
         DEF AttemptKnows, OwnerPublishes, Working, Publishing, PushSteps
    <3>4. ASSUME NEW v \in Workers \ {w}, att[v].token # 0
          PROVE  Owns(v)' = Owns(v)
      <4>1. /\ att[v].token \in 0..issued /\ issued \in Nat
            /\ att'[v] = att[v] /\ att[v].job \in Jobs
        BY <1>0, <3>2, <3>4 DEF TypeOK, IInv, AttemptShape
      <4>2. att[v].token # issued + 1
        BY <4>1
      <4> QED
        BY <1>0, <2>1, <3>1, <3>4, <4>1, <4>2 DEF Owns, TypeOK
    <3> QED
      BY <1>2, <3>1, <3>2, <3>3, <3>4
  <2>2. CASE lease[j] # 0
    BY <1>5, <2>2, LeavesPublish DEF Acquire, leaseVars
  <2> QED
    BY <2>1, <2>2
<1>6. CASE ReadJob(w)
  <2> DEFINE j == att[w].job
  <2>1. /\ att[w].step = "read" /\ att[w].token # 0 /\ j \in Jobs
        /\ att[w].mode = "run" /\ att[w].next = 1
        /\ UNCHANGED <<jobVars, registryVars, lease>>
    BY <1>0, <1>6 DEF ReadJob, AttemptKnows, IInv, AttemptShape, leaseVars
  <2>2. /\ att'[w].step \in {"ack", "reject", "start"}
        /\ att'[w].mode = "run" /\ att'[w].next = 1
        /\ att'[w].job = j /\ att'[w].token = att[w].token
        /\ att'[w].step = "reject" => j \in UnreadableJobs
        /\ att'[w].step = "start" =>
              j \notin UnreadableJobs /\ att'[w].artifact = prepared[j]
        /\ \A v \in Workers \ {w} : att'[v] = att[v]
    BY <1>0, <1>6, <2>1 DEF ReadJob, TypeOK, Attempt
  <2>3. AttemptKnows(w)'
    BY <1>0, <2>1, <2>2
       DEF AttemptKnows, JobPublishes, Working, Publishing, PushSteps
  <2>4. OwnerPublishes(w)'
    BY <2>1, <2>2
       DEF OwnerPublishes, Working, Publishing, PushSteps, jobVars
  <2> QED
    BY <2>1, <2>2, <2>3, <2>4, QuietPublishes
<1>7. CASE Heartbeat(w)
  <2>1. UNCHANGED <<jobVars, registryVars, att, lease>>
    BY <1>7 DEF Heartbeat, leaseVars
  <2> QED
    BY <2>1 DEF PInv, JobPublishes, AttemptKnows, OwnerPublishes, Owner,
       Owns, Reported, Authorized, jobVars
<1>8. CASE Acknowledge(w)
  <2>1. /\ att[w].step = "ack" /\ att[w].token # 0
        /\ Goto(w, "release")
        /\ UNCHANGED <<jobVars, lease, tag, signed>>
    BY <1>8 DEF Acknowledge, leaseVars, IInv, AttemptShape
  <2>2. AttemptKnows(w)' /\ OwnerPublishes(w)'
    BY <1>0, <2>1, GotoFields
       DEF AttemptKnows, OwnerPublishes, Working, Publishing, PushSteps, Steps
  <2> QED
    BY <1>0, <2>1, <2>2, QuietPublishes, GotoFields DEF Steps
<1>9. CASE Release(w)
  <2>1. att[w].token # 0
    BY <1>9 DEF Release, IInv, AttemptShape
  <2> QED
    BY <1>9, <2>1, LeavesPublish DEF Release, ReleaseLease, Owner
<1>10. CASE Crash(w) \/ Restart(w)
  BY <1>10, LeavesPublish DEF Crash, Restart, leaseVars
<1> QED
  BY <1>4, <1>5, <1>6, <1>7, <1>8, <1>9, <1>10

\* The API and the passage of time: no lease lapses under a push.
LEMMA JobPublishesSteps ==
    ASSUME IInv, PInv, ~PushOutlivesLease, NEW j \in Jobs,
           Submit(j) \/ ExpireJob(j) \/ DeliveryIdles(j) \/ LeaseLapses(j)
    PROVE  PInv'
<1> USE DEF registryVars
<1>0. /\ TypeOK /\ AttemptShape
      /\ \A v \in Workers :
            AttemptKnows(v) /\ (Owner(v) => OwnerPublishes(v))
      /\ \A k \in Jobs : JobPublishes(k)
  BY DEF PInv, IInv
<1>1. CASE Submit(j) \/ ExpireJob(j)
  <2>1. /\ UNCHANGED <<lease, tag, signed, att>>
        /\ \A k \in Jobs \ {j} :
             /\ status'[k] = status[k] /\ prepared'[k] = prepared[k]
             /\ items'[k] = items[k] /\ output'[k] = output[k]
             /\ error'[k] = error[k]
    BY <1>0, <1>1 DEF Submit, ExpireJob, leaseVars, TypeOK
  <2>2. ASSUME NEW v \in Workers, att[v].token # 0 PROVE att[v].job # j
    BY <1>0, <1>1, <2>2
       DEF Submit, ExpireJob, IInv, AttemptShape, SubmittedTogether
  <2>3. ASSUME NEW v \in Workers PROVE AttemptKnows(v)'
    BY <1>0, <2>1 DEF AttemptKnows, Owns
  <2>4. ASSUME NEW v \in Workers, Owner(v)' PROVE OwnerPublishes(v)'
    <3>1. /\ Owner(v) /\ OwnerPublishes(v) /\ att[v].job # j
          /\ att[v].job \in Jobs /\ att'[v] = att[v]
      BY <1>0, <2>1, <2>2, <2>4 DEF Owner, Owns, AttemptShape
    <3> QED
      BY <2>1, <3>1 DEF OwnerPublishes, Reported, Authorized
  <2>5. ASSUME NEW k \in Jobs \ {j} PROVE JobPublishes(k)'
    BY <1>0, <2>1, <2>5 DEF JobPublishes, Reported, Authorized
  <2>6. JobPublishes(j)'
    <3>1. CASE Submit(j)
      <4>1. /\ status[j] = "none" /\ status'[j] = "queued"
            /\ UNCHANGED <<prepared, items, output, error>>
        BY <1>0, <3>1 DEF Submit, TypeOK
      <4> QED
        BY <1>0, <2>1, <4>1 DEF JobPublishes, Reported, Terminal
    <3>2. CASE ExpireJob(j)
      <4>1. /\ status'[j] = "absent" /\ prepared'[j] = NoArtifact
            /\ output'[j] = NoDigest /\ error'[j] = "none"
        BY <1>0, <3>2 DEF ExpireJob, TypeOK
      <4> QED
        BY <1>0, <2>1, <4>1 DEF JobPublishes
    <3> QED
      BY <1>1, <3>1, <3>2
  <2> QED
    BY <2>3, <2>4, <2>5, <2>6 DEF PInv
<1>2. CASE DeliveryIdles(j)
  <2>1. UNCHANGED <<jobVars, registryVars, att, lease>>
    BY <1>2 DEF DeliveryIdles, leaseVars
  <2> QED
    BY <2>1 DEF PInv, JobPublishes, AttemptKnows, OwnerPublishes, Owner,
       Owns, Reported, Authorized, jobVars
<1>3. CASE LeaseLapses(j)
  <2>1. /\ UNCHANGED <<jobVars, registryVars, att>>
        /\ lease' = [lease EXCEPT ![j] = 0]
        /\ \A v \in Holders(j) : att[v].step \notin PushSteps
    BY <1>3 DEF LeaseLapses
  <2>2. ASSUME NEW v \in Workers, att[v].step \in PushSteps
        PROVE  Owns(v)' = Owns(v)
    <3>1. att[v].token # 0 /\ att[v].job \in Jobs
      BY <2>2, AtWork DEF Working
    <3>2. att[v].job = j => ~Owns(v)
      BY <2>1, <2>2, <3>1 DEF Holders, Active, PushSteps
    <3> QED
      BY <1>0, <2>1, <3>1, <3>2 DEF Owns, TypeOK
  <2>3. ASSUME NEW v \in Workers PROVE AttemptKnows(v)'
    BY <1>0, <2>1, <2>2 DEF AttemptKnows
  <2>4. ASSUME NEW v \in Workers, Owner(v)' PROVE OwnerPublishes(v)'
    <3>1. Owner(v)
      BY <1>0, <2>1, <2>4 DEF Owner, Owns, TypeOK, AttemptShape
    <3>2. OwnerPublishes(v)
      BY <1>0, <3>1
    <3> QED
      BY <2>1, <3>2 DEF OwnerPublishes, Reported, Authorized, jobVars
  <2>5. ASSUME NEW k \in Jobs PROVE JobPublishes(k)'
    BY <1>0, <2>1 DEF JobPublishes, Reported, Authorized, jobVars
  <2> QED
    BY <2>3, <2>4, <2>5 DEF PInv
<1> QED
  BY <1>1, <1>2, <1>3

THEOREM InitPInv == Init => PInv
<1> SUFFICES ASSUME Init PROVE PInv
  OBVIOUS
<1> USE DEF Init
<1>1. \A j \in Jobs : JobPublishes(j)
  BY DEF JobPublishes, NoArtifact
<1>2. \A w \in Workers : AttemptKnows(w) /\ ~Owner(w)
  BY DEF AttemptKnows, Owner, At, Working, Publishing, PushSteps
<1> QED
  BY <1>1, <1>2 DEF PInv

\* Every step keeps the agreement of registry and hash.
THEOREM NextPInv ==
    ASSUME ~PushOutlivesLease, IInv, PInv, [Next]_vars
    PROVE  PInv'
<1>1. ASSUME NEW w \in Workers, Run(w) PROVE PInv'
  BY <1>1, DeliveryPublishes, HashPublishes, RecoveryPublishes,
     CosignPublishes, ProcessPublishes, ItemPublishes, PackPublishes,
     GatePublishes, ManifestPublishes, ReferrersPublish, CheckPublishes
     DEF Run
<1>2. CASE UNCHANGED vars
  BY <1>2 DEF vars, jobVars, streamVars, leaseVars, registryVars, PInv,
     JobPublishes, AttemptKnows, OwnerPublishes, Owner, Owns, Reported,
     Authorized
<1> QED
  BY <1>1, <1>2, DeliveryPublishes, JobPublishesSteps DEF Next

\* Unless a push outlives its lease, what the registry serves is what the hash
\* recorded, and a reported output is there and authorized, whatever crashes,
\* lapses or is left unanswered (Worker._recover, process_job).
THEOREM PublicationHolds ==
    ASSUME ~PushOutlivesLease
    PROVE  Spec => []PublicationAgrees
<1>1. PInv => PublicationAgrees
  BY DEF PInv, JobPublishes, PublicationAgrees, Authorized
<1>2. IInv /\ PInv /\ [Next]_vars => IInv' /\ PInv'
  BY NextIInv, NextPInv
<1> QED
  BY InitIInv, InitPInv, <1>1, <1>2, PTL DEF Spec

\* The item reports beside a result are those its status was computed from,
\* also when another attempt than their writer finished the job.
THEOREM ItemsAgree ==
    ASSUME ~PushOutlivesLease
    PROVE  Spec => []ItemsMatchStatus
<1>1. IInv /\ PInv => ItemsMatchStatus
  <2> SUFFICES ASSUME TypeOK, PInv, NEW j \in Jobs
               PROVE  /\ status[j] = "completed" =>
                            \A i \in 1..NumItems : items[j][i] = "ok"
                      /\ status[j] = "partial" =>
                            {i \in 1..NumItems : items[j][i] = "failed"} # {}
    BY DEF IInv, ItemsMatchStatus
  <2>1. \A i \in 1..NumItems : items[j][i] \in {"none", "ok", "failed"}
    BY DEF TypeOK
  <2>2. status[j] \in {"completed", "partial"} =>
          Reported(j, status[j] = "partial")
    BY DEF PInv, JobPublishes
  <2> QED
    BY <2>1, <2>2 DEF Reported
<1>2. IInv /\ PInv /\ [Next]_vars => IInv' /\ PInv'
  BY NextIInv, NextPInv
<1> QED
  BY InitIInv, InitPInv, <1>1, <1>2, PTL DEF Spec

\* Steps that leave every tag as it is.
LEMMA TagsMove ==
    ASSUME [Next]_vars
    PROVE  \/ UNCHANGED tag
           \/ \E w \in Workers : PushManifest(w)
<1>1. ASSUME NEW w \in Workers, Run(w)
      PROVE  UNCHANGED tag \/ PushManifest(w)
  BY <1>1 DEF Run, Acquire, ReadJob, Reject, Start, Resolve, Install, Cosign,
     Verify, Process, ProcessItem, Pack, Gate, PushCheck, PushReferrers,
     Finish, CheckPrepared, Fail, Acknowledge, Release, registryVars
<1>2. ASSUME NEW w \in Workers,
             Take(w) \/ Heartbeat(w) \/ Crash(w) \/ Restart(w)
      PROVE  UNCHANGED tag
  BY <1>2 DEF Take, ReadNew, ClaimAbandoned, Deliver, Heartbeat, Crash,
     Restart, registryVars
<1>3. ASSUME NEW j \in Jobs,
             Submit(j) \/ ExpireJob(j) \/ DeliveryIdles(j) \/ LeaseLapses(j)
      PROVE  UNCHANGED tag
  BY <1>3 DEF Submit, ExpireJob, DeliveryIdles, LeaseLapses, registryVars
<1>4. CASE UNCHANGED vars
  BY <1>4 DEF vars, registryVars
<1> QED
  BY <1>1, <1>2, <1>3, <1>4, SMTT(30) DEF Next

\* No attempt replaces what another has published, although the registry has
\* no conditional write (process_job, _recover).
THEOREM TagsAreWrittenOnce ==
    ASSUME ~PushOutlivesLease
    PROVE  Spec => PublishedOnce
<1>1. ASSUME IInv, PInv, [Next]_vars
      PROVE  \A j \in Jobs : tag[j] # NoDigest => tag'[j] = tag[j]
  BY <1>1, TagsMove, ManifestKeepsTags
<1>2. IInv /\ PInv /\ [Next]_vars => IInv' /\ PInv'
  BY NextIInv, NextPInv
<1> QED
  BY InitIInv, InitPInv, <1>1, <1>2, PTL DEF Spec, PublishedOnce

----------------------------------------------------------------------------
(***************************************************************************)
(* The refinement.  Of the steps of an attempt only six are visible in the *)
(* ledger, and each is one of its actions or, retried, a stutter.          *)
(***************************************************************************)
LEMMA StartBegins ==
    ASSUME IInv, PInv, NEW w \in Workers, Start(w)
    PROVE  [Ledger!Next]_Ledger!vars
<1> DEFINE j == att[w].job
<1>1. UNCHANGED <<tag, output, error>> /\ j \in Jobs /\ att[w].token # 0
  BY AtWork DEF Start, registryVars, Working
<1>2. CASE ~Owns(w)
  BY <1>1, <1>2 DEF Start, Ledger!vars
<1>3. CASE Owns(w)
  <2>1. /\ status' = [status EXCEPT ![j] = "running"]
        /\ status[j] \in {"queued", "running"}
    BY <1>1, <1>3 DEF Start, IInv, OwnerKnowsStatus, Working
  <2>2. CASE status[j] = "running"
    <3>1. status' = status
      BY <2>1, <2>2 DEF IInv, TypeOK
    <3> QED
      BY <1>1, <3>1 DEF Ledger!vars
  <2>3. CASE status[j] = "queued"
    BY <1>1, <2>1, <2>3 DEF Ledger!Next, Ledger!Begin
  <2> QED
    BY <2>1, <2>2, <2>3
<1> QED
  BY <1>2, <1>3

LEMMA ManifestIsPublication ==
    ASSUME IInv, PInv, NEW w \in Workers, PushManifest(w)
    PROVE  [Ledger!Next]_Ledger!vars
<1> DEFINE j == att[w].job
           d == att[w].artifact.digest
<1>1. /\ UNCHANGED <<status, output, error>> /\ j \in Jobs /\ d \in Digests
      /\ att[w].step \in PushSteps /\ TypeOK
  BY AtWork DEF PushManifest, jobVars, Working, PushSteps, PInv, IInv,
     AttemptKnows, Publishing
<1>2. CASE tag' = tag
  BY <1>1, <1>2 DEF Ledger!vars
<1>3. CASE tag' # tag
  <2>1. tag' = [tag EXCEPT ![j] = d]
    BY <1>3, ManifestKeepsTags
  <2>2. tag'[j] # tag[j]
    BY <1>1, <1>3, <2>1 DEF TypeOK
  <2>3. tag[j] = NoDigest /\ Owns(w)
    BY <1>1, <2>2, ManifestKeepsTags DEF Owner
  <2>4. status[j] = "running"
    BY <1>1, <2>3, AtWork
       DEF PInv, Owner, OwnerPublishes, Working, PushSteps
  <2> QED
    BY <1>1, <2>1, <2>3, <2>4 DEF Ledger!Next, Ledger!Publish
<1> QED
  BY <1>2, <1>3

LEMMA TerminalIsCompletion ==
    ASSUME IInv, PInv, NEW w \in Workers, Reject(w) \/ Finish(w) \/ Fail(w)
    PROVE  [Ledger!Next]_Ledger!vars
<1> DEFINE j == att[w].job
<1>1. /\ UNCHANGED tag /\ j \in Jobs /\ TypeOK
      /\ att[w].step \in {"reject", "finish", "fail"}
      /\ att[w].token # 0 /\ JobPublishes(j)
  BY AtWork DEF Reject, Finish, Fail, registryVars, Working, IInv, PInv
<1>2. CASE ~Owns(w)
  <2>1. UNCHANGED <<status, output, error>>
    BY <1>2 DEF Reject, Finish, Fail, Die, jobVars
  <2> QED
    BY <1>1, <2>1 DEF Ledger!vars
<1>3. CASE Owns(w)
  <2>1. AttemptKnows(w) /\ OwnerPublishes(w)
    BY <1>1, <1>3 DEF PInv, Owner
  <2>2. CASE Finish(w)
    <3>1. /\ status' = [status EXCEPT ![j] = Outcome(w)]
          /\ output' = [output EXCEPT ![j] = att[w].artifact.digest]
          /\ error' = [error EXCEPT ![j] = "none"]
          /\ att[w].step = "finish"
      BY <1>3, <2>2 DEF Finish, RecordTerminal
    <3>2. status[j] = "running" /\ tag[j] = att[w].artifact.digest
      BY <2>1, <3>1 DEF OwnerPublishes, Working
    <3>3. error' = error
      <4>1. error[j] = "none"
        BY <1>1, <3>2 DEF JobPublishes, Terminal
      <4> QED
        BY <1>1, <3>1, <4>1 DEF TypeOK
    <3> QED
      BY <1>1, <3>1, <3>2, <3>3 DEF Ledger!Next, Ledger!Complete, Outcome
  <2>3. CASE Reject(w) \/ Fail(w)
    <3>1. /\ status' = [status EXCEPT ![j] = "failed"]
          /\ output' = [output EXCEPT ![j] = NoDigest]
          /\ att[w].step \in {"reject", "fail"}
      BY <1>3, <2>3 DEF Reject, Fail, RecordTerminal
    <3>2. status[j] \in {"queued", "running"}
      BY <1>1, <1>3 DEF IInv, OwnerKnowsStatus, Working
    <3>3. output' = output
      <4>1. output[j] = NoDigest
        BY <1>1, <3>2 DEF JobPublishes, Terminal
      <4> QED
        BY <1>1, <3>1, <4>1 DEF TypeOK
    <3>4. PICK v \in {"retryable", "final"} :
            /\ error' = [error EXCEPT ![j] = v]
            /\ v = "retryable" => tag[j] = NoDigest
      <4>1. CASE Reject(w)
        BY <1>3, <4>1 DEF Reject, RecordTerminal
      <4>2. CASE Fail(w)
        <5>1. att[w].retryable => tag[j] = NoDigest
          BY <2>1, <4>2 DEF Fail, OwnerPublishes
        <5> QED
          BY <1>3, <4>2, <5>1 DEF Fail, RecordTerminal
      <4> QED
        BY <2>3, <4>1, <4>2
    <3> QED
      BY <1>1, <3>1, <3>2, <3>3, <3>4 DEF Ledger!Next, Ledger!Fail
  <2> QED
    BY <2>2, <2>3
<1> QED
  BY <1>2, <1>3

\* The queue, the leases and the workers implement the ledger that a client
\* of the API sees, unless a push outlives its lease (worker.py, api.py).
THEOREM QueueImplementsLedger ==
    ASSUME ~PushOutlivesLease
    PROVE  Spec => ImplementsLedger
<1>1. Init => Ledger!Init
  BY DEF Init, Ledger!Init
<1>2. ASSUME IInv, PInv, [Next]_vars PROVE [Ledger!Next]_Ledger!vars
  <2>1. ASSUME NEW w \in Workers, Run(w)
        PROVE  [Ledger!Next]_Ledger!vars
    <3>1. CASE UNCHANGED <<status, tag, output, error>>
      BY <3>1, SMTT(30) DEF Ledger!vars
    <3>2. ASSUME ~UNCHANGED <<status, tag, output, error>>
          PROVE  \/ Start(w) \/ PushManifest(w)
                 \/ Reject(w) \/ Finish(w) \/ Fail(w)
      BY <2>1, <3>2 DEF Run, Acquire, ReadJob, Resolve, Install, Cosign,
         Verify, Process, ProcessItem, Pack, Gate, PushCheck, PushReferrers,
         CheckPrepared, Acknowledge, Release, registryVars, jobVars
    <3> QED
      BY <1>2, <3>1, <3>2, StartBegins, ManifestIsPublication,
         TerminalIsCompletion
  <2>2. ASSUME NEW w \in Workers,
               Take(w) \/ Heartbeat(w) \/ Crash(w) \/ Restart(w)
        PROVE  [Ledger!Next]_Ledger!vars
    BY <2>2 DEF Take, ReadNew, ClaimAbandoned, Deliver, Heartbeat, Crash,
       Restart, registryVars, jobVars, Ledger!vars
  <2>3. ASSUME NEW j \in Jobs, Submit(j)
        PROVE  [Ledger!Next]_Ledger!vars
    BY <2>3 DEF Submit, registryVars, Ledger!Next, Ledger!Submit
  <2>4. ASSUME NEW j \in Jobs, ExpireJob(j)
        PROVE  [Ledger!Next]_Ledger!vars
    BY <2>4 DEF ExpireJob, registryVars, Ledger!Next, Ledger!Expire
  <2>5. ASSUME NEW j \in Jobs, DeliveryIdles(j) \/ LeaseLapses(j)
        PROVE  [Ledger!Next]_Ledger!vars
    BY <2>5 DEF DeliveryIdles, LeaseLapses, registryVars, jobVars,
       Ledger!vars
  <2>6. CASE UNCHANGED vars
    BY <2>6 DEF vars, registryVars, jobVars, Ledger!vars
  <2> QED
    BY <1>2, <2>1, <2>2, <2>3, <2>4, <2>5, <2>6 DEF Next
<1>3. IInv /\ PInv /\ [Next]_vars => IInv' /\ PInv'
  BY NextIInv, NextPInv
<1> QED
  BY InitIInv, InitPInv, <1>1, <1>2, <1>3, PTL
     DEF Spec, ImplementsLedger, Ledger!Spec
============================================================================
