---------------------------- MODULE IngestQueue ----------------------------
(***************************************************************************)
(* The ingest service: the HTTP API that submits jobs, the Redis stream    *)
(* and job hashes they live in, the workers that drain them, and the       *)
(* registry tag "ingest-<job id>" each job publishes its result under.     *)
(*                                                                         *)
(* A worker runs one attempt at a time.  An attempt is delivered a stream  *)
(* entry, takes the lease of its job under a fresh token, snapshots the    *)
(* job hash, and then either recovers an interrupted publication or        *)
(* processes the job anew.  Every write to the job hash is one Redis       *)
(* transaction conditioned on the token (Owns); registry operations are    *)
(* not.  Each named step ends where the code awaits, makes a request or    *)
(* commits a transaction.                                                  *)
(*                                                                         *)
(* MaxFaults bounds registry and signing failures, worker crashes and      *)
(* lapsed leases together.  NumItems bounds the items of a request.        *)
(***************************************************************************)
EXTENDS Naturals, FiniteSets

CONSTANTS
    Jobs,              \* job ids a client may submit
    Workers,           \* worker processes
    Digests,           \* manifest digests a processing pass may pack
    GovernedJobs,      \* jobs whose input brain carries a trust root
    UnreadableJobs,    \* jobs whose stored request no longer validates
    NumItems,          \* items in a request
    MaxFaults,         \* bound on failures of every kind
    PushOutlivesLease, \* may a lease lapse while its holder is pushing?
    NoJob, NoDigest

ASSUME IngestAssumption ==
    /\ GovernedJobs \subseteq Jobs
    /\ UnreadableJobs \subseteq Jobs
    /\ NumItems \in Nat
    /\ MaxFaults \in Nat
    /\ PushOutlivesLease \in BOOLEAN
    /\ NoJob \notin Jobs
    /\ NoDigest \notin Digests

VARIABLES
    status,    \* the job hash's "status"; "none" before, "absent" after its TTL
    request,   \* is the "request" field present?
    prepared,  \* "prepared" and "prepared_digest", or NoArtifact
    items,     \* the "item:<index>" fields
    output,    \* the digest in the recorded "result"
    error,     \* may the recorded "error" be retried?
    entry,     \* the job's stream entry
    idle,      \* has its delivery been idle for LEASE_TTL_MS?
    lease,     \* token under the lease key, 0 when there is none
    issued,    \* tokens issued so far (uuid4 in the code)
    tag,       \* digest the job's output tag names in the registry
    signed,    \* digests whose signature referrers are in the registry
    att,       \* what each worker is doing
    faults     \* failures so far

jobVars == <<status, request, prepared, items, output, error>>
streamVars == <<entry, idle>>
registryVars == <<tag, signed>>
leaseVars == <<lease, issued>>
vars == <<jobVars, streamVars, leaseVars, registryVars, att, faults>>

Terminal == {"completed", "partial", "failed"}
Statuses == {"none", "queued", "running", "absent"} \cup Terminal

\* An artifact as the job hash records it: its manifest digest, and whether
\* the result that goes with it counts a failed item.
Artifact == [digest : Digests \cup {NoDigest}, partial : BOOLEAN]
NoArtifact == [digest |-> NoDigest, partial |-> FALSE]

\* The steps of a push, and every step an attempt may be at.
PushSteps == {"push", "upload", "refer"}
Steps == PushSteps \cup
    {"idle", "dead", "acquire", "read", "reject", "start", "resolve",
     "install", "cosign", "verify", "process", "items", "gate", "finish",
     "check", "fail", "ack", "release"}

\* mode "fail" is the part of an attempt inside Worker._fail.
Attempt == [step : Steps, job : Jobs \cup {NoJob}, token : Nat,
            mode : {"run", "fail"}, recovering : BOOLEAN,
            artifact : Artifact, next : Nat, retryable : BOOLEAN]

At(step) == [step |-> step, job |-> NoJob, token |-> 0, mode |-> "run",
             recovering |-> FALSE, artifact |-> NoArtifact, next |-> 1,
             retryable |-> FALSE]
Active(w) == att[w].step \notin {"idle", "dead"}

(***************************************************************************)
(* Helpers of the steps below.                                             *)
(***************************************************************************)
Goto(w, step) == att' = [att EXCEPT ![w] = [@ EXCEPT !.step = step]]

\* MUTANT of Owns: ownership believed rather than compared by Redis.
BelievesOwned(w) == att[w].token # 0
\* Lease.guarded: the lease key still holds this attempt's token.
Owns(w) == lease[att[w].job] = att[w].token

Fault == faults < MaxFaults /\ faults' = faults + 1

\* MUTANT of Authorized: a manifest under the tag counts as published.
AuthorizedByPresence(j, d) == tag[j] = d
\* A governed artifact is authorized once its signature referrers arrived.
Authorized(j, d) == j \in GovernedJobs => d \in signed

\* MUTANT of Uncertain: an unanswered check acknowledges the delivery.
UncertainAcks(w) == Goto(w, "ack")
\* Worker._fail: the registry cannot answer, so the delivery stays pending.
Uncertain(w) == Goto(w, "release")

GotoWith(w, step, retryable) ==
    att' = [att EXCEPT ![w] = [@ EXCEPT !.step = step,
                                        !.retryable = retryable]]

\* MUTANT of Raise: _fail records the error it was called with.
RaiseFirst(w, retryable) ==
    IF att[w].mode = "run" THEN GotoWith(w, "check", retryable)
    ELSE IF retryable THEN Uncertain(w)
    ELSE Goto(w, "fail")
\* An exception.  In _run_job it enters _fail, which is to record it; inside
\* _fail a retryable one leaves the job as it is, and any other is recorded
\* in its place.
Raise(w, retryable) ==
    IF att[w].mode = "run" THEN GotoWith(w, "check", retryable)
    ELSE IF retryable THEN Uncertain(w)
    ELSE GotoWith(w, "fail", retryable)

(***************************************************************************)
(* The API, the stream and the passage of time.                            *)
(***************************************************************************)
Init ==
    /\ status = [j \in Jobs |-> "none"]
    /\ request = [j \in Jobs |-> FALSE]
    /\ prepared = [j \in Jobs |-> NoArtifact]
    /\ items = [j \in Jobs |-> [i \in 1..NumItems |-> "none"]]
    /\ output = [j \in Jobs |-> NoDigest]
    /\ error = [j \in Jobs |-> "none"]
    /\ entry = [j \in Jobs |-> "none"]
    /\ idle = [j \in Jobs |-> FALSE]
    /\ lease = [j \in Jobs |-> 0]
    /\ issued = 0
    /\ tag = [j \in Jobs |-> NoDigest]
    /\ signed = {}
    /\ att = [w \in Workers |-> At("idle")]
    /\ faults = 0

\* POST /v1/ingestions: the hash and the stream entry in one transaction.
Submit(j) ==
    /\ status[j] = "none"
    /\ status' = [status EXCEPT ![j] = "queued"]
    /\ request' = [request EXCEPT ![j] = TRUE]
    /\ entry' = [entry EXCEPT ![j] = "new"]
    /\ UNCHANGED <<prepared, items, output, error, idle, leaseVars,
                   registryVars, att, faults>>

\* The hash expires RESULT_TTL after its last write.  No attempt is that old.
ExpireJob(j) ==
    /\ status[j] \notin {"none", "absent"}
    /\ \A w \in Workers : att[w].job # j
    /\ status' = [status EXCEPT ![j] = "absent"]
    /\ request' = [request EXCEPT ![j] = FALSE]
    /\ prepared' = [prepared EXCEPT ![j] = NoArtifact]
    /\ items' = [items EXCEPT ![j] = [i \in 1..NumItems |-> "none"]]
    /\ output' = [output EXCEPT ![j] = NoDigest]
    /\ error' = [error EXCEPT ![j] = "none"]
    /\ UNCHANGED <<streamVars, leaseVars, registryVars, att, faults>>

\* A pending delivery nobody claimed or heartbeat for LEASE_TTL_MS.
DeliveryIdles(j) ==
    /\ entry[j] = "pending" /\ ~idle[j]
    /\ idle' = [idle EXCEPT ![j] = TRUE]
    /\ UNCHANGED <<jobVars, entry, leaseVars, registryVars, att, faults>>

\* The attempt that holds j's lease, if its process is still running.
Holders(j) == {w \in Workers : Active(w) /\ att[w].job = j /\ Owns(w)}

\* The lease key's TTL runs out.  It does so for free once its attempt is
\* gone; under a running one it is a fault, since heartbeats had to stop.
LeaseLapses(j) ==
    /\ lease[j] # 0
    /\ IF Holders(j) = {}
       THEN UNCHANGED faults
       ELSE /\ PushOutlivesLease
                 \/ \A w \in Holders(j) : att[w].step \notin PushSteps
            /\ Fault
    /\ lease' = [lease EXCEPT ![j] = 0]
    /\ UNCHANGED <<jobVars, streamVars, issued, registryVars, att>>

(***************************************************************************)
(* Worker.run_forever and _deliver.                                        *)
(***************************************************************************)
Deliver(w, j) ==
    /\ entry' = [entry EXCEPT ![j] = "pending"]
    /\ idle' = [idle EXCEPT ![j] = FALSE]
    /\ att' = [att EXCEPT ![w] = [At("acquire") EXCEPT !.job = j]]
    /\ UNCHANGED <<jobVars, leaseVars, registryVars, faults>>

\* XREADGROUP ">": an entry no consumer has been delivered.
ReadNew(w, j) ==
    att[w].step = "idle" /\ entry[j] = "new" /\ Deliver(w, j)

\* MUTANT of ClaimAbandoned: a scan that never reaches the abandoned entry.
ClaimNothing(w, j) ==
    att[w].step = "idle" /\ entry[j] = "none" /\ idle[j] /\ Deliver(w, j)
\* XAUTOCLAIM: a delivery idle for LEASE_TTL_MS, whoever it was delivered to.
ClaimAbandoned(w, j) ==
    att[w].step = "idle" /\ entry[j] = "pending" /\ idle[j] /\ Deliver(w, j)

\* MUTANT of Acquire: the token is not a fresh one for the next attempt.
AcquireReusingToken(w) ==
    LET j == att[w].job IN
    /\ att[w].step = "acquire"
    /\ IF lease[j] = 0
       THEN /\ lease' = [lease EXCEPT ![j] = issued + 1]
            /\ att' = [att EXCEPT ![w] =
                          [@ EXCEPT !.step = "read", !.token = issued + 1]]
       ELSE att' = [att EXCEPT ![w] = At("idle")] /\ UNCHANGED lease
    /\ UNCHANGED <<jobVars, streamVars, issued, registryVars, faults>>
\* SET NX PX with a fresh token; a held lease leaves the delivery pending.
Acquire(w) ==
    LET j == att[w].job IN
    /\ att[w].step = "acquire"
    /\ IF lease[j] = 0
       THEN /\ issued' = issued + 1
            /\ lease' = [lease EXCEPT ![j] = issued + 1]
            /\ att' = [att EXCEPT ![w] =
                          [@ EXCEPT !.step = "read", !.token = issued + 1]]
       ELSE att' = [att EXCEPT ![w] = At("idle")] /\ UNCHANGED leaseVars
    /\ UNCHANGED <<jobVars, streamVars, registryVars, faults>>

\* The heartbeat thread: renew the lease and, while it is held, XCLAIM the
\* delivery so that it does not look abandoned.
Heartbeat(w) ==
    /\ Active(w) /\ att[w].token # 0 /\ Owns(w)
    /\ entry[att[w].job] = "pending"
    /\ idle' = [idle EXCEPT ![att[w].job] = FALSE]
    /\ UNCHANGED <<jobVars, entry, leaseVars, registryVars, att, faults>>

\* XACK and XDEL, guarded by the lease like every other write.
Acknowledge(w) ==
    /\ att[w].step = "ack"
    /\ IF Owns(w)
       THEN entry' = [entry EXCEPT ![att[w].job] = "gone"]
       ELSE UNCHANGED entry
    /\ Goto(w, "release")
    /\ UNCHANGED <<jobVars, idle, leaseVars, registryVars, faults>>

\* The guarded delete of the lease key, on every way out of _deliver.
ReleaseLease(w) ==
    lease' = IF Owns(w) THEN [lease EXCEPT ![att[w].job] = 0] ELSE lease

Release(w) ==
    /\ att[w].step = "release"
    /\ ReleaseLease(w)
    /\ att' = [att EXCEPT ![w] = At("idle")]
    /\ UNCHANGED <<jobVars, streamVars, issued, registryVars, faults>>

\* OwnershipLostError where nothing catches it: _deliver's finally clause
\* runs, and the worker process ends.
Die(w) ==
    /\ att' = [att EXCEPT ![w] = At("dead")]
    /\ UNCHANGED jobVars

Crash(w) ==
    /\ Active(w)
    /\ Fault
    /\ att' = [att EXCEPT ![w] = At("dead")]
    /\ UNCHANGED <<jobVars, streamVars, leaseVars, registryVars>>

\* compose.yaml: restart: unless-stopped.
Restart(w) ==
    /\ att[w].step = "dead"
    /\ att' = [att EXCEPT ![w] = At("idle")]
    /\ UNCHANGED <<jobVars, streamVars, leaseVars, registryVars, faults>>

(***************************************************************************)
(* Worker._run_job and _fail: the writes to the job hash.                  *)
(***************************************************************************)
\* hgetall: a terminal or expired job only needs its acknowledgement.  The
\* prepared record read here is the one _recover will judge by.
ReadJob(w) ==
    LET j == att[w].job IN
    /\ att[w].step = "read"
    /\ att' = [att EXCEPT ![w] =
         IF status[j] \in Terminal \cup {"absent"}
         THEN [@ EXCEPT !.step = "ack"]
         ELSE [@ EXCEPT !.step =
                            IF j \in UnreadableJobs THEN "reject" ELSE "start",
                        !.artifact = prepared[j]]]
    /\ UNCHANGED <<jobVars, streamVars, leaseVars, registryVars, faults>>

\* _finish: terminal status and discarded request in one transaction.
RecordTerminal(w, st, d, e) ==
    LET j == att[w].job IN
    /\ status' = [status EXCEPT ![j] = st]
    /\ request' = [request EXCEPT ![j] = FALSE]
    /\ output' = [output EXCEPT ![j] = d]
    /\ error' = [error EXCEPT ![j] = e]
    /\ UNCHANGED <<prepared, items>>

\* A request that does not validate fails the job, outside any try block.
Reject(w) ==
    /\ att[w].step = "reject"
    /\ IF Owns(w)
       THEN RecordTerminal(w, "failed", NoDigest, "final") /\ Goto(w, "ack")
       ELSE Die(w)
    /\ UNCHANGED <<streamVars, leaseVars, registryVars, faults>>

\* MUTANT of Start: an interrupted publication is processed anew, unchecked.
StartAnew(w) ==
    /\ att[w].step = "start"
    /\ IF Owns(w)
       THEN /\ status' = [status EXCEPT ![att[w].job] = "running"]
            /\ Goto(w, "process")
       ELSE Goto(w, "release") /\ UNCHANGED status
    /\ UNCHANGED <<request, prepared, items, output, error, streamVars,
                   leaseVars, registryVars, faults>>
\* status = running, then recovery if the snapshot has a prepared record.
Start(w) ==
    LET j == att[w].job IN
    /\ att[w].step = "start"
    /\ IF Owns(w)
       THEN /\ status' = [status EXCEPT ![j] = "running"]
            /\ Goto(w, IF att[w].artifact = NoArtifact
                       THEN "process" ELSE "resolve")
       ELSE Goto(w, "release") /\ UNCHANGED status
    /\ UNCHANGED <<request, prepared, items, output, error, streamVars,
                   leaseVars, registryVars, faults>>

\* MUTANT of Outcome: a recovered publication always counts as complete.
OutcomeIgnoringFailures(w) ==
    IF att[w].mode = "run" /\ att[w].artifact.partial
    THEN "partial" ELSE "completed"
\* The status a result is recorded with: partial when an item failed.
Outcome(w) == IF att[w].artifact.partial THEN "partial" ELSE "completed"

\* The result is recorded.  A lost lease is caught in _run_job, and escapes
\* from the else branch of _fail.
Finish(w) ==
    /\ att[w].step = "finish"
    /\ IF Owns(w)
       THEN /\ RecordTerminal(w, Outcome(w), att[w].artifact.digest, "none")
            /\ Goto(w, "ack")
       ELSE IF att[w].mode = "run"
       THEN Goto(w, "release") /\ UNCHANGED jobVars
       ELSE Die(w)
    /\ UNCHANGED <<streamVars, leaseVars, registryVars, faults>>

\* MUTANT of CheckPrepared: a failure after the push is simply a failure.
FailUnchecked(w) ==
    /\ att[w].step = "check"
    /\ Goto(w, "fail")
    /\ UNCHANGED <<jobVars, streamVars, leaseVars, registryVars, faults>>
\* _fail re-reads the hash: a prepared record there sends it to the registry.
CheckPrepared(w) ==
    LET record == prepared[att[w].job] IN
    /\ att[w].step = "check"
    /\ att' = [att EXCEPT ![w] =
                  [@ EXCEPT !.step = IF record = NoArtifact
                                     THEN "fail" ELSE "resolve",
                            !.mode = "fail", !.artifact = record]]
    /\ UNCHANGED <<jobVars, streamVars, leaseVars, registryVars, faults>>

\* The failure is recorded with the error's own verdict on a retry.
Fail(w) ==
    /\ att[w].step = "fail"
    /\ IF Owns(w)
       THEN /\ RecordTerminal(w, "failed", NoDigest,
                  IF att[w].retryable THEN "retryable" ELSE "final")
            /\ Goto(w, "ack")
       ELSE Goto(w, "release") /\ UNCHANGED jobVars
    /\ UNCHANGED <<streamVars, leaseVars, registryVars, faults>>

(***************************************************************************)
(* Worker._recover: what an interrupted publication left in the registry.  *)
(***************************************************************************)
\* Whatever raises on the way to an answer.  A registry error may be retried,
\* and an exception outside the error table leaves the delivery pending; a
\* layout that does not verify and every error translated as INTERNAL are
\* final.
CallFails(w) == Fault /\ \E retryable \in BOOLEAN : Raise(w, retryable)

\* Resolve the output tag.  Absent means the push never landed: the job is
\* processed anew, or, inside _fail, recorded as failed.
Resolve(w) ==
    LET named == tag[att[w].job]
        expected == att[w].artifact.digest
    IN
    /\ att[w].step = "resolve"
    /\ \/ /\ named = NoDigest
          /\ Goto(w, IF att[w].mode = "run" THEN "process" ELSE "fail")
          /\ UNCHANGED faults
       \/ named = expected /\ Goto(w, "install") /\ UNCHANGED faults
       \/ named \notin {NoDigest, expected} /\ Raise(w, FALSE)
          /\ UNCHANGED faults
       \/ CallFails(w)
    /\ UNCHANGED <<jobVars, streamVars, leaseVars, registryVars>>

\* Pull the tag again and verify it: moved is retryable, a layout that fails
\* integrity verification is not, unsigned governed heads are completed here.
Install(w) ==
    LET j == att[w].job
        expected == att[w].artifact.digest
    IN
    /\ att[w].step = "install"
    /\ \/ tag[j] # expected /\ Raise(w, TRUE) /\ UNCHANGED faults
       \/ /\ tag[j] = expected
          /\ Goto(w, IF Authorized(j, expected) THEN "finish" ELSE "cosign")
          /\ UNCHANGED faults
       \/ CallFails(w)
    /\ UNCHANGED <<jobVars, streamVars, leaseVars, registryVars>>

\* _sign_governed on the installed head: a key may be missing or inactive.
Cosign(w) ==
    /\ att[w].step = "cosign"
    /\ \/ /\ att' = [att EXCEPT ![w] =
                        [@ EXCEPT !.step = "push", !.recovering = TRUE]]
          /\ UNCHANGED faults
       \/ CallFails(w)
    /\ UNCHANGED <<jobVars, streamVars, leaseVars, registryVars>>

\* A fresh layout installs the tag again and must find it authorized.
Verify(w) ==
    LET j == att[w].job
        expected == att[w].artifact.digest
    IN
    /\ att[w].step = "verify"
    /\ \/ tag[j] # expected /\ Raise(w, TRUE) /\ UNCHANGED faults
       \/ /\ tag[j] = expected
          /\ IF Authorized(j, expected)
             THEN Goto(w, "finish") ELSE Raise(w, FALSE)
          /\ UNCHANGED faults
       \/ CallFails(w)
    /\ UNCHANGED <<jobVars, streamVars, leaseVars, registryVars>>

(***************************************************************************)
(* process_job: from the input brain to a pushed artifact.                 *)
(***************************************************************************)
\* Resolve and install the input; a registry or configuration error raises.
Process(w) ==
    /\ att[w].step = "process"
    /\ \/ /\ att' = [att EXCEPT ![w] = [@ EXCEPT !.step = "items",
                                                 !.artifact = NoArtifact]]
          /\ UNCHANGED faults
       \/ CallFails(w)
    /\ UNCHANGED <<jobVars, streamVars, leaseVars, registryVars>>

\* The result so far, with one more report counted in it.
Counting(artifact, report) ==
    IF report = "failed" THEN [artifact EXCEPT !.partial = TRUE] ELSE artifact

\* One item: whatever it raises is recorded as its report, and the report is
\* a guarded write.
ProcessItem(w) ==
    LET j == att[w].job
        i == att[w].next
    IN
    /\ att[w].step = "items" /\ i <= NumItems
    /\ \E report \in {"ok", "failed"} :
         IF Owns(w)
         THEN /\ items' = [items EXCEPT ![j][i] = report]
              /\ att' = [att EXCEPT ![w] = [@ EXCEPT
                    !.next = i + 1,
                    !.artifact = Counting(att[w].artifact, report)]]
         ELSE Goto(w, "release") /\ UNCHANGED items
    /\ UNCHANGED <<status, request, prepared, output, error, streamVars,
                   leaseVars, registryVars, faults>>

\* After the last item: nothing changed and the result has no output, or the
\* head is signed if it has to be, and packed under the output tag.
Pack(w) ==
    /\ att[w].step = "items" /\ att[w].next > NumItems
    /\ \/ Goto(w, "finish") /\ UNCHANGED faults
       \/ /\ \E d \in Digests :
               att' = [att EXCEPT ![w] = [@ EXCEPT !.step = "gate",
                                                   !.artifact.digest = d]]
          /\ UNCHANGED faults
       \/ CallFails(w)
    /\ UNCHANGED <<jobVars, streamVars, leaseVars, registryVars>>

\* MUTANT of Gate: the record is written, but a lost lease does not stop it.
GateUnfenced(w) ==
    LET j == att[w].job IN
    /\ att[w].step = "gate"
    /\ prepared' = IF Owns(w)
                   THEN [prepared EXCEPT ![j] = att[w].artifact] ELSE prepared
    /\ Goto(w, "push")
    /\ UNCHANGED <<status, request, items, output, error, streamVars,
                   leaseVars, registryVars, faults>>
\* The prepared record, written before the push: the gate in front of it.
Gate(w) ==
    LET j == att[w].job IN
    /\ att[w].step = "gate"
    /\ IF Owns(w)
       THEN /\ prepared' = [prepared EXCEPT ![j] = att[w].artifact]
            /\ Goto(w, "push")
       ELSE Goto(w, "release") /\ UNCHANGED prepared
    /\ UNCHANGED <<status, request, items, output, error, streamVars,
                   leaseVars, registryVars, faults>>

(***************************************************************************)
(* The push, as the SDK performs it: a divergence check, the manifest under *)
(* the tag, then the signature referrers and a look at the tag.  The        *)
(* registry has no conditional write, so check and write are two requests.  *)
(***************************************************************************)
PushCheck(w) ==
    LET named == tag[att[w].job] IN
    /\ att[w].step = "push"
    /\ \/ /\ IF named \in {NoDigest, att[w].artifact.digest}
             THEN Goto(w, "upload") ELSE Raise(w, FALSE)
          /\ UNCHANGED faults
       \/ CallFails(w)
    /\ UNCHANGED <<jobVars, streamVars, leaseVars, registryVars>>

\* The manifest lands, and the answer may be lost; or it does not land.
PushManifest(w) ==
    /\ att[w].step = "upload"
    /\ \/ /\ tag' = [tag EXCEPT ![att[w].job] = att[w].artifact.digest]
          /\ \/ Goto(w, "refer") /\ UNCHANGED faults
             \/ CallFails(w)
       \/ CallFails(w) /\ UNCHANGED tag
    /\ UNCHANGED <<jobVars, streamVars, leaseVars, signed>>

\* The referrers land, and the tag is read once more: a push that has been
\* replaced is an error.
PushReferrers(w) ==
    LET j == att[w].job
        d == att[w].artifact.digest
    IN
    /\ att[w].step = "refer"
    /\ \/ /\ signed' = IF j \in GovernedJobs THEN signed \cup {d} ELSE signed
          /\ \/ /\ IF tag[j] # d THEN Raise(w, FALSE)
                   ELSE Goto(w, IF att[w].recovering
                                THEN "verify" ELSE "finish")
                /\ UNCHANGED faults
             \/ CallFails(w)
       \/ CallFails(w) /\ UNCHANGED signed
    /\ UNCHANGED <<jobVars, streamVars, leaseVars, tag>>

(***************************************************************************)
(* The specification.                                                      *)
(***************************************************************************)
Take(w) == \E j \in Jobs : ReadNew(w, j) \/ ClaimAbandoned(w, j)

Run(w) ==
    \/ Acquire(w) \/ ReadJob(w) \/ Reject(w) \/ Start(w)
    \/ Resolve(w) \/ Install(w) \/ Cosign(w) \/ Verify(w)
    \/ Process(w) \/ ProcessItem(w) \/ Pack(w) \/ Gate(w)
    \/ PushCheck(w) \/ PushManifest(w) \/ PushReferrers(w)
    \/ Finish(w) \/ CheckPrepared(w) \/ Fail(w)
    \/ Acknowledge(w) \/ Release(w)

Next ==
    \/ \E j \in Jobs :
         Submit(j) \/ ExpireJob(j) \/ DeliveryIdles(j) \/ LeaseLapses(j)
    \/ \E w \in Workers :
         Take(w) \/ Run(w) \/ Heartbeat(w) \/ Crash(w) \/ Restart(w)

Spec == Init /\ [][Next]_vars

\* Every worker's loop runs, a dead worker is restarted, and time passes for
\* a delivery and a lease that no running attempt keeps alive.
Fairness ==
    /\ \A w \in Workers :
         WF_vars(Run(w)) /\ WF_vars(Take(w)) /\ WF_vars(Restart(w))
    /\ \A j \in Jobs :
         /\ WF_vars(Holders(j) = {} /\ DeliveryIdles(j))
         /\ WF_vars(Holders(j) = {} /\ LeaseLapses(j))

FairSpec == Spec /\ Fairness

(***************************************************************************)
(* What the service promises.                                              *)
(***************************************************************************)
\* Every variable has its type; tokens in use were issued.
TypeOK ==
    /\ status \in [Jobs -> Statuses]
    /\ request \in [Jobs -> BOOLEAN]
    /\ prepared \in [Jobs -> Artifact]
    /\ items \in [Jobs -> [1..NumItems -> {"none", "ok", "failed"}]]
    /\ output \in [Jobs -> Digests \cup {NoDigest}]
    /\ error \in [Jobs -> {"none", "retryable", "final"}]
    /\ entry \in [Jobs -> {"none", "new", "pending", "gone"}]
    /\ idle \in [Jobs -> BOOLEAN]
    /\ lease \in [Jobs -> 0..issued]
    /\ issued \in Nat
    /\ tag \in [Jobs -> Digests \cup {NoDigest}]
    /\ signed \subseteq Digests \cup {NoDigest}
    /\ att \in [Workers -> Attempt]
    /\ \A w \in Workers : att[w].token \in 0..issued
    /\ faults \in 0..MaxFaults

\* A job that is not finished keeps its request and its delivery, so an
\* attempt interrupted anywhere can be resumed (worker.py _finish, _deliver).
Resumable ==
    \A j \in Jobs : status[j] \in {"queued", "running"} =>
        request[j] /\ entry[j] \in {"new", "pending"}

\* The registry and a job's hash agree: what is under the tag was recorded as
\* prepared, so a later attempt recognizes it, and a result that reports an
\* output names what is there, authorized if the brain is governed (worker.py
\* _recover, processing.py process_job).
PublicationAgrees ==
    \A j \in Jobs :
        /\ tag[j] # NoDigest /\ status[j] # "absent" =>
              prepared[j].digest = tag[j]
        /\ status[j] \in {"completed", "partial"} /\ output[j] # NoDigest =>
              /\ tag[j] = output[j]
              /\ j \in GovernedJobs => output[j] \in signed

\* The item reports a client reads beside a result are the ones its status
\* was computed from, whichever attempts wrote them (process_job, _recover).
ItemsMatchStatus ==
    \A j \in Jobs :
        LET failed == {i \in 1..NumItems : items[j][i] = "failed"} IN
        /\ status[j] = "completed" => \A i \in 1..NumItems : items[j][i] = "ok"
        /\ status[j] = "partial" => failed # {}

\* A terminal status and its result are never rewritten, by a stale attempt
\* or a late one: the hash only ever expires (worker.py Lease.guarded).
KeepsTerminal(j) ==
    status[j] \in Terminal =>
        \/ status'[j] = "absent"
        \/ /\ status'[j] = status[j]
           /\ output'[j] = output[j]
           /\ error'[j] = error[j]
           /\ items'[j] = items[j]
TerminalIsFinal == [][\A j \in Jobs : KeepsTerminal(j)]_vars

\* An output tag is written once: no attempt replaces what another published.
PublishedOnce ==
    [][\A j \in Jobs : tag[j] # NoDigest => tag'[j] = tag[j]]_vars

\* worker.py's docstring: every state change, the publication included, is
\* conditioned on the attempt's token.
PublicationIsFenced ==
    [][\A j \in Jobs : tag'[j] # tag[j] => Holders(j) # {}]_vars

\* Every submitted job is eventually acknowledged; by Resumable it is then
\* terminal or expired (worker.py run_forever, _claim_abandoned).
EveryJobSettles == \A j \in Jobs : entry[j] = "new" ~> entry[j] = "gone"

\* The queue, the leases and the workers implement the ledger a client sees.
Ledger == INSTANCE IngestLedger WITH
    state <- status, published <- tag, result <- output, verdict <- error
ImplementsLedger == Ledger!Spec
============================================================================
