---------------------------- MODULE IngestLedger ----------------------------
(***************************************************************************)
(* What a client of the ingest API may rely on, with no queue, lease or    *)
(* worker in sight: a job moves forward only, publishes at most one        *)
(* artifact and only while it runs, is reported by what it published, and  *)
(* says of its failure that it may be retried only when nothing was.       *)
(***************************************************************************)
CONSTANTS Jobs, Digests, NoDigest

VARIABLES
    state,      \* what GET /v1/ingestions/{job_id} reports
    published,  \* the digest under the job's output tag
    result,     \* the digest its result names as output
    verdict     \* may the error it reports be retried?

vars == <<state, published, result, verdict>>

Init ==
    /\ state = [j \in Jobs |-> "none"]
    /\ published = [j \in Jobs |-> NoDigest]
    /\ result = [j \in Jobs |-> NoDigest]
    /\ verdict = [j \in Jobs |-> "none"]

Submit(j) ==
    /\ state[j] = "none"
    /\ state' = [state EXCEPT ![j] = "queued"]
    /\ UNCHANGED <<published, result, verdict>>

Begin(j) ==
    /\ state[j] = "queued"
    /\ state' = [state EXCEPT ![j] = "running"]
    /\ UNCHANGED <<published, result, verdict>>

Publish(j) ==
    /\ state[j] = "running" /\ published[j] = NoDigest
    /\ \E d \in Digests : published' = [published EXCEPT ![j] = d]
    /\ UNCHANGED <<state, result, verdict>>

\* The result names what was published, or nothing when nothing was.
Complete(j) ==
    /\ state[j] = "running"
    /\ \E outcome \in {"completed", "partial"} :
         state' = [state EXCEPT ![j] = outcome]
    /\ result' = [result EXCEPT ![j] = published[j]]
    /\ UNCHANGED <<published, verdict>>

\* A job may fail with its artifact in the registry, when the check that
\* follows a lost answer fails in its turn; the error it then reports is not
\* one to submit the same request again for.
Fail(j) ==
    /\ state[j] \in {"queued", "running"}
    /\ state' = [state EXCEPT ![j] = "failed"]
    /\ \E v \in {"retryable", "final"} :
         /\ v = "retryable" => published[j] = NoDigest
         /\ verdict' = [verdict EXCEPT ![j] = v]
    /\ UNCHANGED <<published, result>>

Expire(j) ==
    /\ state[j] \notin {"none", "absent"}
    /\ state' = [state EXCEPT ![j] = "absent"]
    /\ result' = [result EXCEPT ![j] = NoDigest]
    /\ verdict' = [verdict EXCEPT ![j] = "none"]
    /\ UNCHANGED published

Next == \E j \in Jobs :
    Submit(j) \/ Begin(j) \/ Publish(j) \/ Complete(j) \/ Fail(j) \/ Expire(j)

Spec == Init /\ [][Next]_vars
=============================================================================
