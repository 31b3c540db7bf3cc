------------------------------- MODULE ProofJobs -------------------------------
(***************************************************************************)
(* The durable job queue (offchain/gpu/hashcredit_gpu/jobs) carrying one   *)
(* proof request through its lifecycle, run by ProofWorker processes       *)
(* (offchain/prover/.../attestcoin_worker.py), with the dead-letter cases  *)
(* and the operator's retry (offchain/api/.../commands.py).                *)
(*                                                                         *)
(* Time is abstracted to what the SQL compares: a lease is live until it   *)
(* expires, a retry is not due until its backoff is over.  now() is the    *)
(* start of the transaction, so a handler that began under a live lease    *)
(* still completes after it expired, while fail() opens a transaction of   *)
(* its own and needs a live lease.  The handler holds the job's row lock   *)
(* and the case's advisory lock from its first statement to its end.       *)
(* The three terminal outcomes of the SDK are one here, INVALID.           *)
(***************************************************************************)
EXTENDS Naturals, FiniteSets

CONSTANTS
    Processes,
    WorkerId,           \* worker_id of a process: proof-<pid>, not unique across hosts
    MaxAttempts,        \* max_attempts of a new job
    RetryBudget,        \* attempts an API retry adds at least: 3
    AttemptCap          \* bound: no job is given attempts beyond this

ASSUME JobConstants ==
    /\ MaxAttempts \in Nat \ {0}
    /\ RetryBudget \in Nat \ {0}
    /\ AttemptCap \in Nat

Kinds == {"PROOF_WAIT_ATTESTATION", "PROOF_FETCH_ARTIFACT", "PROOF_SUBMIT",
          "PROOF_CONFIRM", "EVIDENCE_CONSUME"}

FetchKinds == {"PROOF_WAIT_ATTESTATION", "PROOF_FETCH_ARTIFACT"}

Statuses == {"OBSERVED", "WAITING_ATTESTATION", "PROOF_READY", "SUBMITTED",
             "NATIVE_ACCEPTED", "CONSUMED", "INVALID"}

NextKind == [PROOF_WAIT_ATTESTATION |-> "PROOF_FETCH_ARTIFACT",
             PROOF_FETCH_ARTIFACT |-> "PROOF_SUBMIT",
             PROOF_SUBMIT |-> "PROOF_CONFIRM",
             PROOF_CONFIRM |-> "EVIDENCE_CONSUME"]

VARIABLES
    status,         \* proof_requests.status
    job,            \* the jobs row of each kind (one semantic key per kind)
    proc,           \* what each worker process is doing
    case,           \* latest exceptions row of each job with its operation review
    seen,           \* what the operator last read of a case
    outbox,         \* idempotency keys of the dead-letter events
    intent,         \* tx_intents row of the submission, and its fate on chain
    projected,      \* the indexer has the finalized consumption
    holder          \* ghost: the process that took the current lease of a job

vars == <<status, job, proc, case, seen, outbox, intent, projected, holder>>

NoWorker == "none"

ASSUME WorkerNames == \A p \in Processes : WorkerId[p] # NoWorker

NewJob == [state |-> "PENDING", attempt |-> 0, max |-> MaxAttempts, by |-> NoWorker,
           live |-> FALSE, due |-> TRUE, terminal |-> FALSE]

NoJob == [NewJob EXCEPT !.state = "ABSENT"]

Idle == [pc |-> "idle", kind |-> "PROOF_WAIT_ATTESTATION", attempt |-> 0, max |-> 0,
         failure |-> "TRANSIENT", outcome |-> "none"]

NoCase == [exists |-> FALSE, resolved |-> FALSE, attempt |-> 0, blocking |-> FALSE,
           retryable |-> FALSE, reviewed |-> FALSE, version |-> 0]

NotSeen == [version |-> 0, attempt |-> 0]

Prepared == {"PROOF_READY", "SUBMITTED", "NATIVE_ACCEPTED", "CONSUMED"}

-----------------------------------------------------------------------------
(* Shared internals *)

(* The row still carries the token (worker_id, attempt) the process was given. *)
TokenHeld(p) ==
    /\ job[proc[p].kind].state = "LEASED"
    /\ job[proc[p].kind].by = WorkerId[p]
    /\ job[proc[p].kind].attempt = proc[p].attempt

Locked(k) == \E p \in Processes : proc[p].pc = "handling" /\ proc[p].kind = k

Enqueue(jobs, k) ==                 \* ON CONFLICT DO NOTHING
    IF jobs[k].state = "ABSENT" THEN [jobs EXCEPT ![k] = NewJob] ELSE jobs

(* _publish_dead_letter, with the status the transaction leaves. *)
DeadLetter(k, attempt, failure, st) ==
    LET again == case[k].exists /\ ~case[k].resolved
        retry == /\ failure = "TRANSIENT"
                 /\ \/ k = "PROOF_WAIT_ATTESTATION" /\ st \in {"OBSERVED", "WAITING_ATTESTATION"}
                    \/ k = "PROOF_FETCH_ARTIFACT" /\ st = "WAITING_ATTESTATION"
    IN  /\ case' = [case EXCEPT ![k] =
                      [exists |-> TRUE, resolved |-> FALSE, attempt |-> attempt,
                       blocking |-> failure = "TERMINAL", retryable |-> retry,
                       reviewed |-> again /\ @.reviewed,
                       version |-> IF again /\ @.reviewed THEN @.version + 1
                                   ELSE IF again THEN @.version ELSE 0]]
        /\ outbox' = outbox \union {<<k, attempt>>}

-----------------------------------------------------------------------------
(* emit_candidate has stored the request and its first job. *)
Init ==
    /\ status = "OBSERVED"
    /\ job = [k \in Kinds |-> IF k = "PROOF_WAIT_ATTESTATION" THEN NewJob ELSE NoJob]
    /\ proc = [p \in Processes |-> Idle]
    /\ case = [k \in Kinds |-> NoCase]
    /\ seen = [k \in Kinds |-> NotSeen]
    /\ outbox = {}
    /\ intent = "none"
    /\ projected = FALSE
    /\ holder = [k \in Kinds |-> NoWorker]

(* claim, and hcg_lease_job: waits for the row lock of a running handler. *)
Claim(p, k) ==
    /\ proc[p].pc = "idle"
    /\ ~Locked(k)
    /\ job[k].state \in {"PENDING", "LEASED"}
    /\ job[k].attempt < job[k].max
    /\ job[k].due
    /\ ~job[k].live
    /\ job' = [job EXCEPT ![k].state = "LEASED", ![k].by = WorkerId[p], ![k].live = TRUE,
                          ![k].attempt = @ + 1]
    /\ proc' = [proc EXCEPT ![p] = [Idle EXCEPT !.pc = "claimed", !.kind = k,
                                      !.attempt = job[k].attempt + 1, !.max = job[k].max]]
    /\ holder' = [holder EXCEPT ![k] = p]
    /\ UNCHANGED <<status, case, seen, outbox, intent, projected>>

BeginUnchecked(p) ==                \* mutant: the lease is not looked at before the handler
    /\ proc[p].pc = "claimed"
    /\ proc' = [proc EXCEPT ![p].pc = "handling"]
    /\ UNCHANGED <<status, job, case, seen, outbox, intent, projected, holder>>

(* _before_handler: lock the case and the row under a lease that is still held. *)
BeginHandler(p) ==
    /\ proc[p].pc = "claimed"
    /\ ~Locked(proc[p].kind)
    /\ proc' = [proc EXCEPT ![p] =
                  IF TokenHeld(p) /\ job[proc[p].kind].live
                  THEN [@ EXCEPT !.pc = "handling"] ELSE Idle]
    /\ UNCHANGED <<status, job, case, seen, outbox, intent, projected, holder>>

(* complete, in the handler's transaction; now() is its start. *)
Complete(p, jobs) ==
    LET k == proc[p].kind
    IN  /\ TokenHeld(p)
        /\ job' = [jobs EXCEPT ![k].state = "SUCCEEDED", ![k].by = NoWorker, ![k].live = FALSE,
                               ![k].terminal = FALSE]
        /\ proc' = [proc EXCEPT ![p] = Idle]
        /\ UNCHANGED <<case, seen, outbox, intent, projected, holder>>

(* A handler that finds its work done (by an earlier attempt) only completes. *)
DoneAlready(k) ==
    \/ k \in FetchKinds /\ status \in Prepared
    \/ k = "PROOF_SUBMIT" /\ status \in {"SUBMITTED", "NATIVE_ACCEPTED", "CONSUMED"}
    \/ k = "PROOF_CONFIRM" /\ status \in {"NATIVE_ACCEPTED", "CONSUMED"}
    \/ k = "EVIDENCE_CONSUME" /\ status = "CONSUMED"

CompleteDone(p) ==
    /\ proc[p].pc = "handling"
    /\ DoneAlready(proc[p].kind)
    /\ Complete(p, job)
    /\ UNCHANGED status

(* fetch: the SDK answers PROOF_READY; from OBSERVED two steps are taken at once. *)
Fetched(p) ==
    /\ proc[p].pc = "handling"
    /\ proc[p].kind \in FetchKinds
    /\ \/ /\ status = "OBSERVED"
          /\ Complete(p, Enqueue(Enqueue(job, "PROOF_FETCH_ARTIFACT"), "PROOF_SUBMIT"))
       \/ /\ status = "WAITING_ATTESTATION"
          /\ Complete(p, Enqueue(job, "PROOF_SUBMIT"))
    /\ status' = "PROOF_READY"

(* submit: dispatcher.prepare commits the signed intent in a transaction of its own,
   once per job; broadcast may or may not reach the chain and is repeated. *)
Prepare(p) ==
    /\ proc[p].pc = "handling"
    /\ proc[p].kind = "PROOF_SUBMIT"
    /\ status = "PROOF_READY"
    /\ intent = "none"
    /\ intent' = "signed"
    /\ UNCHANGED <<status, job, proc, case, seen, outbox, projected, holder>>

Broadcast(p) ==
    /\ proc[p].pc = "handling"
    /\ proc[p].kind \in {"PROOF_SUBMIT", "PROOF_CONFIRM"}
    /\ intent = "signed"
    /\ intent' = "sent"
    /\ UNCHANGED <<status, job, proc, case, seen, outbox, projected, holder>>

Submitted(p) ==
    /\ proc[p].pc = "handling"
    /\ proc[p].kind = "PROOF_SUBMIT"
    /\ status = "PROOF_READY"
    /\ intent # "none"
    /\ status' = "SUBMITTED"
    /\ Complete(p, Enqueue(job, "PROOF_CONFIRM"))

ConfirmedOnSend(p) ==               \* mutant: a broadcast transaction counts as accepted
    /\ proc[p].pc = "handling"
    /\ proc[p].kind = "PROOF_CONFIRM"
    /\ status = "SUBMITTED"
    /\ intent \in {"sent", "final"}
    /\ status' = "NATIVE_ACCEPTED"
    /\ Complete(p, Enqueue(job, "EVIDENCE_CONSUME"))

(* confirm: the transaction is final and the indexer has its consumption. *)
Confirmed(p) ==
    /\ proc[p].pc = "handling"
    /\ proc[p].kind = "PROOF_CONFIRM"
    /\ status = "SUBMITTED"
    /\ intent = "final"
    /\ projected
    /\ status' = "NATIVE_ACCEPTED"
    /\ Complete(p, Enqueue(job, "EVIDENCE_CONSUME"))

Consumed(p) ==
    /\ proc[p].pc = "handling"
    /\ proc[p].kind = "EVIDENCE_CONSUME"
    /\ status = "NATIVE_ACCEPTED"
    /\ status' = "CONSUMED"
    /\ Complete(p, job)

(* A reverted submission: ProofLifecycle.apply rolls the handler back (which frees its
   locks) and then writes INVALID in a transaction of its own. *)
Reverted(p) ==
    /\ proc[p].pc = "handling"
    /\ proc[p].kind = "PROOF_CONFIRM"
    /\ intent = "reverted"
    /\ status = "SUBMITTED"
    /\ proc' = [proc EXCEPT ![p].pc = "invalidating"]
    /\ UNCHANGED <<status, job, case, seen, outbox, intent, projected, holder>>

RecordInvalid(p) ==
    /\ proc[p].pc = "invalidating"
    /\ status' = "INVALID"
    /\ proc' = [proc EXCEPT ![p].pc = "failing", ![p].failure = "TERMINAL"]
    /\ UNCHANGED <<job, case, seen, outbox, intent, projected, holder>>

(* Any exception rolls the handler back; a fetch may carry the SDK's outcome. *)
HandlerFails(p, failure, outcome) ==
    /\ proc[p].pc = "handling"
    /\ outcome # "none" => /\ proc[p].kind \in FetchKinds
                           /\ status \notin Prepared
                           /\ (outcome = "INVALID") = (failure = "TERMINAL")
    /\ proc' = [proc EXCEPT ![p].pc = "failing", ![p].failure = failure,
                            ![p].outcome = outcome]
    /\ UNCHANGED <<status, job, case, seen, outbox, intent, projected, holder>>

(* _record_proof_failure never touches a prepared or terminal request. *)
StatusAfterFailure(p) ==
    IF status \notin {"OBSERVED", "WAITING_ATTESTATION"} \/ proc[p].outcome = "none"
    THEN status
    ELSE IF proc[p].outcome = "INVALID" THEN "INVALID"
    ELSE IF proc[p].kind = "PROOF_WAIT_ATTESTATION" THEN "WAITING_ATTESTATION"
    ELSE status

FailUnpublished(p) ==               \* mutant: the dead letter is left for a later transaction
    LET k == proc[p].kind
        dead == proc[p].failure = "TERMINAL" \/ proc[p].attempt >= proc[p].max
    IN  /\ proc[p].pc = "failing"
        /\ proc' = [proc EXCEPT ![p] = Idle]
        /\ TokenHeld(p) /\ job[k].live
        /\ job' = [job EXCEPT ![k].state = IF dead THEN "DEAD" ELSE "PENDING",
                              ![k].by = NoWorker, ![k].live = FALSE, ![k].due = dead]
        /\ status' = StatusAfterFailure(p)
        /\ UNCHANGED <<case, outbox, seen, intent, projected, holder>>

(* _fail: outcome, proof status and dead letter in one fenced transaction; without the
   lease nothing is recorded. *)
Fail(p) ==
    LET k == proc[p].kind
        dead == proc[p].failure = "TERMINAL" \/ proc[p].attempt >= proc[p].max
    IN  /\ proc[p].pc = "failing"
        /\ ~Locked(k)
        /\ proc' = [proc EXCEPT ![p] = Idle]
        /\ IF TokenHeld(p) /\ job[k].live
           THEN /\ job' = [job EXCEPT ![k].state = IF dead THEN "DEAD" ELSE "PENDING",
                                      ![k].by = NoWorker, ![k].live = FALSE,
                                      ![k].due = dead,
                                      ![k].terminal = proc[p].failure = "TERMINAL"]
                /\ status' = StatusAfterFailure(p)
                /\ IF dead THEN DeadLetter(k, proc[p].attempt, proc[p].failure, status')
                   ELSE UNCHANGED <<case, outbox>>
           ELSE UNCHANGED <<job, status, case, outbox>>
        /\ UNCHANGED <<seen, intent, projected, holder>>

ReapNever(p, k) ==                  \* mutant: the worker without the reaper
    FALSE /\ proc' = [proc EXCEPT ![p].kind = k]

(* _reap_exhausted: an expired last lease nobody can claim again. *)
Reap(p, k) ==
    /\ proc[p].pc = "idle"
    /\ ~Locked(k)
    /\ job[k].state = "LEASED"
    /\ job[k].attempt >= job[k].max
    /\ ~job[k].live
    /\ job' = [job EXCEPT ![k].state = "DEAD", ![k].by = NoWorker, ![k].terminal = FALSE]
    /\ DeadLetter(k, job[k].attempt, "TRANSIENT", status)
    /\ UNCHANGED <<status, proc, seen, intent, projected, holder>>

Crash(p) ==                         \* an open transaction rolls back, its locks are freed
    /\ proc[p].pc # "idle"
    /\ proc' = [proc EXCEPT ![p] = Idle]
    /\ UNCHANGED <<status, job, case, seen, outbox, intent, projected, holder>>

(* The clock and the chain *)

ExpireLease(k) ==
    /\ job[k].live
    /\ job' = [job EXCEPT ![k].live = FALSE]
    /\ UNCHANGED <<status, proc, case, seen, outbox, intent, projected, holder>>

BackoffOver(k) ==
    /\ job[k].state = "PENDING" /\ ~job[k].due
    /\ job' = [job EXCEPT ![k].due = TRUE]
    /\ UNCHANGED <<status, proc, case, seen, outbox, intent, projected, holder>>

Mine(result) ==
    /\ intent = "sent"
    /\ intent' = result
    /\ UNCHANGED <<status, job, proc, case, seen, outbox, projected, holder>>

Project ==
    /\ intent = "final" /\ ~projected
    /\ projected' = TRUE
    /\ UNCHANGED <<status, job, proc, case, seen, outbox, intent, holder>>

(* The operator *)

ReadCase(k) ==
    /\ case[k].exists
    /\ seen' = [seen EXCEPT ![k] = [version |-> case[k].version, attempt |-> case[k].attempt]]
    /\ UNCHANGED <<status, job, proc, case, outbox, intent, projected, holder>>

(* An action names the version it was decided on. *)
Reviewable(k) ==
    /\ case[k].exists /\ ~case[k].resolved
    /\ seen[k].attempt # 0
    /\ case[k].version = seen[k].version

(* POST /operations/{id}/actions, retry *)
Retry(k) ==
    /\ Reviewable(k)
    /\ case[k].retryable
    /\ job[k].state = "DEAD"
    /\ ~job[k].terminal
    /\ k \in FetchKinds
    /\ status = "WAITING_ATTESTATION" \/ (status = "OBSERVED" /\ k = "PROOF_WAIT_ATTESTATION")
    /\ job[k].attempt < AttemptCap
    /\ job' = [job EXCEPT ![k].state = "PENDING", ![k].due = TRUE, ![k].terminal = FALSE,
                          ![k].max = IF @ > job[k].attempt + RetryBudget
                                     THEN @ ELSE job[k].attempt + RetryBudget]
    /\ case' = [case EXCEPT ![k].reviewed = TRUE, ![k].version = @ + 1]
    /\ UNCHANGED <<status, proc, seen, outbox, intent, projected, holder>>

Resolve(k) ==                       \* resolve; assign and acknowledge change no job
    /\ Reviewable(k)
    /\ ~case[k].blocking
    /\ case' = [case EXCEPT ![k].resolved = TRUE, ![k].reviewed = TRUE,
                            ![k].version = @ + 1]
    /\ UNCHANGED <<status, job, proc, seen, outbox, intent, projected, holder>>

(* JobQueue.resume (operator CLI): the attempt stays, the budget grows. *)
Resume(k) ==
    /\ job[k].state = "DEAD"
    /\ job[k].attempt < AttemptCap
    /\ job' = [job EXCEPT ![k].state = "PENDING", ![k].due = TRUE,
                          ![k].max = @ + job[k].attempt]
    /\ UNCHANGED <<status, proc, case, seen, outbox, intent, projected, holder>>

WorkerStep(p) ==
    \/ \E k \in Kinds : Claim(p, k) \/ Reap(p, k)
    \/ BeginHandler(p)
    \/ CompleteDone(p) \/ Fetched(p) \/ Prepare(p) \/ Broadcast(p) \/ Submitted(p)
    \/ Confirmed(p) \/ Consumed(p) \/ Reverted(p) \/ RecordInvalid(p)
    \/ \E failure \in {"TRANSIENT", "TERMINAL"}, outcome \in {"none", "NOT_READY", "INVALID"} :
          HandlerFails(p, failure, outcome)
    \/ Fail(p)

Clock == \E k \in Kinds : ExpireLease(k) \/ BackoffOver(k)

Next ==
    \/ \E p \in Processes : WorkerStep(p) \/ Crash(p)
    \/ Clock
    \/ \E result \in {"final", "reverted"} : Mine(result)
    \/ Project
    \/ \E k \in Kinds : ReadCase(k) \/ Retry(k) \/ Resolve(k) \/ Resume(k)

Spec == Init /\ [][Next]_vars

(* Worker processes poll for ever and time passes. *)
Fairness == WF_vars(Clock) /\ \A p \in Processes : WF_vars(WorkerStep(p))

-----------------------------------------------------------------------------
(* Properties *)

JobRow ==
    [state : {"ABSENT", "PENDING", "LEASED", "SUCCEEDED", "DEAD"}, attempt : Nat, max : Nat,
     by : {WorkerId[p] : p \in Processes} \union {NoWorker},
     live : BOOLEAN, due : BOOLEAN, terminal : BOOLEAN]

ProcRow ==
    [pc : {"idle", "claimed", "handling", "invalidating", "failing"}, kind : Kinds,
     attempt : Nat, max : Nat, failure : {"TRANSIENT", "TERMINAL"},
     outcome : {"none", "NOT_READY", "INVALID"}]

CaseRow ==
    [exists : BOOLEAN, resolved : BOOLEAN, attempt : Nat, blocking : BOOLEAN,
     retryable : BOOLEAN, reviewed : BOOLEAN, version : Nat]

(* What the columns of a job row say of each other. *)
Columns(jobs) ==
    \A k \in Kinds : /\ jobs[k].state = "LEASED" => jobs[k].by # NoWorker
                     /\ jobs[k].live => jobs[k].state = "LEASED"
                     /\ jobs[k].attempt <= jobs[k].max

(* The rows have their types, and the columns of every job agree. *)
TypeOK ==
    /\ status \in Statuses
    /\ job \in [Kinds -> JobRow]
    /\ Columns(job)
    /\ proc \in [Processes -> ProcRow]
    /\ case \in [Kinds -> CaseRow]
    /\ seen \in [Kinds -> [version : Nat, attempt : Nat]]
    /\ holder \in [Kinds -> Processes \union {NoWorker}]
    /\ outbox \subseteq (Kinds \X Nat)
    /\ intent \in {"none", "signed", "sent", "final", "reverted"}
    /\ projected \in BOOLEAN

(* A fencing token is good for one lease: whenever a process's (worker_id, attempt)
   matches the row, that process took the current lease, even if another process of the
   same worker_id is still running an older attempt. *)
TokenNeverReused ==
    \A p \in Processes : proc[p].pc # "idle" /\ TokenHeld(p) => holder[proc[p].kind] = p

(* Two processes never handle the same job at the same time, and whoever handles a job
   holds its token, so its effect can commit. *)
HandlerExclusive ==
    \A p \in Processes : proc[p].pc = "handling" =>
        /\ TokenHeld(p)
        /\ \A q \in Processes \ {p} : ~(proc[q].pc = "handling" /\ proc[q].kind = proc[p].kind)

(* The lease fences: one handler at a time, with a token only it holds. *)
Fenced == TokenNeverReused /\ HandlerExclusive

(* A request only counts as natively accepted once its submission is final on chain and
   indexed: no API answer, broadcast or receipt stands in for it. *)
AcceptedOnChain ==
    status \in {"NATIVE_ACCEPTED", "CONSUMED"} => intent = "final" /\ projected

Rank == [OBSERVED |-> 0, WAITING_ATTESTATION |-> 1, PROOF_READY |-> 2, SUBMITTED |-> 3,
         NATIVE_ACCEPTED |-> 4, CONSUMED |-> 5, INVALID |-> 6]

(* The status only moves forward: no delayed or repeated attempt takes a request back,
   and neither a consumed nor an invalid request moves again. *)
StatusForward ==
    /\ Rank[status'] >= Rank[status]
    /\ status \in {"CONSUMED", "INVALID"} => status' = status

(* The status of a request is monotone, and says NATIVE_ACCEPTED or CONSUMED only of what
   is final on chain. *)
StatusKept == [][StatusForward /\ AcceptedOnChain']_vars

(* Reaching DEAD, opening the case and announcing it are one step: a dead job has a case
   for exactly the attempt that died, and its event. *)
DeadIsPublished ==
    \A k \in Kinds : job[k].state = "DEAD" =>
        /\ case[k].exists /\ case[k].attempt = job[k].attempt
        /\ <<k, job[k].attempt>> \in outbox

(* Work in progress is never lost: a request that is neither consumed nor invalid has a
   job that can move it on, waiting, running or dead-lettered. *)
Advancer ==
    [OBSERVED |-> "PROOF_WAIT_ATTESTATION", WAITING_ATTESTATION |-> "PROOF_WAIT_ATTESTATION",
     PROOF_READY |-> "PROOF_SUBMIT", SUBMITTED |-> "PROOF_CONFIRM",
     NATIVE_ACCEPTED |-> "EVIDENCE_CONSUME"]

RequestHasJob ==
    status \in DOMAIN Advancer =>
        job[Advancer[status]].state \in {"PENDING", "LEASED", "DEAD"}

(* Whatever crashes, expires or is retried, a request is carried by a job or by a
   published dead letter. *)
WorkNotLost == RequestHasJob /\ DeadIsPublished

(* Every job ends: with crashes at any point and a lease lost on the last attempt, it
   still succeeds or is dead-lettered. *)
JobsEnd ==
    \A k \in Kinds : job[k].state \in {"PENDING", "LEASED"} ~>
                         job[k].state \in {"SUCCEEDED", "DEAD"}
=============================================================================
