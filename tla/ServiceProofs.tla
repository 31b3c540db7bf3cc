-------------------------- MODULE ServiceProofs --------------------------
(***************************************************************************)
(* The services, for any number of processes.  Proof jobs: leases fence,   *)
(* the status of a request only moves forward and is true of the chain,    *)
(* and no request loses the job that carries it.  Partner actions, the     *)
(* control monitor, the product API, the wallet links of the native import *)
(* and the Bitcoin SPV relayer follow, each with the invariant that        *)
(* carries its property.                                                   *)
(***************************************************************************)
EXTENDS ProofJobs, PartnerActions, ControlMonitor, ApiAccess, NativeImport, SpvRelay, Sums,
        FiniteSetTheorems, TLAPS

(* A process's token is an attempt of its job; the newest attempt belongs   *)
(* to the process that took the lease.                                      *)
TokensOrdered ==
    \A p \in Processes : proc[p].pc # "idle" =>
        /\ proc[p].attempt <= job[proc[p].kind].attempt
        /\ proc[p].attempt = job[proc[p].kind].attempt => holder[proc[p].kind] = p

(* A job nobody enqueued has had no attempt. *)
AbsentIsNew == \A k \in Kinds : job[k].state = "ABSENT" => job[k].attempt = 0

(* What the chain and the indexer have seen of the submission. *)
ChainTrue ==
    /\ projected => intent = "final"
    /\ AcceptedOnChain
    /\ \A p \in Processes : proc[p].pc = "invalidating" =>
           intent = "reverted" /\ status \in {"SUBMITTED", "INVALID"}

(* A job succeeded because its part of the work is done. *)
SuccessIsDone ==
    \A k \in Kinds : job[k].state = "SUCCEEDED" => DoneAlready(k) \/ status = "INVALID"

IInv ==
    /\ TypeOK /\ AbsentIsNew /\ TokensOrdered /\ HandlerExclusive
    /\ ChainTrue /\ SuccessIsDone /\ WorkNotLost

-----------------------------------------------------------------------------
(* Types *)

(* An idle process is a well-typed row. *)
LEMMA IdleType == Idle \in ProcRow
  BY DEF Idle, ProcRow, Kinds

(* The rows enqueue writes, and the absence of one, are well typed. *)
LEMMA NewJobType == NewJob \in JobRow /\ NoJob \in JobRow
  BY JobConstants DEF NewJob, NoJob, JobRow

(* The initial rows are well typed. *)
LEMMA InitType == Init => TypeOK
<1> SUFFICES ASSUME Init PROVE TypeOK
  OBVIOUS
<1>1. job \in [Kinds -> JobRow] /\ proc \in [Processes -> ProcRow]
  BY NewJobType, IdleType DEF Init
<1>2. \A k \in Kinds : job[k].state \in {"PENDING", "ABSENT"} /\ job[k].live = FALSE
                       /\ job[k].attempt <= job[k].max
  BY JobConstants DEF Init, NewJob, NoJob
<1>3. case \in [Kinds -> CaseRow] /\ seen \in [Kinds -> [version : Nat, attempt : Nat]]
  BY DEF Init, NoCase, NotSeen, CaseRow
<1> QED
  BY <1>1, <1>2, <1>3 DEF Init, TypeOK, Statuses, Columns

(* enqueue keeps the rows and their columns well typed. *)
LEMMA EnqueueType ==
    ASSUME NEW jobs \in [Kinds -> JobRow], NEW k \in Kinds, Columns(jobs)
    PROVE  Enqueue(jobs, k) \in [Kinds -> JobRow] /\ Columns(Enqueue(jobs, k))
  BY JobConstants DEF Enqueue, NewJob, JobRow, Columns

(* claim keeps the types: a lease is taken under a worker_id, within max_attempts. *)
LEMMA ClaimType ==
    ASSUME TypeOK, NEW p \in Processes, NEW k \in Kinds, Claim(p, k)
    PROVE  TypeOK'
  BY WorkerNames DEF Claim, TypeOK, JobRow, ProcRow, Idle, CaseRow, Columns

(* A step that only moves one process to a well-typed row keeps the types. *)
LEMMA ProcType ==
    ASSUME TypeOK, NEW p \in Processes, UNCHANGED <<job, case, seen, outbox, holder>>,
           status' \in Statuses, intent' \in {"none", "signed", "sent", "final", "reverted"},
           projected' \in BOOLEAN, NEW row \in ProcRow, proc' = [proc EXCEPT ![p] = row]
    PROVE  TypeOK'
  BY DEF TypeOK

(* _before_handler keeps the types. *)
LEMMA BeginType ==
    ASSUME TypeOK, NEW p \in Processes, BeginHandler(p)
    PROVE  TypeOK'
<1>1. [proc[p] EXCEPT !.pc = "handling"] \in ProcRow
  BY DEF TypeOK, ProcRow
<1> QED
  BY <1>1, IdleType, ProcType DEF BeginHandler, TypeOK

(* complete keeps the types, whatever well-typed rows were enqueued first. *)
LEMMA CompleteType ==
    ASSUME TypeOK, NEW p \in Processes, NEW jobs \in [Kinds -> JobRow],
           Columns(jobs),
           Complete(p, jobs), status' \in Statuses
    PROVE  TypeOK'
<1>1. proc[p].kind \in Kinds
  BY DEF TypeOK, ProcRow
<1>2. job' \in [Kinds -> JobRow]
  <2> DEFINE k == proc[p].kind
             row == [jobs[k] EXCEPT !.state = "SUCCEEDED", !.by = NoWorker, !.live = FALSE,
                                    !.terminal = FALSE]
  <2>1. jobs[k] \in JobRow
    BY <1>1
  <2>2. row \in JobRow
    BY <2>1 DEF JobRow
  <2>3. job' = [jobs EXCEPT ![k] = row]
    BY <1>1 DEF Complete
  <2> QED
    BY <1>1, <2>2, <2>3
<1>3. Columns(job')
  BY <1>1 DEF Complete, JobRow, Columns
<1>4. proc' \in [Processes -> ProcRow]
  BY IdleType DEF Complete, TypeOK
<1> QED
  BY <1>2, <1>3, <1>4 DEF Complete, TypeOK

(* Every handler that finishes keeps the types. *)
LEMMA HandlerType ==
    ASSUME TypeOK, NEW p \in Processes,
           \/ CompleteDone(p) \/ Fetched(p) \/ Submitted(p) \/ Confirmed(p) \/ Consumed(p)
    PROVE  TypeOK'
<1>1. CASE CompleteDone(p) \/ Consumed(p)
  BY <1>1, CompleteType DEF CompleteDone, Consumed, TypeOK, Statuses
<1>2. CASE Fetched(p)
  <2> DEFINE one == Enqueue(job, "PROOF_SUBMIT")
             two == Enqueue(Enqueue(job, "PROOF_FETCH_ARTIFACT"), "PROOF_SUBMIT")
  <2>1. Complete(p, one) \/ Complete(p, two)
    BY <1>2, Zenon DEF Fetched
  <2>2. "PROOF_SUBMIT" \in Kinds /\ "PROOF_FETCH_ARTIFACT" \in Kinds /\ status' \in Statuses
    BY <1>2 DEF Fetched, Kinds, Statuses
  <2>3. CASE Complete(p, one)
    BY <2>2, <2>3, EnqueueType, CompleteType DEF TypeOK
  <2>4. CASE Complete(p, two)
    <3> DEFINE mid == Enqueue(job, "PROOF_FETCH_ARTIFACT")
    <3>1. /\ mid \in [Kinds -> JobRow]
          /\ Columns(mid)
      BY <2>2, EnqueueType DEF TypeOK
    <3> HIDE DEF mid
    <3>2. /\ Enqueue(mid, "PROOF_SUBMIT") \in [Kinds -> JobRow]
          /\ Columns(Enqueue(mid, "PROOF_SUBMIT"))
      BY <2>2, <3>1, EnqueueType
    <3> QED
      BY <2>2, <2>4, <3>2, CompleteType DEF mid
  <2> QED
    BY <2>1, <2>3, <2>4
<1>3. CASE Submitted(p)
  <2>1. "PROOF_CONFIRM" \in Kinds /\ status' \in Statuses
    BY <1>3 DEF Submitted, Kinds, Statuses
  <2> QED
    BY <1>3, <2>1, EnqueueType, CompleteType DEF Submitted, TypeOK
<1>4. CASE Confirmed(p)
  <2>1. "EVIDENCE_CONSUME" \in Kinds /\ status' \in Statuses
    BY <1>4 DEF Confirmed, Kinds, Statuses
  <2> QED
    BY <1>4, <2>1, EnqueueType, CompleteType DEF Confirmed, TypeOK
<1> QED
  BY <1>1, <1>2, <1>3, <1>4

(* _publish_dead_letter writes a well-typed case and event. *)
LEMMA DeadLetterType ==
    ASSUME TypeOK, NEW k \in Kinds, NEW attempt \in Nat, NEW failure, NEW st,
           DeadLetter(k, attempt, failure, st)
    PROVE  case' \in [Kinds -> CaseRow] /\ outbox' \subseteq (Kinds \X Nat)
<1> DEFINE again == case[k].exists /\ ~case[k].resolved
           retry == /\ failure = "TRANSIENT"
                    /\ \/ k = "PROOF_WAIT_ATTESTATION" /\ st \in {"OBSERVED", "WAITING_ATTESTATION"}
                       \/ k = "PROOF_FETCH_ARTIFACT" /\ st = "WAITING_ATTESTATION"
           row == [exists |-> TRUE, resolved |-> FALSE, attempt |-> attempt,
                   blocking |-> failure = "TERMINAL", retryable |-> retry,
                   reviewed |-> again /\ case[k].reviewed,
                   version |-> IF again /\ case[k].reviewed THEN case[k].version + 1
                               ELSE IF again THEN case[k].version ELSE 0]
<1>1. case[k].version \in Nat /\ case[k].version + 1 \in Nat
  BY DEF TypeOK, CaseRow
<1>2. row \in CaseRow
  BY <1>1 DEF CaseRow
<1>3. case' = [case EXCEPT ![k] = row]
  BY Zenon DEF DeadLetter
<1> HIDE DEF row
<1>4. case' \in [Kinds -> CaseRow]
  BY <1>2, <1>3 DEF TypeOK
<1>5. <<k, attempt>> \in Kinds \X Nat /\ outbox' = outbox \union {<<k, attempt>>}
  BY DEF DeadLetter
<1> QED
  BY <1>4, <1>5 DEF TypeOK

(* _fail keeps the types. *)
LEMMA FailType ==
    ASSUME TypeOK, NEW p \in Processes, Fail(p)
    PROVE  TypeOK'
<1> DEFINE k == proc[p].kind
           dead == proc[p].failure = "TERMINAL" \/ proc[p].attempt >= proc[p].max
<1>1. k \in Kinds /\ proc[p].attempt \in Nat /\ proc' \in [Processes -> ProcRow]
  BY IdleType DEF Fail, TypeOK, ProcRow
<1>2. CASE TokenHeld(p) /\ job[k].live
  <2>1. job' \in [Kinds -> JobRow]
    <3> DEFINE row == [job[k] EXCEPT !.state = IF dead THEN "DEAD" ELSE "PENDING",
                                     !.by = NoWorker, !.live = FALSE, !.due = dead,
                                     !.terminal = proc[p].failure = "TERMINAL"]
    <3>1. job[k] \in JobRow /\ dead \in BOOLEAN
      BY <1>1 DEF TypeOK
    <3> HIDE DEF dead
    <3>2. row \in JobRow
      BY <3>1 DEF JobRow
    <3>3. job' = [job EXCEPT ![k] = row]
      BY <1>2, Zenon DEF Fail, dead
    <3> QED
      BY <1>1, <3>2, <3>3 DEF TypeOK
  <2>2. Columns(job')
    BY <1>1, <1>2 DEF Fail, TypeOK, JobRow, Columns
  <2>3. status' \in Statuses
    BY <1>2 DEF Fail, StatusAfterFailure, TypeOK, Statuses
  <2>4. case' \in [Kinds -> CaseRow] /\ outbox' \subseteq (Kinds \X Nat)
    <3>1. CASE dead
      <4>1. DeadLetter(k, proc[p].attempt, proc[p].failure, status')
        BY <3>1, <1>2, Zenon DEF Fail
      <4> QED
        BY <4>1, <1>1, DeadLetterType
    <3>2. CASE ~dead
      BY <3>2, <1>2 DEF Fail, TypeOK
    <3> QED
      BY <3>1, <3>2
  <2> QED
    BY <1>1, <2>1, <2>2, <2>3, <2>4 DEF Fail, TypeOK
<1>3. CASE ~(TokenHeld(p) /\ job[k].live)
  BY <1>1, <1>3 DEF Fail, TypeOK
<1> QED
  BY <1>2, <1>3

(* _reap_exhausted keeps the types. *)
LEMMA ReapType ==
    ASSUME TypeOK, NEW p \in Processes, NEW k \in Kinds, Reap(p, k)
    PROVE  TypeOK'
<1>1. job[k].attempt \in Nat
  BY DEF TypeOK, JobRow
<1>2. case' \in [Kinds -> CaseRow] /\ outbox' \subseteq (Kinds \X Nat)
  BY <1>1, DeadLetterType DEF Reap
<1>3. job' \in [Kinds -> JobRow]
  <2> DEFINE row == [job[k] EXCEPT !.state = "DEAD", !.by = NoWorker, !.terminal = FALSE]
  <2>1. job[k] \in JobRow
    BY DEF TypeOK
  <2>2. row \in JobRow
    BY <2>1 DEF JobRow
  <2>3. job' = [job EXCEPT ![k] = row]
    BY DEF Reap
  <2> QED
    BY <2>2, <2>3 DEF TypeOK
<1>4. Columns(job')
  BY DEF Reap, TypeOK, JobRow, Columns
<1> QED
  BY <1>2, <1>3, <1>4 DEF Reap, TypeOK

(* Submission, failure, invalidation and a crash keep the types. *)
LEMMA OtherWorkerType ==
    ASSUME TypeOK, NEW p \in Processes,
           \/ Prepare(p) \/ Broadcast(p) \/ Reverted(p) \/ RecordInvalid(p) \/ Crash(p)
           \/ \E failure \in {"TRANSIENT", "TERMINAL"}, outcome \in {"none", "NOT_READY", "INVALID"} :
                 HandlerFails(p, failure, outcome)
    PROVE  TypeOK'
<1>1. CASE Prepare(p) \/ Broadcast(p)
  BY <1>1 DEF Prepare, Broadcast, TypeOK
<1>2. CASE Reverted(p) \/ RecordInvalid(p)
  <2>1. proc[p] \in ProcRow
    BY DEF TypeOK
  <2>2. [proc[p] EXCEPT !.pc = "invalidating"] \in ProcRow
    BY <2>1 DEF ProcRow
  <2>3. [proc[p] EXCEPT !.pc = "failing", !.failure = "TERMINAL"] \in ProcRow
    BY <2>1 DEF ProcRow
  <2>4. Reverted(p) => TypeOK'
    BY <2>2, ProcType DEF Reverted, TypeOK
  <2>5. RecordInvalid(p) => proc' = [proc EXCEPT ![p] = [proc[p] EXCEPT !.pc = "failing",
                                                                       !.failure = "TERMINAL"]]
    BY DEF RecordInvalid
  <2>6. RecordInvalid(p) => TypeOK'
    BY <2>3, <2>5, ProcType DEF RecordInvalid, TypeOK, Statuses
  <2> QED
    BY <1>2, <2>4, <2>6
<1>3. CASE Crash(p)
  BY <1>3, IdleType DEF Crash, TypeOK
<1>4. ASSUME NEW failure \in {"TRANSIENT", "TERMINAL"},
             NEW outcome \in {"none", "NOT_READY", "INVALID"}, HandlerFails(p, failure, outcome)
      PROVE  TypeOK'
  <2> DEFINE row == [proc[p] EXCEPT !.pc = "failing", !.failure = failure, !.outcome = outcome]
  <2>1. proc[p] \in ProcRow
    BY DEF TypeOK
  <2>2. row \in ProcRow
    BY <2>1 DEF ProcRow
  <2>3. proc' = [proc EXCEPT ![p] = row]
    BY <1>4 DEF HandlerFails
  <2> QED
    BY <1>4, <2>2, <2>3, ProcType DEF HandlerFails, TypeOK
<1> QED
  BY <1>1, <1>2, <1>3, <1>4

(* The operator's commands keep the types: a retry only raises the budget. *)
LEMMA OperatorType ==
    ASSUME TypeOK, NEW k \in Kinds,
           ReadCase(k) \/ Retry(k) \/ Resolve(k) \/ Resume(k)
    PROVE  TypeOK'
<1>1. CASE ReadCase(k)
  <2>1. seen' \in [Kinds -> [version : Nat, attempt : Nat]]
    BY <1>1 DEF ReadCase, TypeOK, CaseRow
  <2> QED
    BY <1>1, <2>1 DEF ReadCase, TypeOK
<1>2. CASE Retry(k)
  <2>1. job' \in [Kinds -> JobRow]
    <3> DEFINE max == IF job[k].max > job[k].attempt + RetryBudget
                      THEN job[k].max ELSE job[k].attempt + RetryBudget
               row == [job[k] EXCEPT !.state = "PENDING", !.due = TRUE, !.terminal = FALSE,
                                     !.max = max]
    <3>1. job[k] \in JobRow
      BY DEF TypeOK
    <3>2. max \in Nat
      BY <3>1, JobConstants DEF JobRow
    <3> HIDE DEF max
    <3>3. row \in JobRow
      BY <3>1, <3>2 DEF JobRow
    <3>4. job' = [job EXCEPT ![k] = row]
      BY <1>2 DEF Retry, max
    <3> QED
      BY <3>3, <3>4 DEF TypeOK
  <2>2. Columns(job')
    BY <1>2, JobConstants DEF Retry, TypeOK, JobRow, Columns
  <2>3. case' \in [Kinds -> CaseRow]
    BY <1>2 DEF Retry, TypeOK, CaseRow
  <2> QED
    BY <1>2, <2>1, <2>2, <2>3 DEF Retry, TypeOK
<1>3. CASE Resolve(k)
  <2>1. case' \in [Kinds -> CaseRow]
    BY <1>3 DEF Resolve, TypeOK, CaseRow
  <2> QED
    BY <1>3, <2>1 DEF Resolve, TypeOK
<1>4. CASE Resume(k)
  <2>1. job' \in [Kinds -> JobRow]
    <3> DEFINE max == job[k].max + job[k].attempt
               row == [job[k] EXCEPT !.state = "PENDING", !.due = TRUE, !.max = max]
    <3>1. job[k] \in JobRow
      BY DEF TypeOK
    <3>2. max \in Nat
      BY <3>1 DEF JobRow
    <3> HIDE DEF max
    <3>3. row \in JobRow
      BY <3>1, <3>2 DEF JobRow
    <3>4. job' = [job EXCEPT ![k] = row]
      BY <1>4 DEF Resume, max
    <3> QED
      BY <3>3, <3>4 DEF TypeOK
  <2>2. Columns(job')
    BY <1>4 DEF Resume, TypeOK, JobRow, Columns
  <2> QED
    BY <1>4, <2>1, <2>2 DEF Resume, TypeOK
<1> QED
  BY <1>1, <1>2, <1>3, <1>4

(* The clock, the chain and the indexer keep the types. *)
LEMMA WorldType ==
    ASSUME TypeOK,
           Clock \/ Project \/ \E result \in {"final", "reverted"} : Mine(result)
    PROVE  TypeOK'
<1>1. ASSUME NEW k \in Kinds, ExpireLease(k) \/ BackoffOver(k)
      PROVE  TypeOK'
  <2>1. job' \in [Kinds -> JobRow]
    <3>1. job[k] \in JobRow
      BY DEF TypeOK
    <3>2. [job[k] EXCEPT !.live = FALSE] \in JobRow /\ [job[k] EXCEPT !.due = TRUE] \in JobRow
      BY <3>1 DEF JobRow
    <3> QED
      BY <1>1, <3>2 DEF ExpireLease, BackoffOver, TypeOK
  <2>2. ASSUME NEW j \in Kinds
        PROVE  /\ job'[j].state = job[j].state /\ job'[j].by = job[j].by
               /\ job'[j].attempt = job[j].attempt /\ job'[j].max = job[j].max
               /\ job'[j].live => job[j].live
    <3>1. job \in [Kinds -> JobRow]
      BY DEF TypeOK
    <3>2. CASE ExpireLease(k)
      BY <3>1, <3>2 DEF ExpireLease, JobRow
    <3>3. CASE BackoffOver(k)
      BY <3>1, <3>3 DEF BackoffOver, JobRow
    <3> QED
      BY <1>1, <3>2, <3>3
  <2>3. Columns(job')
    BY <2>2 DEF TypeOK, Columns
  <2> QED
    BY <1>1, <2>1, <2>3 DEF ExpireLease, BackoffOver, TypeOK
<1>2. CASE Project
  BY <1>2 DEF Project, TypeOK
<1>3. CASE \E result \in {"final", "reverted"} : Mine(result)
  BY <1>3 DEF Mine, TypeOK
<1> QED
  BY <1>1, <1>2, <1>3 DEF Clock

(* Every step keeps the types. *)
LEMMA NextType ==
    ASSUME TypeOK, [Next]_vars
    PROVE  TypeOK'
<1>1. CASE UNCHANGED vars
  BY <1>1 DEF vars, TypeOK
<1>2. ASSUME NEW p \in Processes, WorkerStep(p) \/ Crash(p)
      PROVE  TypeOK'
  BY <1>2, ClaimType, BeginType, HandlerType, FailType, ReapType, OtherWorkerType
     DEF WorkerStep
<1> QED
  BY <1>1, <1>2, WorldType, OperatorType DEF Next

-----------------------------------------------------------------------------
(* What a step may do to the rows, in the terms the invariants need *)

(* No token is handed out: who is busy was busy with the same attempt. *)
TokensKept ==
    /\ \A q \in Processes : proc'[q].pc # "idle" =>
           /\ proc[q].pc # "idle"
           /\ proc'[q].kind = proc[q].kind
           /\ proc'[q].attempt = proc[q].attempt
    /\ \A j \in Kinds : job'[j].attempt = job[j].attempt
    /\ holder' = holder

(* Nobody enters the handler, and the rows of those inside keep their lease. *)
HandlersKept ==
    \A q \in Processes : proc'[q].pc = "handling" =>
        /\ proc'[q] = proc[q]
        /\ job'[proc[q].kind].state = job[proc[q].kind].state
        /\ job'[proc[q].kind].by = job[proc[q].kind].by
        /\ job'[proc[q].kind].attempt = job[proc[q].kind].attempt

(* No job disappears, and a job is dead as before or newly dead and published. *)
JobsKept ==
    /\ outbox \subseteq outbox'
    /\ \A j \in Kinds :
          /\ job'[j].state = "ABSENT" => job[j].state = "ABSENT" /\ job'[j].attempt = job[j].attempt
          /\ job'[j].state = "DEAD" =>
                \/ /\ job[j].state = "DEAD" /\ job'[j].attempt = job[j].attempt
                   /\ case'[j].exists = case[j].exists /\ case'[j].attempt = case[j].attempt
                \/ /\ case'[j].exists /\ case'[j].attempt = job'[j].attempt
                   /\ <<j, job'[j].attempt>> \in outbox'

(* A step that hands out no token keeps the order of the tokens. *)
LEMMA TokensOrder ==
    ASSUME TypeOK, TypeOK', TokensOrdered, TokensKept
    PROVE  TokensOrdered'
<1> SUFFICES ASSUME NEW q \in Processes, proc'[q].pc # "idle"
             PROVE  /\ proc'[q].attempt <= job'[proc'[q].kind].attempt
                    /\ proc'[q].attempt = job'[proc'[q].kind].attempt => holder'[proc'[q].kind] = q
  BY DEF TokensOrdered
<1>1. proc[q].kind \in Kinds
  BY DEF TypeOK, ProcRow
<1> QED
  BY <1>1 DEF TokensOrdered, TokensKept

(* Handlers stay exclusive in a step nobody enters the handler in. *)
LEMMA HandlersExclude ==
    ASSUME HandlerExclusive, HandlersKept
    PROVE  HandlerExclusive'
<1> SUFFICES ASSUME NEW p \in Processes, proc'[p].pc = "handling"
             PROVE  /\ TokenHeld(p)'
                    /\ \A q \in Processes \ {p} :
                          ~(proc'[q].pc = "handling" /\ proc'[q].kind = proc'[p].kind)
  BY DEF HandlerExclusive
<1>1. proc'[p] = proc[p] /\ proc[p].pc = "handling"
  BY DEF HandlersKept
<1>2. TokenHeld(p)'
  BY <1>1 DEF HandlersKept, HandlerExclusive, TokenHeld
<1>3. ASSUME NEW q \in Processes \ {p}, proc'[q].pc = "handling"
      PROVE  proc'[q].kind # proc'[p].kind
  BY <1>1, <1>3 DEF HandlersKept, HandlerExclusive
<1> QED
  BY <1>2, <1>3

(* Dead letters stay published. *)
LEMMA DeadKept ==
    ASSUME DeadIsPublished, JobsKept
    PROVE  DeadIsPublished'
  BY DEF DeadIsPublished, JobsKept

(* A job nobody enqueued stays without attempts. *)
LEMMA AbsentKept ==
    ASSUME AbsentIsNew, JobsKept
    PROVE  AbsentIsNew'
  BY DEF AbsentIsNew, JobsKept

(* A job only succeeds when its part of the work is done. *)
SuccessEarned ==
    \A j \in Kinds : job'[j].state = "SUCCEEDED" =>
        job[j].state = "SUCCEEDED" \/ DoneAlready(j)'

(* A status that needs another job comes with that job. *)
NextEnqueued ==
    \/ status' = status
    \/ status = "OBSERVED" /\ status' = "WAITING_ATTESTATION"
    \/ status' \in {"CONSUMED", "INVALID"}
    \/ status' \in DOMAIN Advancer /\ job'[Advancer[status']].state # "ABSENT"

(* What is done stays done while the status moves forward. *)
LEMMA DoneGrows ==
    ASSUME TypeOK, TypeOK', StatusForward, NEW j \in Kinds, DoneAlready(j)
    PROVE  DoneAlready(j)' \/ status' = "INVALID"
<1>1. status \in Statuses /\ status' \in Statuses
  BY DEF TypeOK
<1> QED
  BY <1>1 DEF StatusForward, DoneAlready, Rank, Statuses, Prepared, FetchKinds, Kinds

(* Every job that succeeded has its part of the work done. *)
LEMMA SuccessKept ==
    ASSUME TypeOK, TypeOK', StatusForward, SuccessIsDone, SuccessEarned
    PROVE  SuccessIsDone'
<1> SUFFICES ASSUME NEW j \in Kinds, job'[j].state = "SUCCEEDED"
             PROVE  DoneAlready(j)' \/ status' = "INVALID"
  BY DEF SuccessIsDone
<1>1. CASE DoneAlready(j)'
  BY <1>1
<1>2. CASE job[j].state = "SUCCEEDED"
  <2>1. status = "INVALID" => status' = "INVALID"
    BY DEF StatusForward
  <2> QED
    BY <1>2, <2>1, DoneGrows DEF SuccessIsDone
<1> QED
  BY <1>1, <1>2 DEF SuccessEarned

(* A request on its way has the job that carries it. *)
LEMMA RequestKept ==
    ASSUME TypeOK, TypeOK', JobsKept, NextEnqueued, RequestHasJob, SuccessIsDone'
    PROVE  RequestHasJob'
<1> SUFFICES ASSUME status' \in DOMAIN Advancer
             PROVE  job'[Advancer[status']].state \in {"PENDING", "LEASED", "DEAD"}
  BY DEF RequestHasJob
<1>1. status' \in {"OBSERVED", "WAITING_ATTESTATION", "PROOF_READY", "SUBMITTED", "NATIVE_ACCEPTED"}
  BY DEF Advancer
<1>2. Advancer[status'] \in Kinds
  BY <1>1 DEF Advancer, Kinds
<1>3. ~DoneAlready(Advancer[status])'
  BY <1>1 DEF DoneAlready, Advancer, FetchKinds, Prepared
<1>4. job'[Advancer[status']].state # "SUCCEEDED"
  BY <1>1, <1>2, <1>3 DEF SuccessIsDone
<1>5. job'[Advancer[status']].state # "ABSENT"
  <2>1. CASE status' = status
    BY <1>2, <2>1 DEF RequestHasJob, JobsKept
  <2>2. CASE status = "OBSERVED" /\ status' = "WAITING_ATTESTATION"
    <3>1. Advancer[status'] = Advancer[status] /\ status \in DOMAIN Advancer
      BY <2>2 DEF Advancer
    <3> QED
      BY <1>2, <3>1 DEF RequestHasJob, JobsKept
  <2> QED
    BY <1>1, <2>1, <2>2 DEF NextEnqueued
<1>6. job'[Advancer[status']].state \in {"ABSENT", "PENDING", "LEASED", "SUCCEEDED", "DEAD"}
  BY <1>2 DEF TypeOK, JobRow
<1> QED
  BY <1>4, <1>5, <1>6

(* The parts of the inductive invariant that need no more than the effects. *)
LEMMA Preserved ==
    ASSUME IInv, TypeOK', TokensOrdered', HandlerExclusive', JobsKept, StatusForward,
           ChainTrue', SuccessEarned, NextEnqueued
    PROVE  IInv' /\ StatusForward
<1>1. SuccessIsDone'
  BY SuccessKept DEF IInv
<1> QED
  BY <1>1, RequestKept, DeadKept, AbsentKept DEF IInv, WorkNotLost

-----------------------------------------------------------------------------
(* One lemma per action, or per group of actions that touch the same rows *)

(* Steps that leave the jobs alone and keep what the cases say of them. *)
LEMMA StillJobs ==
    ASSUME job' = job, outbox' = outbox,
           \A j \in Kinds : case'[j].exists = case[j].exists /\ case'[j].attempt = case[j].attempt
    PROVE  JobsKept /\ SuccessEarned
  BY DEF JobsKept, SuccessEarned

(* Submission, chain, indexer and the operator's reading and resolving. *)
LEMMA QuietStep ==
    ASSUME IInv, TypeOK', UNCHANGED <<status, job, proc, outbox, holder>>,
           \/ \E p \in Processes : Prepare(p) \/ Broadcast(p)
           \/ \E result \in {"final", "reverted"} : Mine(result)
           \/ Project
           \/ \E k \in Kinds : ReadCase(k) \/ Resolve(k)
    PROVE  IInv' /\ StatusForward
<1>1. TokensKept /\ HandlersKept
  BY DEF TokensKept, HandlersKept
<1>2. \A j \in Kinds : case'[j].exists = case[j].exists /\ case'[j].attempt = case[j].attempt
  <2>1. ASSUME NEW k \in Kinds, Resolve(k), NEW j \in Kinds
        PROVE  case'[j].exists = case[j].exists /\ case'[j].attempt = case[j].attempt
    BY <2>1 DEF Resolve, IInv, TypeOK, CaseRow
  <2> QED
    BY <2>1 DEF Prepare, Broadcast, Mine, Project, ReadCase
<1>3. StatusForward /\ NextEnqueued
  BY DEF StatusForward, NextEnqueued, IInv, TypeOK, Statuses, Rank
<1>4. ChainTrue'
  <2>1. ChainTrue
    BY DEF IInv
  <2>2. ASSUME NEW p \in Processes, Prepare(p) \/ Broadcast(p)
        PROVE  ChainTrue'
    BY <2>1, <2>2 DEF Prepare, Broadcast, ChainTrue, AcceptedOnChain
  <2>3. ASSUME NEW result \in {"final", "reverted"}, Mine(result)
        PROVE  ChainTrue'
    BY <2>1, <2>3 DEF Mine, ChainTrue, AcceptedOnChain
  <2>4. Project => ChainTrue'
    BY <2>1 DEF Project, ChainTrue, AcceptedOnChain
  <2>5. ASSUME NEW k \in Kinds, ReadCase(k) \/ Resolve(k)
        PROVE  ChainTrue'
    <3>1. UNCHANGED <<intent, projected>>
      BY <2>5 DEF ReadCase, Resolve
    <3> QED
      BY <2>1, <3>1 DEF ChainTrue, AcceptedOnChain
  <2> QED
    BY <2>2, <2>3, <2>4, <2>5
<1> QED
  BY <1>1, <1>2, <1>3, <1>4, StillJobs, TokensOrder, HandlersExclude, Preserved DEF IInv

(* A process that leaves its handler, or never enters it, without completing. *)
LEMMA LeaveStep ==
    ASSUME IInv, TypeOK', NEW p \in Processes,
           \/ Reverted(p) \/ RecordInvalid(p) \/ Crash(p)
           \/ \E failure \in {"TRANSIENT", "TERMINAL"}, outcome \in {"none", "NOT_READY", "INVALID"} :
                 HandlerFails(p, failure, outcome)
    PROVE  IInv' /\ StatusForward
<1>1. UNCHANGED <<job, case, seen, outbox, intent, projected, holder>>
  BY DEF Reverted, RecordInvalid, Crash, HandlerFails
<1>2. /\ \A q \in Processes \ {p} : proc'[q] = proc[q]
      /\ proc[p].pc # "idle"
      /\ proc'[p].pc # "handling"
      /\ proc'[p].pc = "idle" \/ (proc'[p].kind = proc[p].kind /\ proc'[p].attempt = proc[p].attempt)
      /\ proc'[p].pc = "invalidating" => intent = "reverted" /\ status' = "SUBMITTED"
  <2>1. proc \in [Processes -> ProcRow]
    BY DEF IInv, TypeOK
  <2>2. Reverted(p) => <1>2!:
    BY <2>1 DEF Reverted, ProcRow
  <2>3. RecordInvalid(p) => <1>2!:
    BY <2>1 DEF RecordInvalid, ProcRow
  <2>4. Crash(p) => <1>2!:
    BY <2>1 DEF Crash, ProcRow, Idle
  <2>5. ASSUME NEW failure \in {"TRANSIENT", "TERMINAL"},
               NEW outcome \in {"none", "NOT_READY", "INVALID"}, HandlerFails(p, failure, outcome)
        PROVE  <1>2!:
    BY <2>1, <2>5 DEF HandlerFails, ProcRow
  <2> QED
    BY <2>2, <2>3, <2>4, <2>5
<1>3. TokensKept /\ HandlersKept
  BY <1>1, <1>2 DEF TokensKept, HandlersKept
<1>4. status' = status \/ (status' = "INVALID" /\ status \in {"SUBMITTED", "INVALID"})
  BY DEF Reverted, RecordInvalid, Crash, HandlerFails, IInv, ChainTrue
<1>5. StatusForward /\ NextEnqueued
  BY <1>4 DEF StatusForward, NextEnqueued, IInv, TypeOK, Statuses, Rank
<1>6. ChainTrue'
  BY <1>1, <1>2, <1>4 DEF IInv, ChainTrue, AcceptedOnChain
<1> QED
  BY <1>1, <1>3, <1>5, <1>6, StillJobs, TokensOrder, HandlersExclude, Preserved DEF IInv

(* _before_handler lets in only the process that holds the lease, and alone. *)
LEMMA BeginStep ==
    ASSUME IInv, TypeOK', NEW p \in Processes, BeginHandler(p)
    PROVE  IInv' /\ StatusForward
<1>1. UNCHANGED <<status, job, case, outbox, intent, projected, holder>>
  BY DEF BeginHandler
<1>2. \A q \in Processes \ {p} : proc'[q] = proc[q]
  BY DEF BeginHandler, IInv, TypeOK
<1>3. /\ proc[p].pc = "claimed"
      /\ proc'[p].pc \in {"idle", "handling"}
      /\ proc'[p].pc = "handling" => /\ proc'[p].kind = proc[p].kind
                                     /\ proc'[p].attempt = proc[p].attempt
                                     /\ TokenHeld(p) /\ ~Locked(proc[p].kind)
  BY DEF BeginHandler, IInv, TypeOK, ProcRow, Idle
<1>4. TokensKept
  BY <1>1, <1>2, <1>3 DEF TokensKept
<1>5. HandlerExclusive'
  <2> SUFFICES ASSUME NEW r \in Processes, proc'[r].pc = "handling"
               PROVE  /\ TokenHeld(r)'
                      /\ \A q \in Processes \ {r} :
                            ~(proc'[q].pc = "handling" /\ proc'[q].kind = proc'[r].kind)
    BY DEF HandlerExclusive
  <2>1. CASE r = p
    BY <1>1, <1>2, <1>3, <2>1 DEF TokenHeld, Locked
  <2>2. CASE r # p
    <3>1. proc'[r] = proc[r] /\ TokenHeld(r)
      BY <1>2, <2>2 DEF IInv, HandlerExclusive
    <3>2. TokenHeld(r)'
      BY <1>1, <3>1 DEF TokenHeld
    <3>3. proc'[p].pc = "handling" => proc'[p].kind # proc[r].kind
      BY <1>3, <3>1 DEF Locked
    <3>4. ASSUME NEW q \in Processes \ {r}, proc'[q].pc = "handling"
          PROVE  proc'[q].kind # proc'[r].kind
      BY <1>2, <3>1, <3>3, <3>4 DEF IInv, HandlerExclusive
    <3> QED
      BY <3>2, <3>4
  <2> QED
    BY <2>1, <2>2
<1>6. StatusForward /\ NextEnqueued
  BY <1>1 DEF StatusForward, NextEnqueued, IInv, TypeOK, Statuses, Rank
<1>7. ChainTrue'
  BY <1>1, <1>2, <1>3 DEF IInv, ChainTrue, AcceptedOnChain
<1> QED
  BY <1>1, <1>4, <1>5, <1>6, <1>7, StillJobs, TokensOrder, Preserved DEF IInv

(* A claim hands out an attempt above every token of the job. *)
LEMMA ClaimStep ==
    ASSUME IInv, TypeOK', NEW p \in Processes, NEW k \in Kinds, Claim(p, k)
    PROVE  IInv' /\ StatusForward
<1>1. UNCHANGED <<status, case, outbox, intent, projected>>
  BY DEF Claim
<1>2. \A q \in Processes \ {p} : proc'[q] = proc[q]
  BY DEF Claim, IInv, TypeOK
<1>3. /\ proc[p].pc = "idle" /\ proc'[p].pc = "claimed" /\ proc'[p].kind = k
      /\ proc'[p].attempt = job[k].attempt + 1
  BY DEF Claim, IInv, TypeOK, ProcRow, Idle
<1>4. /\ \A j \in Kinds \ {k} : job'[j] = job[j] /\ holder'[j] = holder[j]
      /\ job[k].state \in {"PENDING", "LEASED"} /\ job'[k].state = "LEASED"
      /\ job'[k].attempt = job[k].attempt + 1 /\ holder'[k] = p
  BY DEF Claim, IInv, TypeOK, JobRow
<1>5. TokensOrdered'
  <2> SUFFICES ASSUME NEW q \in Processes, proc'[q].pc # "idle"
               PROVE  /\ proc'[q].attempt <= job'[proc'[q].kind].attempt
                      /\ proc'[q].attempt = job'[proc'[q].kind].attempt => holder'[proc'[q].kind] = q
    BY DEF TokensOrdered
  <2>1. job[k].attempt \in Nat
    BY DEF IInv, TypeOK, JobRow
  <2>2. CASE q = p
    BY <1>3, <1>4, <2>1, <2>2
  <2>3. CASE q # p
    <3>1. proc'[q] = proc[q] /\ proc[q].kind \in Kinds /\ proc[q].attempt \in Nat
      BY <1>2, <2>3 DEF IInv, TypeOK, ProcRow
    <3> QED
      BY <1>4, <2>1, <3>1 DEF IInv, TokensOrdered
  <2> QED
    BY <2>2, <2>3
<1>6. HandlersKept
  <2>1. ~Locked(k)
    BY DEF Claim
  <2>2. \A q \in Processes : proc[q].kind \in Kinds
    BY DEF IInv, TypeOK, ProcRow
  <2> QED
    BY <1>2, <1>3, <1>4, <2>1, <2>2 DEF HandlersKept, Locked
<1>7. JobsKept /\ SuccessEarned
  BY <1>1, <1>4 DEF JobsKept, SuccessEarned
<1>8. StatusForward /\ NextEnqueued
  BY <1>1 DEF StatusForward, NextEnqueued, IInv, TypeOK, Statuses, Rank
<1>9. ChainTrue'
  BY <1>1, <1>2, <1>3 DEF IInv, ChainTrue, AcceptedOnChain
<1> QED
  BY <1>5, <1>6, <1>7, <1>8, <1>9, HandlersExclude, Preserved DEF IInv

(* The rows a handler may have enqueued before it completes. *)
Grown(jobs) ==
    /\ jobs \in [Kinds -> JobRow]
    /\ \A j \in Kinds : jobs[j] = job[j] \/ (job[j].state = "ABSENT" /\ jobs[j] = NewJob)

(* Enqueue only fills absent rows, and leaves the job it names present. *)
LEMMA EnqueueGrows ==
    ASSUME NEW jobs, Grown(jobs), NEW k \in Kinds
    PROVE  Grown(Enqueue(jobs, k)) /\ Enqueue(jobs, k)[k].state # "ABSENT"
  BY NewJobType DEF Grown, Enqueue, NewJob

(* complete: the lease ends with the work done and the next job enqueued. *)
LEMMA CompleteStep ==
    ASSUME IInv, TypeOK', NEW p \in Processes, NEW jobs, Grown(jobs),
           NEW k \in Kinds, proc[p].kind = k, proc[p].pc = "handling", Complete(p, jobs),
           DoneAlready(k)', StatusForward, AcceptedOnChain',
           status' = status \/ status' = "CONSUMED"
              \/ (status' \in DOMAIN Advancer /\ jobs[Advancer[status']].state # "ABSENT"),
           status = "INVALID" => status' = "INVALID",
           status = "SUBMITTED" => status' = "SUBMITTED" \/ intent = "final"
    PROVE  IInv' /\ StatusForward
<1>1. UNCHANGED <<case, outbox, intent, projected, holder>>
  BY DEF Complete
<1>2. /\ \A q \in Processes \ {p} : proc'[q] = proc[q]
      /\ proc'[p].pc = "idle"
  BY DEF Complete, IInv, TypeOK, Idle
<1>3. k \in Kinds /\ jobs[k] = job[k] /\ job[k].state = "LEASED"
  BY DEF Complete, TokenHeld, Grown, IInv, TypeOK, ProcRow
<1>4. /\ \A j \in Kinds \ {k} : job'[j] = jobs[j]
      /\ job'[k].state = "SUCCEEDED"
      /\ job'[k].attempt = job[k].attempt
  BY <1>3 DEF Complete, Grown, JobRow
<1>5. \A j \in Kinds : /\ job'[j].attempt = job[j].attempt
                       /\ job'[j].state = "ABSENT" => job[j].state = "ABSENT"
                       /\ job'[j].state = "DEAD" => job[j].state = "DEAD"
                       /\ job'[j].state = "SUCCEEDED" => job[j].state = "SUCCEEDED" \/ j = k
                       /\ job[j].state = "LEASED" /\ j # k => job'[j] = job[j]
  BY <1>3, <1>4 DEF Grown, NewJob, IInv, AbsentIsNew
<1>6. TokensKept
  BY <1>1, <1>2, <1>5 DEF TokensKept
<1>7. HandlersKept
  <2> SUFFICES ASSUME NEW q \in Processes, proc'[q].pc = "handling"
               PROVE  proc'[q] = proc[q] /\ job'[proc[q].kind] = job[proc[q].kind]
    BY DEF HandlersKept
  <2>1. q # p /\ proc'[q] = proc[q]
    BY <1>2
  <2>2. proc[q].kind \in Kinds /\ proc[q].kind # k /\ job[proc[q].kind].state = "LEASED"
    BY <2>1 DEF IInv, HandlerExclusive, TokenHeld, TypeOK, ProcRow
  <2> QED
    BY <1>5, <2>1, <2>2
<1>8. JobsKept
  BY <1>1, <1>5 DEF JobsKept
<1>9. SuccessEarned
  BY <1>5 DEF SuccessEarned
<1>10. NextEnqueued
  <2>1. ASSUME status' \in DOMAIN Advancer, jobs[Advancer[status']].state # "ABSENT"
        PROVE  job'[Advancer[status']].state # "ABSENT"
    <3>1. Advancer[status'] \in Kinds
      BY <2>1 DEF Advancer, Kinds
    <3> QED
      BY <1>4, <2>1, <3>1
  <2> QED
    BY <2>1 DEF NextEnqueued
<1>11. ChainTrue'
  <2>1. ASSUME NEW q \in Processes, proc'[q].pc = "invalidating"
        PROVE  intent' = "reverted" /\ status' \in {"SUBMITTED", "INVALID"}
    BY <1>1, <1>2, <2>1 DEF IInv, ChainTrue
  <2> QED
    BY <1>1, <2>1 DEF IInv, ChainTrue
<1> QED
  BY <1>6, <1>7, <1>8, <1>9, <1>10, <1>11, TokensOrder, HandlersExclude, Preserved DEF IInv

(* Every handler that finishes completes its job. *)
LEMMA HandlerStep ==
    ASSUME IInv, TypeOK', NEW p \in Processes,
           \/ CompleteDone(p) \/ Fetched(p) \/ Submitted(p) \/ Confirmed(p) \/ Consumed(p)
    PROVE  IInv' /\ StatusForward
<1>1. PICK k \in Kinds : proc[p].kind = k
  BY DEF IInv, TypeOK, ProcRow
<1>2. Grown(job) /\ status \in Statuses /\ AcceptedOnChain
  BY DEF Grown, IInv, TypeOK, ChainTrue
<1>3. CASE CompleteDone(p)
  <2>1. status' = status /\ DoneAlready(k)'
    BY <1>1, <1>3 DEF CompleteDone, DoneAlready
  <2>2. StatusForward /\ AcceptedOnChain'
    BY <1>2, <1>3, <2>1 DEF StatusForward, Statuses, Rank, AcceptedOnChain, CompleteDone, Complete
  <2> QED
    BY <1>1, <1>2, <1>3, <2>1, <2>2, CompleteStep DEF CompleteDone
<1>4. CASE Fetched(p)
  <2>1. "PROOF_FETCH_ARTIFACT" \in Kinds /\ "PROOF_SUBMIT" \in Kinds
    BY DEF Kinds
  <2>2. /\ status \in {"OBSERVED", "WAITING_ATTESTATION"} /\ status' = "PROOF_READY"
        /\ proc[p].pc = "handling" /\ k \in FetchKinds
    BY <1>1, <1>4 DEF Fetched
  <2>3. DoneAlready(k)' /\ StatusForward /\ AcceptedOnChain'
        /\ status' \in DOMAIN Advancer /\ Advancer[status'] = "PROOF_SUBMIT"
    BY <2>2 DEF DoneAlready, Prepared, StatusForward, Rank, AcceptedOnChain, Advancer
  <2> DEFINE one == Enqueue(job, "PROOF_SUBMIT")
             mid == Enqueue(job, "PROOF_FETCH_ARTIFACT")
             two == Enqueue(mid, "PROOF_SUBMIT")
  <2>4. Grown(mid) /\ Grown(one) /\ one["PROOF_SUBMIT"].state # "ABSENT"
    BY <1>2, <2>1, EnqueueGrows
  <2> HIDE DEF mid
  <2>5. Grown(two) /\ two["PROOF_SUBMIT"].state # "ABSENT"
    BY <2>1, <2>4, EnqueueGrows
  <2>6. Complete(p, one) \/ Complete(p, two)
    BY <1>4 DEF Fetched, mid
  <2> HIDE DEF one, two
  <2>7. Complete(p, one) => IInv' /\ StatusForward
    BY <1>1, <2>2, <2>3, <2>4, CompleteStep
  <2>8. Complete(p, two) => IInv' /\ StatusForward
    BY <1>1, <2>2, <2>3, <2>5, CompleteStep
  <2> QED
    BY <2>6, <2>7, <2>8
<1>5. CASE Submitted(p)
  <2>1. "PROOF_CONFIRM" \in Kinds
    BY DEF Kinds
  <2>2. /\ status = "PROOF_READY" /\ status' = "SUBMITTED"
        /\ proc[p].pc = "handling" /\ k = "PROOF_SUBMIT" /\ Complete(p, Enqueue(job, "PROOF_CONFIRM"))
    BY <1>1, <1>5 DEF Submitted
  <2>3. DoneAlready(k)' /\ StatusForward /\ AcceptedOnChain'
        /\ status' \in DOMAIN Advancer /\ Advancer[status'] = "PROOF_CONFIRM"
    BY <2>2 DEF DoneAlready, StatusForward, Rank, AcceptedOnChain, Advancer
  <2> QED
    BY <1>1, <1>2, <2>1, <2>2, <2>3, EnqueueGrows, CompleteStep
<1>6. CASE Confirmed(p)
  <2>1. "EVIDENCE_CONSUME" \in Kinds
    BY DEF Kinds
  <2>2. /\ status = "SUBMITTED" /\ status' = "NATIVE_ACCEPTED" /\ intent = "final" /\ projected
        /\ proc[p].pc = "handling" /\ k = "PROOF_CONFIRM" /\ Complete(p, Enqueue(job, "EVIDENCE_CONSUME"))
    BY <1>1, <1>6 DEF Confirmed
  <2>3. DoneAlready(k)' /\ StatusForward /\ AcceptedOnChain'
        /\ status' \in DOMAIN Advancer /\ Advancer[status'] = "EVIDENCE_CONSUME"
    BY <2>2 DEF DoneAlready, StatusForward, Rank, AcceptedOnChain, Advancer, Complete
  <2> QED
    BY <1>1, <1>2, <2>1, <2>2, <2>3, EnqueueGrows, CompleteStep
<1>7. CASE Consumed(p)
  <2>1. /\ status = "NATIVE_ACCEPTED" /\ status' = "CONSUMED"
        /\ proc[p].pc = "handling" /\ k = "EVIDENCE_CONSUME" /\ Complete(p, job)
    BY <1>1, <1>7 DEF Consumed
  <2>2. DoneAlready(k)' /\ StatusForward /\ AcceptedOnChain'
    BY <1>2, <2>1 DEF DoneAlready, StatusForward, Rank, AcceptedOnChain, Complete
  <2> QED
    BY <1>1, <1>2, <2>1, <2>2, CompleteStep
<1> QED
  BY <1>3, <1>4, <1>5, <1>6, <1>7

(* _publish_dead_letter opens or renews the case of the job, and announces it. *)
LEMMA DeadLettered ==
    ASSUME TypeOK, NEW k \in Kinds, NEW attempt, NEW failure, NEW st,
           DeadLetter(k, attempt, failure, st)
    PROVE  /\ case'[k].exists /\ case'[k].attempt = attempt
           /\ \A j \in Kinds \ {k} : case'[j] = case[j]
           /\ outbox \subseteq outbox' /\ <<k, attempt>> \in outbox'
  BY DEF DeadLetter, TypeOK

(* _reap_exhausted kills only a job nobody handles, and publishes it. *)
LEMMA ReapStep ==
    ASSUME IInv, TypeOK', NEW p \in Processes, NEW k \in Kinds, Reap(p, k)
    PROVE  IInv' /\ StatusForward
<1>1. UNCHANGED <<status, proc, intent, projected, holder>>
  BY DEF Reap
<1>2. /\ \A j \in Kinds \ {k} : job'[j] = job[j]
      /\ job'[k].state = "DEAD" /\ job'[k].attempt = job[k].attempt
  BY DEF Reap, IInv, TypeOK, JobRow
<1>3. /\ case'[k].exists /\ case'[k].attempt = job[k].attempt
      /\ \A j \in Kinds \ {k} : case'[j] = case[j]
      /\ outbox \subseteq outbox' /\ <<k, job[k].attempt>> \in outbox'
  <2>1. DeadLetter(k, job[k].attempt, "TRANSIENT", status)
    BY DEF Reap
  <2> QED
    BY <2>1, DeadLettered DEF IInv
<1>4. TokensKept
  BY <1>1, <1>2 DEF TokensKept
<1>5. HandlersKept
  <2>1. ~Locked(k) /\ \A q \in Processes : proc[q].kind \in Kinds
    BY DEF Reap, IInv, TypeOK, ProcRow
  <2> QED
    BY <1>1, <1>2, <2>1 DEF HandlersKept, Locked
<1>6. JobsKept
  BY <1>2, <1>3 DEF JobsKept
<1>7. SuccessEarned
  BY <1>2 DEF SuccessEarned
<1>8. StatusForward /\ NextEnqueued
  BY <1>1 DEF StatusForward, NextEnqueued, IInv, TypeOK, Statuses, Rank
<1>9. ChainTrue'
  BY <1>1 DEF IInv, ChainTrue, AcceptedOnChain
<1> QED
  BY <1>4, <1>5, <1>6, <1>7, <1>8, <1>9, TokensOrder, HandlersExclude, Preserved DEF IInv

(* _fail records an outcome only under the lease, and then with its dead letter. *)
LEMMA FailStep ==
    ASSUME IInv, TypeOK', NEW p \in Processes, Fail(p)
    PROVE  IInv' /\ StatusForward
<1> DEFINE k == proc[p].kind
           dead == proc[p].failure = "TERMINAL" \/ proc[p].attempt >= proc[p].max
<1>1. UNCHANGED <<intent, projected, holder>> /\ k \in Kinds /\ ~Locked(k)
  BY DEF Fail, IInv, TypeOK, ProcRow
<1>2. /\ \A q \in Processes \ {p} : proc'[q] = proc[q]
      /\ proc[p].pc = "failing" /\ proc'[p].pc = "idle"
  BY DEF Fail, IInv, TypeOK, Idle
<1>3. /\ \A j \in Kinds \ {k} : job'[j] = job[j]
      /\ job'[k].attempt = job[k].attempt
      /\ job'[k].state \in {"DEAD", "PENDING"} \/ job' = job
  BY <1>1 DEF Fail, IInv, TypeOK, JobRow
<1>4. JobsKept
  <2>1. CASE TokenHeld(p) /\ job[k].live /\ dead
    <3>1. DeadLetter(k, proc[p].attempt, proc[p].failure, status')
      BY <2>1, Zenon DEF Fail
    <3>2. proc[p].attempt = job[k].attempt /\ job'[k].state = "DEAD"
      BY <1>1, <2>1 DEF Fail, TokenHeld, IInv, TypeOK, JobRow
    <3>3. /\ case'[k].exists /\ case'[k].attempt = job[k].attempt
          /\ \A j \in Kinds \ {k} : case'[j] = case[j]
          /\ outbox \subseteq outbox' /\ <<k, job[k].attempt>> \in outbox'
      BY <1>1, <3>1, <3>2, DeadLettered DEF IInv
    <3> QED
      BY <1>3, <3>2, <3>3 DEF JobsKept
  <2>2. CASE TokenHeld(p) /\ job[k].live /\ ~dead
    <3>1. UNCHANGED <<case, outbox>>
      BY <2>2, Zenon DEF Fail
    <3>2. job'[k].state = "PENDING"
      BY <1>1, <2>2 DEF Fail, IInv, TypeOK, JobRow
    <3> QED
      BY <1>3, <3>1, <3>2 DEF JobsKept
  <2>3. CASE ~(TokenHeld(p) /\ job[k].live)
    <3>1. UNCHANGED <<job, case, outbox>>
      BY <2>3, Zenon DEF Fail
    <3> QED
      BY <3>1 DEF JobsKept
  <2> QED
    BY <2>1, <2>2, <2>3
<1>5. TokensKept
  BY <1>1, <1>2, <1>3 DEF TokensKept
<1>6. HandlersKept
  <2>1. \A q \in Processes : proc[q].kind \in Kinds
    BY DEF IInv, TypeOK, ProcRow
  <2> QED
    BY <1>1, <1>2, <1>3, <2>1 DEF HandlersKept, Locked
<1>7. SuccessEarned
  BY <1>1, <1>3 DEF SuccessEarned
<1>8. \/ status' = status
      \/ status \in {"OBSERVED", "WAITING_ATTESTATION"} /\ status' = "INVALID"
      \/ status \in {"OBSERVED", "WAITING_ATTESTATION"} /\ status' = "WAITING_ATTESTATION"
  BY DEF Fail, StatusAfterFailure
<1>9. StatusForward /\ NextEnqueued
  BY <1>8 DEF StatusForward, NextEnqueued, IInv, TypeOK, Statuses, Rank
<1>10. ChainTrue'
  <2>1. ChainTrue
    BY DEF IInv
  <2> QED
    BY <1>1, <1>2, <1>8, <2>1 DEF ChainTrue, AcceptedOnChain
<1> QED
  BY <1>4, <1>5, <1>6, <1>7, <1>9, <1>10, TokensOrder, HandlersExclude, Preserved DEF IInv

(* The clock and an operator's retry or resume touch neither a token nor a handled row. *)
LEMMA RowStep ==
    ASSUME IInv, TypeOK', NEW k \in Kinds,
           ExpireLease(k) \/ BackoffOver(k) \/ Retry(k) \/ Resume(k)
    PROVE  IInv' /\ StatusForward
<1>1. UNCHANGED <<status, proc, outbox, intent, projected, holder>>
  BY DEF ExpireLease, BackoffOver, Retry, Resume
<1>2. \A j \in Kinds : case'[j].exists = case[j].exists /\ case'[j].attempt = case[j].attempt
  <2>1. Retry(k) => <1>2!:
    BY DEF Retry, IInv, TypeOK, CaseRow
  <2> QED
    BY <2>1 DEF ExpireLease, BackoffOver, Resume
<1>3. /\ \A j \in Kinds \ {k} : job'[j] = job[j]
      /\ job'[k].attempt = job[k].attempt /\ job'[k].by = job[k].by
      /\ job'[k].state = job[k].state \/ (job[k].state = "DEAD" /\ job'[k].state = "PENDING")
  <2>1. job \in [Kinds -> JobRow]
    BY DEF IInv, TypeOK
  <2>2. ExpireLease(k) => <1>3!:
    BY <2>1 DEF ExpireLease, JobRow
  <2>3. BackoffOver(k) => <1>3!:
    BY <2>1 DEF BackoffOver, JobRow
  <2>4. Retry(k) => <1>3!:
    BY <2>1 DEF Retry, JobRow
  <2>5. Resume(k) => <1>3!:
    BY <2>1 DEF Resume, JobRow
  <2> QED
    BY <2>2, <2>3, <2>4, <2>5
<1>4. TokensKept
  BY <1>1, <1>3 DEF TokensKept
<1>5. HandlersKept
  <2> SUFFICES ASSUME NEW q \in Processes, proc[q].pc = "handling"
               PROVE  /\ job'[proc[q].kind].state = job[proc[q].kind].state
                      /\ job'[proc[q].kind].by = job[proc[q].kind].by
                      /\ job'[proc[q].kind].attempt = job[proc[q].kind].attempt
    BY <1>1 DEF HandlersKept
  <2>1. proc[q].kind \in Kinds /\ job[proc[q].kind].state = "LEASED"
    BY DEF IInv, HandlerExclusive, TokenHeld, TypeOK, ProcRow
  <2> QED
    BY <1>3, <2>1
<1>6. JobsKept
  BY <1>1, <1>2, <1>3 DEF JobsKept
<1>7. SuccessEarned
  BY <1>3 DEF SuccessEarned
<1>8. StatusForward /\ NextEnqueued
  BY <1>1 DEF StatusForward, NextEnqueued, IInv, TypeOK, Statuses, Rank
<1>9. ChainTrue'
  BY <1>1 DEF IInv, ChainTrue, AcceptedOnChain
<1> QED
  BY <1>4, <1>5, <1>6, <1>7, <1>8, <1>9, TokensOrder, HandlersExclude, Preserved DEF IInv

-----------------------------------------------------------------------------
(* The theorems *)

(* The request and its first job, as emit_candidate stores them, satisfy the invariant. *)
LEMMA InitInv == Init => IInv
<1> SUFFICES ASSUME Init PROVE IInv
  OBVIOUS
<1>1. "PROOF_WAIT_ATTESTATION" \in Kinds
  BY DEF Kinds
<1>2. /\ \A k \in Kinds : job[k].state \in {"PENDING", "ABSENT"} /\ job[k].attempt = 0
      /\ job["PROOF_WAIT_ATTESTATION"].state = "PENDING"
  BY <1>1 DEF Init, NewJob, NoJob
<1>3. \A p \in Processes : proc[p].pc = "idle"
  BY DEF Init, Idle
<1>4. AbsentIsNew /\ SuccessIsDone /\ DeadIsPublished
  BY <1>2 DEF AbsentIsNew, SuccessIsDone, DeadIsPublished
<1>5. TokensOrdered /\ HandlerExclusive
  BY <1>3 DEF TokensOrdered, HandlerExclusive
<1>6. ChainTrue
  BY <1>3 DEF Init, ChainTrue, AcceptedOnChain
<1>7. RequestHasJob
  BY <1>2 DEF Init, RequestHasJob, Advancer
<1> QED
  BY <1>4, <1>5, <1>6, <1>7, InitType DEF IInv, WorkNotLost

(* Every step keeps the invariant and moves the status forward if at all. *)
LEMMA NextInv ==
    ASSUME IInv, [Next]_vars
    PROVE  IInv' /\ StatusForward
<1>1. TypeOK'
  BY NextType DEF IInv
<1>2. CASE UNCHANGED vars
  <2>1. UNCHANGED <<status, job, proc, case, outbox, intent, projected, holder>>
    BY <1>2 DEF vars
  <2>2. TokensKept /\ HandlersKept /\ JobsKept /\ SuccessEarned
    BY <2>1 DEF TokensKept, HandlersKept, JobsKept, SuccessEarned
  <2>3. StatusForward /\ NextEnqueued
    BY <2>1 DEF StatusForward, NextEnqueued, IInv, TypeOK, Statuses, Rank
  <2>4. ChainTrue'
    BY <2>1 DEF IInv, ChainTrue, AcceptedOnChain
  <2> QED
    BY <1>1, <2>2, <2>3, <2>4, TokensOrder, HandlersExclude, Preserved DEF IInv
<1>3. ASSUME NEW p \in Processes, WorkerStep(p) \/ Crash(p)
      PROVE  IInv' /\ StatusForward
  <2>1. ASSUME NEW k \in Kinds, Claim(p, k) \/ Reap(p, k)
        PROVE  IInv' /\ StatusForward
    BY <1>1, <2>1, ClaimStep, ReapStep
  <2>2. CASE BeginHandler(p) \/ Fail(p)
    BY <1>1, <2>2, BeginStep, FailStep
  <2>3. CASE CompleteDone(p) \/ Fetched(p) \/ Submitted(p) \/ Confirmed(p) \/ Consumed(p)
    BY <1>1, <2>3, HandlerStep
  <2>4. CASE Prepare(p) \/ Broadcast(p)
    <3>1. UNCHANGED <<status, job, proc, outbox, holder>>
      BY <2>4 DEF Prepare, Broadcast
    <3> QED
      BY <1>1, <2>4, <3>1, QuietStep
  <2>5. CASE Reverted(p) \/ RecordInvalid(p) \/ Crash(p)
             \/ \E failure \in {"TRANSIENT", "TERMINAL"}, outcome \in {"none", "NOT_READY", "INVALID"} :
                   HandlerFails(p, failure, outcome)
    BY <1>1, <2>5, LeaveStep
  <2> QED
    BY <1>3, <2>1, <2>2, <2>3, <2>4, <2>5 DEF WorkerStep
<1>4. CASE Clock
  BY <1>1, <1>4, RowStep DEF Clock
<1>5. CASE Project \/ \E result \in {"final", "reverted"} : Mine(result)
  <2>1. UNCHANGED <<status, job, proc, outbox, holder>>
    BY <1>5 DEF Project, Mine
  <2> QED
    BY <1>1, <1>5, <2>1, QuietStep
<1>6. ASSUME NEW k \in Kinds, ReadCase(k) \/ Retry(k) \/ Resolve(k) \/ Resume(k)
      PROVE  IInv' /\ StatusForward
  <2>1. CASE ReadCase(k) \/ Resolve(k)
    <3>1. UNCHANGED <<status, job, proc, outbox, holder>>
      BY <2>1 DEF ReadCase, Resolve
    <3> QED
      BY <1>1, <2>1, <3>1, QuietStep
  <2>2. CASE Retry(k) \/ Resume(k)
    BY <1>1, <2>2, RowStep
  <2> QED
    BY <1>6, <2>1, <2>2
<1> QED
  BY <1>2, <1>3, <1>4, <1>5, <1>6 DEF Next

(* The inductive invariant holds throughout. *)
LEMMA JobsInv == Spec => []IInv
  BY InitInv, NextInv, PTL DEF Spec

(* The rows keep their types, and the columns of a job agree: only a leased row has a
   live lease and a worker, and no job takes more attempts than it has. *)
THEOREM JobsType == Spec => []TypeOK
<1>1. IInv => TypeOK
  BY DEF IInv
<1> QED
  BY <1>1, JobsInv, PTL

(* The lease fences, for any number of processes that share a worker_id: one handler of a
   job at a time, under a token (worker_id, attempt) that only the holder can match. *)
THEOREM JobsFenced == Spec => []Fenced
<1>1. IInv => Fenced
  <2> SUFFICES ASSUME IInv PROVE TokenNeverReused
    BY DEF IInv, Fenced
  <2> QED
    BY DEF IInv, TokenNeverReused, TokensOrdered, TokenHeld
<1> QED
  BY <1>1, JobsInv, PTL

(* However attempts fail, repeat or overlap, the status of a request never goes back, and
   says accepted or consumed only of a submission that is final and indexed. *)
THEOREM JobsStatusKept == Spec => StatusKept
<1>1. IInv /\ [Next]_vars => [StatusForward /\ AcceptedOnChain']_vars
  <2> SUFFICES ASSUME IInv, [Next]_vars
               PROVE  StatusForward /\ AcceptedOnChain'
    OBVIOUS
  <2> QED
    BY NextInv DEF IInv, ChainTrue
<1> QED
  BY <1>1, JobsInv, PTL DEF Spec, StatusKept

(* Whatever crashes, expires or is retried, a request on its way is carried by a job that
   waits, runs or is dead-lettered, and every dead job is published with its attempt. *)
THEOREM JobsWorkNotLost == Spec => []WorkNotLost
<1>1. IInv => WorkNotLost
  BY DEF IInv
<1> QED
  BY <1>1, JobsInv, PTL

-----------------------------------------------------------------------------
(* Partner actions *)

RunRow == {Resting} \union
    [step : {"begun", "unsent", "sending", "answered", "sent"}, action : PartnerActionIds]

PartnerType ==
    /\ DOMAIN actionJob \subseteq PartnerActionIds
    /\ run \in [PartnerWorkers -> RunRow]
    /\ partner \in [PartnerActionIds -> {"none", "accepted", "rejected", "applied"}]
    /\ acked \subseteq PartnerActionIds /\ recorded \subseteq PartnerActionIds
    /\ audits \in [PartnerActionIds -> Nat]

(* A run is of a job in the queue, and was answered by a partner that took  *)
(* the action.                                                              *)
RunTrue(w) ==
    run[w] # Resting =>
        /\ run[w].action \in DOMAIN actionJob
        /\ run[w].step = "answered" => partner[run[w].action] \in {"accepted", "applied"}

PartnerInv == PartnerType /\ (\A w \in PartnerWorkers : RunTrue(w)) /\ RecordedIsApplied

LEMMA PartnerInitInv == PartnerInit => PartnerInv
  <1> SUFFICES ASSUME PartnerInit PROVE PartnerInv
    OBVIOUS
  <1>1. DOMAIN actionJob = {}
    BY DEF PartnerInit
  <1>2. PartnerType
    BY <1>1 DEF PartnerInit, PartnerType, RunRow
  <1>3. \A w \in PartnerWorkers : RunTrue(w)
    BY DEF PartnerInit, RunTrue
  <1>4. RecordedIsApplied
    BY <1>1 DEF PartnerInit, RecordedIsApplied
  <1> QED
    BY <1>2, <1>3, <1>4 DEF PartnerInv

(* What no step takes back: a job stays in the queue, and an action that    *)
(* the partner took or applied stays so.                                    *)
PartnerKeeps ==
    /\ DOMAIN actionJob \subseteq DOMAIN actionJob'
    /\ \A a \in PartnerActionIds :
          /\ partner[a] = "applied" => partner'[a] = "applied"
          /\ partner[a] \in {"accepted", "applied"} => partner'[a] \in {"accepted", "applied"}

(* The run of one worker ends or moves on. *)
LEMMA RunsKept ==
    ASSUME PartnerInv, PartnerKeeps, NEW w \in PartnerWorkers, NEW x \in RunRow,
           run' = [run EXCEPT ![w] = x],
           x # Resting => x.action \in DOMAIN actionJob,
           x # Resting /\ x.step = "answered" => partner'[x.action] \in {"accepted", "applied"}
    PROVE  run' \in [PartnerWorkers -> RunRow] /\ \A v \in PartnerWorkers : RunTrue(v)'
  <1>1. run' \in [PartnerWorkers -> RunRow] /\ run'[w] = x
        /\ \A v \in PartnerWorkers : v # w => run'[v] = run[v]
    BY DEF PartnerInv, PartnerType
  <1>2. RunTrue(w)'
    BY <1>1 DEF RunTrue, PartnerKeeps
  <1>3. ASSUME NEW v \in PartnerWorkers, v # w
        PROVE  RunTrue(v)'
    <2>1. run'[v] = run[v] /\ run[v] \in RunRow /\ RunTrue(v)
      BY <1>1, <1>3 DEF PartnerInv, PartnerType
    <2>2. run[v] # Resting => run[v].action \in PartnerActionIds
      BY <2>1 DEF RunRow
    <2> QED
      BY <2>1, <2>2 DEF RunTrue, PartnerKeeps
  <1> QED
    BY <1>1, <1>2, <1>3

(* The rest of the invariant, when nothing is recorded. *)
LEMMA UnrecordedKept ==
    ASSUME PartnerInv, PartnerKeeps, UNCHANGED <<recorded, audits>>,
           partner' \in [PartnerActionIds -> {"none", "accepted", "rejected", "applied"}],
           DOMAIN actionJob' \subseteq PartnerActionIds,
           \A a \in DOMAIN actionJob' : actionJob'[a].state = "SUCCEEDED" => a \in recorded,
           acked' \subseteq PartnerActionIds,
           \A a \in acked' : partner'[a] \in {"accepted", "applied"},
           run' \in [PartnerWorkers -> RunRow],
           \A v \in PartnerWorkers : RunTrue(v)'
    PROVE  PartnerInv'
  <1>1. PartnerType'
    BY DEF PartnerInv, PartnerType
  <1>2. RecordedIsApplied'
    BY DEF PartnerInv, PartnerType, RecordedIsApplied, PartnerKeeps
  <1> QED
    BY <1>1, <1>2 DEF PartnerInv

(* A run that ends leaves its job in the state given, if it still holds it. *)
LEMMA EndRunJobs ==
    ASSUME PartnerInv, NEW w \in PartnerWorkers, run[w] # Resting, NEW st, EndRun(w, st)
    PROVE  /\ DOMAIN actionJob' = DOMAIN actionJob
           /\ \A a \in DOMAIN actionJob :
                 actionJob'[a].state # actionJob[a].state =>
                     a = run[w].action /\ actionJob'[a].state = st /\ HoldsJob(w)
           /\ run' = [run EXCEPT ![w] = Resting] /\ Resting \in RunRow
  <1>1. run[w].action \in DOMAIN actionJob
    BY DEF PartnerInv, RunTrue
  <1> QED
    BY <1>1 DEF EndRun, RunRow

LEMMA PartnerMoves ==
    ASSUME PartnerInv, NEW a \in PartnerActionIds, NEW s \in {"accepted", "rejected", "applied"},
           \/ UNCHANGED partner
           \/ partner[a] = "none" /\ partner' = [partner EXCEPT ![a] = s]
           \/ partner[a] = "accepted" /\ s = "applied" /\ partner' = [partner EXCEPT ![a] = s]
    PROVE  /\ partner' \in [PartnerActionIds -> {"none", "accepted", "rejected", "applied"}]
           /\ \A b \in PartnerActionIds :
                /\ partner[b] = "applied" => partner'[b] = "applied"
                /\ partner[b] \in {"accepted", "applied"} => partner'[b] \in {"accepted", "applied"}
  BY DEF PartnerInv, PartnerType

(* Steps of the queue that end no run. *)
LEMMA QueueStep ==
    ASSUME PartnerInv, NEW a \in PartnerActionIds,
           \/ EnqueueAction(a) \/ PartnerApplies(a)
           \/ \E w \in PartnerWorkers : ClaimAction(w, a)
    PROVE  PartnerInv'
  <1>0. /\ UNCHANGED <<acked, recorded, audits>>
        /\ acked \subseteq PartnerActionIds /\ \A b \in acked : partner[b] \in {"accepted", "applied"}
        /\ \A b \in DOMAIN actionJob : actionJob[b].state = "SUCCEEDED" => b \in recorded
        /\ DOMAIN actionJob \subseteq PartnerActionIds
    BY DEF EnqueueAction, PartnerApplies, ClaimAction, PartnerInv, PartnerType, RecordedIsApplied
  <1>1. CASE EnqueueAction(a)
    <2>1. /\ DOMAIN actionJob' = DOMAIN actionJob \union {a}
          /\ \A b \in DOMAIN actionJob' : actionJob'[b].state = "SUCCEEDED" => b \in recorded
          /\ UNCHANGED <<run, partner>>
      BY <1>0, <1>1 DEF EnqueueAction, NewAction
    <2>2. PartnerKeeps
      BY <2>1 DEF PartnerKeeps
    <2>3. run' \in [PartnerWorkers -> RunRow] /\ \A v \in PartnerWorkers : RunTrue(v)'
      BY <2>1 DEF PartnerInv, PartnerType, RunTrue
    <2>4. partner' \in [PartnerActionIds -> {"none", "accepted", "rejected", "applied"}]
      BY <2>1 DEF PartnerInv, PartnerType
    <2> QED
      BY <1>0, <2>1, <2>2, <2>3, <2>4, UnrecordedKept
  <1>2. CASE PartnerApplies(a)
    <2>1. UNCHANGED <<run, actionJob>>
      BY <1>2 DEF PartnerApplies
    <2>2. /\ partner' \in [PartnerActionIds -> {"none", "accepted", "rejected", "applied"}]
          /\ PartnerKeeps
      BY <1>2, <2>1, PartnerMoves DEF PartnerApplies, PartnerKeeps
    <2>3. run' \in [PartnerWorkers -> RunRow] /\ \A v \in PartnerWorkers : RunTrue(v)'
      <3> SUFFICES ASSUME NEW v \in PartnerWorkers
                   PROVE  RunTrue(v)'
        BY <2>1 DEF PartnerInv, PartnerType
      <3>1. run[v] # Resting => run[v].action \in PartnerActionIds
        BY DEF PartnerInv, PartnerType, RunRow
      <3> QED
        BY <2>1, <2>2, <3>1 DEF PartnerInv, RunTrue, PartnerKeeps
    <2>4. \A b \in acked' : partner'[b] \in {"accepted", "applied"}
      BY <1>0, <2>2 DEF PartnerKeeps
    <2> QED
      BY <1>0, <2>1, <2>2, <2>3, <2>4, UnrecordedKept
  <1>3. CASE \E w \in PartnerWorkers : ClaimAction(w, a)
    <2>0. PICK w \in PartnerWorkers : ClaimAction(w, a)
      BY <1>3
    <2>1. /\ a \in DOMAIN actionJob /\ DOMAIN actionJob' = DOMAIN actionJob
          /\ \A b \in DOMAIN actionJob' : actionJob'[b].state = "SUCCEEDED" => b \in recorded
          /\ UNCHANGED partner
      BY <1>0, <2>0 DEF ClaimAction
    <2>2. PartnerKeeps
      BY <2>1 DEF PartnerKeeps
    <2>3. PICK x : x = [step |-> "begun", action |-> a]
      OBVIOUS
    <2>4. x \in RunRow /\ x.action = a /\ x.step # "answered" /\ run' = [run EXCEPT ![w] = x]
      BY <2>0, <2>3 DEF ClaimAction, RunRow
    <2>5. run' \in [PartnerWorkers -> RunRow] /\ \A v \in PartnerWorkers : RunTrue(v)'
      BY <2>1, <2>2, <2>4, RunsKept
    <2>6. partner' \in [PartnerActionIds -> {"none", "accepted", "rejected", "applied"}]
      BY <2>1 DEF PartnerInv, PartnerType
    <2> QED
      BY <1>0, <2>1, <2>2, <2>5, <2>6, UnrecordedKept
  <1> QED
    BY <1>1, <1>2, <1>3

(* A step of a worker that records nothing: its run moves on or ends, the   *)
(* partner may have heard it, its job may be given back or given up.        *)
LEMMA PartnerWorkerStep ==
    ASSUME PartnerInv, NEW w \in PartnerWorkers, run[w] # Resting,
           UNCHANGED <<recorded, audits>>,
           PartnerKeeps, partner' \in [PartnerActionIds -> {"none", "accepted", "rejected", "applied"}],
           acked' \subseteq acked \union {run[w].action},
           acked' # acked => run[w].step = "answered",
           NEW x \in RunRow, run' = [run EXCEPT ![w] = x],
           x # Resting => x.action = run[w].action,
           x # Resting /\ x.step = "answered" => partner'[x.action] \in {"accepted", "applied"},
           DOMAIN actionJob' = DOMAIN actionJob,
           \A a \in DOMAIN actionJob :
              actionJob'[a].state = "SUCCEEDED" => actionJob[a].state = "SUCCEEDED"
    PROVE  PartnerInv'
  <1>1. run[w].action \in DOMAIN actionJob /\ DOMAIN actionJob \subseteq PartnerActionIds
    BY DEF PartnerInv, PartnerType, RunTrue
  <1>2. run' \in [PartnerWorkers -> RunRow] /\ \A v \in PartnerWorkers : RunTrue(v)'
    BY <1>1, RunsKept
  <1>3. \A a \in DOMAIN actionJob' : actionJob'[a].state = "SUCCEEDED" => a \in recorded
    BY <1>1 DEF PartnerInv, RecordedIsApplied
  <1>4. acked' \subseteq PartnerActionIds
    BY <1>1 DEF PartnerInv, PartnerType
  <1>5. \A a \in acked' : partner'[a] \in {"accepted", "applied"}
    <2> SUFFICES ASSUME NEW a \in acked'
                 PROVE  partner[a] \in {"accepted", "applied"}
      BY <1>4 DEF PartnerKeeps
    <2>1. CASE a \in acked
      BY <2>1 DEF PartnerInv, PartnerType, RecordedIsApplied
    <2>2. CASE a \notin acked
      <3>1. a = run[w].action /\ run[w].step = "answered"
        BY <2>2
      <3> QED
        BY <3>1 DEF PartnerInv, RunTrue
    <2> QED
      BY <2>1, <2>2
  <1> QED
    BY <1>1, <1>2, <1>3, <1>4, <1>5, UnrecordedKept

(* Steps that touch the worker's own run, and the acknowledgements. *)
LEMMA RunStep ==
    ASSUME PartnerInv, NEW w \in PartnerWorkers, Look(w) \/ KeepAck(w) \/ WorkerDies(w)
    PROVE  PartnerInv'
  <1>1. run[w] # Resting /\ run[w] \in RunRow /\ run[w].action \in PartnerActionIds
    <2>1. run[w] # Resting
      BY DEF Look, KeepAck, WorkerDies, Resting
    <2> QED
      BY <2>1 DEF PartnerInv, PartnerType, RunRow
  <1>2. UNCHANGED <<actionJob, partner, recorded, audits>>
    BY DEF Look, KeepAck, WorkerDies
  <1>3. PartnerKeeps /\ partner' \in [PartnerActionIds -> {"none", "accepted", "rejected", "applied"}]
    BY <1>2 DEF PartnerKeeps, PartnerInv, PartnerType
  <1>4. PICK x : /\ run' = [run EXCEPT ![w] = x]
                 /\ \/ x = Resting
                    \/ x = [step |-> "unsent", action |-> run[w].action]
                    \/ x = [step |-> "sent", action |-> run[w].action]
    BY DEF Look, KeepAck, WorkerDies
  <1>5. /\ x \in RunRow
        /\ x # Resting => x.action = run[w].action
        /\ x.step # "answered"
    BY <1>1, <1>4 DEF RunRow, Resting
  <1>6. /\ acked' \subseteq acked \union {run[w].action}
        /\ acked' # acked => run[w].step = "answered"
    BY DEF Look, KeepAck, WorkerDies
  <1>7. /\ DOMAIN actionJob' = DOMAIN actionJob
        /\ \A a \in DOMAIN actionJob : actionJob'[a].state = "SUCCEEDED" => actionJob[a].state = "SUCCEEDED"
    BY <1>2
  <1> QED
    BY <1>1, <1>2, <1>3, <1>4, <1>5, <1>6, <1>7, PartnerWorkerStep

(* A run that ends without the effect. *)
LEMMA EndStep ==
    ASSUME PartnerInv, NEW w \in PartnerWorkers, run[w] # Resting,
           NEW st, st # "SUCCEEDED", EndRun(w, st),
           PartnerKeeps, partner' \in [PartnerActionIds -> {"none", "accepted", "rejected", "applied"}],
           UNCHANGED <<acked, recorded, audits>>
    PROVE  PartnerInv'
  <1>1. /\ DOMAIN actionJob' = DOMAIN actionJob
        /\ \A a \in DOMAIN actionJob : actionJob'[a].state = "SUCCEEDED" => actionJob[a].state = "SUCCEEDED"
        /\ run' = [run EXCEPT ![w] = Resting] /\ Resting \in RunRow
    BY EndRunJobs
  <1> QED
    BY <1>1, PartnerWorkerStep

LEMMA RequestSteps ==
    ASSUME PartnerInv, NEW w \in PartnerWorkers,
           \/ Recheck(w)
           \/ \E v \in {"accepted", "rejected"} : Request(w, v)
           \/ \E arrived \in BOOLEAN : RequestTimesOut(w, arrived)
    PROVE  PartnerInv'
  <1> PICK a : a = run[w].action
    OBVIOUS
  <1>1. run[w] # Resting /\ run[w] \in RunRow /\ a \in PartnerActionIds /\ a \in DOMAIN actionJob
    <2>1. run[w] # Resting
      BY DEF Recheck, Request, RequestTimesOut, Resting
    <2> QED
      BY <2>1 DEF PartnerInv, PartnerType, RunRow, RunTrue
  <1>2. UNCHANGED <<acked, recorded, audits>>
    BY DEF Recheck, Request, RequestTimesOut
  <1>3. PICK s \in {"accepted", "rejected", "applied"} :
           UNCHANGED partner \/ (partner[a] = "none" /\ partner' = [partner EXCEPT ![a] = s])
    <2>0. partner = [partner EXCEPT ![a] = partner[a]]
      BY <1>1 DEF PartnerInv, PartnerType
    <2>1. CASE Recheck(w)
      BY <2>1 DEF Recheck
    <2>2. CASE \E v \in {"accepted", "rejected"} : Request(w, v)
      BY <2>0, <2>2 DEF Request
    <2>3. CASE \E arrived \in BOOLEAN : RequestTimesOut(w, arrived)
      BY <2>0, <2>3 DEF RequestTimesOut
    <2> QED
      BY <2>1, <2>2, <2>3
  <1>4. /\ partner' \in [PartnerActionIds -> {"none", "accepted", "rejected", "applied"}]
        /\ \A b \in PartnerActionIds :
              /\ partner[b] = "applied" => partner'[b] = "applied"
              /\ partner[b] \in {"accepted", "applied"} => partner'[b] \in {"accepted", "applied"}
    BY <1>1, <1>3, PartnerMoves
  <1>5. PartnerKeeps
    <2>1. DOMAIN actionJob \subseteq DOMAIN actionJob'
      <3>1. CASE UNCHANGED actionJob
        BY <3>1
      <3>2. ASSUME NEW st, EndRun(w, st)
            PROVE  DOMAIN actionJob \subseteq DOMAIN actionJob'
        BY <1>1, <3>2, EndRunJobs
      <3> QED
        BY <3>1, <3>2 DEF Recheck, Request, RequestTimesOut
    <2> QED
      BY <1>4, <2>1 DEF PartnerKeeps
  <1>6. CASE \E st \in {"DEAD", "PENDING"} : EndRun(w, st)
    BY <1>1, <1>2, <1>4, <1>5, <1>6, EndStep
  <1>7. CASE /\ UNCHANGED actionJob
             /\ \/ run' = [run EXCEPT ![w] = [step |-> "sending", action |-> a]]
                \/ /\ run' = [run EXCEPT ![w] = [step |-> "answered", action |-> a]]
                   /\ partner'[a] \in {"accepted", "applied"}
    <2>1. PICK x : /\ run' = [run EXCEPT ![w] = x]
                   /\ \/ x = [step |-> "sending", action |-> a]
                      \/ x = [step |-> "answered", action |-> a] /\ partner'[a] \in {"accepted", "applied"}
      BY <1>7
    <2>2. /\ x \in RunRow /\ x.action = a
          /\ x.step = "answered" => partner'[a] \in {"accepted", "applied"}
      BY <1>1, <2>1 DEF RunRow
    <2>3. /\ DOMAIN actionJob' = DOMAIN actionJob
          /\ \A b \in DOMAIN actionJob : actionJob'[b].state = "SUCCEEDED" => actionJob[b].state = "SUCCEEDED"
      BY <1>7
    <2> QED
      BY <1>1, <1>2, <1>4, <1>5, <2>1, <2>2, <2>3, PartnerWorkerStep
  <1>8. Recheck(w) => \/ \E st \in {"DEAD", "PENDING"} : EndRun(w, st)
                      \/ UNCHANGED actionJob /\ run' = [run EXCEPT ![w] = [step |-> "sending", action |-> a]]
    BY DEF Recheck
  <1>9. ASSUME NEW v \in {"accepted", "rejected"}, Request(w, v)
        PROVE  \/ \E st \in {"DEAD", "PENDING"} : EndRun(w, st)
               \/ /\ UNCHANGED actionJob /\ run' = [run EXCEPT ![w] = [step |-> "answered", action |-> a]]
                  /\ partner'[a] \in {"accepted", "applied"}
    <2>1. partner'[a] \in {"none", "accepted", "rejected", "applied"} /\ partner'[a] # "none"
      BY <1>1, <1>4, <1>9 DEF Request, PartnerInv, PartnerType
    <2> QED
      BY <2>1, <1>9 DEF Request
  <1>10. ASSUME NEW arrived \in BOOLEAN, RequestTimesOut(w, arrived)
         PROVE  \E st \in {"DEAD", "PENDING"} : EndRun(w, st)
    BY <1>10 DEF RequestTimesOut, Again
  <1> QED
    BY <1>6, <1>7, <1>8, <1>9, <1>10

(* The effect is recorded by the run that saw it and still holds the job. *)
LEMMA FinishStep ==
    ASSUME PartnerInv, NEW w \in PartnerWorkers, Finish(w)
    PROVE  PartnerInv'
  <1> PICK a : a = run[w].action
    OBVIOUS
  <1>1. run[w] # Resting /\ run[w] \in RunRow /\ a \in PartnerActionIds /\ a \in DOMAIN actionJob
    <2>1. run[w] # Resting
      BY DEF Finish, Resting
    <2> QED
      BY <2>1 DEF PartnerInv, PartnerType, RunRow, RunTrue
  <1>2. UNCHANGED <<partner, acked>>
    BY DEF Finish
  <1>3. PartnerKeeps /\ partner' \in [PartnerActionIds -> {"none", "accepted", "rejected", "applied"}]
    <2>1. \E st : EndRun(w, st)
      BY DEF Finish
    <2>2. DOMAIN actionJob' = DOMAIN actionJob
      BY <1>1, <2>1, EndRunJobs
    <2> QED
      BY <1>2, <2>2 DEF PartnerKeeps, PartnerInv, PartnerType
  <1>4. CASE ~EffectSeen(a)
    <2>1. PICK st : st = Again(a)
      OBVIOUS
    <2>2. EndRun(w, st) /\ UNCHANGED <<recorded, audits>> /\ st # "SUCCEEDED"
      BY <1>4, <2>1 DEF Finish, Again
    <2> QED
      BY <1>1, <1>2, <1>3, <2>2, EndStep
  <1>5. CASE EffectSeen(a)
    <2>1. EndRun(w, "SUCCEEDED") /\ partner[a] = "applied"
      BY <1>5 DEF Finish, EffectSeen
    <2>2. /\ DOMAIN actionJob' = DOMAIN actionJob
          /\ \A b \in DOMAIN actionJob :
                actionJob'[b].state # actionJob[b].state => b = a /\ HoldsJob(w)
          /\ run' = [run EXCEPT ![w] = Resting] /\ Resting \in RunRow
      BY <1>1, <2>1, EndRunJobs
    <2>3. run' \in [PartnerWorkers -> RunRow] /\ \A v \in PartnerWorkers : RunTrue(v)'
      BY <1>3, <2>2, RunsKept
    <2>4. /\ recorded' \subseteq PartnerActionIds /\ recorded \subseteq recorded'
          /\ recorded' \subseteq recorded \union {a}
          /\ HoldsJob(w) => a \in recorded'
      BY <1>1, <1>5 DEF Finish, PartnerInv, PartnerType
    <2>5. /\ audits' \in [PartnerActionIds -> Nat]
          /\ \A b \in PartnerActionIds : audits'[b] = IF b \in recorded' THEN 1 ELSE 0
      <3>0. /\ audits \in [PartnerActionIds -> Nat]
            /\ \A b \in PartnerActionIds : audits[b] = IF b \in recorded THEN 1 ELSE 0
        BY DEF PartnerInv, PartnerType, RecordedIsApplied
      <3>1. CASE UNCHANGED <<recorded, audits>>
        BY <3>0, <3>1
      <3>2. CASE /\ a \notin recorded /\ recorded' = recorded \union {a}
                 /\ audits' = [audits EXCEPT ![a] = @ + 1]
        BY <3>0, <3>2, <1>1
      <3> QED
        BY <3>1, <3>2, <1>5 DEF Finish
    <2>6. PartnerType'
      BY <1>2, <1>3, <2>2, <2>3, <2>4, <2>5 DEF PartnerInv, PartnerType
    <2>7. RecordedIsApplied'
      <3> SUFFICES ASSUME NEW b \in PartnerActionIds
                   PROVE  /\ b \in recorded' => partner'[b] = "applied"
                          /\ (b \in DOMAIN actionJob' /\ actionJob'[b].state = "SUCCEEDED") => b \in recorded'
                          /\ b \in acked' => partner'[b] \in {"accepted", "applied"}
        BY <2>5 DEF RecordedIsApplied
      <3>1. /\ b \in recorded => partner[b] = "applied"
            /\ (b \in DOMAIN actionJob /\ actionJob[b].state = "SUCCEEDED") => b \in recorded
            /\ b \in acked => partner[b] \in {"accepted", "applied"}
        BY DEF PartnerInv, RecordedIsApplied
      <3> QED
        BY <3>1, <1>2, <2>1, <2>2, <2>4
    <2> QED
      BY <2>3, <2>6, <2>7 DEF PartnerInv
  <1> QED
    BY <1>4, <1>5

LEMMA PartnerNextInv == PartnerInv /\ [PartnerNext]_partnerVars => PartnerInv'
  <1> SUFFICES ASSUME PartnerInv, [PartnerNext]_partnerVars
               PROVE  PartnerInv'
    OBVIOUS
  <1>1. ASSUME NEW a \in PartnerActionIds,
               EnqueueAction(a) \/ PartnerApplies(a) \/ \E w \in PartnerWorkers : ClaimAction(w, a)
        PROVE  PartnerInv'
    BY <1>1, QueueStep
  <1>2. ASSUME NEW w \in PartnerWorkers, Look(w) \/ KeepAck(w) \/ WorkerDies(w)
        PROVE  PartnerInv'
    BY <1>2, RunStep
  <1>3. ASSUME NEW w \in PartnerWorkers,
               \/ Recheck(w)
               \/ \E v \in {"accepted", "rejected"} : Request(w, v)
               \/ \E arrived \in BOOLEAN : RequestTimesOut(w, arrived)
        PROVE  PartnerInv'
    BY <1>3, RequestSteps
  <1>4. ASSUME NEW w \in PartnerWorkers, Finish(w)
        PROVE  PartnerInv'
    BY <1>4, FinishStep
  <1>5. CASE Withdraw \/ UNCHANGED partnerVars
    <2>1. UNCHANGED <<actionJob, run, partner, acked, recorded, audits>>
      BY <1>5 DEF Withdraw, partnerVars
    <2> QED
      BY <2>1 DEF PartnerInv, PartnerType, RunTrue, RecordedIsApplied
  <1> QED
    BY <1>1, <1>2, <1>3, <1>4, <1>5 DEF PartnerNext

(* Partner actions, for any actions, workers and number of runs: an effect *)
(* is recorded and audited once, only after the partner applied it, and a  *)
(* job that succeeded has its record.                                      *)
THEOREM PartnerRecordedIsApplied ==
    PartnerInit /\ [][PartnerNext]_partnerVars => []RecordedIsApplied
  <1>1. PartnerInv => RecordedIsApplied
    BY DEF PartnerInv
  <1> QED
    BY PartnerInitInv, PartnerNextInv, <1>1, PTL

-----------------------------------------------------------------------------
(* Cases and alerts (ControlMonitor) *)

Findings == {FindingOf[f] : f \in Facts}

IsCase(r) == r = [code |-> r.code, severity |-> r.severity, category |-> r.category, resolvedBy |-> r.resolvedBy]

(* A case's id is its code and a number below the number of cases, so the   *)
(* id of a new case is new.                                                 *)
CasesNumbered ==
    \A c \in DOMAIN cases :
        /\ c = <<cases[c].code, c[2]>>
        /\ c[2] \in Nat /\ c[2] < Cardinality(DOMAIN cases)

Assessed ==
    /\ monitor = [m \in Monitors |-> monitor[m]]
    /\ \A m \in Monitors : monitor[m].findings \subseteq Findings

CaseInv ==
    /\ Assessed
    /\ cases = [c \in DOMAIN cases |-> cases[c]] /\ IsFiniteSet(DOMAIN cases)
    /\ \A c \in DOMAIN cases : IsCase(cases[c])
    /\ CasesNumbered
    /\ \A e \in events : e[2] \in DOMAIN cases
    /\ CasesStand

LEMMA FactsFinite == IsFiniteSet(Facts)
<1>1. IsFiniteSet({"control", "observation", "receiver"})
  <2>1. IsFiniteSet({"control"}) BY FS_Singleton
  <2>2. IsFiniteSet({"control"} \cup {"observation"}) BY <2>1, FS_AddElement
  <2>3. IsFiniteSet(({"control"} \cup {"observation"}) \cup {"receiver"}) BY <2>2, FS_AddElement
  <2>4. ({"control"} \cup {"observation"}) \cup {"receiver"} = {"control", "observation", "receiver"} OBVIOUS
  <2>5. QED BY <2>3, <2>4
<1>2. IsFiniteSet({"bypass", "environment", "pending"})
  <2>1. IsFiniteSet({"bypass"}) BY FS_Singleton
  <2>2. IsFiniteSet({"bypass"} \cup {"environment"}) BY <2>1, FS_AddElement
  <2>3. IsFiniteSet(({"bypass"} \cup {"environment"}) \cup {"pending"}) BY <2>2, FS_AddElement
  <2>4. ({"bypass"} \cup {"environment"}) \cup {"pending"} = {"bypass", "environment", "pending"} OBVIOUS
  <2>5. QED BY <2>3, <2>4
<1>3. IsFiniteSet({"review", "cursor", "cash"})
  <2>1. IsFiniteSet({"review"}) BY FS_Singleton
  <2>2. IsFiniteSet({"review"} \cup {"cursor"}) BY <2>1, FS_AddElement
  <2>3. IsFiniteSet(({"review"} \cup {"cursor"}) \cup {"cash"}) BY <2>2, FS_AddElement
  <2>4. ({"review"} \cup {"cursor"}) \cup {"cash"} = {"review", "cursor", "cash"} OBVIOUS
  <2>5. QED BY <2>3, <2>4
<1>4. IsFiniteSet(({"control", "observation", "receiver"} \cup {"bypass", "environment", "pending"}) \cup {"review", "cursor", "cash"})
  BY <1>1, <1>2, <1>3, FS_Union
<1>5. Facts = ({"control", "observation", "receiver"} \cup {"bypass", "environment", "pending"}) \cup {"review", "cursor", "cash"}
  BY DEF Facts
<1>6. QED BY <1>4, <1>5

LEMMA FindingsFinite == IsFiniteSet(Findings)
<1>4. IsFiniteSet({FindingOf[f] : f \in Facts})
  <2>1. DOMAIN [f \in Facts |-> FindingOf[f]] = Facts OBVIOUS
  <2>2. PICK h : h = [f \in Facts |-> FindingOf[f]] OBVIOUS
  <2>3. h \in [Facts -> Findings] BY <2>2 DEF Findings
  <2>4. {FindingOf[f] : f \in Facts} = {h[f] : f \in Facts} BY <2>2
  <2>5. h \in Surjection(Facts, Findings) BY <2>2, <2>3, <2>4 DEF Findings, Surjection
  <2>6. QED BY <2>5, FactsFinite, FS_Surjection DEF Findings
<1>5. QED BY <1>4 DEF Findings

(* Findings of one code are one finding. *)
LEMMA OneFindingPerCode ==
    ASSUME NEW f \in Findings, NEW g \in Findings, f.code = g.code
    PROVE f = g
BY DEF Findings, FindingOf, Facts, Finding

LEMMA AssessFinds == Assess \subseteq Findings
BY DEF Assess, Findings, Facts, NeedsAgreement

LEMMA NewCaseRow ==
    ASSUME NEW f
    PROVE /\ IsCase(NewCase(f)) /\ NewCase(f).code = f.code /\ NewCase(f).resolvedBy = "nobody"
          /\ NewCase(f).category = f.category
<1>1. PICK severity : severity = IF f.blocks THEN "BLOCKING" ELSE "WARNING" OBVIOUS
<1>2. NewCase(f) = [code |-> f.code, severity |-> severity, category |-> f.category, resolvedBy |-> "nobody"]
  BY <1>1 DEF NewCase
<1>4. QED BY <1>2 DEF IsCase

LEMMA ClosedRow ==
    ASSUME NEW c, IsCase(c), NEW by, NEW row, row = [c EXCEPT !.resolvedBy = by]
    PROVE /\ IsCase(row) /\ row.code = c.code /\ row.category = c.category
          /\ row.severity = c.severity /\ row.resolvedBy = by
BY DEF IsCase

(* The id of a new case is in nobody's use. *)
LEMMA IdsAreNew ==
    ASSUME CasesNumbered, IsFiniteSet(DOMAIN cases), NEW f \in Findings
    PROVE /\ CaseId(f) \notin DOMAIN cases
          /\ \A g \in Findings : CaseId(f) = CaseId(g) => f = g
<1>1. Cardinality(DOMAIN cases) \in Nat BY FS_CardinalityType
<1>2. CaseId(f)[2] = Cardinality(DOMAIN cases) BY DEF CaseId
<1>3. CaseId(f) \notin DOMAIN cases BY <1>1, <1>2 DEF CasesNumbered
<1>4. ASSUME NEW g \in Findings, CaseId(f) = CaseId(g) PROVE f = g
  <2>1. f.code = g.code BY <1>4 DEF CaseId
  <2>2. QED BY <2>1, OneFindingPerCode
<1>5. QED BY <1>3, <1>4

LEMMA CaseInit == MonitorInit => CaseInv
<1>1. SUFFICES ASSUME MonitorInit PROVE CaseInv OBVIOUS
<1>2. DOMAIN cases = {} /\ cases = <<>> BY <1>1 DEF MonitorInit
<1>3. Assessed
  BY <1>1 DEF MonitorInit, Waiting, Assessed
<1>4. IsFiniteSet(DOMAIN cases) BY <1>2, FS_EmptySet
<1>5. cases = [c \in DOMAIN cases |-> cases[c]] BY <1>2
<1>6. events = {} BY <1>1 DEF MonitorInit
<1>7. QED BY <1>2, <1>3, <1>4, <1>5, <1>6 DEF CaseInv, CasesNumbered, CasesStand

(* What record_findings writes: a row for each new finding, the cases whose *)
(* finding is gone closed, every other row as it was.                       *)
LEMMA RowsWritten ==
    ASSUME CaseInv, NEW m \in Monitors, RecordFindings(m),
           NEW fresh, fresh = Unopened(monitor[m].findings, KnownCases(m)),
           NEW closed, closed = Recovered(monitor[m].findings, KnownCases(m))
    PROVE /\ fresh \subseteq Findings /\ closed \subseteq DOMAIN cases
          /\ DOMAIN cases' = DOMAIN cases \cup {CaseId(f) : f \in fresh}
          /\ cases' = [c \in DOMAIN cases' |-> cases'[c]]
          /\ \A f \in fresh : CaseId(f) \notin DOMAIN cases /\ cases'[CaseId(f)] = NewCase(f)
          /\ \A c \in DOMAIN cases : c \notin closed => cases'[c] = cases[c]
          /\ \A c \in closed : cases'[c] = [cases[c] EXCEPT !.resolvedBy = "system"]
<1>1. fresh \subseteq Findings
  <2>1. monitor[m].findings \subseteq Findings BY DEF CaseInv, Assessed
  <2>2. QED BY <2>1 DEF Unopened
<1>2. closed \subseteq DOMAIN cases BY DEF Recovered, KnownCases
<1>3. cases' = [c \in DOMAIN cases \cup {CaseId(f) : f \in fresh} |->
                   IF c \in closed THEN [cases[c] EXCEPT !.resolvedBy = "system"]
                   ELSE IF c \in DOMAIN cases THEN cases[c]
                   ELSE NewCase(CHOOSE f \in fresh : CaseId(f) = c)]
  BY DEF RecordFindings
<1>4. DOMAIN cases' = DOMAIN cases \cup {CaseId(f) : f \in fresh} BY <1>3
<1>5. cases' = [c \in DOMAIN cases' |-> cases'[c]] BY <1>3
<1>6. ASSUME NEW f \in fresh
      PROVE CaseId(f) \notin DOMAIN cases /\ cases'[CaseId(f)] = NewCase(f)
  <2>1. CaseId(f) \notin DOMAIN cases BY <1>1, IdsAreNew DEF CaseInv
  <2>2. cases'[CaseId(f)] = NewCase(CHOOSE g \in fresh : CaseId(g) = CaseId(f)) BY <1>2, <1>3, <2>1
  <2>3. \A g \in fresh : CaseId(g) = CaseId(f) => g = f BY <1>1, IdsAreNew DEF CaseInv
  <2>4. (CHOOSE g \in fresh : CaseId(g) = CaseId(f)) = f BY <2>3
  <2>5. QED BY <2>1, <2>2, <2>4
<1>7. \A c \in DOMAIN cases : c \notin closed => cases'[c] = cases[c] BY <1>3
<1>8. \A c \in closed : cases'[c] = [cases[c] EXCEPT !.resolvedBy = "system"] BY <1>2, <1>3
<1>9. QED BY <1>1, <1>2, <1>4, <1>5, <1>6, <1>7, <1>8

LEMMA RecordStep ==
    ASSUME CaseInv, NEW m \in Monitors, RecordFindings(m)
    PROVE CaseInv'
<1>1. PICK fresh : fresh = Unopened(monitor[m].findings, KnownCases(m)) OBVIOUS
<1>2. PICK closed : closed = Recovered(monitor[m].findings, KnownCases(m)) OBVIOUS
<1>3. /\ fresh \subseteq Findings /\ closed \subseteq DOMAIN cases
      /\ DOMAIN cases' = DOMAIN cases \cup {CaseId(f) : f \in fresh}
      /\ cases' = [c \in DOMAIN cases' |-> cases'[c]]
      /\ \A f \in fresh : CaseId(f) \notin DOMAIN cases /\ cases'[CaseId(f)] = NewCase(f)
      /\ \A c \in DOMAIN cases : c \notin closed => cases'[c] = cases[c]
      /\ \A c \in closed : cases'[c] = [cases[c] EXCEPT !.resolvedBy = "system"]
  BY <1>1, <1>2, RowsWritten
<1>4. events' = events \cup {<<"open", CaseId(f)>> : f \in fresh} \cup {<<"recovered", c>> : c \in closed}
  BY <1>1, <1>2 DEF RecordFindings
<1>5. Assessed'
  BY DEF RecordFindings, CaseInv, Assessed
<1>6. ASSUME NEW c \in closed
      PROVE /\ IsCase(cases'[c]) /\ cases'[c].code = cases[c].code /\ cases'[c].resolvedBy = "system"
            /\ cases'[c].category = "OBSERVABILITY" /\ cases[c].category = "OBSERVABILITY"
  <2>1. IsCase(cases[c]) /\ cases[c].category = "OBSERVABILITY" BY <1>2, <1>3 DEF CaseInv, Recovered
  <2>2. PICK row : row = [cases[c] EXCEPT !.resolvedBy = "system"] OBVIOUS
  <2>3. IsCase(row) /\ row.code = cases[c].code /\ row.category = cases[c].category /\ row.resolvedBy = "system"
    BY <2>1, <2>2, ClosedRow
  <2>4. cases'[c] = row BY <1>3, <2>2
  <2>5. QED BY <2>1, <2>3, <2>4
<1>7. ASSUME NEW f \in fresh
      PROVE /\ CaseId(f) \in DOMAIN cases' /\ CaseId(f) \notin DOMAIN cases
            /\ IsCase(cases'[CaseId(f)]) /\ cases'[CaseId(f)].code = f.code
            /\ cases'[CaseId(f)].resolvedBy = "nobody"
  BY <1>3, NewCaseRow
<1>8. IsFiniteSet(DOMAIN cases') /\ \A f \in fresh : Cardinality(DOMAIN cases) < Cardinality(DOMAIN cases')
  <2>1. IsFiniteSet(fresh) BY <1>3, FindingsFinite, FS_Subset
  <2>2. PICK h : h = [f \in fresh |-> CaseId(f)] OBVIOUS
  <2>3. h \in Surjection(fresh, {CaseId(f) : f \in fresh}) BY <2>2 DEF Surjection
  <2>4. IsFiniteSet({CaseId(f) : f \in fresh}) BY <2>1, <2>3, FS_Surjection
  <2>5. IsFiniteSet(DOMAIN cases')
    <3>1. IsFiniteSet(DOMAIN cases) BY DEF CaseInv
    <3>2. IsFiniteSet(DOMAIN cases \cup {CaseId(f) : f \in fresh}) BY <2>4, <3>1, FS_Union
    <3>3. QED BY <1>3, <3>2
  <2>6. ASSUME NEW f \in fresh PROVE Cardinality(DOMAIN cases) < Cardinality(DOMAIN cases')
    <3>1. DOMAIN cases \subseteq DOMAIN cases' /\ DOMAIN cases # DOMAIN cases' BY <1>3, <1>7
    <3>2. Cardinality(DOMAIN cases) <= Cardinality(DOMAIN cases') BY <2>5, <3>1, FS_Subset
    <3>3. Cardinality(DOMAIN cases) # Cardinality(DOMAIN cases') BY <2>5, <3>1, FS_Subset
    <3>4. Cardinality(DOMAIN cases) \in Nat /\ Cardinality(DOMAIN cases') \in Nat
      BY <2>5, FS_CardinalityType DEF CaseInv
    <3>5. QED BY <3>2, <3>3, <3>4
  <2>7. QED BY <2>5, <2>6
<1>9. \A c \in DOMAIN cases' : IsCase(cases'[c])
  BY <1>3, <1>6, <1>7 DEF CaseInv
<1>10. CasesNumbered'
  <2>1. SUFFICES ASSUME NEW c \in DOMAIN cases'
                 PROVE /\ c = <<cases'[c].code, c[2]>>
                       /\ c[2] \in Nat /\ c[2] < Cardinality(DOMAIN cases')
    BY DEF CasesNumbered
  <2>2. Cardinality(DOMAIN cases) \in Nat /\ Cardinality(DOMAIN cases') \in Nat
        /\ Cardinality(DOMAIN cases) <= Cardinality(DOMAIN cases')
    BY <1>3, <1>8, FS_CardinalityType, FS_Subset DEF CaseInv
  <2>3. CASE c \in DOMAIN cases
    <3>1. cases'[c].code = cases[c].code BY <1>3, <1>6, <2>3
    <3>2. /\ c = <<cases[c].code, c[2]>>
          /\ c[2] \in Nat /\ c[2] < Cardinality(DOMAIN cases)
      BY <2>3 DEF CaseInv, CasesNumbered
    <3>3. QED BY <2>2, <3>1, <3>2
  <2>4. CASE c \notin DOMAIN cases
    <3>1. PICK f \in fresh : c = CaseId(f) BY <1>3, <2>4
    <3>2. cases'[c].code = f.code BY <1>7, <3>1
    <3>3. c = <<f.code, Cardinality(DOMAIN cases)>> BY <3>1 DEF CaseId
    <3>4. Cardinality(DOMAIN cases) < Cardinality(DOMAIN cases') BY <1>8, <3>1
    <3>5. QED BY <2>2, <3>2, <3>3, <3>4
  <2>5. QED BY <2>3, <2>4
<1>11. \A e \in events' : e[2] \in DOMAIN cases'
  <2>1. SUFFICES ASSUME NEW e \in events' PROVE e[2] \in DOMAIN cases' OBVIOUS
  <2>2. CASE e \in events BY <1>3, <2>2 DEF CaseInv
  <2>3. CASE \E f \in fresh : e = <<"open", CaseId(f)>> BY <1>3, <2>3
  <2>4. CASE \E c \in closed : e = <<"recovered", c>> BY <1>3, <2>4
  <2>5. QED BY <1>4, <2>2, <2>3, <2>4
<1>12. CasesStand'
  <2>1. ASSUME NEW c \in DOMAIN cases, cases'[c].resolvedBy = "nobody"
        PROVE Open(c) /\ cases'[c].code = cases[c].code /\ c \notin closed
    <3>1. c \notin closed BY <1>6, <2>1
    <3>2. QED BY <1>3, <2>1, <3>1 DEF Open
  <2>2. ASSUME NEW c \in DOMAIN cases, NEW f \in fresh, Open(c)
        PROVE cases[c].code # f.code
    BY <1>1, <2>2 DEF Unopened, KnownCases
  <2>3. ASSUME NEW c \in DOMAIN cases', NEW d \in DOMAIN cases',
               cases'[c].resolvedBy = "nobody", cases'[d].resolvedBy = "nobody",
               cases'[c].code = cases'[d].code
        PROVE c = d
    <3>1. CASE c \in DOMAIN cases /\ d \in DOMAIN cases BY <2>1, <2>3, <3>1 DEF CaseInv, CasesStand
    <3>2. CASE c \in DOMAIN cases /\ d \notin DOMAIN cases
      <4>1. PICK f \in fresh : d = CaseId(f) BY <1>3, <3>2
      <4>2. QED BY <1>7, <2>1, <2>2, <2>3, <3>2, <4>1
    <3>3. CASE c \notin DOMAIN cases /\ d \in DOMAIN cases
      <4>1. PICK f \in fresh : c = CaseId(f) BY <1>3, <3>3
      <4>2. QED BY <1>7, <2>1, <2>2, <2>3, <3>3, <4>1
    <3>4. CASE c \notin DOMAIN cases /\ d \notin DOMAIN cases
      <4>1. PICK f \in fresh : c = CaseId(f) BY <1>3, <3>4
      <4>2. PICK g \in fresh : d = CaseId(g) BY <1>3, <3>4
      <4>3. f = g BY <1>3, <1>7, <2>3, <4>1, <4>2, OneFindingPerCode
      <4>4. QED BY <4>1, <4>2, <4>3
    <3>5. QED BY <3>1, <3>2, <3>3, <3>4
  <2>4. ASSUME NEW c \in DOMAIN cases'
        PROVE /\ <<"open", c>> \in events'
              /\ cases'[c].resolvedBy = "system" => cases'[c].category = "OBSERVABILITY"
              /\ cases'[c].resolvedBy = "system" <=> <<"recovered", c>> \in events'
    <3>1. CASE c \in closed
      <4>1. <<"open", c>> \in events BY <1>3, <3>1 DEF CaseInv, CasesStand
      <4>2. QED BY <1>4, <1>6, <3>1, <4>1
    <3>2. CASE c \in DOMAIN cases /\ c \notin closed
      <4>1. /\ <<"open", c>> \in events
            /\ cases[c].resolvedBy = "system" => cases[c].category = "OBSERVABILITY"
            /\ cases[c].resolvedBy = "system" <=> <<"recovered", c>> \in events
        BY <3>2 DEF CaseInv, CasesStand
      <4>2. <<"recovered", c>> \in events' <=> <<"recovered", c>> \in events BY <1>4, <3>2
      <4>3. QED BY <1>3, <1>4, <3>2, <4>1, <4>2
    <3>3. CASE c \notin DOMAIN cases
      <4>1. PICK f \in fresh : c = CaseId(f) BY <1>3, <3>3
      <4>2. cases'[c].resolvedBy = "nobody" BY <1>7, <4>1
      <4>3. <<"open", c>> \in events' BY <1>4, <4>1
      <4>4. <<"recovered", c>> \notin events
        <5>1. <<"recovered", c>>[2] = c OBVIOUS
        <5>2. QED BY <3>3, <5>1 DEF CaseInv
      <4>5. <<"recovered", c>> \notin events' BY <1>3, <1>4, <3>3, <4>4
      <4>6. QED BY <4>2, <4>3, <4>5
    <3>4. QED BY <3>1, <3>2, <3>3
  <2>5. QED BY <2>3, <2>4 DEF CasesStand, Open
<1>13. QED BY <1>3, <1>5, <1>8, <1>9, <1>10, <1>11, <1>12 DEF CaseInv

LEMMA ResolveStep ==
    ASSUME CaseInv, NEW c \in DOMAIN cases, ReviewerResolves(c)
    PROVE CaseInv'
<1>1. /\ cases' = [cases EXCEPT ![c].resolvedBy = "operator"] /\ cases[c].resolvedBy = "nobody"
      /\ UNCHANGED <<monitor, events>>
  BY DEF ReviewerResolves, Open
<1>2. cases = [d \in DOMAIN cases |-> cases[d]] /\ IsCase(cases[c]) BY DEF CaseInv
<1>3. PICK row : row = [cases[c] EXCEPT !.resolvedBy = "operator"] OBVIOUS
<1>4. IsCase(row) /\ row.code = cases[c].code /\ row.category = cases[c].category /\ row.resolvedBy = "operator"
  BY <1>2, <1>3, ClosedRow
<1>5. /\ DOMAIN cases' = DOMAIN cases /\ cases'[c] = row
      /\ \A d \in DOMAIN cases : d # c => cases'[d] = cases[d]
      /\ cases' = [d \in DOMAIN cases' |-> cases'[d]]
  BY <1>1, <1>2, <1>3
<1>6. \A d \in DOMAIN cases :
        /\ cases'[d].code = cases[d].code /\ IsCase(cases'[d]) /\ cases'[d].category = cases[d].category
        /\ cases'[d].resolvedBy = "nobody" => cases[d].resolvedBy = "nobody"
        /\ cases'[d].resolvedBy = "system" <=> cases[d].resolvedBy = "system"
  BY <1>1, <1>4, <1>5 DEF CaseInv
<1>7. CasesNumbered' BY <1>5, <1>6 DEF CaseInv, CasesNumbered
<1>8. CasesStand'
  <2>1. \A d, e \in DOMAIN cases : cases'[d].resolvedBy = "nobody" /\ cases'[e].resolvedBy = "nobody"
                                    /\ cases'[d].code = cases'[e].code => d = e
    BY <1>6 DEF CaseInv, CasesStand, Open
  <2>2. QED BY <1>1, <1>5, <1>6, <2>1 DEF CaseInv, CasesStand, Open
<1>9. Assessed' BY <1>1 DEF CaseInv, Assessed
<1>10. QED BY <1>1, <1>5, <1>6, <1>7, <1>8, <1>9 DEF CaseInv

LEMMA RestOfCases ==
    ASSUME CaseInv, UNCHANGED <<cases, events>>,
           Assessed'
    PROVE CaseInv'
<1>1. cases' = cases /\ events' = events OBVIOUS
<1>2. CasesNumbered' BY <1>1 DEF CaseInv, CasesNumbered
<1>3. CasesStand' BY <1>1 DEF CaseInv, CasesStand, Open
<1>4. QED BY <1>1, <1>2, <1>3 DEF CaseInv

LEMMA CaseStep ==
    ASSUME CaseInv, [MonitorNext]_monitorVars
    PROVE CaseInv'
<1>1. ASSUME NEW m \in Monitors, RunMonitor(m) PROVE CaseInv'
  <2>1. PICK seenNow \in SUBSET Findings : seenNow = IF settled THEN {} ELSE Assess
    <3>1. Assess \in SUBSET Findings /\ {} \in SUBSET Findings BY AssessFinds
    <3>2. CASE settled BY <3>1, <3>2
    <3>3. CASE ~settled BY <3>1, <3>3
    <3>4. QED BY <3>2, <3>3
  <2>2. Assessed'
    BY <1>1, <2>1 DEF RunMonitor, CaseInv, Assessed
  <2>3. QED BY <1>1, <2>2, RestOfCases DEF RunMonitor
<1>2. ASSUME NEW m \in Monitors, RecordFindings(m) PROVE CaseInv' BY <1>2, RecordStep
<1>3. ASSUME NEW m \in Monitors, WatchIndexer(m) PROVE CaseInv'
  BY <1>3, RestOfCases DEF WatchIndexer, CaseInv, Waiting, Assessed
<1>4. ASSUME NEW m \in Monitors, NEW restart \in BOOLEAN, MonitorFails(m, restart) PROVE CaseInv'
  BY <1>4, RestOfCases DEF MonitorFails, CaseInv, Waiting, Assessed
<1>5. ASSUME NEW c \in DOMAIN cases, ReviewerResolves(c) PROVE CaseInv' BY <1>5, ResolveStep
<1>6. CASE WorldChanges BY <1>6, RestOfCases DEF WorldChanges, CaseInv, Assessed
<1>7. CASE TimePasses BY <1>7, RestOfCases DEF TimePasses, CaseInv, Assessed
<1>8. CASE UNCHANGED monitorVars BY <1>8, RestOfCases DEF monitorVars, CaseInv, Assessed
<1>9. QED BY <1>1, <1>2, <1>3, <1>4, <1>5, <1>6, <1>7, <1>8 DEF MonitorNext

AlertInv ==
    /\ ticks \in Nat /\ saw \in [Monitors -> {"none", "stale", "fresh"}] /\ lastSent \in [Monitors -> Int]
    /\ StaleIsTold

LEMMA AlertStep ==
    ASSUME AlertInv, [MonitorNext]_monitorVars
    PROVE AlertInv'
<1>1. ASSUME NEW m \in Monitors, WatchIndexer(m) PROVE AlertInv'
  <2>1. CASE "cursor" \in world
    <3>1. saw' = [saw EXCEPT ![m] = "stale"] BY <1>1, <2>1 DEF WatchIndexer
    <3>2. lastSent' = [lastSent EXCEPT ![m] = IF @ # Never /\ ticks - @ < RepeatAfter THEN @ ELSE ticks]
      BY <1>1, <2>1 DEF WatchIndexer, Alert
    <3>3. lastSent' \in [Monitors -> Int] /\ lastSent'[m] # Never
          /\ \A n \in Monitors : n # m => lastSent'[n] = lastSent[n]
      <4>1. CASE lastSent[m] # Never /\ ticks - lastSent[m] < RepeatAfter
        BY <3>2, <4>1 DEF AlertInv
      <4>2. CASE ~(lastSent[m] # Never /\ ticks - lastSent[m] < RepeatAfter)
        BY <3>2, <4>2 DEF AlertInv, Never
      <4>3. QED BY <4>1, <4>2
    <3>4. ticks' = ticks BY <1>1 DEF WatchIndexer
    <3>5. QED BY <3>1, <3>3, <3>4 DEF AlertInv, StaleIsTold
  <2>2. CASE "cursor" \notin world
    <3>1. saw' = [saw EXCEPT ![m] = "fresh"] BY <1>1, <2>2 DEF WatchIndexer
    <3>2. lastSent' = [lastSent EXCEPT ![m] = Never] BY <1>1, <2>2 DEF WatchIndexer, Alert
    <3>3. ticks' = ticks BY <1>1 DEF WatchIndexer
    <3>4. QED BY <3>1, <3>2, <3>3 DEF AlertInv, StaleIsTold, Never
  <2>3. QED BY <2>1, <2>2
<1>2. ASSUME NEW m \in Monitors, NEW restart \in BOOLEAN, MonitorFails(m, restart) PROVE AlertInv'
  <2>1. CASE restart
    <3>1. saw' = [saw EXCEPT ![m] = "none"] /\ lastSent' = [lastSent EXCEPT ![m] = Never] /\ ticks' = ticks
      BY <1>2, <2>1 DEF MonitorFails
    <3>2. QED BY <3>1 DEF AlertInv, StaleIsTold, Never
  <2>2. CASE ~restart
    <3>1. UNCHANGED <<saw, lastSent, ticks>> BY <1>2, <2>2 DEF MonitorFails
    <3>2. QED BY <3>1 DEF AlertInv, StaleIsTold
  <2>3. QED BY <2>1, <2>2
<1>3. CASE TimePasses BY <1>3 DEF TimePasses, AlertInv, StaleIsTold
<1>4. ASSUME UNCHANGED <<saw, lastSent, ticks>> PROVE AlertInv' BY <1>4 DEF AlertInv, StaleIsTold
<1>5. QED BY <1>1, <1>2, <1>3, <1>4 DEF MonitorNext, RunMonitor, RecordFindings, ReviewerResolves, WorldChanges, monitorVars

(* However many monitors run over one facility, and whatever fails, a       *)
(* finding has one open case at most, each opening and recovery is          *)
(* announced, a breach waits for a reviewer and an alert is out exactly     *)
(* while the indexer was last seen stale (record_findings, watch_indexer).  *)
THEOREM CasesAlwaysKept == MonitorInit /\ [][MonitorNext]_monitorVars => []CasesKept
<1>1. MonitorInit => CaseInv BY CaseInit
<1>2. CaseInv /\ [MonitorNext]_monitorVars => CaseInv' BY CaseStep
<1>3. MonitorInit => AlertInv BY DEF MonitorInit, AlertInv, StaleIsTold, Never
<1>4. AlertInv /\ [MonitorNext]_monitorVars => AlertInv' BY AlertStep
<1>5. CaseInv /\ AlertInv => CasesKept BY DEF CaseInv, AlertInv, CasesKept
<1>6. QED BY <1>1, <1>2, <1>3, <1>4, <1>5, PTL

-----------------------------------------------------------------------------
(* Sessions, commands and listings (ApiAccess) *)

LoggingInSteps == {"taken", "roles", "epochs"}
ActingSteps == {"principal", "action", "deciding", "listing"}

(* A nonce is in one place: waiting as a challenge, taken by one request,   *)
(* or spent on one session.                                                 *)
NonceTaken(q) == q.nonce \in 1..dealt /\ q.nonce \notin DOMAIN challenges /\ \A s \in sessions : s.nonce # q.nonce

NoncesApart ==
    /\ dealt \in Nat /\ DOMAIN challenges \subseteq 1..dealt
    /\ \A x \in Replicas : request[x].step \in LoggingInSteps => NonceTaken(request[x])
    /\ \A x, y \in Replicas : request[x].step \in LoggingInSteps /\ request[y].step \in LoggingInSteps
                                /\ request[x].nonce = request[y].nonce => x = y
    /\ \A s \in sessions : s.nonce \in 1..dealt /\ s.nonce \notin DOMAIN challenges
    /\ SessionPerChallenge

(* What a token carries is no newer than the registry it was issued under,  *)
(* and a role a request has been checked for had not moved since then.      *)
EpochsRead(q) ==
    /\ q = [step |-> "epochs", wallet |-> q.wallet, nonce |-> q.nonce, roles |-> q.roles,
            borrower |-> q.borrower, epochs |-> q.epochs]
    /\ q.roles \subseteq StaffRoles /\ DOMAIN q.epochs \subseteq q.roles
    /\ \A r \in DOMAIN q.epochs : q.epochs[r] \in Nat /\ q.epochs[r] <= roleEpoch[r]

TokenHolds(s) ==
    /\ s.wallet \in Wallets
    /\ \A r \in s.roles : /\ r \in StaffRoles
                          /\ s.epochs[r] \in Nat /\ s.atIssue[r] \in Nat /\ s.epochs[r] <= s.atIssue[r]

SinceHolds(q) == \A r \in StaffRoles : q.since[r] \in Nat /\ q.since[r] <= roleEpoch[r]

Checking(q) ==
    /\ q = [step |-> "checking", token |-> q.token, checked |-> q.checked, since |-> q.since]
    /\ q.token \in sessions /\ SinceHolds(q)
    /\ q.checked \subseteq q.token.roles
    /\ \A r \in q.checked : q.since[r] <= q.token.atIssue[r]

Checked(q) == q.token \in sessions /\ \A r \in q.token.roles : q.since[r] <= q.token.atIssue[r]

EpochRow(q) ==
    /\ q.step \in LoggingInSteps => q.wallet \in Wallets
    /\ q.step = "roles" => q.roles \subseteq StaffRoles
    /\ q.step = "epochs" => EpochsRead(q)
    /\ q.step = "checking" => Checking(q)
    /\ q.step \in ActingSteps => Checked(q)

EpochInv ==
    /\ roleEpoch \in [StaffRoles -> Nat] /\ held \in [Wallets -> SUBSET StaffRoles]
    /\ request = [x \in Replicas |-> request[x]]
    /\ \A s \in sessions : TokenHolds(s)
    /\ \A x \in Replicas : EpochRow(request[x])

(* The registry's epochs and the sessions only grow. *)
RegistryGrows ==
    /\ roleEpoch' \in [StaffRoles -> Nat] /\ held' \in [Wallets -> SUBSET StaffRoles]
    /\ \A r \in StaffRoles : roleEpoch[r] <= roleEpoch'[r]
    /\ sessions \subseteq sessions' /\ \A s \in sessions' : TokenHolds(s)

LEMMA RowsStand ==
    ASSUME EpochInv, RegistryGrows, NEW q, EpochRow(q)
    PROVE EpochRow(q)'
<1>1. roleEpoch \in [StaffRoles -> Nat] /\ roleEpoch' \in [StaffRoles -> Nat] BY DEF EpochInv, RegistryGrows
<1>2. \A n \in Nat, r \in StaffRoles : n <= roleEpoch[r] => n <= roleEpoch'[r]
  BY <1>1 DEF RegistryGrows
<1>3. sessions \subseteq sessions' BY DEF RegistryGrows
<1>4. SinceHolds(q) => SinceHolds(q)' BY <1>2 DEF SinceHolds
<1>5. (q.step = "checking" => Checking(q)') /\ (q.step \in ActingSteps => Checked(q)')
  BY <1>3, <1>4 DEF EpochRow, Checking, Checked
<1>6. ASSUME EpochsRead(q), DOMAIN q.epochs \subseteq StaffRoles PROVE EpochsRead(q)'
  BY <1>2, <1>6 DEF EpochsRead
<1>7. q.step = "epochs" => EpochsRead(q)' BY <1>6 DEF EpochRow, EpochsRead
<1>8. QED BY <1>5, <1>7 DEF EpochRow

LEMMA RequestMoves ==
    ASSUME EpochInv, RegistryGrows, NEW x \in Replicas, NEW q, Goto(x, q), EpochRow(q)'
    PROVE EpochInv'
<1>1. request' = [request EXCEPT ![x] = q] /\ request = [y \in Replicas |-> request[y]] BY DEF Goto, EpochInv
<1>2. \A y \in Replicas : request'[y] = IF y = x THEN q ELSE request[y] BY <1>1
<1>3. ASSUME NEW y \in Replicas PROVE EpochRow(request[y])' 
  <2>1. CASE y = x BY <1>2, <2>1
  <2>2. CASE y # x
    <3>1. PICK p : p = request[y] OBVIOUS
    <3>2. EpochRow(p)' BY <3>1, RowsStand DEF EpochInv
    <3>3. request'[y] = p BY <1>2, <2>2, <3>1
    <3>4. QED BY <3>2, <3>3
  <2>3. QED BY <2>1, <2>2
<1>4. request' = [y \in Replicas |-> request'[y]] BY <1>1
<1>5. QED BY <1>3, <1>4 DEF EpochInv, RegistryGrows, TokenHolds

LEMMA RequestsStay ==
    ASSUME EpochInv, RegistryGrows, UNCHANGED request
    PROVE EpochInv'
<1>1. ASSUME NEW y \in Replicas PROVE EpochRow(request[y])'
  <2>1. PICK p : p = request[y] OBVIOUS
  <2>2. EpochRow(p)' BY <2>1, RowsStand DEF EpochInv
  <2>3. QED BY <2>1, <2>2
<1>2. QED BY <1>1 DEF EpochInv, RegistryGrows, TokenHolds

LEMMA RegistryStays ==
    ASSUME EpochInv, UNCHANGED <<roleEpoch, held, sessions>>
    PROVE RegistryGrows
BY DEF EpochInv, RegistryGrows

LEMMA IdleRow == EpochRow(IdleRequest)'
BY DEF EpochRow, IdleRequest, LoggingInSteps, ActingSteps

LEMMA TakeEpoch ==
    ASSUME EpochInv, NEW x \in Replicas, NEW n, NEW w \in Wallets, NEW ok, TakeChallenge(x, n, w, ok)
    PROVE EpochInv'
<1>1. RegistryGrows BY RegistryStays DEF TakeChallenge, registryVars
<1>2. PICK q : q = [step |-> "taken", wallet |-> w, nonce |-> n] OBVIOUS
<1>3. EpochRow(q)' BY <1>2 DEF EpochRow, LoggingInSteps, ActingSteps
<1>4. CASE UNCHANGED request BY <1>1, <1>4, RequestsStay
<1>5. CASE Goto(x, q) BY <1>1, <1>3, <1>5, RequestMoves
<1>6. QED BY <1>2, <1>4, <1>5 DEF TakeChallenge

LEMMA LoginRolesEpoch ==
    ASSUME EpochInv, NEW x \in Replicas, LoginRoles(x)
    PROVE EpochInv'
<1>1. RegistryGrows BY RegistryStays DEF LoginRoles, registryVars
<1>2. request[x].wallet \in Wallets BY DEF LoginRoles, EpochInv, EpochRow, LoggingInSteps
<1>3. held[request[x].wallet] \subseteq StaffRoles BY <1>2 DEF EpochInv
<1>4. PICK q : q = [step |-> "roles", wallet |-> request[x].wallet, nonce |-> request[x].nonce,
                    roles |-> RolesOf(request[x].wallet)] OBVIOUS
<1>5. EpochRow(q)' BY <1>2, <1>3, <1>4 DEF EpochRow, LoggingInSteps, ActingSteps, RolesOf
<1>6. Goto(x, q) BY <1>4 DEF LoginRoles
<1>7. QED BY <1>1, <1>5, <1>6, RequestMoves

LEMMA LoginLinkEpoch ==
    ASSUME EpochInv, NEW x \in Replicas, LoginLink(x)
    PROVE EpochInv'
<1>1. RegistryGrows BY RegistryStays DEF LoginLink, registryVars
<1>2. request[x].wallet \in Wallets /\ request[x].roles \subseteq StaffRoles
  BY DEF LoginLink, EpochInv, EpochRow, LoggingInSteps
<1>3. PICK q : q = [step |-> "epochs", wallet |-> request[x].wallet, nonce |-> request[x].nonce,
                    roles |-> request[x].roles, borrower |-> BorrowerOf(request[x].wallet), epochs |-> <<>>] OBVIOUS
<1>4. /\ q.step = "epochs" /\ q.wallet = request[x].wallet /\ q.roles = request[x].roles /\ q.epochs = <<>>
      /\ q = [step |-> "epochs", wallet |-> q.wallet, nonce |-> q.nonce, roles |-> q.roles,
              borrower |-> q.borrower, epochs |-> q.epochs]
  BY <1>3
<1>5. DOMAIN q.epochs = {} BY <1>4
<1>6. EpochRow(q)' BY <1>2, <1>4, <1>5 DEF EpochRow, LoggingInSteps, ActingSteps, EpochsRead
<1>7. Goto(x, q) BY <1>3 DEF LoginLink
<1>8. QED BY <1>1, <1>6, <1>7, RequestMoves

LEMMA LoginEpochEpoch ==
    ASSUME EpochInv, NEW x \in Replicas, NEW r \in StaffRoles, LoginEpoch(x, r)
    PROVE EpochInv'
<1>1. RegistryGrows BY RegistryStays DEF LoginEpoch, registryVars
<1>2. PICK was : was = request[x] OBVIOUS
<1>3. was.wallet \in Wallets /\ EpochsRead(was) BY <1>2 DEF LoginEpoch, EpochInv, EpochRow, LoggingInSteps
<1>4. PICK read : read = [p \in DOMAIN was.epochs \cup {r} |-> IF p = r THEN roleEpoch[r] ELSE was.epochs[p]] OBVIOUS
<1>5. PICK q : q = [was EXCEPT !.epochs = read] OBVIOUS
<1>6. Goto(x, q) BY <1>2, <1>4, <1>5 DEF LoginEpoch
<1>7. /\ q.step = "epochs" /\ q.wallet = was.wallet /\ q.roles = was.roles /\ q.epochs = read
      /\ q = [step |-> "epochs", wallet |-> q.wallet, nonce |-> q.nonce, roles |-> q.roles,
              borrower |-> q.borrower, epochs |-> q.epochs]
  BY <1>3, <1>5 DEF EpochsRead
<1>8. r \in was.roles BY <1>2 DEF LoginEpoch
<1>9. \A p \in DOMAIN read : p \in was.roles /\ read[p] \in Nat /\ read[p] <= roleEpoch[p]
  <2>1. roleEpoch[r] \in Nat BY DEF EpochInv
  <2>2. SUFFICES ASSUME NEW p \in DOMAIN read PROVE p \in was.roles /\ read[p] \in Nat /\ read[p] <= roleEpoch[p] OBVIOUS
  <2>3. CASE p = r BY <1>4, <1>8, <2>1, <2>3
  <2>4. CASE p # r
    <3>1. p \in DOMAIN was.epochs /\ read[p] = was.epochs[p] BY <1>4, <2>4
    <3>2. QED BY <1>3, <3>1 DEF EpochsRead
  <2>5. QED BY <2>3, <2>4
<1>10. roleEpoch' = roleEpoch BY DEF LoginEpoch, registryVars
<1>11. EpochsRead(q)' BY <1>3, <1>7, <1>9, <1>10 DEF EpochsRead
<1>12. EpochRow(q)' BY <1>3, <1>7, <1>11 DEF EpochRow, ActingSteps
<1>13. QED BY <1>1, <1>6, <1>12, RequestMoves

(* A token is issued on epochs that were read before: what it carries is at *)
(* most what the registry holds then.                                       *)
LEMMA IssueEpoch ==
    ASSUME EpochInv, NEW x \in Replicas, IssueSession(x)
    PROVE EpochInv'
<1>1. PICK s : s = SessionOf(x) OBVIOUS
<1>2. s.wallet = request[x].wallet /\ s.roles = request[x].roles /\ s.epochs = request[x].epochs /\ s.atIssue = roleEpoch
  BY <1>1 DEF SessionOf
<1>3. request[x].wallet \in Wallets /\ EpochsRead(request[x]) BY DEF IssueSession, EpochInv, EpochRow, LoggingInSteps
<1>4. DOMAIN request[x].epochs = request[x].roles BY DEF IssueSession
<1>5. TokenHolds(s)
  <2>1. roleEpoch \in [StaffRoles -> Nat] BY DEF EpochInv
  <2>2. QED BY <1>2, <1>3, <1>4, <2>1 DEF TokenHolds, EpochsRead
<1>6. sessions' = sessions \cup {s} BY <1>1 DEF IssueSession
<1>7. RegistryGrows BY <1>5, <1>6 DEF IssueSession, registryVars, EpochInv, RegistryGrows
<1>8. Goto(x, IdleRequest) BY DEF IssueSession
<1>9. QED BY <1>7, <1>8, IdleRow, RequestMoves

LEMMA PresentEpoch ==
    ASSUME EpochInv, NEW x \in Replicas, NEW s \in sessions, Present(x, s)
    PROVE EpochInv'
<1>1. RegistryGrows BY RegistryStays DEF Present, registryVars
<1>2. PICK q : q = [step |-> "checking", token |-> s, checked |-> {}, since |-> roleEpoch] OBVIOUS
<1>3. UNCHANGED <<roleEpoch, sessions>> BY DEF Present, registryVars
<1>4. SinceHolds(q)' BY <1>2, <1>3 DEF SinceHolds, EpochInv
<1>5. Checking(q)' BY <1>2, <1>3, <1>4 DEF Checking
<1>6. EpochRow(q)' BY <1>2, <1>5 DEF EpochRow, LoggingInSteps, ActingSteps
<1>7. CASE UNCHANGED request BY <1>1, <1>7, RequestsStay
<1>8. CASE Goto(x, q) BY <1>1, <1>6, <1>8, RequestMoves
<1>9. QED BY <1>2, <1>7, <1>8 DEF Present

(* A role whose epoch still is the token's has not moved since the token    *)
(* was issued: nor had it when the request came in.                         *)
LEMMA CheckEpochEpoch ==
    ASSUME EpochInv, NEW x \in Replicas, NEW r \in StaffRoles, CheckEpoch(x, r)
    PROVE EpochInv'
<1>1. RegistryGrows BY RegistryStays DEF CheckEpoch, registryVars
<1>2. CASE ~EpochHolds(x, r)
  <2>1. Goto(x, IdleRequest) BY <1>2 DEF CheckEpoch
  <2>2. QED BY <1>1, <2>1, IdleRow, RequestMoves
<1>3. CASE EpochHolds(x, r)
  <2>1. PICK was : was = request[x] OBVIOUS
  <2>2. Checking(was) /\ r \in was.token.roles BY <2>1 DEF CheckEpoch, EpochInv, EpochRow
  <2>3. PICK q : q = [was EXCEPT !.checked = @ \cup {r}] OBVIOUS
  <2>4. Goto(x, q) BY <1>3, <2>1, <2>3 DEF CheckEpoch
  <2>5. /\ q.step = "checking" /\ q.token = was.token /\ q.since = was.since /\ q.checked = was.checked \cup {r}
        /\ q = [step |-> "checking", token |-> q.token, checked |-> q.checked, since |-> q.since]
    BY <2>2, <2>3 DEF Checking
  <2>6. was.since[r] <= was.token.atIssue[r]
    <3>1. TokenHolds(was.token) BY <2>2 DEF Checking, EpochInv
    <3>2. was.since[r] \in Nat /\ was.since[r] <= roleEpoch[r] BY <2>2 DEF Checking, SinceHolds
    <3>3. roleEpoch[r] = was.token.epochs[r] BY <1>3, <2>1 DEF EpochHolds
    <3>4. was.token.epochs[r] \in Nat /\ was.token.atIssue[r] \in Nat /\ was.token.epochs[r] <= was.token.atIssue[r]
      BY <2>2, <3>1 DEF TokenHolds
    <3>5. QED BY <3>2, <3>3, <3>4
  <2>7. UNCHANGED <<roleEpoch, sessions>> BY DEF CheckEpoch, registryVars
  <2>8. SinceHolds(q)' BY <2>2, <2>5, <2>7 DEF Checking, SinceHolds
  <2>9. Checking(q)' BY <2>2, <2>5, <2>6, <2>7, <2>8 DEF Checking
  <2>10. EpochRow(q)' BY <2>5, <2>9 DEF EpochRow, LoggingInSteps, ActingSteps
  <2>11. QED BY <1>1, <2>4, <2>10, RequestMoves
<1>4. QED BY <1>2, <1>3

LEMMA CheckLinkEpoch ==
    ASSUME EpochInv, NEW x \in Replicas, CheckLink(x)
    PROVE EpochInv'
<1>1. RegistryGrows BY RegistryStays DEF CheckLink, registryVars
<1>2. CASE Goto(x, IdleRequest) BY <1>1, <1>2, IdleRow, RequestMoves
<1>3. CASE Goto(x, Principal(x))
  <2>1. PICK q : q = Principal(x) OBVIOUS
  <2>2. q.step = "principal" /\ q.token = request[x].token /\ q.since = request[x].since BY <2>1 DEF Principal
  <2>3. Checking(request[x]) /\ request[x].checked = request[x].token.roles BY DEF CheckLink, EpochInv, EpochRow
  <2>4. sessions' = sessions BY DEF CheckLink
  <2>5. EpochRow(q)' BY <2>2, <2>3, <2>4 DEF EpochRow, LoggingInSteps, ActingSteps, Checking, Checked
  <2>6. QED BY <1>1, <1>3, <2>1, <2>5, RequestMoves
<1>4. QED BY <1>2, <1>3 DEF CheckLink

(* A request that goes on as it was admitted keeps its token. *)
LEMMA ActingMoves ==
    ASSUME EpochInv, UNCHANGED <<roleEpoch, held, sessions>>, NEW x \in Replicas, request[x].step \in ActingSteps,
           NEW q, Goto(x, q), q.step \in ActingSteps, q.token = request[x].token, q.since = request[x].since
    PROVE EpochInv'
<1>1. RegistryGrows BY RegistryStays
<1>2. Checked(request[x]) BY DEF EpochInv, EpochRow
<1>3. Checked(q)' BY <1>2 DEF Checked
<1>4. EpochRow(q)' BY <1>3 DEF EpochRow, LoggingInSteps, ActingSteps
<1>5. QED BY <1>1, <1>4, RequestMoves

LEMMA EndsEpoch ==
    ASSUME EpochInv, UNCHANGED <<roleEpoch, held, sessions>>, NEW x \in Replicas, Goto(x, IdleRequest)
    PROVE EpochInv'
BY RegistryStays, IdleRow, RequestMoves

LEMMA ActsEpoch ==
    ASSUME EpochInv, NEW x \in Replicas
    PROVE /\ \A k, a, v : OpenAction(x, k, a, v) => EpochInv'
          /\ LockCase(x) => EpochInv'
          /\ ListPage(x) => EpochInv'
          /\ NextPage(x) /\ request[x] = [step |-> "listing", token |-> request[x].token, since |-> request[x].since,
                                          borrower |-> request[x].borrower, seen |-> request[x].seen] => EpochInv'
<1>1. ASSUME NEW k, NEW a, NEW v, OpenAction(x, k, a, v) PROVE EpochInv'
  <2>1. PICK q : q = [step |-> "action", token |-> request[x].token, since |-> request[x].since,
                      borrower |-> request[x].borrower, key |-> k, act |-> a, expected |-> v] OBVIOUS
  <2>2. Goto(x, q) /\ request[x].step = "principal" /\ UNCHANGED <<roleEpoch, held, sessions>>
    BY <1>1, <2>1 DEF OpenAction, Unlocked, registryVars
  <2>3. q.step = "action" /\ q.token = request[x].token /\ q.since = request[x].since BY <2>1
  <2>4. QED BY <2>2, <2>3, ActingMoves DEF ActingSteps
<1>2. ASSUME LockCase(x) PROVE EpochInv'
  <2>1. PICK q : q = [step |-> "deciding", token |-> request[x].token, since |-> request[x].since,
                      borrower |-> request[x].borrower, key |-> request[x].key, act |-> request[x].act,
                      expected |-> request[x].expected, read |-> review] OBVIOUS
  <2>2. Goto(x, q) /\ request[x].step = "action" /\ UNCHANGED <<roleEpoch, held, sessions>>
    BY <1>2, <2>1 DEF LockCase, registryVars
  <2>3. q.step = "deciding" /\ q.token = request[x].token /\ q.since = request[x].since BY <2>1
  <2>4. QED BY <2>2, <2>3, ActingMoves DEF ActingSteps
<1>3. ASSUME ListPage(x) PROVE EpochInv'
  <2>1. PICK q : q = [step |-> "listing", token |-> request[x].token, since |-> request[x].since,
                      borrower |-> request[x].borrower, seen |-> Page(<<0, 0>>)] OBVIOUS
  <2>2. Goto(x, q) /\ request[x].step = "principal" /\ UNCHANGED <<roleEpoch, held, sessions>>
    BY <1>3, <2>1 DEF ListPage, registryVars
  <2>3. q.step = "listing" /\ q.token = request[x].token /\ q.since = request[x].since BY <2>1
  <2>4. QED BY <2>2, <2>3, ActingMoves DEF ActingSteps
<1>4. ASSUME NextPage(x), request[x] = [step |-> "listing", token |-> request[x].token, since |-> request[x].since,
                                         borrower |-> request[x].borrower, seen |-> request[x].seen]
      PROVE EpochInv'
  <2>1. PICK last \in request[x].seen :
            Goto(x, IF Page(last) = {} THEN IdleRequest ELSE [request[x] EXCEPT !.seen = @ \cup Page(last)])
    BY <1>4 DEF NextPage
  <2>2. UNCHANGED <<roleEpoch, held, sessions>> BY <1>4 DEF NextPage, registryVars
  <2>3. CASE Page(last) = {} BY <2>1, <2>2, <2>3, EndsEpoch
  <2>4. CASE Page(last) # {}
    <3>1. PICK q : q = [request[x] EXCEPT !.seen = @ \cup Page(last)] OBVIOUS
    <3>2. q.step = "listing" /\ q.token = request[x].token /\ q.since = request[x].since BY <1>4, <3>1
    <3>3. Goto(x, q) BY <2>1, <2>4, <3>1
    <3>4. request[x].step = "listing" BY <1>4
    <3>5. QED BY <2>2, <3>2, <3>3, <3>4, ActingMoves DEF ActingSteps
  <2>5. QED BY <2>3, <2>4
<1>5. QED BY <1>1, <1>2, <1>3, <1>4


-----------------------------------------------------------------------------
(* Nonces *)

LEMMA NonceMoves ==
    ASSUME NoncesApart, request = [y \in Replicas |-> request[y]], UNCHANGED <<challenges, dealt, sessions>>,
           NEW x \in Replicas, NEW q, Goto(x, q),
           q.step \in LoggingInSteps => request[x].step \in LoggingInSteps /\ q.nonce = request[x].nonce
    PROVE NoncesApart'
<1>1. \A y \in Replicas : request'[y] = IF y = x THEN q ELSE request[y] BY DEF Goto
<1>2. \A y \in Replicas : request'[y].step \in LoggingInSteps =>
          request[y].step \in LoggingInSteps /\ request'[y].nonce = request[y].nonce
  BY <1>1
<1>3. \A y \in Replicas : request'[y].step \in LoggingInSteps => NonceTaken(request[y])'
  BY <1>2 DEF NoncesApart, NonceTaken
<1>4. \A y, z \in Replicas : request'[y].step \in LoggingInSteps /\ request'[z].step \in LoggingInSteps
                                /\ request'[y].nonce = request'[z].nonce => y = z
  BY <1>2 DEF NoncesApart
<1>5. QED BY <1>3, <1>4 DEF NoncesApart, SessionPerChallenge

LEMMA NonceStays ==
    ASSUME NoncesApart, UNCHANGED <<challenges, dealt, sessions, request>>
    PROVE NoncesApart'
BY DEF NoncesApart, NonceTaken, SessionPerChallenge

(* A new nonce is one nobody has. *)
LEMMA PutNonce ==
    ASSUME NoncesApart, NEW w, PutChallenge(w)
    PROVE NoncesApart'
<1>1. dealt \in Nat /\ dealt' = dealt + 1 /\ UNCHANGED <<sessions, request>> BY DEF NoncesApart, PutChallenge
<1>2. DOMAIN challenges' \subseteq DOMAIN challenges \cup {dealt + 1} BY DEF PutChallenge, Unexpired
<1>3. 1..dealt \subseteq 1..dealt' /\ dealt + 1 \in 1..dealt' /\ dealt + 1 \notin 1..dealt /\ dealt' \in Nat BY <1>1
<1>4. DOMAIN challenges' \subseteq 1..dealt' BY <1>2, <1>3 DEF NoncesApart
<1>5. \A n \in 1..dealt : n \notin DOMAIN challenges => n \notin DOMAIN challenges' BY <1>2, <1>3
<1>6. \A x \in Replicas : request'[x].step \in LoggingInSteps => NonceTaken(request[x])'
  BY <1>1, <1>3, <1>5 DEF NoncesApart, NonceTaken
<1>7. \A s \in sessions' : s.nonce \in 1..dealt' /\ s.nonce \notin DOMAIN challenges'
  BY <1>1, <1>3, <1>5 DEF NoncesApart
<1>8. QED BY <1>1, <1>3, <1>4, <1>6, <1>7 DEF NoncesApart, SessionPerChallenge

(* Whoever takes a challenge has its nonce alone. *)
LEMMA TakeNonce ==
    ASSUME NoncesApart, request = [y \in Replicas |-> request[y]],
           NEW x \in Replicas, NEW n, NEW w, NEW ok, TakeChallenge(x, n, w, ok)
    PROVE NoncesApart'
<1>1. n \in DOMAIN challenges /\ UNCHANGED <<dealt, sessions>> BY DEF TakeChallenge
<1>2. DOMAIN challenges' = DOMAIN challenges \ {n} BY DEF TakeChallenge, Without
<1>3. n \in 1..dealt /\ (\A s \in sessions : s.nonce # n)
      /\ \A y \in Replicas : request[y].step \in LoggingInSteps => request[y].nonce # n
  BY <1>1 DEF NoncesApart, NonceTaken
<1>4. PICK q : q = [step |-> "taken", wallet |-> w, nonce |-> n] OBVIOUS
<1>5. q.step = "taken" /\ q.nonce = n BY <1>4
<1>6. \A y \in Replicas : request'[y] = request[y] \/ (y = x /\ request'[y] = q)
  BY <1>4 DEF TakeChallenge, Goto
<1>7. ASSUME NEW y \in Replicas, request'[y].step \in LoggingInSteps PROVE NonceTaken(request[y])'
  <2>1. CASE request'[y] = request[y] BY <1>1, <1>2, <1>7, <2>1 DEF NoncesApart, NonceTaken
  <2>2. CASE request'[y] = q BY <1>1, <1>2, <1>3, <1>5, <2>2 DEF NonceTaken
  <2>3. QED BY <1>6, <2>1, <2>2
<1>8. ASSUME NEW y \in Replicas, NEW z \in Replicas, request'[y].step \in LoggingInSteps,
             request'[z].step \in LoggingInSteps, request'[y].nonce = request'[z].nonce
      PROVE y = z
  <2>1. CASE request'[y] = request[y] /\ request'[z] = request[z] BY <1>8, <2>1 DEF NoncesApart
  <2>2. CASE request'[y] = request[y] /\ z = x /\ request'[z] = q BY <1>3, <1>5, <1>8, <2>2
  <2>3. CASE request'[z] = request[z] /\ y = x /\ request'[y] = q BY <1>3, <1>5, <1>8, <2>3
  <2>4. CASE y = x /\ z = x BY <2>4
  <2>5. QED BY <1>6, <2>1, <2>2, <2>3, <2>4
<1>9. QED BY <1>1, <1>2, <1>7, <1>8 DEF NoncesApart, SessionPerChallenge

LEMMA IssueNonce ==
    ASSUME NoncesApart, request = [y \in Replicas |-> request[y]], NEW x \in Replicas, IssueSession(x)
    PROVE NoncesApart'
<1>1. PICK s : s = SessionOf(x) OBVIOUS
<1>2. s.nonce = request[x].nonce BY <1>1 DEF SessionOf
<1>3. sessions' = sessions \cup {s} /\ UNCHANGED <<challenges, dealt>> BY <1>1 DEF IssueSession
<1>4. request[x].step \in LoggingInSteps BY DEF IssueSession, LoggingInSteps
<1>5. NonceTaken(request[x]) BY <1>4 DEF NoncesApart
<1>6. IdleRequest.step \notin LoggingInSteps BY DEF IdleRequest, LoggingInSteps
<1>7. \A y \in Replicas : request'[y] = IF y = x THEN IdleRequest ELSE request[y] BY DEF IssueSession, Goto
<1>8. \A y \in Replicas : request'[y].step \in LoggingInSteps => y # x /\ request'[y] = request[y]
  BY <1>6, <1>7
<1>9. ASSUME NEW y \in Replicas, request'[y].step \in LoggingInSteps PROVE NonceTaken(request[y])'
  <2>1. y # x /\ request'[y] = request[y] BY <1>8, <1>9
  <2>2. NonceTaken(request[y]) /\ request[y].nonce # request[x].nonce BY <1>4, <1>9, <2>1 DEF NoncesApart
  <2>3. QED BY <1>2, <1>3, <2>1, <2>2 DEF NonceTaken
<1>10. \A y, z \in Replicas : request'[y].step \in LoggingInSteps /\ request'[z].step \in LoggingInSteps
                                /\ request'[y].nonce = request'[z].nonce => y = z
  BY <1>8 DEF NoncesApart
<1>11. \A t \in sessions' : t.nonce \in 1..dealt' /\ t.nonce \notin DOMAIN challenges'
  BY <1>2, <1>3, <1>5 DEF NoncesApart, NonceTaken
<1>12. SessionPerChallenge'
  BY <1>2, <1>3, <1>5 DEF NoncesApart, NonceTaken, SessionPerChallenge
<1>13. QED BY <1>3, <1>9, <1>10, <1>11, <1>12 DEF NoncesApart

-----------------------------------------------------------------------------
(* Listings *)

ListShape(q) ==
    q = [step |-> "listing", token |-> q.token, since |-> q.since, borrower |-> q.borrower, seen |-> q.seen]

ListRow(q) ==
    q.step = "listing" =>
        /\ ListShape(q)
        /\ \A k \in q.seen : k \in {0, 1} \X Rows /\ (k[1] = 0 => k[2] \in imported)
        /\ \A k, j \in q.seen : k[2] = j[2] => k = j

ListInv ==
    /\ imported \subseteq Rows
    /\ \A x \in Replicas : ListRow(request[x])

LEMMA HistoryRows ==
    ASSUME imported \subseteq Rows, NEW k \in History
    PROVE k \in {0, 1} \X Rows /\ (k[1] = 0 <=> k[2] \in imported)
BY DEF History, Covered

LEMMA PageRows == \A last : \A k \in Page(last) : k \in History /\ Before(last, k)
BY DEF Page

(* Rows only move from the projection to the ledger, that is to before what *)
(* was already listed: what comes after the last row is new.                *)
LEMMA NextRows ==
    ASSUME ListInv, NEW q, ListRow(q), q.step = "listing", NEW last \in q.seen,
           \A k \in q.seen : ~Before(last, k),
           NEW k \in q.seen, NEW j \in Page(last), k[2] = j[2]
    PROVE k = j
<1>1. j \in History /\ Before(last, j) BY PageRows
<1>2. j \in {0, 1} \X Rows /\ (j[1] = 0 <=> j[2] \in imported) BY <1>1, HistoryRows DEF ListInv
<1>3. k \in {0, 1} \X Rows /\ (k[1] = 0 => k[2] \in imported) /\ ~Before(last, k) BY DEF ListRow
<1>4. last \in {0, 1} \X Rows BY DEF ListRow
<1>5. k[1] = j[1]
  <2>1. CASE k[1] = 0 BY <1>2, <1>3, <2>1
  <2>2. CASE k[1] = 1 /\ j[1] = 0
    <3>1. last[1] = 0 BY <1>1, <1>4, <2>2 DEF Before
    <3>2. Before(last, k) BY <2>2, <3>1 DEF Before
    <3>3. QED BY <1>3, <3>2
  <2>3. QED BY <1>2, <1>3, <2>1, <2>2
<1>6. QED BY <1>2, <1>3, <1>5

LEMMA ListMoves ==
    ASSUME ListInv, request = [y \in Replicas |-> request[y]], UNCHANGED imported,
           NEW x \in Replicas, NEW q, Goto(x, q), ListRow(q)
    PROVE ListInv'
<1>1. \A y \in Replicas : request'[y] = IF y = x THEN q ELSE request[y] BY DEF Goto
<1>2. ASSUME NEW y \in Replicas PROVE ListRow(request[y])'
  <2>1. ListRow(request'[y]) BY <1>1 DEF ListInv
  <2>2. QED BY <2>1 DEF ListRow
<1>3. QED BY <1>2 DEF ListInv

LEMMA ListStays ==
    ASSUME ListInv, imported \subseteq imported', imported' \subseteq Rows, UNCHANGED request
    PROVE ListInv'
<1>1. ASSUME NEW y \in Replicas PROVE ListRow(request[y])'
  <2>1. ListRow(request[y]) BY DEF ListInv
  <2>2. QED BY <2>1 DEF ListRow
<1>2. QED BY <1>1 DEF ListInv

LEMMA ListPageStep ==
    ASSUME ListInv, request = [y \in Replicas |-> request[y]], NEW x \in Replicas, ListPage(x)
    PROVE ListInv'
<1>1. PICK q : q = [step |-> "listing", token |-> request[x].token, since |-> request[x].since,
                    borrower |-> request[x].borrower, seen |-> Page(<<0, 0>>)] OBVIOUS
<1>2. Goto(x, q) /\ UNCHANGED imported BY <1>1 DEF ListPage
<1>3. q.seen = Page(<<0, 0>>) /\ ListShape(q) BY <1>1 DEF ListShape
<1>4. \A k \in q.seen : k \in {0, 1} \X Rows /\ (k[1] = 0 <=> k[2] \in imported)
  BY <1>3, PageRows, HistoryRows DEF ListInv
<1>5. \A k, j \in q.seen : k[2] = j[2] => k = j BY <1>4
<1>6. ListRow(q) BY <1>3, <1>4, <1>5 DEF ListRow
<1>7. QED BY <1>2, <1>6, ListMoves

LEMMA IdleListRow == ListRow(IdleRequest)
BY DEF ListRow, IdleRequest

LEMMA NextPageStep ==
    ASSUME ListInv, request = [y \in Replicas |-> request[y]], NEW x \in Replicas, NextPage(x)
    PROVE ListInv'
<1>1. PICK last \in request[x].seen :
          /\ \A k \in request[x].seen : ~Before(last, k)
          /\ Goto(x, IF Page(last) = {} THEN IdleRequest ELSE [request[x] EXCEPT !.seen = @ \cup Page(last)])
  BY DEF NextPage
<1>2. request[x].step = "listing" /\ UNCHANGED imported BY DEF NextPage
<1>3. CASE Page(last) = {} BY <1>1, <1>2, <1>3, IdleListRow, ListMoves
<1>4. CASE Page(last) # {}
  <2>1. PICK was : was = request[x] OBVIOUS
  <2>2. was.step = "listing" /\ ListRow(was) /\ ListShape(was) BY <1>2, <2>1 DEF ListInv, ListRow
  <2>3. PICK q : q = [was EXCEPT !.seen = @ \cup Page(last)] OBVIOUS
  <2>4. q.seen = was.seen \cup Page(last) /\ ListShape(q) BY <2>2, <2>3 DEF ListShape
  <2>5. \A j \in Page(last) : j \in {0, 1} \X Rows /\ (j[1] = 0 <=> j[2] \in imported)
    BY PageRows, HistoryRows DEF ListInv
  <2>6. \A k \in was.seen, j \in Page(last) : k[2] = j[2] => k = j BY <1>1, <2>1, <2>2, NextRows
  <2>7. \A k, j \in Page(last) : k[2] = j[2] => k = j BY <2>5
  <2>8. \A k, j \in was.seen : k[2] = j[2] => k = j BY <2>2 DEF ListRow
  <2>9. \A k \in was.seen : k \in {0, 1} \X Rows /\ (k[1] = 0 => k[2] \in imported) BY <2>2 DEF ListRow
  <2>10. \A k, j \in q.seen : k[2] = j[2] => k = j BY <2>4, <2>6, <2>7, <2>8
  <2>11. ListRow(q) BY <2>4, <2>5, <2>9, <2>10 DEF ListRow
  <2>12. Goto(x, q) BY <1>1, <1>4, <2>1, <2>3
  <2>13. QED BY <1>2, <2>11, <2>12, ListMoves
<1>5. QED BY <1>3, <1>4


-----------------------------------------------------------------------------
(* Commands *)

OperationSteps == {"action", "deciding"}

(* A request that acts on a case holds its wallet's lock and has a key that *)
(* is still unused; one that decides holds the case, which is as it read.   *)
LockRow(x, q) ==
    /\ q.step \in OperationSteps =>
        /\ walletLock[q.token.wallet] = x
        /\ <<q.token.wallet, "operations", q.key>> \notin DOMAIN command
    /\ q.step = "deciding" => caseLock = x /\ q.read = review

LocksHeld ==
    /\ walletLock = [w \in Wallets |-> walletLock[w]]
    /\ \A x \in Replicas : LockRow(x, request[x])

EffectsSound ==
    /\ borrowers \in Nat /\ review.version \in Nat
    /\ review = [version |-> review.version, state |-> review.state, resolved |-> review.resolved,
                 blocking |-> review.blocking]
    /\ \A e \in effects :
        /\ e.row \in DOMAIN command
        /\ e.kind = "borrower" => e.on \in Nat /\ e.on <= borrowers
        /\ e.kind = "review" => e.on \in Nat /\ e.on < review.version
    /\ EffectsOnce

LEMMA LocksMove ==
    ASSUME LocksHeld, request = [y \in Replicas |-> request[y]], UNCHANGED <<walletLock, caseLock, command, review>>,
           NEW x \in Replicas, NEW q, Goto(x, q), q.step \notin OperationSteps
    PROVE LocksHeld'
<1>1. \A y \in Replicas : request'[y] = IF y = x THEN q ELSE request[y] BY DEF Goto
<1>2. ASSUME NEW y \in Replicas PROVE LockRow(y, request[y])'
  <2>1. LockRow(y, request'[y]) BY <1>1 DEF LocksHeld, LockRow, OperationSteps
  <2>2. QED BY <2>1 DEF LockRow
<1>3. QED BY <1>2 DEF LocksHeld

LEMMA LocksStay ==
    ASSUME LocksHeld, UNCHANGED <<walletLock, caseLock, command, review, request>>
    PROVE LocksHeld'
<1>1. ASSUME NEW y \in Replicas PROVE LockRow(y, request[y])'
  <2>1. LockRow(y, request[y]) BY DEF LocksHeld
  <2>2. QED BY <2>1 DEF LockRow
<1>2. QED BY <1>1 DEF LocksHeld

LEMMA EffectsStay ==
    ASSUME EffectsSound, UNCHANGED <<borrowers, review, effects, command>>
    PROVE EffectsSound'
BY DEF EffectsSound, EffectsOnce

(* A command that is recorded at once is of a wallet nobody holds. *)
LEMMA LocksRecord ==
    ASSUME LocksHeld, request = [y \in Replicas |-> request[y]], UNCHANGED <<walletLock, caseLock, review>>,
           NEW x \in Replicas, NEW route, route # "operations", NEW key, NEW body,
           RecordCommand(x, route, key, body), Goto(x, IdleRequest)
    PROVE LocksHeld'
<1>1. \A y \in Replicas : request'[y] = IF y = x THEN IdleRequest ELSE request[y] BY DEF Goto
<1>2. PICK row : row = CommandRow(x, route, key) OBVIOUS
<1>3. DOMAIN command' = DOMAIN command \cup {row} BY <1>2 DEF RecordCommand
<1>4. row[2] = route BY <1>2 DEF CommandRow
<1>5. \A w, k : <<w, "operations", k>> # row
  <2>1. \A w, k : <<w, "operations", k>>[2] = "operations" OBVIOUS
  <2>2. QED BY <1>4, <2>1
<1>6. ASSUME NEW y \in Replicas PROVE LockRow(y, request[y])'
  <2>1. CASE y = x BY <1>1, <2>1 DEF LockRow, IdleRequest, OperationSteps
  <2>2. CASE y # x
    <3>1. LockRow(y, request[y]) /\ request'[y] = request[y] BY <1>1, <2>2 DEF LocksHeld
    <3>2. QED BY <1>3, <1>5, <3>1 DEF LockRow
  <2>3. QED BY <2>1, <2>2
<1>7. QED BY <1>6 DEF LocksHeld

(* A new effect has a new key, and is decided on something new of its kind. *)
LEMMA EffectAdded ==
    ASSUME EffectsSound, NEW e, effects' = effects \cup {e}, e.row \notin DOMAIN command,
           DOMAIN command' = DOMAIN command \cup {e.row},
           \A f \in effects : f.kind = e.kind => f.on # e.on,
           borrowers' \in Nat, borrowers <= borrowers', review'.version \in Nat,
           review.version <= review'.version,
           review' = [version |-> review'.version, state |-> review'.state, resolved |-> review'.resolved,
                      blocking |-> review'.blocking],
           e.kind = "borrower" => e.on \in Nat /\ e.on <= borrowers',
           e.kind = "review" => e.on \in Nat /\ e.on < review'.version
    PROVE EffectsSound'
<1>1. borrowers \in Nat /\ review.version \in Nat BY DEF EffectsSound
<1>2. ASSUME NEW f \in effects
      PROVE /\ f.row \in DOMAIN command' /\ f.row # e.row
            /\ f.kind = "borrower" => f.on \in Nat /\ f.on <= borrowers'
            /\ f.kind = "review" => f.on \in Nat /\ f.on < review'.version
  BY <1>1 DEF EffectsSound
<1>3. EffectsOnce'
  <2>1. \A f, g \in effects : f # g => f.row # g.row /\ (f.kind = g.kind => f.on # g.on)
    BY DEF EffectsSound, EffectsOnce
  <2>2. QED BY <1>2, <2>1 DEF EffectsOnce
<1>4. QED BY <1>2, <1>3 DEF EffectsSound

LEMMA CommandAdded ==
    ASSUME EffectsSound, NEW row, DOMAIN command' = DOMAIN command \cup {row}, UNCHANGED <<borrowers, review, effects>>
    PROVE EffectsSound'
BY DEF EffectsSound, EffectsOnce

LEMMA OnboardStep ==
    ASSUME EffectsSound, LocksHeld, request = [y \in Replicas |-> request[y]],
           NEW x \in Replicas, NEW key, NEW body, Onboard(x, key, body)
    PROVE EffectsSound' /\ LocksHeld'
<1>1. LocksHeld' BY LocksRecord DEF Onboard
<1>2. PICK row : row = CommandRow(x, "onboarding", key) OBVIOUS
<1>3. row \notin DOMAIN command /\ DOMAIN command' = DOMAIN command \cup {row} /\ UNCHANGED review
  BY <1>2 DEF Onboard, Fresh, RecordCommand
<1>4. CASE linked[WalletOf(x)] # NoBorrower
  <2>1. UNCHANGED <<borrowers, effects>> BY <1>4 DEF Onboard
  <2>2. QED BY <1>1, <1>3, <2>1, CommandAdded
<1>5. CASE linked[WalletOf(x)] = NoBorrower
  <2>1. PICK e : e = [kind |-> "borrower", row |-> row, replica |-> x, on |-> borrowers + 1] OBVIOUS
  <2>2. effects' = effects \cup {e} /\ borrowers' = borrowers + 1 BY <1>2, <1>5, <2>1 DEF Onboard, Effect
  <2>3. e.kind = "borrower" /\ e.row = row /\ e.on = borrowers + 1 BY <2>1
  <2>4. borrowers \in Nat /\ borrowers' \in Nat /\ borrowers <= borrowers' /\ review.version <= review.version
    BY <2>2 DEF EffectsSound
  <2>5. \A f \in effects : f.kind = e.kind => f.on # e.on BY <2>3, <2>4 DEF EffectsSound
  <2>6. e.on \in Nat /\ e.on <= borrowers' BY <2>2, <2>3, <2>4
  <2>7. /\ review'.version \in Nat /\ review.version <= review'.version
        /\ review' = [version |-> review'.version, state |-> review'.state, resolved |-> review'.resolved,
                      blocking |-> review'.blocking]
    BY <1>3, <2>4 DEF EffectsSound
  <2>8. EffectsSound' BY <1>3, <2>2, <2>3, <2>4, <2>5, <2>6, <2>7, EffectAdded
  <2>9. QED BY <1>1, <2>8
<1>6. QED BY <1>4, <1>5

LEMMA ConnectStep ==
    ASSUME EffectsSound, LocksHeld, request = [y \in Replicas |-> request[y]],
           NEW x \in Replicas, NEW key, NEW body, Connect(x, key, body)
    PROVE EffectsSound' /\ LocksHeld'
<1>1. LocksHeld' BY LocksRecord DEF Connect
<1>2. PICK row : row = CommandRow(x, "connections", key) OBVIOUS
<1>3. row \notin DOMAIN command /\ DOMAIN command' = DOMAIN command \cup {row} /\ UNCHANGED <<review, borrowers>>
  BY <1>2 DEF Connect, Fresh, RecordCommand, registryVars
<1>4. PICK on : on = <<request[x].borrower, body>> OBVIOUS
<1>5. CASE \E e \in effects : e.kind = "application" /\ e.on = on
  <2>1. UNCHANGED effects BY <1>4, <1>5 DEF Connect
  <2>2. QED BY <1>1, <1>3, <2>1, CommandAdded
<1>6. CASE ~\E e \in effects : e.kind = "application" /\ e.on = on
  <2>1. PICK e : e = [kind |-> "application", row |-> row, replica |-> x, on |-> on] OBVIOUS
  <2>2. effects' = effects \cup {e} BY <1>2, <1>4, <1>6, <2>1 DEF Connect, Effect
  <2>3. e.kind = "application" /\ e.row = row /\ e.on = on BY <2>1
  <2>4. borrowers' \in Nat /\ borrowers <= borrowers' BY <1>3 DEF EffectsSound
  <2>5. /\ review'.version \in Nat /\ review.version <= review'.version
        /\ review' = [version |-> review'.version, state |-> review'.state, resolved |-> review'.resolved,
                      blocking |-> review'.blocking]
    BY <1>3 DEF EffectsSound
  <2>6. \A f \in effects : f.kind = e.kind => f.on # e.on BY <1>6, <2>3
  <2>7. EffectsSound' BY <1>3, <2>2, <2>3, <2>4, <2>5, <2>6, EffectAdded
  <2>8. QED BY <1>1, <2>7
<1>7. QED BY <1>5, <1>6

LEMMA OpenActionStep ==
    ASSUME LocksHeld, request = [y \in Replicas |-> request[y]],
           NEW x \in Replicas, NEW key, NEW act, NEW expected, OpenAction(x, key, act, expected),
           request[x].token.wallet \in Wallets
    PROVE LocksHeld'
<1>1. PICK w \in Wallets : w = request[x].token.wallet OBVIOUS
<1>2. walletLock[w] = NoReplica /\ walletLock' = [walletLock EXCEPT ![w] = x] /\ UNCHANGED <<caseLock, command, review>>
  BY <1>1 DEF OpenAction, Unlocked, WalletOf
<1>3. <<w, "operations", key>> \notin DOMAIN command BY <1>1 DEF OpenAction, Fresh, CommandRow, WalletOf
<1>4. PICK q : q = [step |-> "action", token |-> request[x].token, since |-> request[x].since,
                    borrower |-> request[x].borrower, key |-> key, act |-> act, expected |-> expected] OBVIOUS
<1>5. q.step = "action" /\ q.token = request[x].token /\ q.key = key BY <1>4
<1>6. \A y \in Replicas : request'[y] = IF y = x THEN q ELSE request[y] BY <1>4 DEF OpenAction, Goto
<1>7. walletLock'[w] = x /\ (\A v : v # w => walletLock'[v] = walletLock[v])
      /\ walletLock' = [v \in Wallets |-> walletLock'[v]]
  BY <1>2 DEF LocksHeld
<1>8. ASSUME NEW y \in Replicas PROVE LockRow(y, request[y])'
  <2>1. CASE y = x BY <1>1, <1>2, <1>3, <1>5, <1>6, <1>7, <2>1 DEF LockRow
  <2>2. CASE y # x
    <3>1. LockRow(y, request[y]) /\ request'[y] = request[y] BY <1>6, <2>2 DEF LocksHeld
    <3>2. request[y].step \in OperationSteps => request[y].token.wallet # w
      BY <1>2, <3>1, AccessConstants DEF LockRow
    <3>3. QED BY <1>2, <1>7, <3>1, <3>2 DEF LockRow
  <2>3. QED BY <2>1, <2>2
<1>9. QED BY <1>7, <1>8 DEF LocksHeld

LEMMA LockCaseStep ==
    ASSUME LocksHeld, request = [y \in Replicas |-> request[y]], NEW x \in Replicas, LockCase(x)
    PROVE LocksHeld'
<1>1. PICK q : q = [step |-> "deciding", token |-> request[x].token, since |-> request[x].since,
                    borrower |-> request[x].borrower, key |-> request[x].key, act |-> request[x].act,
                    expected |-> request[x].expected, read |-> review] OBVIOUS
<1>2. q.step = "deciding" /\ q.token = request[x].token /\ q.key = request[x].key /\ q.read = review BY <1>1
<1>3. caseLock = NoReplica /\ caseLock' = x /\ request[x].step = "action" /\ UNCHANGED <<walletLock, command, review>>
  BY DEF LockCase, CaseFree
<1>4. \A y \in Replicas : request'[y] = IF y = x THEN q ELSE request[y] BY <1>1 DEF LockCase, Goto
<1>5. ASSUME NEW y \in Replicas PROVE LockRow(y, request[y])'
  <2>1. LockRow(y, request[y]) BY DEF LocksHeld
  <2>2. CASE y = x BY <1>2, <1>3, <1>4, <2>1, <2>2 DEF LockRow, OperationSteps
  <2>3. CASE y # x
    <3>1. request'[y] = request[y] BY <1>4, <2>3
    <3>2. request[y].step # "deciding" BY <1>3, <2>1, AccessConstants DEF LockRow
    <3>3. QED BY <1>3, <2>1, <3>1, <3>2 DEF LockRow
  <2>4. QED BY <2>2, <2>3
<1>6. QED BY <1>3, <1>5 DEF LocksHeld

(* The decision is taken on the case as it stands and under a key nobody    *)
(* used in between; other requests hold other wallets, and not the case.    *)
LEMMA DecideStep ==
    ASSUME EffectsSound, LocksHeld, request = [y \in Replicas |-> request[y]], NEW x \in Replicas, Decide(x),
           request[x].token.wallet \in Wallets
    PROVE EffectsSound' /\ LocksHeld'
<1>1. PICK w \in Wallets : w = request[x].token.wallet OBVIOUS
<1>2. PICK key : key = request[x].key OBVIOUS
<1>3. /\ request[x].step = "deciding" /\ walletLock[w] = x /\ caseLock = x /\ request[x].read = review
      /\ <<w, "operations", key>> \notin DOMAIN command
  BY <1>1, <1>2 DEF Decide, LocksHeld, LockRow, OperationSteps
<1>4. PICK row : row = <<w, "operations", key>> OBVIOUS
<1>5. CommandRow(x, "operations", key) = row BY <1>1, <1>4 DEF CommandRow, WalletOf
<1>6. walletLock' = [walletLock EXCEPT ![w] = NoReplica] /\ caseLock' = NoReplica /\ UNCHANGED borrowers
  BY <1>1 DEF Decide, WalletOf, registryVars
<1>7. \A y \in Replicas : request'[y] = IF y = x THEN IdleRequest ELSE request[y] BY DEF Decide, Goto
<1>8. DOMAIN command' \subseteq DOMAIN command \cup {row}
  BY <1>2, <1>5 DEF Decide, RecordCommand
<1>9. LocksHeld'
  <2>1. (\A v : v # w => walletLock'[v] = walletLock[v]) /\ walletLock' = [v \in Wallets |-> walletLock'[v]]
    BY <1>6 DEF LocksHeld
  <2>2. ASSUME NEW y \in Replicas PROVE LockRow(y, request[y])'
    <3>1. CASE y = x BY <1>7, <3>1 DEF LockRow, IdleRequest, OperationSteps
    <3>2. CASE y # x
      <4>1. LockRow(y, request[y]) /\ request'[y] = request[y] BY <1>7, <3>2 DEF LocksHeld
      <4>2. request[y].step # "deciding" BY <1>3, <3>2, <4>1 DEF LockRow
      <4>3. request[y].step \in OperationSteps => request[y].token.wallet # w BY <1>3, <3>2, <4>1 DEF LockRow
      <4>4. request[y].step \in OperationSteps => <<request[y].token.wallet, "operations", request[y].key>> # row
        BY <1>4, <4>3
      <4>5. QED BY <1>8, <2>1, <4>1, <4>2, <4>3, <4>4 DEF LockRow
    <3>3. QED BY <3>1, <3>2
  <2>3. QED BY <2>1, <2>2 DEF LocksHeld
<1>10. CASE ~Decidable(x)
  <2>1. UNCHANGED <<review, effects, command>> BY <1>10 DEF Decide
  <2>2. QED BY <1>6, <1>9, <2>1, EffectsStay
<1>11. CASE Decidable(x)
  <2>1. PICK e : e = [kind |-> "review", row |-> row, replica |-> x, on |-> review.version] OBVIOUS
  <2>2. effects' = effects \cup {e} BY <1>2, <1>3, <1>5, <1>11, <2>1 DEF Decide, Effect
  <2>3. e.kind = "review" /\ e.row = row /\ e.on = review.version BY <2>1
  <2>4. DOMAIN command' = DOMAIN command \cup {row} BY <1>2, <1>5, <1>11 DEF Decide, RecordCommand
  <2>5. PICK state : state = Reviewed[request[x].act] OBVIOUS
  <2>6. PICK done : done = (request[x].act = "resolve") OBVIOUS
  <2>7. review' = [review EXCEPT !.version = @ + 1, !.state = state, !.resolved = done]
    BY <1>3, <1>11, <2>5, <2>6 DEF Decide
  <2>8. review.version \in Nat
        /\ review = [version |-> review.version, state |-> review.state, resolved |-> review.resolved,
                     blocking |-> review.blocking]
    BY DEF EffectsSound
  <2>9. review' = [version |-> review.version + 1, state |-> state, resolved |-> done, blocking |-> review.blocking]
    BY <2>7, <2>8
  <2>10. /\ review'.version = review.version + 1
         /\ review' = [version |-> review'.version, state |-> review'.state, resolved |-> review'.resolved,
                       blocking |-> review'.blocking]
    BY <2>9
  <2>11. \A f \in effects : f.kind = e.kind => f.on # e.on BY <2>3, <2>8 DEF EffectsSound
  <2>12. borrowers' \in Nat /\ borrowers <= borrowers' BY <1>6 DEF EffectsSound
  <2>13. review'.version \in Nat /\ review.version <= review'.version /\ e.on \in Nat /\ e.on < review'.version
    BY <2>3, <2>8, <2>10
  <2>14. e.row \notin DOMAIN command BY <1>3, <1>4, <2>3
  <2>15. EffectsSound' BY <2>2, <2>3, <2>4, <2>10, <2>11, <2>12, <2>13, <2>14, EffectAdded
  <2>16. QED BY <1>9, <2>15
<1>12. QED BY <1>10, <1>11

LEMMA CrashStep ==
    ASSUME LocksHeld, request = [y \in Replicas |-> request[y]], NEW x \in Replicas, ReplicaCrash(x),
           \A y \in Replicas : request[y].step \in OperationSteps => request[y].token.wallet \in Wallets
    PROVE LocksHeld'
<1>1. \A y \in Replicas : request'[y] = IF y = x THEN IdleRequest ELSE request[y] BY DEF ReplicaCrash, Goto
<1>2. walletLock' = [w \in Wallets |-> IF walletLock[w] = x THEN NoReplica ELSE walletLock[w]]
      /\ UNCHANGED <<command, review>> /\ caseLock' = IF caseLock = x THEN NoReplica ELSE caseLock
  BY DEF ReplicaCrash
<1>3. ASSUME NEW y \in Replicas PROVE LockRow(y, request[y])'
  <2>1. CASE y = x BY <1>1, <2>1 DEF LockRow, IdleRequest, OperationSteps
  <2>2. CASE y # x
    <3>1. LockRow(y, request[y]) /\ request'[y] = request[y] BY <1>1, <2>2 DEF LocksHeld
    <3>2. \A w \in Wallets : walletLock[w] = y => walletLock'[w] = y BY <1>2, <2>2
    <3>3. QED BY <1>2, <2>2, <3>1, <3>2 DEF LockRow
  <2>3. QED BY <2>1, <2>2
<1>4. walletLock' = [w \in Wallets |-> walletLock'[w]] BY <1>2
<1>5. QED BY <1>3, <1>4 DEF LocksHeld


-----------------------------------------------------------------------------
(* All of it *)

AccessInv == EpochInv /\ NoncesApart /\ ListInv /\ LocksHeld /\ EffectsSound

LEMMA AccessInvInit == AccessInit => AccessInv
<1>1. SUFFICES ASSUME AccessInit PROVE AccessInv OBVIOUS
<1>2. request = [x \in Replicas |-> IdleRequest] /\ \A x \in Replicas : request[x].step = "idle"
  BY <1>1 DEF AccessInit, IdleRequest
<1>3. sessions = {} /\ effects = {} /\ imported = {} /\ borrowers = 0 /\ dealt = 0 /\ DOMAIN challenges = {}
  BY <1>1 DEF AccessInit
<1>4. EpochInv
  <2>1. roleEpoch \in [StaffRoles -> Nat] /\ held \in [Wallets -> SUBSET StaffRoles] BY <1>1 DEF AccessInit
  <2>2. QED BY <1>2, <1>3, <2>1 DEF EpochInv, EpochRow, LoggingInSteps, ActingSteps
<1>5. NoncesApart BY <1>2, <1>3 DEF NoncesApart, LoggingInSteps, SessionPerChallenge
<1>6. ListInv BY <1>2, <1>3 DEF ListInv, ListRow
<1>7. LocksHeld BY <1>1, <1>2 DEF AccessInit, LocksHeld, LockRow, OperationSteps
<1>8. EffectsSound
  <2>1. PICK b : review = [version |-> 0, state |-> "OPEN", resolved |-> FALSE, blocking |-> b] BY <1>1 DEF AccessInit
  <2>2. QED BY <1>3, <2>1 DEF EffectsSound, EffectsOnce
<1>9. QED BY <1>4, <1>5, <1>6, <1>7, <1>8 DEF AccessInv

(* A step of the login or of the check of a session. *)
LEMMA SessionMoves ==
    ASSUME AccessInv, EpochInv', UNCHANGED <<challenges, dealt, sessions, borrowers, commandVars, imported>>,
           NEW x \in Replicas, NEW q, Goto(x, q), q.step \notin OperationSteps, q.step # "listing",
           q.step \in LoggingInSteps => request[x].step \in LoggingInSteps /\ q.nonce = request[x].nonce
    PROVE AccessInv'
<1>1. request = [y \in Replicas |-> request[y]] BY DEF AccessInv, EpochInv
<1>2. NoncesApart' BY <1>1, NonceMoves DEF AccessInv
<1>3. ListRow(q) BY DEF ListRow
<1>4. ListInv' BY <1>1, <1>3, ListMoves DEF AccessInv
<1>5. UNCHANGED <<walletLock, caseLock, command, review, effects, borrowers>> BY DEF commandVars
<1>6. LocksHeld' BY <1>1, <1>5, LocksMove DEF AccessInv
<1>7. EffectsSound' BY <1>5, EffectsStay DEF AccessInv
<1>8. QED BY <1>2, <1>4, <1>6, <1>7 DEF AccessInv

LEMMA RequestEnds ==
    ASSUME AccessInv, UNCHANGED <<challenges, dealt, sessions, roleEpoch, held, borrowers, commandVars, imported>>,
           NEW x \in Replicas, Goto(x, IdleRequest)
    PROVE AccessInv'
<1>1. EpochInv' BY EndsEpoch DEF AccessInv
<1>2. IdleRequest.step \notin OperationSteps /\ IdleRequest.step # "listing" /\ IdleRequest.step \notin LoggingInSteps
  BY DEF IdleRequest, OperationSteps, LoggingInSteps
<1>3. QED BY <1>1, <1>2, SessionMoves

(* No request moves. *)
LEMMA RequestsWait ==
    ASSUME AccessInv, EpochInv', UNCHANGED <<challenges, dealt, sessions, borrowers, request,
                                             walletLock, caseLock, command, review, effects>>,
           imported \subseteq imported', imported' \subseteq Rows
    PROVE AccessInv'
<1>1. NoncesApart' BY NonceStays DEF AccessInv
<1>2. ListInv' BY ListStays DEF AccessInv
<1>3. LocksHeld' BY LocksStay DEF AccessInv
<1>4. EffectsSound' BY EffectsStay DEF AccessInv
<1>5. QED BY <1>1, <1>2, <1>3, <1>4 DEF AccessInv

LEMMA LoginStep ==
    ASSUME AccessInv, NEW x \in Replicas
    PROVE /\ \A n, ok : \A w \in Wallets : TakeChallenge(x, n, w, ok) => AccessInv'
          /\ LoginRoles(x) => AccessInv'
          /\ LoginLink(x) => AccessInv'
          /\ \A r \in StaffRoles : LoginEpoch(x, r) => AccessInv'
          /\ IssueSession(x) => AccessInv'
<1>0. request = [y \in Replicas |-> request[y]] BY DEF AccessInv, EpochInv
<1>2. ASSUME NEW n, NEW ok, NEW w \in Wallets, TakeChallenge(x, n, w, ok) PROVE AccessInv'
  <2>1. EpochInv' BY <1>2, TakeEpoch DEF AccessInv
  <2>2. NoncesApart' BY <1>0, <1>2, TakeNonce DEF AccessInv
  <2>3. UNCHANGED <<walletLock, caseLock, command, review, effects, borrowers, imported>>
    BY <1>2 DEF TakeChallenge, commandVars, registryVars
  <2>4. CASE UNCHANGED request
    <3>1. ListInv' /\ LocksHeld' /\ EffectsSound' BY <2>3, <2>4, ListStays, LocksStay, EffectsStay DEF AccessInv, ListInv
    <3>2. QED BY <2>1, <2>2, <3>1 DEF AccessInv
  <2>5. CASE ~UNCHANGED request
    <3>1. PICK q : q = [step |-> "taken", wallet |-> w, nonce |-> n] OBVIOUS
    <3>2. Goto(x, q) BY <1>2, <2>5, <3>1 DEF TakeChallenge
    <3>3. q.step = "taken" BY <3>1
    <3>4. ListRow(q) /\ q.step \notin OperationSteps BY <3>3 DEF ListRow, OperationSteps
    <3>5. ListInv' BY <1>0, <2>3, <3>2, <3>4, ListMoves DEF AccessInv
    <3>6. LocksHeld' BY <1>0, <2>3, <3>2, <3>4, LocksMove DEF AccessInv
    <3>7. EffectsSound' BY <2>3, EffectsStay DEF AccessInv
    <3>8. QED BY <2>1, <2>2, <3>5, <3>6, <3>7 DEF AccessInv
  <2>6. QED BY <2>4, <2>5
<1>3. ASSUME LoginRoles(x) PROVE AccessInv'
  <2>1. EpochInv' BY <1>3, LoginRolesEpoch DEF AccessInv
  <2>2. PICK q : q = [step |-> "roles", wallet |-> request[x].wallet, nonce |-> request[x].nonce,
                      roles |-> RolesOf(request[x].wallet)] OBVIOUS
  <2>3. q.step = "roles" /\ q.nonce = request[x].nonce BY <2>2
  <2>4. Goto(x, q) /\ request[x].step = "taken" BY <1>3, <2>2 DEF LoginRoles
  <2>5. UNCHANGED <<challenges, dealt, sessions, borrowers, commandVars, imported>> BY <1>3 DEF LoginRoles, registryVars
  <2>6. QED BY <2>1, <2>3, <2>4, <2>5, SessionMoves DEF OperationSteps, LoggingInSteps
<1>4. ASSUME LoginLink(x) PROVE AccessInv'
  <2>1. EpochInv' BY <1>4, LoginLinkEpoch DEF AccessInv
  <2>2. PICK q : q = [step |-> "epochs", wallet |-> request[x].wallet, nonce |-> request[x].nonce,
                      roles |-> request[x].roles, borrower |-> BorrowerOf(request[x].wallet), epochs |-> <<>>] OBVIOUS
  <2>3. q.step = "epochs" /\ q.nonce = request[x].nonce BY <2>2
  <2>4. Goto(x, q) /\ request[x].step = "roles" BY <1>4, <2>2 DEF LoginLink
  <2>5. UNCHANGED <<challenges, dealt, sessions, borrowers, commandVars, imported>> BY <1>4 DEF LoginLink, registryVars
  <2>6. QED BY <2>1, <2>3, <2>4, <2>5, SessionMoves DEF OperationSteps, LoggingInSteps
<1>5. ASSUME NEW r \in StaffRoles, LoginEpoch(x, r) PROVE AccessInv'
  <2>1. EpochInv' BY <1>5, LoginEpochEpoch DEF AccessInv
  <2>2. PICK was : was = request[x] OBVIOUS
  <2>3. EpochsRead(was) /\ was.step = "epochs" BY <1>5, <2>2 DEF LoginEpoch, AccessInv, EpochInv, EpochRow
  <2>4. PICK read : read = [p \in DOMAIN was.epochs \cup {r} |-> IF p = r THEN roleEpoch[r] ELSE was.epochs[p]] OBVIOUS
  <2>5. PICK q : q = [was EXCEPT !.epochs = read] OBVIOUS
  <2>6. q.step = "epochs" /\ q.nonce = was.nonce BY <2>3, <2>5 DEF EpochsRead
  <2>7. Goto(x, q) BY <1>5, <2>2, <2>4, <2>5 DEF LoginEpoch
  <2>8. UNCHANGED <<challenges, dealt, sessions, borrowers, commandVars, imported>> BY <1>5 DEF LoginEpoch, registryVars
  <2>9. QED BY <2>1, <2>2, <2>3, <2>6, <2>7, <2>8, SessionMoves DEF OperationSteps, LoggingInSteps
<1>6. ASSUME IssueSession(x) PROVE AccessInv'
  <2>1. EpochInv' BY <1>6, IssueEpoch DEF AccessInv
  <2>2. NoncesApart' BY <1>0, <1>6, IssueNonce DEF AccessInv
  <2>3. UNCHANGED <<walletLock, caseLock, command, review, effects, borrowers, imported>>
    BY <1>6 DEF IssueSession, commandVars, registryVars
  <2>4. Goto(x, IdleRequest) /\ IdleRequest.step \notin OperationSteps BY <1>6 DEF IssueSession, IdleRequest, OperationSteps
  <2>5. ListInv' BY <1>0, <2>3, <2>4, IdleListRow, ListMoves DEF AccessInv
  <2>6. LocksHeld' BY <1>0, <2>3, <2>4, LocksMove DEF AccessInv
  <2>7. EffectsSound' BY <2>3, EffectsStay DEF AccessInv
  <2>8. QED BY <2>1, <2>2, <2>5, <2>6, <2>7 DEF AccessInv
<1>7. QED BY <1>2, <1>3, <1>4, <1>5, <1>6

LEMMA AdmitStep ==
    ASSUME AccessInv, NEW x \in Replicas
    PROVE /\ \A s \in sessions : Present(x, s) => AccessInv'
          /\ \A r \in StaffRoles : CheckEpoch(x, r) => AccessInv'
          /\ CheckLink(x) => AccessInv'
<1>1. ASSUME NEW s \in sessions, Present(x, s) PROVE AccessInv'
  <2>1. EpochInv' BY <1>1, PresentEpoch DEF AccessInv
  <2>2. UNCHANGED <<challenges, dealt, sessions, borrowers, commandVars, imported>> BY <1>1 DEF Present, registryVars
  <2>3. CASE UNCHANGED request
    BY <2>1, <2>2, <2>3, RequestsWait DEF commandVars, AccessInv, ListInv
  <2>4. CASE ~UNCHANGED request
    <3>1. PICK q : q = [step |-> "checking", token |-> s, checked |-> {}, since |-> roleEpoch] OBVIOUS
    <3>2. Goto(x, q) BY <1>1, <2>4, <3>1 DEF Present
    <3>3. q.step = "checking" BY <3>1
    <3>4. QED BY <2>1, <2>2, <3>2, <3>3, SessionMoves DEF OperationSteps, LoggingInSteps
  <2>5. QED BY <2>3, <2>4
<1>2. ASSUME NEW r \in StaffRoles, CheckEpoch(x, r) PROVE AccessInv'
  <2>1. EpochInv' BY <1>2, CheckEpochEpoch DEF AccessInv
  <2>2. UNCHANGED <<challenges, dealt, sessions, borrowers, commandVars, imported>> BY <1>2 DEF CheckEpoch, registryVars
  <2>3. PICK was : was = request[x] OBVIOUS
  <2>4. was.step = "checking" /\ Checking(was) BY <1>2, <2>3 DEF CheckEpoch, AccessInv, EpochInv, EpochRow
  <2>5. PICK q : q = IF EpochHolds(x, r) THEN [was EXCEPT !.checked = @ \cup {r}] ELSE IdleRequest OBVIOUS
  <2>6. Goto(x, q) BY <1>2, <2>3, <2>5 DEF CheckEpoch
  <2>7. q.step \in {"checking", "idle"}
    <3>1. [was EXCEPT !.checked = @ \cup {r}].step = "checking" BY <2>4 DEF Checking
    <3>2. IdleRequest.step = "idle" BY DEF IdleRequest
    <3>3. QED BY <2>5, <3>1, <3>2
  <2>8. QED BY <2>1, <2>2, <2>6, <2>7, SessionMoves DEF OperationSteps, LoggingInSteps
<1>3. ASSUME CheckLink(x) PROVE AccessInv'
  <2>1. EpochInv' BY <1>3, CheckLinkEpoch DEF AccessInv
  <2>2. UNCHANGED <<challenges, dealt, sessions, borrowers, commandVars, imported>> BY <1>3 DEF CheckLink, registryVars
  <2>3. CASE Goto(x, IdleRequest)
    <3>1. IdleRequest.step = "idle" BY DEF IdleRequest
    <3>2. QED BY <2>1, <2>2, <2>3, <3>1, SessionMoves DEF OperationSteps, LoggingInSteps
  <2>4. CASE Goto(x, Principal(x))
    <3>1. Principal(x).step = "principal" BY DEF Principal
    <3>2. QED BY <2>1, <2>2, <2>4, <3>1, SessionMoves DEF OperationSteps, LoggingInSteps
  <2>5. QED BY <1>3, <2>3, <2>4 DEF CheckLink
<1>4. QED BY <1>1, <1>2, <1>3

LEMMA ActStep ==
    ASSUME AccessInv, NEW x \in Replicas
    PROVE /\ \A route, k : Replay(x, route, k) => AccessInv'
          /\ \A k, b : Onboard(x, k, b) => AccessInv'
          /\ \A k, b : Connect(x, k, b) => AccessInv'
          /\ \A k, a, v : OpenAction(x, k, a, v) => AccessInv'
          /\ LockCase(x) => AccessInv'
          /\ Decide(x) => AccessInv'
          /\ ReplicaCrash(x) => AccessInv'
          /\ ListPage(x) => AccessInv'
          /\ NextPage(x) => AccessInv'
<1>0. request = [y \in Replicas |-> request[y]] BY DEF AccessInv, EpochInv
<1>1. IdleRequest.step = "idle" BY DEF IdleRequest
<1>2. ASSUME NEW y \in Replicas, request[y].step \in ActingSteps PROVE request[y].token.wallet \in Wallets
  <2>1. request[y].token \in sessions BY <1>2 DEF AccessInv, EpochInv, EpochRow, Checked
  <2>2. QED BY <2>1 DEF AccessInv, EpochInv, TokenHolds
<1>3. ASSUME NEW route, NEW k, Replay(x, route, k) PROVE AccessInv'
  BY <1>3, RequestEnds DEF Replay, registryVars
<1>4. ASSUME UNCHANGED <<challenges, dealt, sessions, roleEpoch, held, imported>>, Goto(x, IdleRequest)
      PROVE EpochInv' /\ NoncesApart' /\ ListInv'
  <2>1. EpochInv' BY <1>4, EndsEpoch DEF AccessInv
  <2>2. NoncesApart' BY <1>0, <1>1, <1>4, NonceMoves DEF AccessInv, LoggingInSteps
  <2>3. ListInv' BY <1>0, <1>4, IdleListRow, ListMoves DEF AccessInv
  <2>4. QED BY <2>1, <2>2, <2>3
<1>5. ASSUME NEW k, NEW b, Onboard(x, k, b) PROVE AccessInv'
  <2>1. EpochInv' /\ NoncesApart' /\ ListInv' BY <1>4, <1>5 DEF Onboard
  <2>2. EffectsSound' /\ LocksHeld' BY <1>0, <1>5, OnboardStep DEF AccessInv
  <2>3. QED BY <2>1, <2>2 DEF AccessInv
<1>6. ASSUME NEW k, NEW b, Connect(x, k, b) PROVE AccessInv'
  <2>1. EpochInv' /\ NoncesApart' /\ ListInv' BY <1>4, <1>6 DEF Connect, registryVars
  <2>2. EffectsSound' /\ LocksHeld' BY <1>0, <1>6, ConnectStep DEF AccessInv
  <2>3. QED BY <2>1, <2>2 DEF AccessInv
<1>7. ASSUME NEW k, NEW a, NEW v, OpenAction(x, k, a, v) PROVE AccessInv'
  <2>1. EpochInv' BY <1>7, ActsEpoch DEF AccessInv
  <2>2. PICK q : q = [step |-> "action", token |-> request[x].token, since |-> request[x].since,
                      borrower |-> request[x].borrower, key |-> k, act |-> a, expected |-> v] OBVIOUS
  <2>3. Goto(x, q) /\ request[x].step = "principal" BY <1>7, <2>2 DEF OpenAction, Unlocked
  <2>4. q.step = "action" BY <2>2
  <2>5. UNCHANGED <<challenges, dealt, sessions, imported, borrowers, review, effects, command>>
    BY <1>7 DEF OpenAction, registryVars
  <2>6. NoncesApart' BY <1>0, <2>3, <2>4, <2>5, NonceMoves DEF AccessInv, LoggingInSteps
  <2>7. ListInv' BY <1>0, <2>3, <2>4, <2>5, ListMoves DEF AccessInv, ListRow
  <2>8. LocksHeld' BY <1>0, <1>2, <1>7, <2>3, OpenActionStep DEF AccessInv, ActingSteps
  <2>9. EffectsSound' BY <2>5, EffectsStay DEF AccessInv
  <2>10. QED BY <2>1, <2>6, <2>7, <2>8, <2>9 DEF AccessInv
<1>8. ASSUME LockCase(x) PROVE AccessInv'
  <2>1. EpochInv' BY <1>8, ActsEpoch DEF AccessInv
  <2>2. PICK q : q = [step |-> "deciding", token |-> request[x].token, since |-> request[x].since,
                      borrower |-> request[x].borrower, key |-> request[x].key, act |-> request[x].act,
                      expected |-> request[x].expected, read |-> review] OBVIOUS
  <2>3. Goto(x, q) BY <1>8, <2>2 DEF LockCase
  <2>4. q.step = "deciding" BY <2>2
  <2>5. UNCHANGED <<challenges, dealt, sessions, imported, borrowers, review, effects, command>>
    BY <1>8 DEF LockCase, registryVars
  <2>6. NoncesApart' BY <1>0, <2>3, <2>4, <2>5, NonceMoves DEF AccessInv, LoggingInSteps
  <2>7. ListInv' BY <1>0, <2>3, <2>4, <2>5, ListMoves DEF AccessInv, ListRow
  <2>8. LocksHeld' BY <1>0, <1>8, LockCaseStep DEF AccessInv
  <2>9. EffectsSound' BY <2>5, EffectsStay DEF AccessInv
  <2>10. QED BY <2>1, <2>6, <2>7, <2>8, <2>9 DEF AccessInv
<1>9. ASSUME Decide(x) PROVE AccessInv'
  <2>1. EpochInv' /\ NoncesApart' /\ ListInv' BY <1>4, <1>9 DEF Decide, registryVars
  <2>2. request[x].token.wallet \in Wallets BY <1>2, <1>9 DEF Decide, ActingSteps
  <2>3. EffectsSound' /\ LocksHeld' BY <1>0, <1>9, <2>2, DecideStep DEF AccessInv
  <2>4. QED BY <2>1, <2>3 DEF AccessInv
<1>10. ASSUME ReplicaCrash(x) PROVE AccessInv'
  <2>1. EpochInv' /\ NoncesApart' /\ ListInv' BY <1>4, <1>10 DEF ReplicaCrash, registryVars
  <2>2. LocksHeld' BY <1>0, <1>2, <1>10, CrashStep DEF AccessInv, OperationSteps, ActingSteps
  <2>3. EffectsSound' BY <1>10, EffectsStay DEF ReplicaCrash, registryVars, AccessInv
  <2>4. QED BY <2>1, <2>2, <2>3 DEF AccessInv
<1>11. ASSUME ListPage(x) PROVE AccessInv'
  <2>1. EpochInv' BY <1>11, ActsEpoch DEF AccessInv
  <2>2. ListInv' BY <1>0, <1>11, ListPageStep DEF AccessInv
  <2>3. PICK q : q = [step |-> "listing", token |-> request[x].token, since |-> request[x].since,
                      borrower |-> request[x].borrower, seen |-> Page(<<0, 0>>)] OBVIOUS
  <2>4. Goto(x, q) BY <1>11, <2>3 DEF ListPage
  <2>5. q.step = "listing" BY <2>3
  <2>6. UNCHANGED <<challenges, dealt, sessions, borrowers, walletLock, caseLock, command, review, effects>>
    BY <1>11 DEF ListPage, registryVars, commandVars
  <2>7. NoncesApart' BY <1>0, <2>4, <2>5, <2>6, NonceMoves DEF AccessInv, LoggingInSteps
  <2>8. LocksHeld' BY <1>0, <2>4, <2>5, <2>6, LocksMove DEF AccessInv, OperationSteps
  <2>9. EffectsSound' BY <2>6, EffectsStay DEF AccessInv
  <2>10. QED BY <2>1, <2>2, <2>7, <2>8, <2>9 DEF AccessInv
<1>12. ASSUME NextPage(x) PROVE AccessInv'
  <2>1. ListShape(request[x]) /\ request[x].step = "listing" BY <1>12 DEF NextPage, AccessInv, ListInv, ListRow
  <2>2. EpochInv' BY <1>12, <2>1, ActsEpoch DEF AccessInv, ListShape
  <2>3. ListInv' BY <1>0, <1>12, NextPageStep DEF AccessInv
  <2>4. PICK last \in request[x].seen :
            Goto(x, IF Page(last) = {} THEN IdleRequest ELSE [request[x] EXCEPT !.seen = @ \cup Page(last)])
    BY <1>12 DEF NextPage
  <2>5. PICK q : q = IF Page(last) = {} THEN IdleRequest ELSE [request[x] EXCEPT !.seen = @ \cup Page(last)] OBVIOUS
  <2>6. Goto(x, q) BY <2>4, <2>5
  <2>7. q.step \in {"idle", "listing"}
    <3>1. [request[x] EXCEPT !.seen = @ \cup Page(last)].step = "listing" BY <2>1 DEF ListShape
    <3>2. QED BY <1>1, <2>5, <3>1
  <2>8. UNCHANGED <<challenges, dealt, sessions, borrowers, walletLock, caseLock, command, review, effects>>
    BY <1>12 DEF NextPage, registryVars, commandVars
  <2>9. NoncesApart' BY <1>0, <2>6, <2>7, <2>8, NonceMoves DEF AccessInv, LoggingInSteps
  <2>10. LocksHeld' BY <1>0, <2>6, <2>7, <2>8, LocksMove DEF AccessInv, OperationSteps
  <2>11. EffectsSound' BY <2>8, EffectsStay DEF AccessInv
  <2>12. QED BY <2>2, <2>3, <2>9, <2>10, <2>11 DEF AccessInv
<1>13. QED BY <1>3, <1>5, <1>6, <1>7, <1>8, <1>9, <1>10, <1>11, <1>12

LEMMA RegistryStep ==
    ASSUME AccessInv
    PROVE /\ \A w \in Wallets, r \in StaffRoles : Grant(w, r) \/ Revoke(w, r) => AccessInv'
          /\ \A r \in StaffRoles : Rotate(r) => AccessInv'
          /\ \A w \in Wallets : ReleaseWallet(w) => AccessInv'
          /\ JobFails \/ PassTime \/ UNCHANGED accessVars => AccessInv'
          /\ \A r \in Rows : Import(r) => AccessInv'
<1>1. /\ roleEpoch \in [StaffRoles -> Nat] /\ held \in [Wallets -> SUBSET StaffRoles]
      /\ imported \subseteq Rows /\ EpochInv /\ \A s \in sessions : TokenHolds(s)
  BY DEF AccessInv, EpochInv, ListInv
<1>2. ASSUME NEW w \in Wallets, NEW r \in StaffRoles, Grant(w, r) \/ Revoke(w, r) PROVE AccessInv'
  <2>1. RegistryGrows BY <1>1, <1>2 DEF Grant, Revoke, RegistryGrows
  <2>2. EpochInv' BY <1>1, <1>2, <2>1, RequestsStay DEF Grant, Revoke
  <2>3. QED BY <1>1, <1>2, <2>2, RequestsWait DEF Grant, Revoke, commandVars
<1>3. ASSUME NEW r \in StaffRoles, Rotate(r) PROVE AccessInv'
  <2>1. RegistryGrows BY <1>1, <1>3 DEF Rotate, RegistryGrows
  <2>2. EpochInv' BY <1>1, <1>3, <2>1, RequestsStay DEF Rotate
  <2>3. QED BY <1>1, <1>3, <2>2, RequestsWait DEF Rotate, commandVars
<1>4. ASSUME UNCHANGED <<sessions, held, roleEpoch, request>> PROVE EpochInv'
  BY <1>1, <1>4, RegistryStays, RequestsStay
<1>5. ASSUME NEW w \in Wallets, ReleaseWallet(w) PROVE AccessInv'
  BY <1>1, <1>4, <1>5, RequestsWait DEF ReleaseWallet, commandVars
<1>6. CASE JobFails BY <1>1, <1>4, <1>6, RequestsWait DEF JobFails, registryVars
<1>7. CASE PassTime BY <1>1, <1>4, <1>7, RequestsWait DEF PassTime, registryVars, commandVars
<1>8. CASE UNCHANGED accessVars BY <1>1, <1>4, <1>8, RequestsWait DEF accessVars
<1>9. ASSUME NEW r \in Rows, Import(r) PROVE AccessInv'
  BY <1>1, <1>4, <1>9, RequestsWait DEF Import, registryVars, commandVars
<1>10. QED BY <1>2, <1>3, <1>5, <1>6, <1>7, <1>8, <1>9

LEMMA AccessStep ==
    ASSUME AccessInv, [AccessNext]_accessVars
    PROVE AccessInv'
<1>2. CASE \E w \in Wallets : PutChallenge(w)
  <2>1. PICK w \in Wallets : PutChallenge(w) BY <1>2
  <2>2. EpochInv' BY <2>1, RegistryStays, RequestsStay DEF PutChallenge, AccessInv, registryVars
  <2>3. NoncesApart' BY <2>1, PutNonce DEF AccessInv
  <2>4. UNCHANGED <<walletLock, caseLock, command, review, effects, borrowers, request, imported>>
    BY <2>1 DEF PutChallenge, commandVars, registryVars
  <2>5. ListInv' /\ LocksHeld' /\ EffectsSound' BY <2>4, ListStays, LocksStay, EffectsStay DEF AccessInv, ListInv
  <2>6. QED BY <2>2, <2>3, <2>5 DEF AccessInv
<1>3. CASE \E x \in Replicas, n \in 1..MaxNonces, w \in Wallets, ok \in BOOLEAN : TakeChallenge(x, n, w, ok)
  BY <1>3, LoginStep
<1>4. CASE \E x \in Replicas : LoginRoles(x) \/ LoginLink(x) \/ IssueSession(x) BY <1>4, LoginStep
<1>5. CASE \E x \in Replicas, r \in StaffRoles : LoginEpoch(x, r) BY <1>5, LoginStep
<1>6. CASE \E x \in Replicas, r \in StaffRoles : CheckEpoch(x, r) BY <1>6, AdmitStep
<1>7. CASE \E x \in Replicas : CheckLink(x) BY <1>7, AdmitStep
<1>8. CASE \E x \in Replicas, s \in sessions : Present(x, s) BY <1>8, AdmitStep
<1>9. CASE \E x \in Replicas : LockCase(x) \/ Decide(x) \/ ReplicaCrash(x) \/ ListPage(x) \/ NextPage(x) BY <1>9, ActStep
<1>10. CASE \E x \in Replicas, route \in {"onboarding", "connections", "operations"}, k \in CommandKeys : Replay(x, route, k)
  BY <1>10, ActStep
<1>11. CASE \E x \in Replicas, k \in CommandKeys, b \in Bodies : Onboard(x, k, b) \/ Connect(x, k, b) BY <1>11, ActStep
<1>12. CASE \E x \in Replicas, k \in CommandKeys, a \in DOMAIN Reviewed, v \in 0..MaxVersion : OpenAction(x, k, a, v)
  BY <1>12, ActStep
<1>13. CASE \E w \in Wallets, r \in StaffRoles : Grant(w, r) \/ Revoke(w, r) BY <1>13, RegistryStep
<1>14. CASE \E r \in StaffRoles : Rotate(r) BY <1>14, RegistryStep
<1>15. CASE \E w \in Wallets : ReleaseWallet(w) BY <1>15, RegistryStep
<1>16. CASE JobFails \/ PassTime \/ UNCHANGED accessVars BY <1>16, RegistryStep
<1>17. CASE \E r \in Rows : Import(r) BY <1>17, RegistryStep
<1>18. QED
  BY <1>2, <1>3, <1>4, <1>5, <1>6, <1>7, <1>8, <1>9, <1>10, <1>11, <1>12, <1>13, <1>14, <1>15, <1>16, <1>17
  DEF AccessNext

(* For any number of replicas, wallets, roles and rotations, and whatever   *)
(* falls between two reads of the registry: a login challenge makes one     *)
(* session at most, and a session whose role was revoked or rotated since   *)
(* admits no request that comes in afterwards (current_principal).          *)
THEOREM AccessAlwaysKept == AccessInit /\ [][AccessNext]_accessVars => []AccessKept
<1>1. AccessInit => AccessInv BY AccessInvInit
<1>2. AccessInv /\ [AccessNext]_accessVars => AccessInv' BY AccessStep
<1>3. AccessInv => AccessKept
  BY DEF AccessInv, EpochInv, EpochRow, Checked, ActingSteps, NoncesApart, AccessKept, RevocationEnds
<1>4. QED BY <1>1, <1>2, <1>3, PTL

(* A command key has one effect and a review version one decision, whatever *)
(* replicas receive them, crash or answer late, and a listing shows no      *)
(* receivable twice while imports move rows under it (execute, action,      *)
(* history).                                                                *)
THEOREM CommandsAlwaysKept == AccessInit /\ [][AccessNext]_accessVars => []CommandsKept
<1>1. AccessInit => AccessInv BY AccessInvInit
<1>2. AccessInv /\ [AccessNext]_accessVars => AccessInv' BY AccessStep
<1>3. AccessInv => CommandsKept
  BY DEF AccessInv, EffectsSound, ListInv, ListRow, CommandsKept, ListedOnce
<1>4. QED BY <1>1, <1>2, <1>3, PTL

-----------------------------------------------------------------------------
(* Wallet links *)

(* The rows of borrower_wallets, one of them live at most. *)
WalletInv ==
    /\ \A r \in walletRows : r = [borrower |-> r.borrower, live |-> r.live] /\ r.live \in BOOLEAN
    /\ WalletOneBorrower

(* A link is added where there is none. *)
LEMMA LinkKept == ASSUME WalletInv, NEW b, Linkable, Link(b) PROVE WalletInv'
<1>1. PICK x : x = [borrower |-> b, live |-> TRUE]
  OBVIOUS
<1>2. walletRows' = walletRows \cup {x} /\ \A r \in walletRows : ~r.live
  BY <1>1 DEF Link, Linkable, LiveRows, WalletInv
<1>3. x = [borrower |-> x.borrower, live |-> x.live] /\ x.live \in BOOLEAN
  BY <1>1
<1>4. \A r \in walletRows' : r = [borrower |-> r.borrower, live |-> r.live] /\ r.live \in BOOLEAN
  BY <1>2, <1>3 DEF WalletInv
<1>5. \A r \in LiveRows' : r = x
  BY <1>2 DEF LiveRows
<1> QED
  BY <1>4, <1>5 DEF WalletInv, WalletOneBorrower

(* A released row is live no more, and every other stays as it is. *)
LEMMA ReleaseKept == ASSUME WalletInv, NEW b, ReleaseLinkOf(b) PROVE WalletInv'
<1>1. walletRows' = {[r EXCEPT !.live = @ /\ r.borrower # b] : r \in walletRows}
  BY DEF ReleaseLinkOf
<1>2. ASSUME NEW q \in walletRows'
      PROVE  /\ q = [borrower |-> q.borrower, live |-> q.live] /\ q.live \in BOOLEAN
             /\ q.live => q \in LiveRows
  <2>1. PICK r \in walletRows : q = [r EXCEPT !.live = @ /\ r.borrower # b]
    BY <1>1
  <2>2. r = [borrower |-> r.borrower, live |-> r.live] /\ r.live \in BOOLEAN
    BY DEF WalletInv
  <2>3. q = [borrower |-> r.borrower, live |-> r.live /\ r.borrower # b]
    BY <2>1, <2>2
  <2>4. q.live <=> r.live /\ r.borrower # b
    BY <2>3
  <2>5. q.live => q = r
    BY <2>2, <2>3, <2>4
  <2>6. q = [borrower |-> q.borrower, live |-> q.live] /\ q.live \in BOOLEAN
    BY <2>3
  <2> QED
    BY <2>4, <2>5, <2>6 DEF LiveRows
<1>3. \A q \in LiveRows' : q \in LiveRows
  BY <1>2 DEF LiveRows
<1> QED
  BY <1>2, <1>3 DEF WalletInv, WalletOneBorrower

LEMMA WalletStep == WalletInv /\ [ImportNext]_importVars => WalletInv'
<1> SUFFICES ASSUME WalletInv, [ImportNext]_importVars PROVE WalletInv'
  OBVIOUS
<1>1. CASE UNCHANGED walletRows
  BY <1>1 DEF WalletInv, WalletOneBorrower, LiveRows
<1>2. CASE Bootstrap
  <2>1. UNCHANGED walletRows \/ (Linkable /\ Link("canonical"))
    BY <1>2 DEF Bootstrap
  <2> QED
    BY <1>1, <2>1, LinkKept
<1>3. CASE Enroll
  <2>1. UNCHANGED walletRows \/ (Linkable /\ Link("applicant"))
    BY <1>3 DEF Enroll
  <2> QED
    BY <1>1, <2>1, LinkKept
<1>4. CASE \E b \in {"canonical", "applicant"} : ReleaseLinkOf(b)
  BY <1>4, ReleaseKept
<1>5. CASE \/ Recognize \/ AssignAtSource \/ CorrectAtSource \/ PayAtSource \/ CheckpointAtSource
           \/ \E i \in DOMAIN source : Consume(i) \/ StoreProof(i)
           \/ Finalize
  BY <1>1, <1>5 DEF Recognize, AssignAtSource, CorrectAtSource, PayAtSource, CheckpointAtSource, Emit,
                    Consume, StoreProof, Finalize, setupVars
<1>6. CASE \/ BeginImport \/ GatherFacts \/ Persist \/ ImportDies
           \/ \E f \in NativeFacilities : ChainMoves(f) \/ InspectSetup(f)
           \/ BootReads \/ Apply
  BY <1>1, <1>6 DEF BeginImport, GatherFacts, Persist, ImportDies, ChainMoves, InspectSetup, BootReads,
                    Apply, setupVars
<1>7. CASE UNCHANGED importVars
  BY <1>1, <1>7 DEF importVars
<1> QED
  BY <1>2, <1>3, <1>4, <1>5, <1>6, <1>7 DEF ImportNext

(* A wallet has one live borrower at most, though bootstrap_native and      *)
(* onboarding each look for the link in a transaction of their own and      *)
(* write it later, and links are released in between.                       *)
THEOREM WalletAlwaysOneBorrower == ImportInit /\ [][ImportNext]_importVars => []WalletOneBorrower
<1>1. ImportInit => WalletInv
  BY DEF ImportInit, WalletInv, WalletOneBorrower, LiveRows
<1>2. WalletInv => WalletOneBorrower
  BY DEF WalletInv
<1> QED
  BY <1>1, <1>2, WalletStep, PTL

-----------------------------------------------------------------------------
(* The Bitcoin SPV relayer *)

(* A set of numbers that holds 0 and every successor holds all. *)
LEMMA Counting ==
    ASSUME NEW S, 0 \in S, \A n \in Nat : n \in S => n + 1 \in S
    PROVE  \A n \in Nat : n \in S
<1> DEFINE Out == {n \in Nat : n \notin S}
<1>1. SUFFICES ASSUME Out # {} PROVE FALSE
  OBVIOUS
<1>2. PICK m : m = Min(Out)
  OBVIOUS
<1>3. m \in Out /\ \A y \in Out : m <= y
  BY <1>1, <1>2, MinNat
<1>4. m \in Nat /\ m # 0 /\ m - 1 \in Nat /\ m - 1 < m
  BY <1>3
<1>5. m - 1 \in S
  BY <1>3, <1>4
<1>6. (m - 1) + 1 \in S /\ (m - 1) + 1 = m
  BY <1>4, <1>5
<1> QED
  BY <1>3, <1>6

-----------------------------------------------------------------------------
(* Merkle trees *)

Leaves(txids) == [i \in DOMAIN txids |-> <<txids[i]>>]

(* One unfolding of each of the three loops. *)
LevelBody(txids, n, g) == [d \in 0..n |-> IF d = 0 THEN Leaves(txids) ELSE NextLevel(g[d - 1])]

HalfBody(index, n, g) == [d \in 0..n |-> IF d = 0 THEN index ELSE g[d - 1] \div 2]

PathBody(txid, proof, at, n, g) ==
    [k \in 0..n |->
        IF k = 0 THEN <<txid>>
        ELSE IF at[k - 1] % 2 = 0 THEN <<g[k - 1], proof[k]>> ELSE <<proof[k], g[k - 1]>>]

(* Each loop has a run of every length. *)
LEMMA LevelsExist == ASSUME NEW txids PROVE \A n \in Nat : \E g : g = LevelBody(txids, n, g)
<1> DEFINE S == {n \in Nat : \E g : g = LevelBody(txids, n, g)}
<1>1. 0 \in S
  <2>1. PICK g : g = [d \in 0..0 |-> Leaves(txids)]
    OBVIOUS
  <2>2. g = LevelBody(txids, 0, g)
    BY <2>1 DEF LevelBody
  <2> QED
    BY <2>2
<1>2. ASSUME NEW n \in Nat, n \in S PROVE n + 1 \in S
  <2>1. PICK g : g = LevelBody(txids, n, g)
    BY <1>2
  <2>2. PICK h : h = [d \in 0..(n + 1) |-> IF d = n + 1 THEN NextLevel(g[n]) ELSE g[d]]
    OBVIOUS
  <2>3. ASSUME NEW d \in 0..(n + 1)
        PROVE  h[d] = IF d = 0 THEN Leaves(txids) ELSE NextLevel(h[d - 1])
    <3>1. CASE d = n + 1
      BY <2>2, <3>1
    <3>2. CASE d # n + 1
      <4>1. d \in 0..n /\ h[d] = g[d]
        BY <2>2, <3>2
      <4>2. g[d] = IF d = 0 THEN Leaves(txids) ELSE NextLevel(g[d - 1])
        BY <2>1, <4>1 DEF LevelBody
      <4>3. d # 0 => d - 1 \in 0..(n + 1) /\ d - 1 # n + 1 /\ h[d - 1] = g[d - 1]
        BY <2>2, <4>1
      <4> QED
        BY <4>1, <4>2, <4>3
    <3> QED
      BY <3>1, <3>2
  <2>4. h = LevelBody(txids, n + 1, h)
    BY <2>2, <2>3 DEF LevelBody
  <2> QED
    BY <2>4
<1> HIDE DEF S
<1>3. \A n \in Nat : n \in S
  BY <1>1, <1>2, Counting
<1> QED
  BY <1>3 DEF S

LEMMA LevelsAre ==
    ASSUME NEW txids, Len(txids) \in Nat
    PROVE  /\ Levels(txids)[0] = Leaves(txids)
           /\ \A d \in 1..Len(txids) : Levels(txids)[d] = NextLevel(Levels(txids)[d - 1])
<1>1. PICK g : g = Levels(txids)
  OBVIOUS
<1>2. Levels(txids) = CHOOSE h : h = LevelBody(txids, Len(txids), h)
  BY Zenon DEF Levels, LevelBody, Leaves
<1>3. g = LevelBody(txids, Len(txids), g)
  BY <1>1, <1>2, LevelsExist, Zenon
<1> QED
  BY <1>1, <1>3 DEF LevelBody

LEMMA HalvesExist == ASSUME NEW index PROVE \A n \in Nat : \E g : g = HalfBody(index, n, g)
<1> DEFINE S == {n \in Nat : \E g : g = HalfBody(index, n, g)}
<1>1. 0 \in S
  <2>1. PICK g : g = [d \in 0..0 |-> index]
    OBVIOUS
  <2>2. g = HalfBody(index, 0, g)
    BY <2>1 DEF HalfBody
  <2> QED
    BY <2>2
<1>2. ASSUME NEW n \in Nat, n \in S PROVE n + 1 \in S
  <2>1. PICK g : g = HalfBody(index, n, g)
    BY <1>2
  <2>2. PICK h : h = [d \in 0..(n + 1) |-> IF d = n + 1 THEN g[n] \div 2 ELSE g[d]]
    OBVIOUS
  <2>3. ASSUME NEW d \in 0..(n + 1)
        PROVE  h[d] = IF d = 0 THEN index ELSE h[d - 1] \div 2
    <3>1. CASE d = n + 1
      BY <2>2, <3>1
    <3>2. CASE d # n + 1
      <4>1. d \in 0..n /\ h[d] = g[d]
        BY <2>2, <3>2
      <4>2. g[d] = IF d = 0 THEN index ELSE g[d - 1] \div 2
        BY <2>1, <4>1 DEF HalfBody
      <4>3. d # 0 => d - 1 \in 0..(n + 1) /\ d - 1 # n + 1 /\ h[d - 1] = g[d - 1]
        BY <2>2, <4>1
      <4> QED
        BY <4>1, <4>2, <4>3
    <3> QED
      BY <3>1, <3>2
  <2>4. h = HalfBody(index, n + 1, h)
    BY <2>2, <2>3 DEF HalfBody
  <2> QED
    BY <2>4
<1> HIDE DEF S
<1>3. \A n \in Nat : n \in S
  BY <1>1, <1>2, Counting
<1> QED
  BY <1>3 DEF S

LEMMA HalvesAre ==
    ASSUME NEW index, NEW n \in Nat
    PROVE  /\ Halved(index, n)[0] = index
           /\ \A d \in 1..n : Halved(index, n)[d] = Halved(index, n)[d - 1] \div 2
<1>1. PICK g : g = Halved(index, n)
  OBVIOUS
<1>2. Halved(index, n) = CHOOSE h : h = HalfBody(index, n, h)
  BY Zenon DEF Halved, HalfBody
<1>3. g = HalfBody(index, n, g)
  BY <1>1, <1>2, HalvesExist, Zenon
<1>4. \A d \in 0..n : g[d] = IF d = 0 THEN index ELSE g[d - 1] \div 2
  BY <1>3, Zenon DEF HalfBody
<1>5. 0 \in 0..n /\ \A d \in 1..n : d \in 0..n /\ d # 0
  OBVIOUS
<1>6. g[0] = index /\ \A d \in 1..n : g[d] = g[d - 1] \div 2
  BY <1>4, <1>5, Zenon
<1> QED
  BY <1>1, <1>6, Zenon

LEMMA PathsExist ==
    ASSUME NEW txid, NEW proof, NEW at
    PROVE  \A n \in Nat : \E g : g = PathBody(txid, proof, at, n, g)
<1> DEFINE S == {n \in Nat : \E g : g = PathBody(txid, proof, at, n, g)}
<1>1. 0 \in S
  <2>1. PICK g : g = [d \in 0..0 |-> <<txid>>]
    OBVIOUS
  <2>2. g = PathBody(txid, proof, at, 0, g)
    BY <2>1 DEF PathBody
  <2> QED
    BY <2>2
<1>2. ASSUME NEW n \in Nat, n \in S PROVE n + 1 \in S
  <2> DEFINE Step(k, x) == IF at[k - 1] % 2 = 0 THEN <<x, proof[k]>> ELSE <<proof[k], x>>
  <2>1. PICK g : g = PathBody(txid, proof, at, n, g)
    BY <1>2
  <2>2. PICK h : h = [d \in 0..(n + 1) |-> IF d = n + 1 THEN Step(n + 1, g[n]) ELSE g[d]]
    OBVIOUS
  <2>3. \A m, f : PathBody(txid, proof, at, m, f) = [k \in 0..m |-> IF k = 0 THEN <<txid>> ELSE Step(k, f[k - 1])]
    BY Zenon DEF PathBody
  <2> HIDE DEF Step
  <2>4. ASSUME NEW d \in 0..(n + 1)
        PROVE  h[d] = IF d = 0 THEN <<txid>> ELSE Step(d, h[d - 1])
    <3>1. CASE d = n + 1
      BY <2>2, <3>1
    <3>2. CASE d # n + 1
      <4>1. d \in 0..n /\ h[d] = g[d]
        BY <2>2, <3>2
      <4>2. g[d] = IF d = 0 THEN <<txid>> ELSE Step(d, g[d - 1])
        BY <2>1, <2>3, <4>1
      <4>3. d # 0 => d - 1 \in 0..(n + 1) /\ d - 1 # n + 1 /\ h[d - 1] = g[d - 1]
        BY <2>2, <4>1
      <4> QED
        BY <4>1, <4>2, <4>3
    <3> QED
      BY <3>1, <3>2
  <2>5. h = [k \in 0..(n + 1) |-> IF k = 0 THEN <<txid>> ELSE Step(k, h[k - 1])]
    BY <2>2, <2>4
  <2>6. h = PathBody(txid, proof, at, n + 1, h)
    BY <2>3, <2>5, Zenon
  <2> QED
    BY <2>6
<1> HIDE DEF S
<1>3. \A n \in Nat : n \in S
  BY <1>1, <1>2, Counting
<1> QED
  BY <1>3 DEF S

(* A list: a function on 1..n. *)
List(s, n) == n \in Nat /\ s = [i \in 1..n |-> s[i]]

LEMMA ListLen ==
    ASSUME NEW s, NEW n, List(s, n)
    PROVE  Len(s) = n /\ DOMAIN s = 1..n /\ s \in Seq({s[i] : i \in 1..n})
<1>1. s \in [1..n -> {s[i] : i \in 1..n}] /\ n \in Nat
  BY DEF List
<1>2. s \in Seq({s[i] : i \in 1..n})
  BY <1>1
<1> QED
  BY <1>1, <1>2

(* The loop's level has an even length and starts with the level below. *)
LEMMA PaddedIs ==
    ASSUME NEW s, NEW n \in Nat \ {0}, List(s, n)
    PROVE  \E h \in Nat \ {0} :
              /\ List(Padded(s), 2*h)
              /\ n <= 2*h /\ 2*h <= n + 1
              /\ \A i \in 1..n : Padded(s)[i] = s[i]
<1> DEFINE X == {s[i] : i \in 1..n}
<1>1. Len(s) = n /\ DOMAIN s = 1..n /\ s \in Seq(X)
  BY ListLen
<1>2. n \in 1..n /\ s[n] \in X
  OBVIOUS
<1> HIDE DEF X
<1>3. CASE n % 2 = 1
  <2>1. Padded(s) = Append(s, s[n])
    BY <1>1, <1>3 DEF Padded
  <2>2. PICK h \in Nat \ {0} : n + 1 = 2*h
    <3>1. PICK q \in Nat : n = 2 * q + 1
      BY <1>3
    <3>2. n + 1 = 2 * (q + 1) /\ q + 1 \in Nat \ {0}
      BY <3>1
    <3> QED
      BY <3>2
  <2>3. PICK p : p = Append(s, s[n])
    OBVIOUS
  <2>4. p \in Seq(X) /\ Len(p) = n + 1 /\ DOMAIN p = 1..(n + 1) /\ \A i \in 1..n : p[i] = s[i]
    BY <1>1, <1>2, <2>3
  <2>5. List(p, 2*h)
    BY <2>2, <2>4 DEF List
  <2>6. n <= 2*h /\ 2*h <= n + 1
    BY <2>2
  <2> QED
    BY <2>1, <2>3, <2>4, <2>5, <2>6
<1>4. CASE n % 2 # 1
  <2>1. Padded(s) = s
    BY <1>1, <1>4 DEF Padded
  <2>2. PICK h \in Nat \ {0} : n = 2*h
    <3>1. n % 2 = 0
      BY <1>4
    <3>2. n = 2 * (n \div 2) /\ n \div 2 \in Nat
      BY <3>1
    <3> QED
      BY <3>2
  <2>3. n <= 2*h /\ 2*h <= n + 1
    BY <2>2
  <2> QED
    BY <2>1, <2>2, <2>3
<1> QED
  BY <1>3, <1>4

(* The next level has half its length and pairs its hashes. *)
LEMMA NextLevelIs ==
    ASSUME NEW s, NEW n \in Nat \ {0}, List(s, n)
    PROVE  \E h \in Nat \ {0} :
              /\ List(NextLevel(s), h)
              /\ n <= 2*h /\ 2*h <= n + 1
              /\ \A i \in 1..n : Padded(s)[i] = s[i]
              /\ \A i \in 1..h : NextLevel(s)[i] = <<Padded(s)[2*i - 1], Padded(s)[2*i]>>
<1>1. PICK h \in Nat \ {0} : /\ List(Padded(s), 2*h)
                             /\ n <= 2*h /\ 2*h <= n + 1
                             /\ \A i \in 1..n : Padded(s)[i] = s[i]
  BY PaddedIs
<1>2. Len(Padded(s)) = 2*h
  BY <1>1, ListLen
<1>3. (2*h) \div 2 = h
  OBVIOUS
<1>4. NextLevel(s) = [i \in 1..h |-> <<Padded(s)[2*i - 1], Padded(s)[2*i]>>]
  BY <1>2, <1>3 DEF NextLevel
<1>5. List(NextLevel(s), h)
  <2>1. PICK t : t = NextLevel(s)
    OBVIOUS
  <2>2. t = [i \in 1..h |-> t[i]]
    BY <1>4, <2>1
  <2> QED
    BY <2>1, <2>2 DEF List
<1> QED
  BY <1>1, <1>4, <1>5

(* Levels are lists; they shrink until one hash is left. *)
LEMMA LevelLists ==
    ASSUME NEW X, NEW txids \in Seq(X), txids # <<>>
    PROVE  \A d \in 0..Len(txids) :
              \E n \in Nat \ {0} : List(Levels(txids)[d], n) /\ (n = 1 \/ n + d <= Len(txids))
<1>1. Len(txids) \in Nat \ {0} /\ DOMAIN txids = 1..Len(txids)
  OBVIOUS
<1>2. PICK level : level = Levels(txids)
  OBVIOUS
<1> DEFINE Ok(d) == \E n \in Nat \ {0} : List(level[d], n) /\ (n = 1 \/ n + d <= Len(txids))
           S == {d \in Nat : d <= Len(txids) => Ok(d)}
<1>3. 0 \in S
  <2>1. level[0] = [i \in 1..Len(txids) |-> <<txids[i]>>]
    BY <1>1, <1>2, LevelsAre DEF Leaves
  <2>2. level[0] = [i \in 1..Len(txids) |-> level[0][i]]
    BY <2>1
  <2>3. List(level[0], Len(txids))
    BY <1>1, <2>2 DEF List
  <2>4. Ok(0)
    BY <1>1, <2>3
  <2> QED
    BY <2>4
<1>4. ASSUME NEW d \in Nat, d \in S PROVE d + 1 \in S
  <2>1. SUFFICES ASSUME d + 1 <= Len(txids) PROVE Ok(d + 1)
    OBVIOUS
  <2>2. PICK n \in Nat \ {0} : List(level[d], n) /\ (n = 1 \/ n + d <= Len(txids))
    BY <1>1, <1>4, <2>1
  <2>3. level[d + 1] = NextLevel(level[d])
    <3>1. d + 1 \in 1..Len(txids) /\ (d + 1) - 1 = d
      BY <1>1, <2>1
    <3> QED
      BY <1>1, <1>2, <3>1, LevelsAre
  <2>4. PICK h \in Nat \ {0} : List(level[d + 1], h) /\ n <= 2*h /\ 2*h <= n + 1
    BY <2>2, <2>3, NextLevelIs
  <2>5. h = 1 \/ h + (d + 1) <= Len(txids)
    BY <1>1, <2>1, <2>2, <2>4
  <2> QED
    BY <2>4, <2>5
<1> HIDE DEF S
<1>5. \A d \in Nat : d \in S
  BY <1>3, <1>4, Counting
<1> QED
  BY <1>1, <1>2, <1>5 DEF S

LEMMA DepthIs ==
    ASSUME NEW X, NEW txids \in Seq(X), txids # <<>>
    PROVE  Depth(txids) \in 0..Len(txids) /\ List(Levels(txids)[Depth(txids)], 1)
<1>1. Len(txids) \in Nat \ {0}
  OBVIOUS
<1>2. PICK level : level = Levels(txids)
  OBVIOUS
<1>3. ASSUME NEW d \in 0..Len(txids)
      PROVE  Len(level[d]) \in Nat \ {0} /\ List(level[d], Len(level[d]))
  <2>1. PICK n \in Nat \ {0} : List(level[d], n)
    BY <1>2, LevelLists
  <2>2. Len(level[d]) = n
    BY <2>1, ListLen
  <2> QED
    BY <2>1, <2>2
<1> DEFINE Ends == {d \in 0..Len(txids) : Len(level[d]) = 1}
<1>4. Len(txids) \in Ends
  <2>1. PICK n \in Nat \ {0} : List(level[Len(txids)], n) /\ (n = 1 \/ n + Len(txids) <= Len(txids))
    BY <1>1, <1>2, LevelLists
  <2>2. n = 1
    BY <1>1, <2>1
  <2>3. Len(level[Len(txids)]) = 1
    BY <2>1, <2>2, ListLen
  <2> QED
    BY <1>1, <2>3
<1>5. PICK d : d = Min(Ends)
  OBVIOUS
<1>6. d \in Ends /\ \A e \in Ends : d <= e
  <2>1. Ends \in SUBSET Nat /\ Ends # {}
    BY <1>1, <1>4
  <2> HIDE DEF Ends
  <2> QED
    BY <1>5, <2>1, MinNat
<1>7. \A e \in 0..(d - 1) : Len(level[e]) > 1
  <2> SUFFICES ASSUME NEW e \in 0..(d - 1) PROVE Len(level[e]) > 1
    OBVIOUS
  <2>1. e \in 0..Len(txids) /\ e < d
    BY <1>1, <1>6
  <2>2. Len(level[e]) # 1
    BY <1>1, <1>6, <2>1
  <2>3. PICK l \in Nat \ {0} : l = Len(level[e])
    BY <1>3, <2>1
  <2>4. l > 1
    <3>1. l # 1
      BY <2>2, <2>3, Zenon
    <3> QED
      BY <3>1
  <2> QED
    BY <2>3, <2>4, Zenon
<1>8. \E c \in 0..Len(txids) : Len(level[c]) = 1 /\ \A e \in 0..(c - 1) : Len(level[e]) > 1
  BY <1>6, <1>7
<1>9. PICK c : c = Depth(txids)
  OBVIOUS
<1>10. c \in 0..Len(txids) /\ Len(level[c]) = 1
  BY <1>2, <1>8, <1>9, Zenon DEF Depth
<1> QED
  BY <1>2, <1>3, <1>9, <1>10

(* The path of a transaction stays within the levels. *)
LEMMA PathWithin ==
    ASSUME NEW X, NEW txids \in Seq(X), NEW i \in DOMAIN txids, NEW m \in 0..Len(txids)
    PROVE  \A d \in 0..m : \E n \in Nat \ {0} :
              List(Levels(txids)[d], n) /\ Halved(i - 1, m)[d] \in 0..(n - 1)
<1>1. Len(txids) \in Nat \ {0} /\ i \in 1..Len(txids) /\ m \in Nat /\ m <= Len(txids) /\ DOMAIN txids = 1..Len(txids)
  OBVIOUS
<1>2. PICK level, at : level = Levels(txids) /\ at = Halved(i - 1, m)
  OBVIOUS
<1> DEFINE Ok(d) == \E n \in Nat \ {0} : List(level[d], n) /\ at[d] \in 0..(n - 1)
           S == {d \in Nat : d <= m => Ok(d)}
<1>3. 0 \in S
  <2>1. level[0] = [j \in 1..Len(txids) |-> <<txids[j]>>]
    BY <1>1, <1>2, LevelsAre DEF Leaves
  <2>2. List(level[0], Len(txids))
    BY <1>1, <2>1 DEF List
  <2>3. at[0] = i - 1
    BY <1>1, <1>2, HalvesAre
  <2>4. Ok(0)
    BY <1>1, <2>2, <2>3
  <2> QED
    BY <2>4
<1>4. ASSUME NEW d \in Nat, d \in S PROVE d + 1 \in S
  <2>1. SUFFICES ASSUME d + 1 <= m PROVE Ok(d + 1)
    OBVIOUS
  <2>2. PICK n \in Nat \ {0} : List(level[d], n) /\ at[d] \in 0..(n - 1)
    BY <1>1, <1>4, <2>1
  <2>3. d + 1 \in 1..Len(txids) /\ d + 1 \in 1..m /\ (d + 1) - 1 = d
    BY <1>1, <2>1
  <2>4. level[d + 1] = NextLevel(level[d])
    BY <1>1, <1>2, <2>3, LevelsAre
  <2>5. at[d + 1] = at[d] \div 2
    BY <1>1, <1>2, <2>3, HalvesAre
  <2>6. PICK h \in Nat \ {0} : List(level[d + 1], h) /\ n <= 2*h
    BY <2>2, <2>4, NextLevelIs
  <2>7. at[d] \div 2 \in 0..(h - 1)
    BY <2>2, <2>6
  <2> QED
    BY <2>5, <2>6, <2>7
<1> HIDE DEF S
<1>5. \A d \in Nat : d \in S
  BY <1>3, <1>4, Counting
<1>6. ASSUME NEW d \in 0..m PROVE Ok(d)
  <2>1. d \in Nat /\ d <= m
    BY <1>1
  <2>2. d \in S
    BY <1>5, <2>1
  <2> QED
    BY <2>1, <2>2, Zenon DEF S
<1> QED
  BY <1>2, <1>6, Zenon

(* generate_merkle_proof proves what verify_merkle_proof checks, for any    *)
(* number of transactions.                                                  *)
LEMMA MerkleProofVerifies ==
    ASSUME NEW X, NEW txids \in Seq(X), NEW i \in DOMAIN txids
    PROVE  VerifyMerkleProof(txids[i], ComputeMerkleRoot(txids), GenerateMerkleProof(txids, i - 1), i - 1)
<1>1. Len(txids) \in Nat \ {0} /\ i \in 1..Len(txids) /\ DOMAIN txids = 1..Len(txids) /\ txids # <<>>
  OBVIOUS
<1>2. PICK m, level, at, proof, txid :
         /\ m = Depth(txids) /\ level = Levels(txids) /\ at = Halved(i - 1, m)
         /\ proof = GenerateMerkleProof(txids, i - 1) /\ txid = txids[i]
  OBVIOUS
<1>3. m \in 0..Len(txids) /\ m \in Nat /\ List(level[m], 1)
  BY <1>1, <1>2, DepthIs
<1>4. proof = [k \in 1..m |-> Padded(level[k - 1])[Flip(at[k - 1]) + 1]]
  BY <1>2, Zenon DEF GenerateMerkleProof
<1>5. Len(proof) = m
  <2>1. List(proof, m)
    BY <1>3, <1>4 DEF List
  <2> QED
    BY <2>1, ListLen
<1>6. PICK current : current = CHOOSE g : g = PathBody(txid, proof, at, m, g)
  OBVIOUS
<1>7. VerifyMerkleProof(txid, ComputeMerkleRoot(txids), proof, i - 1) <=> current[m] = level[m][1]
  <2>1. ComputeMerkleRoot(txids) = level[m][1]
    BY <1>2, Zenon DEF ComputeMerkleRoot
  <2>2. ASSUME NEW root
        PROVE  VerifyMerkleProof(txid, root, proof, i - 1)
                 <=> (CHOOSE g : g = PathBody(txid, proof, Halved(i - 1, Len(proof)), Len(proof), g))[Len(proof)] = root
    BY Zenon DEF VerifyMerkleProof, PathBody
  <2>3. Halved(i - 1, Len(proof)) = at
    BY <1>2, <1>5, Zenon
  <2> QED
    BY <1>5, <1>6, <2>1, <2>2, <2>3, Zenon
<1>8. current = PathBody(txid, proof, at, m, current)
  BY <1>3, <1>6, PathsExist, Zenon
<1>9. ASSUME NEW k \in 0..m
      PROVE  current[k] = IF k = 0 THEN <<txid>>
                          ELSE IF at[k - 1] % 2 = 0 THEN <<current[k - 1], proof[k]>> ELSE <<proof[k], current[k - 1]>>
  BY <1>8, Zenon DEF PathBody
<1>10. ASSUME NEW d \in 0..m
       PROVE  \E n \in Nat \ {0} : List(level[d], n) /\ at[d] \in 0..(n - 1)
  BY <1>2, <1>3, PathWithin
<1> DEFINE S == {k \in Nat : k <= m => current[k] = level[k][at[k] + 1]}
<1>11. 0 \in S
  <2>1. level[0] = [j \in 1..Len(txids) |-> <<txids[j]>>]
    BY <1>1, <1>2, LevelsAre DEF Leaves
  <2>2. at[0] = i - 1
    BY <1>2, <1>3, HalvesAre
  <2>3. (i - 1) + 1 = i /\ 0 \in 0..m
    BY <1>1, <1>3
  <2>4. current[0] = <<txid>>
    BY <1>9, <2>3
  <2>5. level[0][at[0] + 1] = <<txid>>
    BY <1>1, <1>2, <2>1, <2>2, <2>3
  <2> QED
    BY <2>4, <2>5
<1>12. ASSUME NEW k \in Nat, k \in S PROVE k + 1 \in S
  <2>1. SUFFICES ASSUME k + 1 <= m PROVE current[k + 1] = level[k + 1][at[k + 1] + 1]
    OBVIOUS
  <2>2. /\ k \in 0..m /\ k + 1 \in 0..m /\ k + 1 \in 1..m /\ k + 1 \in 1..Len(txids)
        /\ (k + 1) - 1 = k /\ k + 1 # 0
    BY <1>1, <1>3, <2>1
  <2>3. PICK n \in Nat \ {0} : List(level[k], n) /\ at[k] \in 0..(n - 1)
    BY <1>10, <2>2
  <2>4. level[k + 1] = NextLevel(level[k])
    BY <1>1, <1>2, <2>2, LevelsAre
  <2>5. PICK pad : pad = Padded(level[k])
    OBVIOUS
  <2>6. PICK h \in Nat \ {0} : /\ n <= 2*h
                               /\ \A j \in 1..n : pad[j] = level[k][j]
                               /\ \A j \in 1..h : level[k + 1][j] = <<pad[2*j - 1], pad[2*j]>>
    <3>1. PICK h \in Nat \ {0} :
             /\ n <= 2*h
             /\ \A j \in 1..n : Padded(level[k])[j] = level[k][j]
             /\ \A j \in 1..h : NextLevel(level[k])[j] = <<Padded(level[k])[2*j - 1], Padded(level[k])[2*j]>>
      BY <2>3, NextLevelIs
    <3> QED
      BY <2>4, <2>5, <3>1
  <2>7. at[k + 1] = at[k] \div 2
    BY <1>2, <1>3, <2>2, HalvesAre
  <2>8. current[k] = pad[at[k] + 1]
    <3>1. at[k] + 1 \in 1..n
      BY <2>3
    <3> QED
      BY <1>3, <1>12, <2>1, <2>6, <3>1
  <2>9. proof[k + 1] = pad[Flip(at[k]) + 1]
    BY <1>4, <2>2, <2>5
  <2>10. PICK q \in Nat : q = at[k] \div 2 /\ q + 1 \in 1..h
    <3>1. PICK a \in Nat : a = at[k] /\ a <= n - 1
      BY <2>3
    <3>2. a \div 2 \in Nat /\ (a \div 2) + 1 \in 1..h
      <4>1. n <= 2*h
        BY <2>6
      <4> QED
        BY <3>1, <4>1
    <3> QED
      BY <3>1, <3>2
  <2>11. level[k + 1][at[k + 1] + 1] = <<pad[2*(q + 1) - 1], pad[2*(q + 1)]>>
    <3>1. level[k + 1][q + 1] = <<pad[2*(q + 1) - 1], pad[2*(q + 1)]>>
      BY <2>6, <2>10
    <3> QED
      BY <2>7, <2>10, <3>1
  <2>12. current[k + 1] = IF at[k] % 2 = 0 THEN <<current[k], proof[k + 1]>> ELSE <<proof[k + 1], current[k]>>
    BY <1>9, <2>2
  <2>13. CASE at[k] % 2 = 0
    <3>1. 2*(q + 1) - 1 = at[k] + 1 /\ 2*(q + 1) = Flip(at[k]) + 1
      BY <2>3, <2>10, <2>13 DEF Flip
    <3> QED
      BY <2>8, <2>9, <2>11, <2>12, <2>13, <3>1
  <2>14. CASE at[k] % 2 # 0
    <3>1. 2*(q + 1) - 1 = Flip(at[k]) + 1 /\ 2*(q + 1) = at[k] + 1
      BY <2>3, <2>10, <2>14 DEF Flip
    <3> QED
      BY <2>8, <2>9, <2>11, <2>12, <2>14, <3>1
  <2> QED
    BY <2>13, <2>14
<1> HIDE DEF S
<1>13. \A k \in Nat : k \in S
  BY <1>11, <1>12, Counting
<1>14. current[m] = level[m][at[m] + 1]
  BY <1>3, <1>13 DEF S
<1>15. at[m] = 0
  <2>1. PICK n \in Nat \ {0} : List(level[m], n) /\ at[m] \in 0..(n - 1)
    BY <1>3, <1>10
  <2>2. n = 1
    <3>1. Len(level[m]) = 1
      BY <1>3, ListLen
    <3>2. Len(level[m]) = n
      BY <2>1, ListLen
    <3> QED
      BY <3>1, <3>2
  <2> QED
    BY <2>1, <2>2
<1> QED
  BY <1>2, <1>7, <1>14, <1>15

-----------------------------------------------------------------------------
(* The chain and the headers read from it *)

BlockRow == [id : Nat, prev : Nat, txs : Seq(Nat \union Payouts)]

(* A chain of blocks with ids of their own, up to fd; the first bu never    *)
(* leave it.                                                                *)
Chained(ch, fd, bu) ==
    /\ ch \in Seq(BlockRow) /\ Len(ch) >= 1 /\ fd \in Nat /\ bu \in Int
    /\ \A h \in 1..Len(ch) : ch[h].id <= fd
    /\ \A h \in 2..Len(ch) : ch[h].prev = ch[h - 1].id
    /\ \A g, h \in 1..Len(ch) : ch[g].id = ch[h].id => g = h
    /\ DeepAt(Len(ch)) <= bu /\ bu <= Len(ch)

(* The chains agree up to k, which nothing buried exceeds, and what is      *)
(* above in the second is new.                                              *)
Moves(ch, fd, bu, ch2, fd2, bu2, k) ==
    /\ fd <= fd2 /\ bu <= bu2
    /\ k \in 0..Len(ch) /\ k <= Len(ch2) /\ bu <= k
    /\ \A h \in 1..k : ch2[h] = ch[h]
    /\ \A h \in (k + 1)..Len(ch2) : ch2[h].id > fd

Linked(L, n) == \A i \in 2..n : L[i].prev = L[i - 1].id

(* n headers read one by one above height c: a block of the chain with the  *)
(* id of one is that block; if they link, those below one that is on the    *)
(* chain are too, and those with MinConfirmations are buried.               *)
Read(ch, fd, bu, L, n, c) ==
    /\ List(L, n) /\ c \in Nat \ {0}
    /\ \A i \in 1..n : L[i].id \in Nat /\ L[i].id <= fd
    /\ \A i \in 1..n, h \in 1..Len(ch) : ch[h].id = L[i].id =>
          h = c + i /\ ch[h].prev = L[i].prev /\ ComputeMerkleRoot(ch[h].txs) = L[i].root
    /\ Linked(L, n) =>
          /\ \A m \in 1..n : c + m <= Len(ch) /\ ch[c + m].id = L[m].id =>
                \A j \in 1..m : ch[c + j].id = L[j].id
          /\ \A j \in 1..n : n - j + 1 >= MinConfirmations =>
                c + j <= bu /\ ch[c + j].id = L[j].id

LEMMA ChainFields ==
    ASSUME NEW ch \in Seq(BlockRow)
    PROVE  /\ Len(ch) \in Nat /\ DOMAIN ch = 1..Len(ch)
           /\ \A h \in 1..Len(ch) : /\ ch[h].id \in Nat /\ ch[h].prev \in Nat
                                    /\ ch[h].txs \in Seq(Nat \union Payouts)
<1>1. Len(ch) \in Nat /\ DOMAIN ch = 1..Len(ch) /\ \A h \in 1..Len(ch) : ch[h] \in BlockRow
  OBVIOUS
<1> QED
  BY <1>1 DEF BlockRow

(* What was read stays true when the chain moves. *)
LEMMA ReadKept ==
    ASSUME NEW ch, NEW fd, NEW bu, NEW ch2, NEW fd2, NEW bu2, NEW k, NEW L, NEW n, NEW c,
           Chained(ch, fd, bu), Chained(ch2, fd2, bu2), Moves(ch, fd, bu, ch2, fd2, bu2, k),
           Read(ch, fd, bu, L, n, c)
    PROVE  Read(ch2, fd2, bu2, L, n, c)
<1>1. /\ Len(ch) \in Nat /\ Len(ch2) \in Nat /\ fd \in Nat /\ fd2 \in Nat /\ bu \in Int /\ bu2 \in Int
      /\ \A h \in 1..Len(ch) : ch[h].id \in Nat
      /\ \A h \in 1..Len(ch2) : ch2[h].id \in Nat
      /\ bu <= Len(ch)
  BY ChainFields DEF Chained
<1>2. /\ fd <= fd2 /\ bu <= bu2 /\ k \in Nat /\ k <= Len(ch) /\ k <= Len(ch2) /\ bu <= k
      /\ \A h \in 1..k : ch2[h] = ch[h]
      /\ \A h \in (k + 1)..Len(ch2) : ch2[h].id > fd
  BY <1>1 DEF Moves
<1>3. /\ List(L, n) /\ n \in Nat /\ c \in Nat \ {0}
      /\ \A i \in 1..n : L[i].id \in Nat /\ L[i].id <= fd
  BY DEF Read, List
<1>4. ASSUME NEW i \in 1..n, NEW h \in 1..Len(ch2), ch2[h].id = L[i].id
      PROVE  h <= k /\ h \in 1..Len(ch) /\ ch2[h] = ch[h]
  <2>1. L[i].id <= fd /\ ch2[h].id \in Nat
    BY <1>1, <1>3, <1>4
  <2>2. ~(h \in (k + 1)..Len(ch2))
    BY <1>1, <1>2, <1>4, <2>1
  <2>3. h <= k
    BY <1>1, <1>2, <2>2
  <2> QED
    BY <1>1, <1>2, <2>3
<1>5. \A i \in 1..n : L[i].id \in Nat /\ L[i].id <= fd2
  BY <1>1, <1>2, <1>3
<1>6. ASSUME NEW i \in 1..n, NEW h \in 1..Len(ch2), ch2[h].id = L[i].id
      PROVE  h = c + i /\ ch2[h].prev = L[i].prev /\ ComputeMerkleRoot(ch2[h].txs) = L[i].root
  <2>1. h \in 1..Len(ch) /\ ch2[h] = ch[h]
    BY <1>4, <1>6
  <2>2. ch[h].id = L[i].id
    BY <1>6, <2>1
  <2>3. h = c + i /\ ch[h].prev = L[i].prev /\ ComputeMerkleRoot(ch[h].txs) = L[i].root
    BY <2>1, <2>2 DEF Read
  <2> QED
    BY <2>1, <2>3
<1>7. ASSUME Linked(L, n), NEW m \in 1..n, c + m <= Len(ch2), ch2[c + m].id = L[m].id, NEW j \in 1..m
      PROVE  ch2[c + j].id = L[j].id
  <2>1. c + m \in 1..Len(ch2) /\ c + j \in Nat /\ c + j >= 1 /\ c + j <= c + m
    BY <1>3, <1>7
  <2>2. c + m <= k /\ c + m <= Len(ch) /\ ch2[c + m] = ch[c + m]
    BY <1>1, <1>2, <1>4, <1>7, <2>1
  <2>3. ch[c + j].id = L[j].id
    BY <1>7, <2>2 DEF Read
  <2>4. c + j \in 1..k
    BY <1>2, <1>3, <2>1, <2>2
  <2> QED
    BY <1>2, <2>3, <2>4
<1>8. ASSUME Linked(L, n), NEW j \in 1..n, n - j + 1 >= MinConfirmations
      PROVE  c + j <= bu2 /\ ch2[c + j].id = L[j].id
  <2>1. c + j <= bu /\ ch[c + j].id = L[j].id
    BY <1>8 DEF Read
  <2>2. c + j \in 1..k
    BY <1>1, <1>2, <1>3, <2>1
  <2> QED
    BY <1>1, <1>2, <1>3, <2>1, <2>2
<1> QED
  BY <1>3, <1>5, <1>6, <1>7, <1>8 DEF Read

(* t is s with x at its end. *)
Longer(t, s, n, x) == List(t, n + 1) /\ t[n + 1] = x /\ \A i \in 1..n : t[i] = s[i]

LEMMA ListAppend ==
    ASSUME NEW s, NEW n, NEW x, List(s, n)
    PROVE  Longer(Append(s, x), s, n, x)
<1> DEFINE X == {s[i] : i \in 1..n} \union {x}
<1>1. n \in Nat /\ Len(s) = n /\ s \in Seq({s[i] : i \in 1..n})
  BY ListLen DEF List
<1>2. s \in Seq(X) /\ x \in X
  <2>1. DOMAIN s = 1..n /\ s = [i \in 1..n |-> s[i]]
    BY ListLen DEF List
  <2>2. s \in [1..n -> X]
    BY <2>1
  <2> QED
    BY <1>1, <2>2
<1> HIDE DEF X
<1>3. PICK t : t = Append(s, x)
  OBVIOUS
<1>4. /\ t \in Seq(X) /\ Len(t) = n + 1 /\ DOMAIN t = 1..(n + 1)
      /\ t[n + 1] = x /\ \A i \in 1..n : t[i] = s[i]
  BY <1>1, <1>2, <1>3
<1>5. List(t, n + 1)
  BY <1>1, <1>4 DEF List
<1> QED
  BY <1>3, <1>4, <1>5 DEF Longer

(* A block found goes on top of the chain. *)
LEMMA FindMoves ==
    ASSUME NEW ch, NEW fd, NEW bu, NEW txs \in Seq(Nat \union Payouts), NEW ch2, NEW bu2,
           Chained(ch, fd, bu),
           ch2 = Append(ch, [id |-> fd + 1, prev |-> ch[Len(ch)].id, txs |-> txs]),
           bu2 = IF DeepAt(Len(ch) + 1) > bu THEN DeepAt(Len(ch) + 1) ELSE bu
    PROVE  Chained(ch2, fd + 1, bu2) /\ Moves(ch, fd, bu, ch2, fd + 1, bu2, Len(ch))
<1>1. /\ ch \in Seq(BlockRow) /\ Len(ch) \in Nat /\ Len(ch) >= 1 /\ fd \in Nat /\ bu \in Int
      /\ \A h \in 1..Len(ch) : ch[h].id \in Nat /\ ch[h].id <= fd
      /\ \A h \in 2..Len(ch) : ch[h].prev = ch[h - 1].id
      /\ \A g, h \in 1..Len(ch) : ch[g].id = ch[h].id => g = h
      /\ DeepAt(Len(ch)) <= bu /\ bu <= Len(ch)
  BY ChainFields DEF Chained
<1>2. PICK n \in Nat : n = Len(ch) /\ n >= 1
  BY <1>1
<1>3. PICK b : b = [id |-> fd + 1, prev |-> ch[n].id, txs |-> txs]
  OBVIOUS
<1>4. b \in BlockRow /\ b.id = fd + 1 /\ b.prev = ch[n].id
  <2>1. ch[n].id \in Nat
    BY <1>1, <1>2
  <2> QED
    BY <1>1, <1>3, <2>1 DEF BlockRow
<1>5. ch2 \in Seq(BlockRow) /\ Len(ch2) = n + 1 /\ ch2[n + 1] = b /\ \A h \in 1..n : ch2[h] = ch[h]
  BY <1>1, <1>2, <1>3, <1>4
<1>6. /\ bu2 \in Int /\ bu <= bu2 /\ DeepAt(n + 1) <= bu2 /\ bu2 <= n + 1
  BY <1>1, <1>2, SpvBounds DEF DeepAt
<1>7. ASSUME NEW h \in 1..(n + 1) PROVE ch2[h].id <= fd + 1 /\ (h # n + 1 => ch2[h].id <= fd)
  <2>1. CASE h = n + 1
    BY <1>1, <1>4, <1>5, <2>1
  <2>2. CASE h # n + 1
    <3>1. h \in 1..n
      BY <2>2
    <3> QED
      BY <1>1, <1>2, <1>5, <3>1
  <2> QED
    BY <2>1, <2>2
<1>8. ASSUME NEW h \in 2..(n + 1) PROVE ch2[h].prev = ch2[h - 1].id
  <2>1. CASE h = n + 1
    <3>1. h - 1 = n /\ n \in 1..n
      BY <1>2, <2>1
    <3> QED
      BY <1>4, <1>5, <2>1, <3>1
  <2>2. CASE h # n + 1
    <3>1. h \in 1..n /\ h - 1 \in 1..n /\ h \in 2..n
      BY <1>2, <2>2
    <3> QED
      BY <1>1, <1>2, <1>5, <3>1
  <2> QED
    BY <2>1, <2>2
<1>9. ASSUME NEW g \in 1..(n + 1), NEW h \in 1..(n + 1), ch2[g].id = ch2[h].id PROVE g = h
  <2>1. ASSUME NEW i \in 1..(n + 1), i # n + 1 PROVE i \in 1..n /\ ch2[i] = ch[i] /\ ch2[i].id # fd + 1
    <3>1. i \in 1..n
      BY <2>1
    <3>2. ch[i].id \in Nat /\ ch[i].id <= fd
      BY <1>1, <1>2, <3>1
    <3>3. ch[i].id # fd + 1
      BY <1>1, <3>2
    <3> QED
      BY <1>5, <3>1, <3>3
  <2>2. CASE g = n + 1
    BY <1>4, <1>5, <1>9, <2>1, <2>2
  <2>3. CASE h = n + 1
    BY <1>4, <1>5, <1>9, <2>1, <2>3
  <2>4. CASE g # n + 1 /\ h # n + 1
    BY <1>1, <1>2, <1>9, <2>1, <2>4
  <2> QED
    BY <2>2, <2>3, <2>4
<1>10. Chained(ch2, fd + 1, bu2)
  <2>1. Len(ch2) >= 1 /\ fd + 1 \in Nat
    BY <1>1, <1>2, <1>5
  <2> QED
    BY <1>5, <1>6, <1>7, <1>8, <1>9, <2>1 DEF Chained
<1>11. ASSUME NEW h \in (n + 1)..Len(ch2) PROVE ch2[h].id > fd
  <2>1. h = n + 1
    BY <1>2, <1>5
  <2> QED
    BY <1>1, <1>4, <1>5, <2>1
<1>12. fd <= fd + 1 /\ n \in 0..n /\ n <= Len(ch2) /\ bu <= n
  BY <1>1, <1>2, <1>5
<1>13. Moves(ch, fd, bu, ch2, fd + 1, bu2, n)
  BY <1>2, <1>5, <1>6, <1>11, <1>12 DEF Moves
<1> QED
  BY <1>2, <1>10, <1>13

(* An orphaned tip leaves what is below it. *)
LEMMA OrphanMoves ==
    ASSUME NEW ch, NEW fd, NEW bu, NEW ch2, Chained(ch, fd, bu),
           Len(ch) > 1, Len(ch) > bu, ch2 = SubSeq(ch, 1, Len(ch) - 1)
    PROVE  Chained(ch2, fd, bu) /\ Moves(ch, fd, bu, ch2, fd, bu, Len(ch) - 1)
<1>1. /\ ch \in Seq(BlockRow) /\ Len(ch) \in Nat /\ fd \in Nat /\ bu \in Int
      /\ \A h \in 1..Len(ch) : ch[h].id \in Nat /\ ch[h].id <= fd
      /\ \A h \in 2..Len(ch) : ch[h].prev = ch[h - 1].id
      /\ \A g, h \in 1..Len(ch) : ch[g].id = ch[h].id => g = h
      /\ DeepAt(Len(ch)) <= bu
  BY ChainFields DEF Chained
<1>2. PICK n \in Nat : n = Len(ch) - 1 /\ n >= 1 /\ Len(ch) = n + 1
  <2>1. PICK l \in Nat : l = Len(ch) /\ l > 1
    BY <1>1
  <2>2. l - 1 \in Nat /\ l - 1 >= 1 /\ l = (l - 1) + 1
    BY <2>1
  <2> QED
    BY <2>1, <2>2
<1>3. ch2 \in Seq(BlockRow) /\ Len(ch2) = n /\ \A h \in 1..n : ch2[h] = ch[h]
  BY <1>1, <1>2
<1>4. DeepAt(n) <= bu /\ bu <= n
  BY <1>1, <1>2, SpvBounds DEF DeepAt
<1>5. \A h \in 1..n : h \in 1..(n + 1)
  OBVIOUS
<1>6. \A h \in 2..n : h \in 2..(n + 1) /\ h - 1 \in 1..n /\ h \in 1..n
  OBVIOUS
<1>7. Chained(ch2, fd, bu)
  <2>1. \A h \in 1..n : ch2[h].id = ch[h].id /\ ch2[h].id <= fd
    BY <1>1, <1>2, <1>3, <1>5
  <2>2. \A h \in 2..n : ch2[h].prev = ch2[h - 1].id
    BY <1>1, <1>2, <1>3, <1>6
  <2>3. \A g, h \in 1..n : ch2[g].id = ch2[h].id => g = h
    BY <1>1, <1>2, <1>5, <2>1
  <2> QED
    BY <1>1, <1>2, <1>3, <1>4, <2>1, <2>2, <2>3 DEF Chained
<1>8. \A h \in (n + 1)..Len(ch2) : ch2[h].id > fd
  BY <1>3
<1>9. fd <= fd /\ bu <= bu /\ n \in 0..Len(ch)
  BY <1>1, <1>2
<1>10. Moves(ch, fd, bu, ch2, fd, bu, n)
  BY <1>2, <1>3, <1>4, <1>8, <1>9 DEF Moves
<1> QED
  BY <1>2, <1>7, <1>10

(* One more header is read. *)
LEMMA ReadMore ==
    ASSUME NEW ch, NEW fd, NEW bu, NEW L, NEW n, NEW c, Chained(ch, fd, bu),
           Read(ch, fd, bu, L, n, c), c + n + 1 <= Len(ch)
    PROVE  Read(ch, fd, bu, Append(L, Header(ch[c + n + 1])), n + 1, c)
<1>1. /\ ch \in Seq(BlockRow) /\ Len(ch) \in Nat /\ fd \in Nat /\ bu \in Int
      /\ \A h \in 1..Len(ch) : ch[h].id \in Nat /\ ch[h].id <= fd
      /\ \A h \in 2..Len(ch) : ch[h].prev = ch[h - 1].id
      /\ \A g, h \in 1..Len(ch) : ch[g].id = ch[h].id => g = h
      /\ DeepAt(Len(ch)) <= bu
  BY ChainFields DEF Chained
<1>2. /\ List(L, n) /\ n \in Nat /\ c \in Nat \ {0}
      /\ \A i \in 1..n : L[i].id \in Nat /\ L[i].id <= fd
  BY DEF Read, List
<1>3. PICK h \in Nat : h = c + n + 1 /\ h \in 1..Len(ch) /\ h \in 2..Len(ch) /\ h - 1 = c + n
  BY <1>1, <1>2
<1>4. PICK L2, x : L2 = Append(L, x) /\ x = Header(ch[h])
  OBVIOUS
<1>5. List(L2, n + 1) /\ L2[n + 1] = x /\ \A i \in 1..n : L2[i] = L[i]
  <2>1. Longer(Append(L, x), L, n, x)
    BY <1>2, ListAppend
  <2> QED
    BY <1>4, <2>1 DEF Longer
<1>6. x.id = ch[h].id /\ x.prev = ch[h].prev /\ x.root = ComputeMerkleRoot(ch[h].txs)
  BY <1>4 DEF Header
<1>7. ASSUME NEW i \in 1..(n + 1), i # n + 1 PROVE i \in 1..n /\ L2[i] = L[i]
  <2>1. i \in 1..n
    BY <1>2, <1>7
  <2> QED
    BY <1>5, <2>1
<1>8. ASSUME NEW i \in 1..(n + 1) PROVE L2[i].id \in Nat /\ L2[i].id <= fd
  <2>1. CASE i = n + 1
    BY <1>1, <1>3, <1>5, <1>6, <2>1
  <2>2. CASE i # n + 1
    BY <1>2, <1>7, <2>2
  <2> QED
    BY <2>1, <2>2
<1>9. ASSUME NEW i \in 1..(n + 1), NEW g \in 1..Len(ch), ch[g].id = L2[i].id
      PROVE  g = c + i /\ ch[g].prev = L2[i].prev /\ ComputeMerkleRoot(ch[g].txs) = L2[i].root
  <2>1. CASE i = n + 1
    <3>1. ch[g].id = ch[h].id
      BY <1>5, <1>6, <1>9, <2>1
    <3>2. g = h
      BY <1>1, <1>3, <3>1
    <3>3. h = c + (n + 1)
      BY <1>2, <1>3
    <3> QED
      BY <1>5, <1>6, <2>1, <3>2, <3>3
  <2>2. CASE i # n + 1
    <3>1. i \in 1..n /\ L2[i] = L[i]
      BY <1>7, <2>2
    <3>2. ch[g].id = L[i].id
      BY <1>9, <3>1
    <3> QED
      BY <3>1, <3>2 DEF Read
  <2> QED
    BY <2>1, <2>2
<1>10. ASSUME Linked(L2, n + 1), NEW j \in 1..(n + 1) PROVE ch[c + j].id = L2[j].id
  <2>1. CASE j = n + 1
    <3>1. c + j = h
      BY <1>2, <1>3, <2>1
    <3> QED
      BY <1>5, <1>6, <2>1, <3>1
  <2>2. CASE j # n + 1
    <3>1. j \in 1..n /\ L2[j] = L[j] /\ n \in 1..n /\ n \in 1..(n + 1) /\ n # n + 1 /\ n + 1 \in 2..(n + 1) /\ (n + 1) - 1 = n
      BY <1>2, <1>7, <2>2
    <3>2. Linked(L, n)
      <4> SUFFICES ASSUME NEW i \in 2..n PROVE L[i].prev = L[i - 1].id
        BY DEF Linked
      <4>1. i \in 2..(n + 1) /\ i \in 1..n /\ i - 1 \in 1..n
        BY <1>2
      <4>2. L2[i].prev = L2[i - 1].id
        BY <1>10, <4>1 DEF Linked
      <4> QED
        BY <1>5, <4>1, <4>2
    <3>3. L2[n + 1].prev = L2[n].id
      BY <1>10, <3>1 DEF Linked
    <3>4. ch[c + n].id = L[n].id
      BY <1>1, <1>3, <1>5, <1>6, <3>1, <3>3
    <3>5. c + n <= Len(ch)
      BY <1>1, <1>2, <1>3
    <3>6. ch[c + j].id = L[j].id
      BY <3>1, <3>2, <3>4, <3>5 DEF Read
    <3> QED
      BY <3>1, <3>6
  <2> QED
    BY <2>1, <2>2
<1>11. ASSUME NEW m \in 1..(n + 1), NEW j \in 1..m PROVE j \in 1..(n + 1)
  BY <1>2
<1>12. ASSUME NEW j \in 1..(n + 1), (n + 1) - j + 1 >= MinConfirmations PROVE c + j <= bu
  BY <1>1, <1>2, <1>3, <1>12, SpvBounds DEF DeepAt
<1>13. Read(ch, fd, bu, L2, n + 1, c)
  BY <1>2, <1>5, <1>8, <1>9, <1>10, <1>11, <1>12 DEF Read
<1> QED
  BY <1>3, <1>4, <1>13

(* Headers read at once are those of the chain. *)
LEMMA ReadWhole ==
    ASSUME NEW ch, NEW fd, NEW bu, NEW n \in Nat, NEW c \in Nat \ {0}, Chained(ch, fd, bu),
           c + n <= Len(ch)
    PROVE  Read(ch, fd, bu, [k \in 1..n |-> Header(ch[c + k])], n, c)
<1>1. /\ ch \in Seq(BlockRow) /\ Len(ch) \in Nat /\ fd \in Nat /\ bu \in Int
      /\ \A h \in 1..Len(ch) : ch[h].id \in Nat /\ ch[h].id <= fd
      /\ \A g, h \in 1..Len(ch) : ch[g].id = ch[h].id => g = h
      /\ DeepAt(Len(ch)) <= bu
  BY ChainFields DEF Chained
<1>2. PICK L : L = [k \in 1..n |-> Header(ch[c + k])]
  OBVIOUS
<1>3. List(L, n)
  BY <1>2 DEF List
<1>4. ASSUME NEW i \in 1..n
      PROVE  /\ c + i \in 1..Len(ch) /\ L[i].id = ch[c + i].id /\ L[i].prev = ch[c + i].prev
             /\ L[i].root = ComputeMerkleRoot(ch[c + i].txs)
  <2>1. L[i] = Header(ch[c + i])
    BY <1>2
  <2>2. c + i \in 1..Len(ch)
    BY <1>1
  <2> QED
    BY <2>1, <2>2 DEF Header
<1>5. ASSUME NEW i \in 1..n, NEW g \in 1..Len(ch), ch[g].id = L[i].id
      PROVE  g = c + i /\ ch[g].prev = L[i].prev /\ ComputeMerkleRoot(ch[g].txs) = L[i].root
  <2>1. c + i \in 1..Len(ch) /\ ch[g].id = ch[c + i].id
    BY <1>4, <1>5
  <2>2. g = c + i
    BY <1>1, <2>1
  <2> QED
    BY <1>4, <2>2
<1>6. ASSUME NEW j \in 1..n, n - j + 1 >= MinConfirmations PROVE c + j <= bu
  BY <1>1, <1>6, SpvBounds DEF DeepAt
<1>7. \A i \in 1..n : L[i].id \in Nat /\ L[i].id <= fd
  BY <1>1, <1>4
<1>8. ASSUME NEW m \in 1..n, NEW j \in 1..m PROVE j \in 1..n
  OBVIOUS
<1>9. Read(ch, fd, bu, L, n, c)
  BY <1>3, <1>4, <1>5, <1>6, <1>7, <1>8 DEF Read
<1> QED
  BY <1>2, <1>9

-----------------------------------------------------------------------------
(* The relayer's invariant *)

Heights(checkpointed) ==
    /\ checkpointed \subseteq Nat \ {0}
    /\ checkpointed # {} => \E h \in checkpointed : \A g \in checkpointed : g <= h

(* A proof sent was built from headers read above a checkpoint: a block of  *)
(* the chain with the id of its target holds the payout, and its Merkle     *)
(* proof leads to the target's root.                                        *)
Sent(ch, fd, bu, checkpointed, proof) ==
    /\ proof.payout \in Payouts
    /\ proof.txBlockIndex \in Nat
    /\ proof.checkpoint \in checkpointed
    /\ Read(ch, fd, bu, proof.headers, proof.txBlockIndex + MinConfirmations, proof.checkpoint)
    /\ \A h \in 1..Len(ch) : ch[h].id = proof.headers[proof.txBlockIndex + 1].id =>
           proof.payout \in ToSet(ch[h].txs)
    /\ VerifyMerkleProof(proof.payout, proof.headers[proof.txBlockIndex + 1].root,
                         proof.merkleProof, proof.txIndex)

Flown(ch, fd, bu, checkpointed, sent) ==
    /\ List(sent, Len(sent))
    /\ \A i \in 1..Len(sent) :
          /\ sent[i] = [proof |-> sent[i].proof, status |-> sent[i].status]
          /\ Sent(ch, fd, bu, checkpointed, sent[i].proof)

PayoutRows(rows) == DOMAIN rows \subseteq Payouts /\ \A p \in DOMAIN rows : rows[p] \in Nat \ {0}

(* The process: the rows it still has to do are pending, the one in hand is *)
(* too, and the headers in hand are those above its checkpoint up to where  *)
(* it got.                                                                  *)
ProcShape(r) ==
    r = [pc |-> r.pc, last |-> r.last, at |-> r.at, end |-> r.end, height |-> r.height,
         todo |-> r.todo, cur |-> r.cur, checkpoint |-> r.checkpoint, headers |-> r.headers, tx |-> r.tx]

ProcRows(r, rows) ==
    /\ r.pc \in {"next", "headers", "prove", "receipt"} => r.todo \subseteq DOMAIN rows
    /\ r.pc \in {"headers", "prove", "receipt"} => r.cur \in DOMAIN rows /\ r.cur \notin r.todo

ProcReads(ch, fd, bu, checkpointed, rows, r) ==
    r.pc \in {"headers", "prove"} =>
        /\ r.checkpoint \in checkpointed /\ r.checkpoint < rows[r.cur]
        /\ \E n \in Nat :
              /\ Read(ch, fd, bu, r.headers, n, r.checkpoint)
              /\ r.pc = "headers" => r.checkpoint + n < TipHeight(rows[r.cur])
              /\ r.pc = "prove" => r.checkpoint + n = TipHeight(rows[r.cur])

Counted(ch, bu, count) ==
    /\ count \in [Payouts -> {0, 1}]
    /\ \A p \in Payouts : count[p] = 1 => \E h \in 1..Len(ch) : h <= bu /\ p \in ToSet(ch[h].txs)

SpvInv ==
    /\ Chained(chain, found, buried)
    /\ Heights(DOMAIN checkpoints)
    /\ PayoutRows(pending)
    /\ ProcShape(spv)
    /\ ProcRows(spv, pending)
    /\ ProcReads(chain, found, buried, DOMAIN checkpoints, pending, spv)
    /\ Flown(chain, found, buried, DOMAIN checkpoints, flight)
    /\ Counted(chain, buried, credited)

LEMMA LatestIs ==
    ASSUME Heights(DOMAIN checkpoints)
    PROVE  /\ LatestCheckpoint \in Nat
           /\ \A g \in DOMAIN checkpoints : g <= LatestCheckpoint
           /\ LatestCheckpoint # 0 => LatestCheckpoint \in DOMAIN checkpoints
<1>1. PICK D : D = DOMAIN checkpoints
  OBVIOUS
<1>2. CASE D = {}
  BY <1>1, <1>2 DEF LatestCheckpoint
<1>3. CASE D # {}
  <2>1. \E h \in D : \A g \in D : g <= h
    BY <1>1, <1>3 DEF Heights
  <2>2. PICK l : l = CHOOSE h \in D : \A g \in D : g <= h
    OBVIOUS
  <2>3. l \in D /\ \A g \in D : g <= l
    BY <2>1, <2>2, Zenon
  <2>4. LatestCheckpoint = l
    BY <1>1, <1>3, <2>2 DEF LatestCheckpoint
  <2>5. l \in Nat
    BY <1>1, <2>3 DEF Heights
  <2> QED
    BY <1>1, <2>3, <2>4, <2>5
<1> QED
  BY <1>2, <1>3

(* What is known of the proofs, the process and the counts outlives a move  *)
(* of the chain.                                                            *)
LEMMA SentMoves ==
    ASSUME NEW ch, NEW fd, NEW bu, NEW ch2, NEW fd2, NEW bu2, NEW k, NEW C, NEW proof,
           Chained(ch, fd, bu), Chained(ch2, fd2, bu2), Moves(ch, fd, bu, ch2, fd2, bu2, k),
           Sent(ch, fd, bu, C, proof)
    PROVE  Sent(ch2, fd2, bu2, C, proof)
<1>1. PICK n, L, j : /\ n = proof.txBlockIndex + MinConfirmations /\ L = proof.headers
                     /\ j = proof.txBlockIndex + 1
  OBVIOUS
<1>2. Read(ch, fd, bu, L, n, proof.checkpoint)
  BY <1>1 DEF Sent
<1>3. Read(ch2, fd2, bu2, L, n, proof.checkpoint)
  BY <1>2, ReadKept
<1>4. j \in 1..n
  BY <1>1, SpvBounds DEF Sent
<1>5. ASSUME NEW h \in 1..Len(ch2), ch2[h].id = L[j].id PROVE proof.payout \in ToSet(ch2[h].txs)
  <2>1. /\ Len(ch) \in Nat /\ Len(ch2) \in Nat /\ fd \in Nat
        /\ \A g \in 1..Len(ch2) : ch2[g].id \in Nat
    BY ChainFields DEF Chained
  <2>2. /\ k \in Nat /\ k <= Len(ch)
        /\ \A g \in 1..k : ch2[g] = ch[g]
        /\ \A g \in (k + 1)..Len(ch2) : ch2[g].id > fd
    BY <2>1 DEF Moves
  <2>3. L[j].id \in Nat /\ L[j].id <= fd
    BY <1>2, <1>4 DEF Read
  <2>4. ~(h \in (k + 1)..Len(ch2))
    BY <1>5, <2>1, <2>2, <2>3
  <2>5. h \in 1..k /\ h \in 1..Len(ch)
    BY <2>1, <2>2, <2>4
  <2>6. ch2[h] = ch[h]
    BY <2>2, <2>5
  <2>7. ch[h].id = L[j].id
    BY <1>5, <2>6
  <2>8. proof.payout \in ToSet(ch[h].txs)
    BY <1>1, <2>5, <2>7 DEF Sent
  <2> QED
    BY <2>6, <2>8
<1> QED
  BY <1>1, <1>3, <1>5 DEF Sent

LEMMA CountedMoves ==
    ASSUME NEW ch, NEW fd, NEW bu, NEW ch2, NEW fd2, NEW bu2, NEW k, NEW count,
           Chained(ch, fd, bu), Chained(ch2, fd2, bu2), Moves(ch, fd, bu, ch2, fd2, bu2, k),
           Counted(ch, bu, count)
    PROVE  Counted(ch2, bu2, count)
<1>1. Len(ch) \in Nat /\ Len(ch2) \in Nat /\ bu \in Int /\ bu2 \in Int
  BY ChainFields DEF Chained
<1>2. k \in Nat /\ k <= Len(ch2) /\ bu <= k /\ bu <= bu2 /\ \A g \in 1..k : ch2[g] = ch[g]
  BY <1>1 DEF Moves
<1>3. ASSUME NEW p \in Payouts, count[p] = 1
      PROVE  \E h \in 1..Len(ch2) : h <= bu2 /\ p \in ToSet(ch2[h].txs)
  <2>1. PICK h \in 1..Len(ch) : h <= bu /\ p \in ToSet(ch[h].txs)
    BY <1>3 DEF Counted
  <2>2. h \in 1..k /\ h \in 1..Len(ch2) /\ h <= bu2
    BY <1>1, <1>2, <2>1
  <2> QED
    BY <1>2, <2>1, <2>2
<1> QED
  BY <1>3 DEF Counted

LEMMA ChainStep ==
    ASSUME SpvInv, NEW k, Chained(chain', found', buried'),
           Moves(chain, found, buried, chain', found', buried', k),
           UNCHANGED <<checkpoints, registered, credited, flight, pending, submitted, spv>>
    PROVE  SpvInv'
<1>1. PICK ch, fd, bu, ch2, fd2, bu2, C : /\ ch = chain /\ fd = found /\ bu = buried
                                          /\ ch2 = chain' /\ fd2 = found' /\ bu2 = buried'
                                          /\ C = DOMAIN checkpoints
  OBVIOUS
<1>2. Chained(ch, fd, bu) /\ Chained(ch2, fd2, bu2) /\ Moves(ch, fd, bu, ch2, fd2, bu2, k)
  BY <1>1 DEF SpvInv
<1>3. Counted(ch2, bu2, credited)
  BY <1>1, <1>2, CountedMoves DEF SpvInv
<1>4. Flown(ch2, fd2, bu2, C, flight)
  <2>1. Flown(ch, fd, bu, C, flight)
    BY <1>1 DEF SpvInv
  <2> SUFFICES ASSUME NEW i \in 1..Len(flight) PROVE Sent(ch2, fd2, bu2, C, flight[i].proof)
    BY <2>1 DEF Flown
  <2>2. Sent(ch, fd, bu, C, flight[i].proof)
    BY <2>1 DEF Flown
  <2> QED
    BY <1>2, <2>2, SentMoves
<1>5. ProcReads(ch2, fd2, bu2, C, pending, spv)
  <2>1. ProcReads(ch, fd, bu, C, pending, spv)
    BY <1>1 DEF SpvInv
  <2>2. ASSUME NEW n, Read(ch, fd, bu, spv.headers, n, spv.checkpoint)
        PROVE  Read(ch2, fd2, bu2, spv.headers, n, spv.checkpoint)
    BY <1>2, <2>2, ReadKept
  <2> QED
    BY <2>1, <2>2 DEF ProcReads
<1> QED
  BY <1>1, <1>2, <1>3, <1>4, <1>5 DEF SpvInv

LEMMA SpvInitKept == SpvInit => SpvInv
<1> SUFFICES ASSUME SpvInit PROVE SpvInv
  OBVIOUS
<1>1. PICK b : b = [id |-> 1, prev |-> 0, txs |-> <<1>>]
  OBVIOUS
<1>2. b \in BlockRow /\ b.id = 1
  <2>1. <<1>> \in Seq(Nat \union Payouts)
    OBVIOUS
  <2> QED
    BY <1>1, <2>1 DEF BlockRow
<1>3. chain = <<b>> /\ chain \in Seq(BlockRow) /\ Len(chain) = 1 /\ chain[1] = b
  BY <1>1, <1>2 DEF SpvInit
<1>4. Chained(chain, found, buried)
  <2>1. found = 1 /\ buried = DeepAt(1)
    BY DEF SpvInit
  <2>2. buried \in Int /\ buried <= 1
    BY <2>1, SpvBounds DEF DeepAt
  <2> QED
    BY <1>2, <1>3, <2>1, <2>2 DEF Chained
<1>5. Heights(DOMAIN checkpoints) /\ PayoutRows(pending)
  BY DEF SpvInit, Heights, PayoutRows
<1>6. /\ spv = [pc |-> "idle", last |-> NoHeight, at |-> 0, end |-> 0, height |-> 0, todo |-> {},
                cur |-> NoHeight, checkpoint |-> 0, headers |-> <<>>, tx |-> 0]
  BY DEF SpvInit, SpvAtRest
<1>7. ProcShape(spv) /\ spv.pc = "idle"
  BY <1>6 DEF ProcShape
<1>8. ProcRows(spv, pending) /\ ProcReads(chain, found, buried, DOMAIN checkpoints, pending, spv)
  BY <1>7 DEF ProcRows, ProcReads
<1>9. Flown(chain, found, buried, DOMAIN checkpoints, flight)
  <2>1. flight = <<>> /\ Len(flight) = 0
    BY DEF SpvInit
  <2> QED
    BY <2>1 DEF Flown, List
<1>10. Counted(chain, buried, credited)
  BY DEF SpvInit, Counted
<1> QED
  BY <1>4, <1>5, <1>7, <1>8, <1>9, <1>10 DEF SpvInv

LEMMA FindStep ==
    ASSUME SpvInv, NEW S \in SUBSET Payouts, NEW paid \in Ordered(S), FindBlock(paid)
    PROVE  SpvInv'
<1>1. paid \in Seq(Payouts)
  <2>1. IsFiniteSet(S)
    BY SpvBounds, FS_Subset
  <2>2. Cardinality(S) \in Nat
    BY <2>1, FS_CardinalityType
  <2>3. paid \in [1..Cardinality(S) -> S]
    BY DEF Ordered
  <2>4. paid \in [1..Cardinality(S) -> Payouts]
    BY <2>3
  <2> QED
    BY <2>2, <2>4
<1>2. Chained(chain, found, buried) /\ found \in Nat
  BY DEF SpvInv, Chained
<1>3. PICK txs : txs = <<found + 1>> \o paid
  OBVIOUS
<1>4. txs \in Seq(Nat \union Payouts)
  <2>1. <<found + 1>> \in Seq(Nat \union Payouts) /\ paid \in Seq(Nat \union Payouts)
    BY <1>1, <1>2
  <2> QED
    BY <1>3, <2>1
<1>5. PICK ch, fd, bu, ch2, bu2 : ch = chain /\ fd = found /\ bu = buried /\ ch2 = chain' /\ bu2 = buried'
  OBVIOUS
<1>6. /\ ch2 = Append(ch, [id |-> fd + 1, prev |-> ch[Len(ch)].id, txs |-> txs])
      /\ bu2 = IF DeepAt(Len(ch) + 1) > bu THEN DeepAt(Len(ch) + 1) ELSE bu
      /\ found' = fd + 1
      /\ UNCHANGED <<checkpoints, registered, credited, flight, pending, submitted, spv>>
  BY <1>3, <1>5 DEF FindBlock
<1>7. Chained(ch2, fd + 1, bu2) /\ Moves(ch, fd, bu, ch2, fd + 1, bu2, Len(ch))
  BY <1>2, <1>4, <1>5, <1>6, FindMoves
<1> QED
  BY <1>5, <1>6, <1>7, ChainStep

LEMMA OrphanStep == ASSUME SpvInv, Orphan PROVE SpvInv'
<1>1. PICK ch, fd, bu, ch2 : ch = chain /\ fd = found /\ bu = buried /\ ch2 = chain'
  OBVIOUS
<1>2. Chained(ch, fd, bu) /\ Len(ch) > 1 /\ Len(ch) > bu /\ ch2 = SubSeq(ch, 1, Len(ch) - 1)
  BY <1>1 DEF SpvInv, Orphan
<1>3. Chained(ch2, fd, bu) /\ Moves(ch, fd, bu, ch2, fd, bu, Len(ch) - 1)
  BY <1>2, OrphanMoves
<1>4. found' = fd /\ buried' = bu /\ UNCHANGED <<checkpoints, registered, credited, flight, pending, submitted, spv>>
  BY <1>1 DEF Orphan
<1> QED
  BY <1>1, <1>3, <1>4, ChainStep

(* A checkpoint more takes nothing away from what was built on the others. *)
LEMMA CheckpointStep == ASSUME SpvInv, NEW height, SetCheckpoint(height) PROVE SpvInv'
<1>1. PICK C, D : C = DOMAIN checkpoints /\ D = DOMAIN checkpoints'
  OBVIOUS
<1>2. D = C \union {height} /\ height \in DOMAIN chain /\ height > LatestCheckpoint
  BY <1>1 DEF SetCheckpoint
<1>3. height \in Nat \ {0}
  <2>1. DOMAIN chain = 1..Len(chain) /\ Len(chain) \in Nat
    BY ChainFields DEF SpvInv, Chained
  <2> QED
    BY <1>2, <2>1
<1>4. Heights(C) /\ LatestCheckpoint \in Nat /\ \A g \in C : g <= LatestCheckpoint
  BY <1>1, LatestIs DEF SpvInv
<1>5. Heights(D)
  <2>1. D \subseteq Nat \ {0}
    BY <1>2, <1>3, <1>4 DEF Heights
  <2>2. \A g \in D : g <= height
    BY <1>2, <1>3, <1>4, <2>1
  <2> QED
    BY <1>2, <2>1, <2>2 DEF Heights
<1>6. UNCHANGED <<registered, credited, flight, pending, submitted, spv, chain, found, buried>>
  BY DEF SetCheckpoint, bitcoinVars
<1>7. Flown(chain, found, buried, D, flight)
  BY <1>1, <1>2 DEF SpvInv, Flown, Sent
<1>8. ProcReads(chain, found, buried, D, pending, spv)
  BY <1>1, <1>2 DEF SpvInv, ProcReads
<1> QED
  BY <1>1, <1>5, <1>6, <1>7, <1>8 DEF SpvInv

(* A header of a proof the verifier accepts that has MinConfirmations is    *)
(* buried, and so is the payout.                                            *)
LEMMA AcceptedIsBuried ==
    ASSUME SpvInv, NEW proof, Sent(chain, found, buried, DOMAIN checkpoints, proof), VerifyPayout(proof)
    PROVE  \E h \in 1..Len(chain) : h <= buried /\ proof.payout \in ToSet(chain[h].txs)
<1>1. PICK n, L, j, c : /\ n = proof.txBlockIndex + MinConfirmations /\ L = proof.headers
                        /\ j = proof.txBlockIndex + 1 /\ c = proof.checkpoint
  OBVIOUS
<1>2. /\ Read(chain, found, buried, L, n, c) /\ n \in Nat /\ j \in 1..n /\ n - j + 1 >= MinConfirmations
      /\ c \in Nat \ {0} /\ DOMAIN L = 1..n
  <2>1. Read(chain, found, buried, L, n, c) /\ proof.txBlockIndex \in Nat
    BY <1>1 DEF Sent
  <2>2. List(L, n) /\ c \in Nat \ {0}
    BY <2>1 DEF Read
  <2>3. DOMAIN L = 1..n
    BY <2>2, ListLen
  <2> QED
    BY <1>1, <2>1, <2>2, <2>3, SpvBounds
<1>3. Linked(L, n)
  <2>1. LinksFrom(checkpoints[c], L)
    BY <1>1 DEF VerifyPayout
  <2> SUFFICES ASSUME NEW i \in 2..n PROVE L[i].prev = L[i - 1].id
    BY DEF Linked
  <2>2. i \in DOMAIN L /\ i # 1
    BY <1>2
  <2> QED
    BY <2>1, <2>2 DEF LinksFrom
<1>4. c + j <= buried /\ chain[c + j].id = L[j].id
  BY <1>2, <1>3 DEF Read
<1>5. c + j \in 1..Len(chain)
  <2>1. Len(chain) \in Nat /\ buried \in Int /\ buried <= Len(chain)
    BY ChainFields DEF SpvInv, Chained
  <2> QED
    BY <1>2, <1>4, <2>1
<1>6. proof.payout \in ToSet(chain[c + j].txs)
  BY <1>1, <1>4, <1>5 DEF Sent
<1> QED
  BY <1>4, <1>5, <1>6

LEMMA IncludeStep == ASSUME SpvInv, NEW i \in DOMAIN flight, Include(i) PROVE SpvInv'
<1>1. PICK n, proof : n = Len(flight) /\ proof = flight[i].proof
  OBVIOUS
<1>2. UNCHANGED <<checkpoints, registered, pending, submitted, spv, chain, found, buried>>
  BY DEF Include, bitcoinVars
<1>3. /\ Flown(chain, found, buried, DOMAIN checkpoints, flight) /\ List(flight, n)
      /\ n \in Nat /\ DOMAIN flight = 1..n /\ flight = [j \in 1..n |-> flight[j]]
  <2>1. Flown(chain, found, buried, DOMAIN checkpoints, flight) /\ List(flight, n)
    BY <1>1 DEF SpvInv, Flown
  <2> QED
    BY <2>1, ListLen DEF List
<1>4. i \in 1..n /\ Sent(chain, found, buried, DOMAIN checkpoints, proof)
  BY <1>1, <1>3 DEF Flown
<1>5. ASSUME NEW to, flight' = [flight EXCEPT ![i].status = to]
      PROVE  Flown(chain, found, buried, DOMAIN checkpoints, flight')
  <2>1. PICK f : f = flight'
    OBVIOUS
  <2>2. f = [j \in 1..n |-> IF j = i THEN [flight[i] EXCEPT !.status = to] ELSE flight[j]]
    BY <1>3, <1>5, <2>1
  <2>3. List(f, n) /\ Len(f) = n
    <3>1. f = [j \in 1..n |-> f[j]]
      BY <2>2
    <3>2. List(f, n)
      BY <1>3, <3>1 DEF List
    <3> QED
      BY <3>2, ListLen
  <2>4. ASSUME NEW j \in 1..n
        PROVE  f[j] = [proof |-> f[j].proof, status |-> f[j].status] /\ f[j].proof = flight[j].proof
    <3>1. PICK x : x = flight[j]
      OBVIOUS
    <3>2. x = [proof |-> x.proof, status |-> x.status]
      BY <1>1, <1>3, <3>1 DEF Flown
    <3>3. CASE j = i
      <4>1. f[j] = [x EXCEPT !.status = to]
        BY <2>2, <3>1, <3>3
      <4>2. f[j] = [proof |-> x.proof, status |-> to]
        BY <3>2, <4>1
      <4> QED
        BY <3>1, <4>2
    <3>4. CASE j # i
      BY <2>2, <3>1, <3>2, <3>4
    <3> QED
      BY <3>3, <3>4
  <2>5. ASSUME NEW j \in 1..n PROVE Sent(chain, found, buried, DOMAIN checkpoints, f[j].proof)
    <3>1. Sent(chain, found, buried, DOMAIN checkpoints, flight[j].proof)
      BY <1>1, <1>3 DEF Flown
    <3> QED
      BY <2>4, <3>1
  <2>6. Flown(chain, found, buried, DOMAIN checkpoints, f)
    BY <2>3, <2>4, <2>5 DEF Flown
  <2> QED
    BY <2>1, <2>6
<1>6. Flown(chain, found, buried, DOMAIN checkpoints, flight')
  BY <1>5 DEF Include
<1>7. Counted(chain, buried, credited')
  <2>1. CASE ~Accepts(proof)
    BY <1>1, <2>1 DEF Include, SpvInv
  <2>2. CASE Accepts(proof)
    <3>1. credited' = [credited EXCEPT ![proof.payout] = @ + 1] /\ credited[proof.payout] = 0
      BY <1>1, <2>2 DEF Include, Accepts
    <3>2. \E h \in 1..Len(chain) : h <= buried /\ proof.payout \in ToSet(chain[h].txs)
      BY <1>4, <2>2, AcceptedIsBuried DEF Accepts
    <3>3. Counted(chain, buried, credited) /\ credited \in [Payouts -> {0, 1}] /\ proof.payout \in Payouts
      BY <1>4 DEF SpvInv, Counted, Sent
    <3>4. credited' = [credited EXCEPT ![proof.payout] = 1]
      BY <3>1, <3>3
    <3>5. credited' \in [Payouts -> {0, 1}]
      BY <3>3, <3>4
    <3>6. \A p \in Payouts : p # proof.payout => credited'[p] = credited[p]
      BY <3>3, <3>4
    <3> QED
      BY <3>2, <3>3, <3>5, <3>6 DEF Counted
  <2> QED
    BY <2>1, <2>2
<1> QED
  BY <1>2, <1>6, <1>7 DEF SpvInv

(* The proof built for a payout that the node's block at the target holds,  *)
(* under the root of the header read at that height.                        *)
LEMMA BuiltIsSent ==
    ASSUME SpvInv, NEW p \in Payouts, NEW c \in DOMAIN checkpoints, NEW target \in Nat, NEW L, NEW n \in Nat,
           c < target, c + n = TipHeight(target), Read(chain, found, buried, L, n, c),
           Provable(p, c, target, L)
    PROVE  Sent(chain, found, buried, DOMAIN checkpoints, ProofOf(p, c, target, L))
<1>1. Chained(chain, found, buried) /\ c \in Nat \ {0}
  BY DEF SpvInv, Heights
<1>2. /\ Len(chain) \in Nat /\ DOMAIN chain = 1..Len(chain)
      /\ \A h \in 1..Len(chain) : chain[h].txs \in Seq(Nat \union Payouts)
  BY <1>1, ChainFields DEF Chained
<1>3. PICK txids, i, proof : /\ txids = chain[target].txs
                             /\ i = CHOOSE j \in DOMAIN txids : txids[j] = p
                             /\ proof = ProofOf(p, c, target, L)
  OBVIOUS
<1>4. /\ target \in 1..Len(chain) /\ p \in ToSet(txids) /\ txids \in Seq(Nat \union Payouts)
      /\ L[target - c].root = ComputeMerkleRoot(txids)
  BY <1>2, <1>3 DEF Provable
<1>5. i \in DOMAIN txids /\ txids[i] = p
  <2>1. \E j \in DOMAIN txids : txids[j] = p
    BY <1>4 DEF ToSet
  <2> QED
    BY <1>3, <2>1, Zenon
<1>6. proof = [payout |-> p, checkpoint |-> c, headers |-> L, txBlockIndex |-> target - c - 1,
               merkleProof |-> GenerateMerkleProof(txids, i - 1), txIndex |-> i - 1]
  BY <1>3, Zenon DEF ProofOf, TxBlockIndex
<1>7. /\ proof.payout = p /\ proof.checkpoint = c /\ proof.headers = L
      /\ proof.txBlockIndex = target - c - 1
      /\ proof.merkleProof = GenerateMerkleProof(txids, i - 1) /\ proof.txIndex = i - 1
  BY <1>6
<1>8. /\ proof.txBlockIndex \in Nat /\ proof.txBlockIndex + 1 = target - c
      /\ proof.txBlockIndex + MinConfirmations = n /\ target - c \in 1..n
  BY <1>1, <1>7, SpvBounds DEF TipHeight
<1>9. VerifyMerkleProof(p, L[target - c].root, GenerateMerkleProof(txids, i - 1), i - 1)
  <2>1. VerifyMerkleProof(txids[i], ComputeMerkleRoot(txids), GenerateMerkleProof(txids, i - 1), i - 1)
    BY <1>4, <1>5, MerkleProofVerifies
  <2> QED
    BY <1>4, <1>5, <2>1
<1>10. ASSUME NEW h \in 1..Len(chain), chain[h].id = L[target - c].id PROVE p \in ToSet(chain[h].txs)
  <2>1. h = c + (target - c)
    BY <1>8, <1>10 DEF Read
  <2>2. h = target
    BY <1>1, <2>1
  <2> QED
    BY <1>3, <1>4, <2>2
<1>11. Sent(chain, found, buried, DOMAIN checkpoints, proof)
  BY <1>7, <1>8, <1>9, <1>10 DEF Sent
<1> QED
  BY <1>3, <1>11

LEMMA SendKept ==
    ASSUME SpvInv, NEW proof, Sent(chain, found, buried, DOMAIN checkpoints, proof)
    PROVE  Flown(chain, found, buried, DOMAIN checkpoints, Append(flight, [proof |-> proof, status |-> "sent"]))
<1>1. PICK n, x, f : /\ n = Len(flight) /\ x = [proof |-> proof, status |-> "sent"]
                     /\ f = Append(flight, x)
  OBVIOUS
<1>2. Flown(chain, found, buried, DOMAIN checkpoints, flight) /\ List(flight, n) /\ n \in Nat
  BY <1>1 DEF SpvInv, Flown, List
<1>3. Longer(f, flight, n, x)
  BY <1>1, <1>2, ListAppend
<1>4. List(f, n + 1) /\ f[n + 1] = x /\ \A i \in 1..n : f[i] = flight[i]
  BY <1>3 DEF Longer
<1>5. Len(f) = n + 1
  BY <1>4, ListLen
<1>6. ASSUME NEW i \in 1..(n + 1)
      PROVE  /\ f[i] = [proof |-> f[i].proof, status |-> f[i].status]
             /\ Sent(chain, found, buried, DOMAIN checkpoints, f[i].proof)
  <2>1. CASE i = n + 1
    BY <1>1, <1>4, <2>1
  <2>2. CASE i # n + 1
    <3>1. i \in 1..n
      BY <1>2, <2>2
    <3> QED
      BY <1>1, <1>2, <1>4, <3>1 DEF Flown
  <2> QED
    BY <2>1, <2>2
<1>7. Flown(chain, found, buried, DOMAIN checkpoints, f)
  BY <1>4, <1>5, <1>6 DEF Flown
<1> QED
  BY <1>1, <1>7

LEMMA SubmitProofStep ==
    ASSUME SpvInv, NEW p \in Payouts, NEW c \in DOMAIN checkpoints, NEW target \in DOMAIN chain,
           SubmitProof(p, c, target)
    PROVE  SpvInv'
<1>1. /\ Len(chain) \in Nat /\ DOMAIN chain = 1..Len(chain) /\ c \in Nat \ {0}
      /\ Chained(chain, found, buried)
  BY ChainFields DEF SpvInv, Chained, Heights
<1>2. PICK n, L : n = TipHeight(target) - c /\ L = [k \in 1..n |-> Header(chain[c + k])]
  OBVIOUS
<1>3. /\ target > c /\ TipHeight(target) \in DOMAIN chain /\ Provable(p, c, target, L)
      /\ flight' = Append(flight, [proof |-> ProofOf(p, c, target, L), status |-> "sent"])
      /\ UNCHANGED <<pending, submitted, spv, chain, found, buried, checkpoints, registered, credited>>
  BY <1>2 DEF SubmitProof, bitcoinVars, contractVars
<1>4. n \in Nat /\ c + n = TipHeight(target) /\ c + n <= Len(chain) /\ target \in Nat
  BY <1>1, <1>2, <1>3, SpvBounds DEF TipHeight
<1>5. Read(chain, found, buried, L, n, c)
  BY <1>1, <1>2, <1>4, ReadWhole
<1>6. Sent(chain, found, buried, DOMAIN checkpoints, ProofOf(p, c, target, L))
  BY <1>3, <1>4, <1>5, BuiltIsSent
<1>7. Flown(chain, found, buried, DOMAIN checkpoints, flight')
  BY <1>3, <1>6, SendKept
<1> QED
  BY <1>3, <1>7 DEF SpvInv

(* The process at rest, and between two rows, holds no headers. *)
LEMMA RestKept ==
    ASSUME SpvInv, NEW last, NEW rows, PayoutRows(rows), NEW r,
           r = SpvAtRest(last) \/ r = [SpvAtRest(last) EXCEPT !.pc = "pending"]
    PROVE  ProcShape(r) /\ ProcRows(r, rows) /\ ProcReads(chain, found, buried, DOMAIN checkpoints, rows, r)
<1>1. PICK to \in {"idle", "pending"} :
         r = [pc |-> to, last |-> last, at |-> 0, end |-> 0, height |-> 0,
              todo |-> {}, cur |-> NoHeight, checkpoint |-> 0, headers |-> <<>>, tx |-> 0]
  BY DEF SpvAtRest
<1>2. ProcShape(r) /\ r.pc \in {"idle", "pending"}
  BY <1>1 DEF ProcShape
<1> QED
  BY <1>2 DEF ProcRows, ProcReads

LEMMA RowKept ==
    ASSUME SpvInv, NEW rows, spv.todo \subseteq DOMAIN rows
    PROVE  /\ ProcShape(NextRow) /\ ProcRows(NextRow, rows)
           /\ ProcReads(chain, found, buried, DOMAIN checkpoints, rows, NextRow)
<1>1. PICK r : r = NextRow
  OBVIOUS
<1>2. ProcShape(spv)
  BY DEF SpvInv
<1>3. r = [pc |-> "next", last |-> spv.last, at |-> spv.at, end |-> spv.end, height |-> spv.height,
           todo |-> spv.todo, cur |-> NoHeight, checkpoint |-> 0, headers |-> <<>>, tx |-> 0]
  BY <1>1, <1>2 DEF NextRow, ProcShape
<1>4. ProcShape(r) /\ r.pc = "next" /\ r.todo = spv.todo
  BY <1>3 DEF ProcShape
<1>5. ProcRows(r, rows) /\ ProcReads(chain, found, buried, DOMAIN checkpoints, rows, r)
  BY <1>4 DEF ProcRows, ProcReads
<1> QED
  BY <1>1, <1>4, <1>5

(* A step of the process alone. *)
LEMMA ProcStep ==
    ASSUME SpvInv, ProcShape(spv'), ProcRows(spv', pending),
           ProcReads(chain, found, buried, DOMAIN checkpoints, pending, spv'),
           UNCHANGED <<flight, pending, chain, found, buried, checkpoints, credited>>
    PROVE  SpvInv'
BY DEF SpvInv

LEMMA ScanNewStep == ASSUME SpvInv, ScanNewBlocks PROVE SpvInv'
<1>1. UNCHANGED <<flight, pending, chain, found, buried, checkpoints, credited>>
  BY DEF ScanNewBlocks, bitcoinVars, contractVars
<1>2. PICK r : r = spv'
  OBVIOUS
<1>3. \/ \E last : r = [SpvAtRest(last) EXCEPT !.pc = "pending"]
      \/ \E last, at, end : r = [SpvAtRest(last) EXCEPT !.pc = "scan", !.at = at, !.end = end]
  BY <1>2 DEF ScanNewBlocks
<1>4. ProcShape(r) /\ ProcRows(r, pending) /\ ProcReads(chain, found, buried, DOMAIN checkpoints, pending, r)
  <2>1. CASE \E last : r = [SpvAtRest(last) EXCEPT !.pc = "pending"]
    BY <2>1, RestKept DEF SpvInv
  <2>2. ASSUME NEW last, NEW at, NEW end, r = [SpvAtRest(last) EXCEPT !.pc = "scan", !.at = at, !.end = end]
        PROVE  ProcShape(r) /\ r.pc = "scan"
    <3>1. r = [pc |-> "scan", last |-> last, at |-> at, end |-> end, height |-> 0,
               todo |-> {}, cur |-> NoHeight, checkpoint |-> 0, headers |-> <<>>, tx |-> 0]
      BY <2>2 DEF SpvAtRest
    <3> QED
      BY <3>1 DEF ProcShape
  <2> QED
    BY <1>3, <2>1, <2>2 DEF ProcRows, ProcReads
<1> QED
  BY <1>1, <1>2, <1>4, ProcStep

LEMMA ScanBlockStep == ASSUME SpvInv, ScanBlock PROVE SpvInv'
<1>1. UNCHANGED <<flight, chain, found, buried, checkpoints, credited>> /\ spv.pc = "scan"
  BY DEF ScanBlock, bitcoinVars, contractVars
<1>2. PICK r : r = spv'
  OBVIOUS
<1>3. PayoutRows(pending')
  <2>1. CASE spv.at \notin DOMAIN chain
    BY <2>1 DEF ScanBlock, SpvInv
  <2>2. CASE spv.at \in DOMAIN chain
    <3>1. PICK new : new \subseteq Payouts /\ AddPending(new, spv.at)
      BY <2>2 DEF ScanBlock
    <3>2. spv.at \in Nat \ {0}
      <4>1. Len(chain) \in Nat /\ DOMAIN chain = 1..Len(chain)
        BY ChainFields DEF SpvInv, Chained
      <4> QED
        BY <2>2, <4>1
    <3> QED
      BY <3>1, <3>2 DEF AddPending, SpvInv, PayoutRows
  <2> QED
    BY <2>1, <2>2
<1>4. \/ \E last : r = [SpvAtRest(last) EXCEPT !.pc = "pending"]
      \/ \E last : r = SpvAtRest(last)
      \/ r = [spv EXCEPT !.at = @ + 1]
  BY <1>2 DEF ScanBlock
<1>5. ProcShape(r) /\ ProcRows(r, pending') /\ ProcReads(chain, found, buried, DOMAIN checkpoints, pending', r)
  <2>1. CASE \E last : r = [SpvAtRest(last) EXCEPT !.pc = "pending"]
    BY <1>3, <2>1, RestKept
  <2>2. CASE \E last : r = SpvAtRest(last)
    BY <1>3, <2>2, RestKept
  <2>3. CASE r = [spv EXCEPT !.at = @ + 1]
    <3>1. ProcShape(spv)
      BY DEF SpvInv
    <3>2. ProcShape(r) /\ r.pc = "scan"
      BY <1>1, <2>3, <3>1 DEF ProcShape
    <3> QED
      BY <3>2 DEF ProcRows, ProcReads
  <2> QED
    BY <1>4, <2>1, <2>2, <2>3
<1> QED
  BY <1>1, <1>2, <1>3, <1>5 DEF SpvInv

LEMMA ProcessStep == ASSUME SpvInv, ProcessPending PROVE SpvInv'
<1>1. UNCHANGED <<flight, pending, chain, found, buried, checkpoints, credited>>
  BY DEF ProcessPending, bitcoinVars, contractVars
<1>2. PICK r : r = spv'
  OBVIOUS
<1>3. r = [spv EXCEPT !.pc = "next", !.height = Len(chain), !.todo = DOMAIN pending] /\ ProcShape(spv)
  BY <1>2 DEF ProcessPending, SpvInv
<1>4. ProcShape(r) /\ r.pc = "next" /\ r.todo = DOMAIN pending
  BY <1>3 DEF ProcShape
<1>5. ProcRows(r, pending) /\ ProcReads(chain, found, buried, DOMAIN checkpoints, pending, r)
  BY <1>4 DEF ProcRows, ProcReads
<1> QED
  BY <1>1, <1>2, <1>4, <1>5, ProcStep

LEMMA NextPendingStep == ASSUME SpvInv, NEW p, NextPending(p) PROVE SpvInv'
<1>1. /\ UNCHANGED <<flight, pending, chain, found, buried, checkpoints, credited>>
      /\ spv.pc = "next" /\ p \in spv.todo /\ ProcShape(spv)
  BY DEF NextPending, bitcoinVars, contractVars, SpvInv
<1>2. spv.todo \subseteq DOMAIN pending
  BY <1>1 DEF SpvInv, ProcRows
<1>3. PICK r : r = spv'
  OBVIOUS
<1>4. CASE r = [spv EXCEPT !.todo = @ \ {p}]
  <2>1. ProcShape(r) /\ r.pc = "next" /\ r.todo = spv.todo \ {p}
    BY <1>1, <1>4 DEF ProcShape
  <2>2. ProcRows(r, pending) /\ ProcReads(chain, found, buried, DOMAIN checkpoints, pending, r)
    BY <1>2, <2>1 DEF ProcRows, ProcReads
  <2> QED
    BY <1>1, <1>3, <2>1, <2>2, ProcStep
<1>5. CASE /\ Suitable(pending[p])
           /\ r = [spv EXCEPT !.pc = "headers", !.todo = @ \ {p}, !.cur = p,
                              !.checkpoint = LatestCheckpoint, !.headers = <<>>]
  <2>1. /\ ProcShape(r) /\ r.pc = "headers" /\ r.todo = spv.todo \ {p} /\ r.cur = p
        /\ r.checkpoint = LatestCheckpoint /\ r.headers = <<>>
    BY <1>1, <1>5 DEF ProcShape
  <2>2. ProcRows(r, pending)
    BY <1>1, <1>2, <2>1 DEF ProcRows
  <2>3. /\ LatestCheckpoint \in DOMAIN checkpoints /\ LatestCheckpoint \in Nat \ {0}
        /\ pending[p] \in Nat \ {0} /\ LatestCheckpoint < pending[p]
    <3>1. pending[p] \in Nat \ {0}
      BY <1>1, <1>2 DEF SpvInv, PayoutRows
    <3>2. LatestCheckpoint \in Nat /\ LatestCheckpoint # 0 /\ LatestCheckpoint \in DOMAIN checkpoints
      BY <1>5, LatestIs DEF SpvInv, Suitable
    <3>3. pending[p] - LatestCheckpoint > 0
      BY <1>5 DEF Suitable
    <3> QED
      BY <3>1, <3>2, <3>3
  <2>4. Read(chain, found, buried, <<>>, 0, LatestCheckpoint)
    BY <2>3 DEF Read, List, Linked
  <2>5. LatestCheckpoint + 0 < TipHeight(pending[p])
    BY <2>3, SpvBounds DEF TipHeight
  <2>6. ProcReads(chain, found, buried, DOMAIN checkpoints, pending, r)
    BY <2>1, <2>3, <2>4, <2>5 DEF ProcReads
  <2> QED
    BY <1>1, <1>3, <2>1, <2>2, <2>6, ProcStep
<1> QED
  BY <1>3, <1>4, <1>5 DEF NextPending

LEMMA RestStep ==
    ASSUME SpvInv, NEW last, spv' = SpvAtRest(last),
           UNCHANGED <<flight, pending, chain, found, buried, checkpoints, credited>>
    PROVE  SpvInv'
<1>1. PICK r : r = spv'
  OBVIOUS
<1>2. PayoutRows(pending) /\ r = SpvAtRest(last)
  BY <1>1 DEF SpvInv
<1>3. ProcShape(r) /\ ProcRows(r, pending) /\ ProcReads(chain, found, buried, DOMAIN checkpoints, pending, r)
  BY <1>2, RestKept
<1> QED
  BY <1>1, <1>3, ProcStep

LEMMA NextRowStep ==
    ASSUME SpvInv, spv.pc \in {"headers", "prove", "receipt"}, spv' = NextRow,
           UNCHANGED <<flight, pending, chain, found, buried, checkpoints, credited>>
    PROVE  SpvInv'
<1>1. spv.todo \subseteq DOMAIN pending
  BY DEF SpvInv, ProcRows
<1> QED
  BY <1>1, RowKept, ProcStep

(* What the process knows while it reads headers or proves. *)
LEMMA InHand ==
    ASSUME SpvInv, spv.pc \in {"headers", "prove"}
    PROVE  /\ spv.cur \in Payouts /\ spv.cur \in DOMAIN pending /\ spv.cur \notin spv.todo
           /\ spv.todo \subseteq DOMAIN pending
           /\ pending[spv.cur] \in Nat \ {0} /\ spv.checkpoint \in DOMAIN checkpoints
           /\ spv.checkpoint \in Nat \ {0} /\ spv.checkpoint < pending[spv.cur]
           /\ \E n \in Nat :
                 /\ Read(chain, found, buried, spv.headers, n, spv.checkpoint)
                 /\ Len(spv.headers) = n
                 /\ spv.pc = "headers" => spv.checkpoint + n < TipHeight(pending[spv.cur])
                 /\ spv.pc = "prove" => spv.checkpoint + n = TipHeight(pending[spv.cur])
<1>1. spv.cur \in DOMAIN pending /\ spv.cur \notin spv.todo /\ spv.todo \subseteq DOMAIN pending
  BY DEF SpvInv, ProcRows
<1>2. spv.cur \in Payouts /\ pending[spv.cur] \in Nat \ {0}
  BY <1>1 DEF SpvInv, PayoutRows
<1>3. PICK n \in Nat :
         /\ spv.checkpoint \in DOMAIN checkpoints /\ spv.checkpoint < pending[spv.cur]
         /\ Read(chain, found, buried, spv.headers, n, spv.checkpoint)
         /\ spv.pc = "headers" => spv.checkpoint + n < TipHeight(pending[spv.cur])
         /\ spv.pc = "prove" => spv.checkpoint + n = TipHeight(pending[spv.cur])
  BY DEF SpvInv, ProcReads
<1>4. List(spv.headers, n) /\ spv.checkpoint \in Nat \ {0}
  BY <1>3 DEF Read
<1>5. Len(spv.headers) = n
  BY <1>4, ListLen
<1> QED
  BY <1>1, <1>2, <1>3, <1>4, <1>5

LEMMA ReadHeaderStep == ASSUME SpvInv, ReadHeader PROVE SpvInv'
<1>1. /\ UNCHANGED <<flight, pending, chain, found, buried, checkpoints, credited>>
      /\ spv.pc = "headers" /\ ProcShape(spv)
  BY DEF ReadHeader, bitcoinVars, contractVars, SpvInv
<1>2. PICK n \in Nat :
         /\ Read(chain, found, buried, spv.headers, n, spv.checkpoint)
         /\ Len(spv.headers) = n
         /\ spv.checkpoint + n < TipHeight(pending[spv.cur])
  BY <1>1, InHand
<1>3. /\ spv.cur \in DOMAIN pending /\ spv.cur \notin spv.todo /\ spv.todo \subseteq DOMAIN pending
      /\ pending[spv.cur] \in Nat \ {0} /\ spv.checkpoint \in DOMAIN checkpoints
      /\ spv.checkpoint \in Nat \ {0} /\ spv.checkpoint < pending[spv.cur]
  BY <1>1, InHand
<1>4. PICK c, h, tip, L : /\ c = spv.checkpoint /\ h = c + n + 1 /\ tip = TipHeight(pending[spv.cur])
                          /\ L = Append(spv.headers, Header(chain[h]))
  OBVIOUS
<1>5. CASE h \notin DOMAIN chain
  <2>1. spv' = NextRow
    BY <1>2, <1>4, <1>5 DEF ReadHeader
  <2> QED
    BY <1>1, <2>1, NextRowStep
<1>6. CASE h \in DOMAIN chain
  <2>1. PICK r : r = spv'
    OBVIOUS
  <2>2. r = [spv EXCEPT !.headers = L, !.pc = IF h = tip THEN "prove" ELSE spv.pc]
    BY <1>1, <1>2, <1>4, <1>6, <2>1 DEF ReadHeader, ProcShape
  <2>3. /\ ProcShape(r) /\ r.headers = L /\ r.pc = (IF h = tip THEN "prove" ELSE "headers")
        /\ r.cur = spv.cur /\ r.todo = spv.todo /\ r.checkpoint = c
    BY <1>1, <1>4, <2>2 DEF ProcShape
  <2>4. ProcRows(r, pending)
    BY <1>3, <2>3 DEF ProcRows
  <2>5. Read(chain, found, buried, L, n + 1, c)
    <3>1. Chained(chain, found, buried) /\ DOMAIN chain = 1..Len(chain)
      BY ChainFields DEF SpvInv, Chained
    <3>2. c + n + 1 <= Len(chain)
      BY <1>4, <1>6, <3>1
    <3> QED
      BY <1>2, <1>4, <3>1, <3>2, ReadMore
  <2>6. tip \in Nat /\ c \in Nat /\ c + n < tip
    BY <1>2, <1>3, <1>4, SpvBounds DEF TipHeight
  <2>7. h = c + (n + 1) /\ h <= tip
    BY <1>4, <2>6
  <2>8. ProcReads(chain, found, buried, DOMAIN checkpoints, pending, r)
    <3>1. (r.pc = "headers" => c + (n + 1) < tip) /\ (r.pc = "prove" => c + (n + 1) = tip)
      BY <2>3, <2>6, <2>7
    <3> QED
      BY <1>3, <1>4, <2>3, <2>5, <3>1 DEF ProcReads
  <2> QED
    BY <1>1, <2>1, <2>3, <2>4, <2>8, ProcStep
<1> QED
  BY <1>5, <1>6

LEMMA SubmitStep == ASSUME SpvInv, Submit PROVE SpvInv'
<1>1. /\ UNCHANGED <<pending, chain, found, buried, checkpoints, credited>>
      /\ spv.pc = "prove" /\ ProcShape(spv)
  BY DEF Submit, bitcoinVars, contractVars, SpvInv
<1>2. CASE spv' = NextRow /\ UNCHANGED flight
  BY <1>1, <1>2, NextRowStep
<1>3. PICK proof : proof = ProofOf(spv.cur, spv.checkpoint, pending[spv.cur], spv.headers)
  OBVIOUS
<1>4. CASE /\ Provable(spv.cur, spv.checkpoint, pending[spv.cur], spv.headers)
           /\ flight' = Append(flight, [proof |-> proof, status |-> "sent"])
           /\ spv' = [spv EXCEPT !.pc = "receipt", !.headers = <<>>, !.tx = Len(flight) + 1]
  <2>1. PICK n \in Nat :
           /\ Read(chain, found, buried, spv.headers, n, spv.checkpoint)
           /\ spv.checkpoint + n = TipHeight(pending[spv.cur])
    BY <1>1, InHand
  <2>2. /\ spv.cur \in Payouts /\ pending[spv.cur] \in Nat /\ spv.checkpoint \in DOMAIN checkpoints
        /\ spv.checkpoint < pending[spv.cur]
        /\ spv.cur \in DOMAIN pending /\ spv.cur \notin spv.todo /\ spv.todo \subseteq DOMAIN pending
    BY <1>1, InHand
  <2>3. Sent(chain, found, buried, DOMAIN checkpoints, proof)
    BY <1>3, <1>4, <2>1, <2>2, BuiltIsSent
  <2>4. Flown(chain, found, buried, DOMAIN checkpoints, flight')
    BY <1>4, <2>3, SendKept
  <2>5. PICK r : r = spv'
    OBVIOUS
  <2>6. ProcShape(r) /\ r.pc = "receipt" /\ r.cur = spv.cur /\ r.todo = spv.todo
    BY <1>1, <1>4, <2>5 DEF ProcShape
  <2>7. ProcRows(r, pending) /\ ProcReads(chain, found, buried, DOMAIN checkpoints, pending, r)
    BY <2>2, <2>6 DEF ProcRows, ProcReads
  <2> QED
    BY <1>1, <2>4, <2>5, <2>6, <2>7 DEF SpvInv
<1> QED
  BY <1>2, <1>3, <1>4 DEF Submit

LEMMA MarkStep == ASSUME SpvInv, MarkSubmitted PROVE SpvInv'
<1>1. /\ UNCHANGED <<flight, chain, found, buried, checkpoints, credited>>
      /\ spv.pc = "receipt" /\ spv' = NextRow
      /\ pending' = [p \in DOMAIN pending \ {spv.cur} |-> pending[p]]
  BY DEF MarkSubmitted, bitcoinVars, contractVars
<1>2. PICK rows : rows = pending'
  OBVIOUS
<1>3. PayoutRows(rows) /\ spv.todo \subseteq DOMAIN rows
  BY <1>1, <1>2 DEF SpvInv, PayoutRows, ProcRows
<1>4. /\ ProcShape(NextRow) /\ ProcRows(NextRow, rows)
      /\ ProcReads(chain, found, buried, DOMAIN checkpoints, rows, NextRow)
  BY <1>3, RowKept
<1> QED
  BY <1>1, <1>2, <1>3, <1>4 DEF SpvInv

LEMMA SpvStep == SpvInv /\ [SpvNext]_spvVars => SpvInv'
<1> SUFFICES ASSUME SpvInv, [SpvNext]_spvVars PROVE SpvInv'
  OBVIOUS
<1>1. CASE UNCHANGED spvVars
  BY <1>1 DEF spvVars, SpvInv
<1>2. CASE \E S \in SUBSET Payouts : \E paid \in Ordered(S) : FindBlock(paid)
  BY <1>2, FindStep
<1>3. CASE Orphan
  BY <1>3, OrphanStep
<1>4. CASE \E h \in 1..MaxHeight : SetCheckpoint(h)
  BY <1>4, CheckpointStep
<1>5. CASE SetBorrowerPubkeyHash
  BY <1>5 DEF SetBorrowerPubkeyHash, bitcoinVars, SpvInv
<1>6. CASE \E i \in DOMAIN flight : Include(i)
  BY <1>6, IncludeStep
<1>7. CASE \E p \in Payouts, c \in DOMAIN checkpoints, t \in DOMAIN chain : SubmitProof(p, c, t)
  BY <1>7, SubmitProofStep
<1>8. CASE ScanNewBlocks \/ ScanBlock \/ ProcessPending
  BY <1>8, ScanNewStep, ScanBlockStep, ProcessStep
<1>9. CASE RunDone
  BY <1>9, RestStep DEF RunDone, bitcoinVars, contractVars
<1>10. CASE \E p \in Payouts : NextPending(p)
  BY <1>10, NextPendingStep
<1>11. CASE ReadHeader \/ Submit \/ MarkSubmitted
  BY <1>11, ReadHeaderStep, SubmitStep, MarkStep
<1>12. CASE ReceiptTimeout
  BY <1>12, NextRowStep DEF ReceiptTimeout, bitcoinVars, contractVars
<1>13. CASE RelayerRestart
  BY <1>13, RestStep DEF RelayerRestart, bitcoinVars, contractVars
<1> QED
  BY <1>1, <1>2, <1>3, <1>4, <1>5, <1>6, <1>7, <1>8, <1>9, <1>10, <1>11, <1>12, <1>13 DEF SpvNext

(* A proof whose headers are the chain's links to the checkpoint. *)
LEMMA BuiltVerifies == SpvInv => BuiltIsVerifiable
<1> SUFFICES ASSUME SpvInv, NEW i \in DOMAIN flight, NEW proof, NEW n, NEW c,
                    proof = flight[i].proof, n = Len(proof.headers), c = proof.checkpoint,
                    registered, c \in DOMAIN chain, checkpoints[c] = chain[c].id, c + n \in DOMAIN chain,
                    \A k \in 1..n : proof.headers[k].id = chain[c + k].id,
                    n <= MaxHeaderChain, c \div RetargetPeriod = (c + n) \div RetargetPeriod
             PROVE  VerifyPayout(proof)
  BY DEF BuiltIsVerifiable
<1>1. Sent(chain, found, buried, DOMAIN checkpoints, proof)
  <2>1. Flown(chain, found, buried, DOMAIN checkpoints, flight) /\ List(flight, Len(flight))
    BY DEF SpvInv, Flown
  <2>2. DOMAIN flight = 1..Len(flight)
    BY <2>1, ListLen
  <2> QED
    BY <2>1, <2>2 DEF Flown
<1>2. PICK L : L = proof.headers
  OBVIOUS
<1>3. /\ Read(chain, found, buried, L, proof.txBlockIndex + MinConfirmations, c)
      /\ List(L, proof.txBlockIndex + MinConfirmations)
      /\ proof.txBlockIndex \in Nat /\ c \in DOMAIN checkpoints
  BY <1>1, <1>2 DEF Sent, Read
<1>4. n = proof.txBlockIndex + MinConfirmations /\ DOMAIN L = 1..n /\ n \in Nat
  BY <1>2, <1>3, ListLen DEF List
<1>5. proof.txBlockIndex < n /\ n - proof.txBlockIndex >= MinConfirmations
  BY <1>3, <1>4, SpvBounds
<1>6. /\ Len(chain) \in Nat /\ DOMAIN chain = 1..Len(chain) /\ c \in Nat
      /\ \A h \in 2..Len(chain) : chain[h].prev = chain[h - 1].id
  <2>1. chain \in Seq(BlockRow) /\ \A h \in 2..Len(chain) : chain[h].prev = chain[h - 1].id
    BY DEF SpvInv, Chained
  <2>2. Len(chain) \in Nat /\ DOMAIN chain = 1..Len(chain)
    BY <2>1, ChainFields
  <2>3. c \in Nat
    BY <2>2
  <2> QED
    BY <2>1, <2>2, <2>3
<1>7. LinksFrom(checkpoints[c], L)
  <2> SUFFICES ASSUME NEW j \in DOMAIN L
               PROVE  L[j].prev = IF j = 1 THEN checkpoints[c] ELSE L[j - 1].id
    BY DEF LinksFrom
  <2>0. PICK l \in Nat : l = Len(chain)
    BY <1>6
  <2>1. j \in 1..n /\ c + j \in 1..l /\ c + j \in 2..l /\ (c + j) - 1 = c + (j - 1)
    <3>1. c \in Nat /\ c >= 1 /\ c + n <= l /\ j \in 1..n
      BY <1>4, <1>6, <2>0
    <3> QED
      BY <1>4, <3>1
  <2>2. L[j].id = chain[c + j].id
    BY <1>2, <2>1
  <2>3. chain[c + j].prev = L[j].prev
    BY <1>3, <1>4, <2>0, <2>1, <2>2 DEF Read
  <2>4. L[j].prev = chain[c + (j - 1)].id
    BY <1>6, <2>0, <2>1, <2>3
  <2>5. CASE j = 1
    <3>1. c + (j - 1) = c
      BY <1>6, <2>5
    <3> QED
      BY <2>4, <2>5, <3>1
  <2>6. CASE j # 1
    <3>1. j - 1 \in 1..n
      BY <2>1, <2>6
    <3> QED
      BY <1>2, <2>4, <2>6, <3>1
  <2> QED
    BY <2>5, <2>6
<1>8. VerifyMerkleProof(proof.payout, proof.headers[proof.txBlockIndex + 1].root,
                        proof.merkleProof, proof.txIndex)
  BY <1>1 DEF Sent
<1> QED
  BY <1>2, <1>3, <1>5, <1>7, <1>8 DEF VerifyPayout

LEMMA SpvInvKeeps == SpvInv => SpvKept
<1> SUFFICES ASSUME SpvInv PROVE CountedIsPaid
  BY BuiltVerifies DEF SpvKept
<1>1. DOMAIN chain = 1..Len(chain)
  BY ChainFields DEF SpvInv, Chained
<1> SUFFICES ASSUME NEW p \in Payouts
             PROVE  /\ credited[p] <= 1
                    /\ credited[p] = 1 => \E h \in DOMAIN chain : h <= buried /\ p \in ToSet(chain[h].txs)
  BY DEF CountedIsPaid
<1>2. credited[p] \in {0, 1}
  BY DEF SpvInv, Counted
<1>3. credited[p] = 1 => \E h \in 1..Len(chain) : h <= buried /\ p \in ToSet(chain[h].txs)
  BY DEF SpvInv, Counted
<1> QED
  BY <1>1, <1>2, <1>3

(* Whatever the chain does between two calls of the relayer, with any       *)
(* number of blocks, payouts and transactions: HashCreditManager counts a   *)
(* payout once at most and only when a block buried MinConfirmations deep   *)
(* holds it, and verifyPayout accepts what build_proof built on the active  *)
(* chain.                                                                   *)
THEOREM SpvAlwaysKept == SpvInit /\ [][SpvNext]_spvVars => []SpvKept
<1>1. SpvInit /\ [][SpvNext]_spvVars => []SpvInv
  BY SpvInitKept, SpvStep, PTL
<1> QED
  BY <1>1, SpvInvKeeps, PTL
=============================================================================
