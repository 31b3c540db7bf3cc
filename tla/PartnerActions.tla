--------------------------- MODULE PartnerActions ---------------------------
(***************************************************************************)
(* Actions at a provider (offchain/gpu/hashcredit_gpu/control/executor.py):*)
(* claims and receiver changes that an operator approved, carried out by   *)
(* queue workers that crash, lose answers and lose their lease.  The       *)
(* partner's acknowledgement is kept in a transaction of its own; only an  *)
(* observed effect ends the job.                                           *)
(***************************************************************************)
EXTENDS Integers, FiniteSets

CONSTANTS
    Claims, Changes, Releases,      \* action ids of each kind
    PartnerWorkers,
    MaxRuns                         \* bound: times a job is run (100 in the code)

PartnerActionIds == Claims \cup Changes \cup Releases
Nobody == "nobody"

VARIABLES
    scope,          \* operations in the credential and the account's scope
    due,            \* actions whose deadline has not passed
    releasable,     \* the agreement may be released
    actionJob,      \* jobs row of each action enqueued
    run,            \* what each worker is doing
    partner,        \* the partner's own record of each action: "none", "accepted", "rejected" or "applied"
    acked,          \* PROVIDER_ACTION_ACKNOWLEDGED rows in the outbox
    recorded,       \* PROVIDER_ACTION_EFFECT_OBSERVED rows in the outbox
    audits          \* audit entries written for each action

partnerVars == <<scope, due, releasable, actionJob, run, partner, acked, recorded, audits>>
permissionVars == <<scope, due, releasable>>

Operations == {"claim_revenue", "request_control_change"}
OperationOf(a) == IF a \in Claims THEN "claim_revenue" ELSE "request_control_change"
Resting == [step |-> "resting"]

PartnerInit ==
    /\ scope = Operations /\ due = PartnerActionIds /\ releasable = TRUE
    /\ actionJob = <<>>
    /\ run = [w \in PartnerWorkers |-> Resting]
    /\ partner = [a \in PartnerActionIds |-> "none"]
    /\ acked = {} /\ recorded = {}
    /\ audits = [a \in PartnerActionIds |-> 0]

(* _authorize with write=True; what it checks of the binding and of the     *)
(* approval does not change and is checked at enqueue.                      *)
Authorized(a) == OperationOf(a) \in scope /\ a \in due /\ (a \in Releases => releasable)

NewAction == [state |-> "PENDING", owner |-> Nobody, runs |-> 0]

EnqueueAction(a) ==
    /\ a \notin DOMAIN actionJob /\ Authorized(a)
    /\ actionJob' = [x \in DOMAIN actionJob \cup {a} |-> IF x = a THEN NewAction ELSE actionJob[x]]
    /\ UNCHANGED <<permissionVars, run, partner, acked, recorded, audits>>

(* A job is claimed when it is pending, or when its lease has run out. *)
ClaimAction(w, a) ==
    /\ run[w] = Resting /\ a \in DOMAIN actionJob
    /\ actionJob[a].state \in {"PENDING", "RUNNING"} /\ actionJob[a].runs < MaxRuns /\ actionJob[a].owner # w
    /\ actionJob' = [actionJob EXCEPT ![a] = [state |-> "RUNNING", owner |-> w, runs |-> @.runs + 1]]
    /\ run' = [run EXCEPT ![w] = [step |-> "begun", action |-> a]]
    /\ UNCHANGED <<permissionVars, partner, acked, recorded, audits>>

(* The worker's last write is fenced by its claim. *)
HoldsJob(w) == actionJob[run[w].action].owner = w

(* A terminal failure ends the job, a transient one gives it back. *)
EndRun(w, state) ==
    /\ run' = [run EXCEPT ![w] = Resting]
    /\ actionJob' = IF HoldsJob(w)
                    THEN [actionJob EXCEPT ![run[w].action] =
                             [state |-> state, owner |-> Nobody, runs |-> @.runs]]
                    ELSE actionJob

Again(a) == IF actionJob[a].runs < MaxRuns THEN "PENDING" ELSE "DEAD"

(* The effect and the acknowledgement, as they are when the run starts. *)
Look(w) ==
    LET a == run[w].action IN
    /\ run[w].step = "begun"
    /\ run' = [run EXCEPT ![w] = [step |-> IF partner[a] # "applied" /\ a \notin acked THEN "unsent" ELSE "sent", action |-> a]]
    /\ UNCHANGED <<permissionVars, actionJob, partner, acked, recorded, audits>>

(* Scope, deadline and release are checked again before another write. *)
Recheck(w) ==
    LET a == run[w].action IN
    /\ run[w].step = "unsent"
    /\ IF Authorized(a) THEN run' = [run EXCEPT ![w] = [step |-> "sending", action |-> a]] /\ UNCHANGED actionJob
       ELSE EndRun(w, "DEAD")
    /\ UNCHANGED <<permissionVars, partner, acked, recorded, audits>>

(* The partner answers a known idempotency key as it did before. *)
Request(w, verdict) ==
    LET a == run[w].action IN
    /\ run[w].step = "sending"
    /\ partner' = [partner EXCEPT ![a] = IF @ = "none" THEN verdict ELSE @]
    /\ IF partner'[a] = "rejected" THEN EndRun(w, "DEAD")
       ELSE run' = [run EXCEPT ![w] = [step |-> "answered", action |-> a]] /\ UNCHANGED actionJob
    /\ UNCHANGED <<permissionVars, acked, recorded, audits>>

(* The answer never comes: the handler raises and the job is retried. *)
RequestTimesOut(w, arrived) ==
    LET a == run[w].action IN
    /\ run[w].step = "sending"
    /\ partner' = [partner EXCEPT ![a] = IF arrived /\ @ = "none" THEN "accepted" ELSE @]
    /\ EndRun(w, Again(a))
    /\ UNCHANGED <<permissionVars, acked, recorded, audits>>

(* The acknowledgement is committed whatever becomes of the run. *)
KeepAck(w) ==
    /\ run[w].step = "answered"
    /\ acked' = acked \cup {run[w].action}
    /\ run' = [run EXCEPT ![w] = [step |-> "sent", action |-> run[w].action]]
    /\ UNCHANGED <<permissionVars, actionJob, partner, recorded, audits>>

AckIsEffect(a) == a \in acked       \* mutant: an acknowledgement is taken for the effect

EffectSeen(a) == partner[a] = "applied"

(* Without an observed effect the job is retried.  The event, the audit     *)
(* entry and the job's end are one fenced transaction.                      *)
Finish(w) ==
    LET a == run[w].action IN
    /\ run[w].step = "sent"
    /\ IF EffectSeen(a)
       THEN /\ EndRun(w, "SUCCEEDED")
            /\ IF HoldsJob(w) /\ a \notin recorded
               THEN recorded' = recorded \cup {a} /\ audits' = [audits EXCEPT ![a] = @ + 1]
               ELSE UNCHANGED <<recorded, audits>>
       ELSE EndRun(w, Again(a)) /\ UNCHANGED <<recorded, audits>>
    /\ UNCHANGED <<permissionVars, partner, acked>>

WorkerDies(w) ==
    /\ run[w] # Resting
    /\ run' = [run EXCEPT ![w] = Resting]
    /\ UNCHANGED <<permissionVars, actionJob, partner, acked, recorded, audits>>

PartnerApplies(a) ==
    /\ partner[a] = "accepted"
    /\ partner' = [partner EXCEPT ![a] = "applied"]
    /\ UNCHANGED <<permissionVars, actionJob, run, acked, recorded, audits>>

Withdraw ==
    /\ \/ \E o \in scope : scope' = scope \ {o} /\ UNCHANGED <<due, releasable>>
       \/ \E a \in due : due' = due \ {a} /\ UNCHANGED <<scope, releasable>>
       \/ releasable /\ releasable' = FALSE /\ UNCHANGED <<scope, due>>
    /\ UNCHANGED <<actionJob, run, partner, acked, recorded, audits>>

PartnerNext ==
    \/ \E a \in PartnerActionIds : EnqueueAction(a) \/ PartnerApplies(a)
    \/ \E w \in PartnerWorkers, a \in PartnerActionIds : ClaimAction(w, a)
    \/ \E w \in PartnerWorkers : Look(w) \/ Recheck(w) \/ KeepAck(w) \/ Finish(w) \/ WorkerDies(w)
    \/ \E w \in PartnerWorkers, v \in {"accepted", "rejected"} : Request(w, v)
    \/ \E w \in PartnerWorkers, arrived \in BOOLEAN : RequestTimesOut(w, arrived)
    \/ Withdraw

-----------------------------------------------------------------------------
(* An effect is recorded, and audited once, only when the partner has       *)
(* applied it: an acknowledgement, a second worker or a lost lease never    *)
(* records one; and a job that succeeded has its record (handle).           *)
RecordedIsApplied ==
    \A a \in PartnerActionIds :
        /\ a \in recorded => partner[a] = "applied"
        /\ audits[a] = (IF a \in recorded THEN 1 ELSE 0)
        /\ a \in DOMAIN actionJob /\ actionJob[a].state = "SUCCEEDED" => a \in recorded
        /\ a \in acked => partner[a] \in {"accepted", "applied"}
=============================================================================
