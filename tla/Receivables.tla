---------------------------- MODULE Receivables ----------------------------
(***************************************************************************)
(* Observed obligations (offchain/gpu/hashcredit_gpu/receivables): an      *)
(* obligation is recorded once per reference; corrections, payouts and     *)
(* cancellations arrive as numbered revisions, in any order, repeated and  *)
(* contradictory.  What cannot be applied opens a BLOCKING case, which     *)
(* nothing in the code closes.  A call is one transaction of its caller.   *)
(***************************************************************************)
EXTENDS Integers, FiniteSets, Functions

CONSTANTS
    Refs,           \* obligation references of one account, over overlapping periods
    Observations,   \* raw source observations
    Statements,     \* amounts an obligation is stated with: <<net, paid, revision>>
    MaxRevision,    \* bound: revision numbers
    Gross           \* gross amount of an obligation

ASSUME ClaimConstants == Statements \subseteq Nat \X Nat \X Nat

VARIABLES
    claim,          \* receivables: ref -> row
    history,        \* receivable_revisions
    cases,          \* open BLOCKING exceptions: [code, entity]
    decision,       \* the facility's credit decision
    told            \* ghost: the revisions apply_revision was given and did not refuse

claimVars == <<claim, history, cases, decision, told>>

-----------------------------------------------------------------------------
Unpaid(r) == claim[r].net - claim[r].paid

Kinds == {"CORRECTION", "PAYOUT", "CANCELLATION"}

Deltas(kind) == IF kind = "CORRECTION" THEN {-1, 1} ELSE {1, 2}

Inactive == {"CANCELLED", "WRITTEN_OFF", "DISPUTED"}

(* exception(): one open case for a code and an entity. *)
OpenCase(code, entity) == cases' = cases \cup {[code |-> code, entity |-> entity]}

HasCase(r) == \E c \in cases : c.entity = r

StateOf(net, paid, assigned) ==
    CASE paid = net -> "PAID"
      [] paid > 0 -> "PARTIALLY_PAID"
      [] assigned -> "ASSIGNED"
      [] OTHER -> "RECOGNIZED"

NewRevision(r, revision, kind, obs, delta, unpaid, late) ==
    [ref |-> r, revision |-> revision, kind |-> kind, obs |-> obs, delta |-> delta,
     unpaid |-> unpaid, late |-> late]

NewClaim(net, paid, revision) ==
    [net |-> net, paid |-> paid, revision |-> revision, assigned |-> FALSE, checkpoint |-> FALSE,
     state |-> IF paid = net THEN "PAID" ELSE "RECOGNIZED"]

Recorded(r, row) == [o \in DOMAIN claim \cup {r} |-> IF o = r THEN row ELSE claim[o]]

NoDecision == [status |-> "none", basis |-> <<>>]

Revoke(d) == IF d.status \in {"DRAFT", "APPROVED"} THEN [d EXCEPT !.status = "REVOKED"] ELSE d

-----------------------------------------------------------------------------
ReceivablesInit ==
    /\ claim = <<>> /\ history = {} /\ cases = {} /\ told = {}
    /\ decision = NoDecision

(* record_obligation: `operating' is a kind of revenue that may be a        *)
(* receivable, `earned' that its period is over.  What is already recorded  *)
(* word for word changes nothing.                                           *)
RecordObligation(r, obs, net, paid, revision, operating, earned) ==
    /\ revision >= 1 /\ 0 <= paid /\ paid <= net /\ net <= Gross
    /\ \/ /\ ~(operating /\ earned)
          /\ OpenCase("REVENUE_INELIGIBLE", obs)
          /\ UNCHANGED <<claim, history>>
       \/ /\ operating /\ earned
          /\ r \in DOMAIN claim
          /\ <<net, paid, revision>> # <<claim[r].net, claim[r].paid, claim[r].revision>>
          /\ OpenCase(IF revision # claim[r].revision THEN "REVISION_REQUIRES_DELTA"
                      ELSE "AMOUNT_OR_BINDING_CONFLICT", r)
          /\ UNCHANGED <<claim, history>>
       \/ /\ operating /\ earned
          /\ r \notin DOMAIN claim
          /\ claim' = Recorded(r, NewClaim(net, paid, revision))
          /\ history' = history \cup {NewRevision(r, revision, "RECOGNIZED", obs, net, net - paid, FALSE)}
          /\ LET overlaps == {o \in DOMAIN claim : claim[o].state \notin {"CANCELLED", "WRITTEN_OFF"}}
                 both == IF overlaps = {} THEN {} ELSE overlaps \cup {r}
             IN cases' = cases \cup {[code |-> "PERIOD_OVERLAP_REVIEW", entity |-> o] : o \in both}
    /\ UNCHANGED <<decision, told>>

-----------------------------------------------------------------------------
(* apply_revision *)

Previous(r, revision, kind) ==
    {h \in history : h.ref = r /\ h.revision = revision /\ h.kind = kind}

Reused(r, obs) == \E h \in history : h.ref = r /\ h.obs = obs

AnyLater(r, revision) == revision > claim[r].revision   \* mutant: a gap is not noticed

NextInOrder(r, revision) == revision = claim[r].revision + 1

AfterRevision(r, kind, delta) ==
    [net  |-> claim[r].net + (IF kind = "CORRECTION" THEN delta ELSE 0),
     paid |-> claim[r].paid + (CASE kind = "PAYOUT" -> delta [] kind = "CANCELLATION" -> -delta [] OTHER -> 0)]

Balanced(b) == 0 <= b.paid /\ b.paid <= b.net /\ b.net <= Gross

Told(r, revision, kind, delta) ==
    told' = told \cup {[ref |-> r, revision |-> revision, kind |-> kind, delta |-> delta]}

Flag(r, code) ==
    /\ OpenCase(code, r)
    /\ UNCHANGED <<claim, history, decision>>

Repeated(r, revision, kind, delta) ==
    \E h \in Previous(r, revision, kind) :
       \/ h.delta = delta /\ UNCHANGED <<claim, history, cases, decision>>     \* DUPLICATE_REVISION
       \/ h.delta # delta /\ Flag(r, "REVISION_CONFLICT")

OutOfOrder(r, revision, kind, obs, delta) ==
    /\ history' = history \cup {NewRevision(r, revision, kind, obs, delta, Unpaid(r), TRUE)}
    /\ OpenCase("REVISION_OUT_OF_ORDER", r)
    /\ UNCHANGED <<claim, decision>>

(* The balance moves, the checkpoint is void, and so is every decision of   *)
(* the facility that finances the receivable.                               *)
Apply(r, revision, kind, obs, delta) ==
    LET after == AfterRevision(r, kind, delta)
    IN /\ claim' = [claim EXCEPT ![r].net = after.net, ![r].paid = after.paid, ![r].revision = revision,
                                 ![r].state = StateOf(after.net, after.paid, claim[r].assigned),
                                 ![r].checkpoint = FALSE]
       /\ history' = history \cup {NewRevision(r, revision, kind, obs, delta, after.net - after.paid, FALSE)}
       /\ decision' = IF claim[r].assigned THEN Revoke(decision) ELSE decision
       /\ UNCHANGED cases

ApplyRevision(r, obs, revision, kind, delta) ==
    /\ r \in DOMAIN claim
    /\ \/ Repeated(r, revision, kind, delta)
       \/ /\ Previous(r, revision, kind) = {}
          /\ \/ Reused(r, obs) /\ Flag(r, "OBSERVATION_ALREADY_APPLIED")
             \/ /\ ~Reused(r, obs)
                /\ \/ ~NextInOrder(r, revision) /\ OutOfOrder(r, revision, kind, obs, delta)
                   \/ /\ NextInOrder(r, revision)
                      /\ claim[r].state \notin Inactive
                      /\ IF Balanced(AfterRevision(r, kind, delta))
                         THEN Apply(r, revision, kind, obs, delta)
                         ELSE Flag(r, "REVISION_BALANCE_CONFLICT")
    /\ Told(r, revision, kind, delta)

-----------------------------------------------------------------------------
(* Outside the service: assignment to a facility, a checkpoint, a dispute,  *)
(* and the decision taken on the receivables as they stand.                 *)

Assign(r) ==
    /\ r \in DOMAIN claim /\ ~claim[r].assigned
    /\ claim' = [claim EXCEPT ![r].assigned = TRUE,
                              ![r].state = IF @ = "RECOGNIZED" THEN "ASSIGNED" ELSE @]
    /\ UNCHANGED <<history, cases, decision, told>>

Checkpoint(r) ==
    /\ r \in DOMAIN claim /\ ~claim[r].checkpoint
    /\ claim' = [claim EXCEPT ![r].checkpoint = TRUE]
    /\ UNCHANGED <<history, cases, decision, told>>

Dispute(r) ==
    /\ r \in DOMAIN claim /\ claim[r].state \notin Inactive
    /\ claim' = [claim EXCEPT ![r].state = "DISPUTED"]
    /\ UNCHANGED <<history, cases, decision, told>>

Assigned == {r \in DOMAIN claim : claim[r].assigned}

Decide ==
    /\ Assigned # {}
    /\ decision.status \in {"none", "REVOKED"}
    /\ decision' = [status |-> "DRAFT", basis |-> [r \in Assigned |-> Unpaid(r)]]
    /\ UNCHANGED <<claim, history, cases, told>>

Approve ==
    /\ decision.status = "DRAFT"
    /\ decision' = [decision EXCEPT !.status = "APPROVED"]
    /\ UNCHANGED <<claim, history, cases, told>>

ReceivablesNext ==
    \E r \in Refs :
       \/ \E obs \in Observations, s \in Statements, operating, earned \in BOOLEAN :
             RecordObligation(r, obs, s[1], s[2], s[3], operating, earned)
       \/ \E obs \in Observations, rev \in 1..MaxRevision, kind \in Kinds :
             \E delta \in Deltas(kind) : ApplyRevision(r, obs, rev, kind, delta)
       \/ Assign(r) \/ Checkpoint(r) \/ Dispute(r)
       \/ Decide \/ Approve

-----------------------------------------------------------------------------
(* What evaluate_receivable holds against a receivable, the last two gates  *)
(* being reported for every one.                                            *)
Reasons(r) ==
    {"DECODED_BUSINESS_BINDING_NOT_IMPLEMENTED", "CURRENT_UNPAID_PROTECTION_NOT_IMPLEMENTED"}
      \cup (IF ~claim[r].assigned THEN {"FACILITY_ASSIGNMENT_MISMATCH"} ELSE {})
      \cup (IF claim[r].state \in Inactive \cup {"PAID"} \/ Unpaid(r) <= 0
            THEN {"NO_ELIGIBLE_UNPAID_BALANCE"} ELSE {})
      \cup (IF HasCase(r) THEN {"RECONCILIATION_EXCEPTION"} ELSE {})
      \cup (IF ~claim[r].checkpoint THEN {"NATIVE_CHECKPOINT_MISSING_OR_INVALID"} ELSE {})

Applied(r) == {h \in history : h.ref = r /\ ~h.late}

AppliedAs(r, kind) == {h \in Applied(r) : h.kind = kind}

Moved(r, kind) == SumFunctionOnSet([h \in AppliedAs(r, kind) |-> h.delta], AppliedAs(r, kind))

(* Every revision the service was given is in the balance, exactly once, or *)
(* the receivable is blocked by an open case (apply_revision): whatever the *)
(* order, repetition and contradiction of the messages, nothing is lost in  *)
(* silence.  A blocked receivable reports RECONCILIATION_EXCEPTION.         *)
NothingSilent ==
    \A t \in told :
       \/ \E h \in Applied(t.ref) : h.revision = t.revision /\ h.kind = t.kind /\ h.delta = t.delta
       \/ "RECONCILIATION_EXCEPTION" \in Reasons(t.ref)

(* The balance is the recorded history: the applied revisions are numbered  *)
(* without a gap up to the row's revision, each from an observation of its  *)
(* own, and net and paid are what they add up to.                           *)
BalanceIsHistory ==
    \A r \in DOMAIN claim :
       \E first \in Applied(r) :
          /\ AppliedAs(r, "RECOGNIZED") = {first}
          /\ {h.revision : h \in Applied(r)} = first.revision .. claim[r].revision
          /\ \A h, g \in Applied(r) : h.obs = g.obs => h = g
          /\ claim[r].net = first.delta + Moved(r, "CORRECTION")
          /\ claim[r].paid = first.delta - first.unpaid + Moved(r, "PAYOUT") - Moved(r, "CANCELLATION")

(* An approved decision rests on the receivables as they are: a revision of *)
(* any of them, between the draft and its use, revokes it.                  *)
DecisionCurrent ==
    decision.status = "APPROVED" => \A r \in DOMAIN decision.basis : decision.basis[r] = Unpaid(r)

(* Receivables: every revision a provider sends is applied or leaves a     *)
(* case, the balance is the sum of the applied history, and no approved    *)
(* decision outlives a change of the receivables it was made on.           *)
ClaimsKept == NothingSilent /\ BalanceIsHistory /\ DecisionCurrent
=============================================================================
