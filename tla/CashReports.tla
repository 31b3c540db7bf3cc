---------------------------- MODULE CashReports ----------------------------
(***************************************************************************)
(* Two algorithms over reports of cash                                     *)
(* (offchain/gpu/hashcredit_gpu/reconciliation): the reader that pairs the *)
(* events of one repayment inside a transaction with several, and the      *)
(* reference reconciler that folds observations of any source into one     *)
(* ledger.  Reports arrive one at a time; the results are recomputed from  *)
(* the whole list, as the code does.                                       *)
(***************************************************************************)
EXTENDS Integers, Sequences, SequencesExt, FiniteSets, TLC

CONSTANTS
    MaxLegs,        \* bound: repayments in one transaction
    MaxReports,     \* bound: observations reconciled together
    Reportable,     \* the economic events that happened: id -> event
    OpeningDebt     \* debt of the one facility before the reports

VARIABLES
    tx,             \* legs of one transaction, in order
    reports         \* observations, in order of observedAt

reportVars == <<tx, reports>>

-----------------------------------------------------------------------------
(* Pairing *)

Ev(name, fac, amt, direct) == [name |-> name, fac |-> fac, amt |-> amt, direct |-> direct]

(* The logs of one repayment of a facility: by the manager or the router    *)
(* directly, or from a settlement receipt, whose marker follows.            *)
LegShapes == [fac : {"f", "g"}, amt : {1, 2}, way : {"manager", "router", "settlement"}]

Logs(leg) ==
    <<Ev("Allocated", leg.fac, leg.amt, TRUE), Ev("RepaymentReceived", leg.fac, leg.amt, TRUE),
      Ev("Repaid", leg.fac, leg.amt, leg.way # "settlement")>>
      \o (IF leg.way = "settlement" THEN <<Ev("AllocationApplied", leg.fac, leg.amt, TRUE)>> ELSE <<>>)

TxLogs == FoldLeft(LAMBDA acc, leg : acc \o Logs(leg), <<>>, tx)

RepaidAt(i) == Len(FoldLeft(LAMBDA acc, leg : acc \o Logs(leg), <<>>, SubSeq(tx, 1, i - 1))) + 3

At(logs, fac, name) == {i \in DOMAIN logs : logs[i].fac = fac /\ logs[i].name = name}

LastBefore(S, target) == LET before == {i \in S : i < target} IN IF before = {} THEN 0 ELSE CHOOSE i \in before : \A j \in before : j <= i

FirstAfter(S, target, last) ==
    LET after == {i \in S : i > target} IN IF after = {} THEN last ELSE CHOOSE i \in after : \A j \in after : i <= j

(* pair_repayment_events: the indices of <<Repaid, Allocated, Received>>,   *)
(* or nothing when the evidence is missing, ambiguous or of a settlement.   *)
PairRepayment(logs, target, fac) ==
    LET previous == LastBefore(At(logs, fac, "Repaid"), target)
        inLeg(name) == {i \in At(logs, fac, name) : previous < i /\ i < target}
        next == FirstAfter(At(logs, fac, "Repaid") \cup At(logs, fac, "Allocated"), target, Len(logs) + 1)
    IN {p \in {target} \X inLeg("Allocated") \X inLeg("RepaymentReceived") :
          /\ Cardinality(inLeg("Allocated")) = 1 /\ Cardinality(inLeg("RepaymentReceived")) = 1
          /\ p[2] < p[3]
          /\ ~\E m \in At(logs, fac, "AllocationApplied") : p[2] < m /\ m < next
          /\ logs[target].direct
          /\ logs[p[2]].amt = logs[p[3]].amt /\ logs[p[3]].amt = logs[target].amt}

AddLeg(leg) ==
    /\ Len(tx) < MaxLegs
    /\ tx' = Append(tx, leg)
    /\ UNCHANGED reports

-----------------------------------------------------------------------------
(* Reconciling *)

TrustRank == [CLAIMED |-> 0, OBSERVED |-> 1, ASSERTED |-> 2, PROVEN |-> 3]

EmptyLedger ==
    [net |-> 0, paid |-> 0, revision |-> 0, state |-> "none", assigned |-> FALSE, used |-> FALSE,
     escrow |-> 0, inFlight |-> 0, received |-> 0, allocated |-> 0, debt |-> OpeningDebt,
     refused |-> 0, revoked |-> FALSE]

MergeByReport(acc, o) == Append(acc, o)     \* mutant: every observation is an event

(* Reports of one event are merged under its id; one that contradicts it is *)
(* refused, and trust is that of the strongest.                             *)
Merge(acc, o) ==
    IF o.id \notin {acc[i].id : i \in DOMAIN acc} THEN Append(acc, o)
    ELSE [i \in DOMAIN acc |->
            IF acc[i].id = o.id /\ acc[i].amount = o.amount /\ TrustRank[o.trust] > TrustRank[acc[i].trust]
            THEN [acc[i] EXCEPT !.trust = o.trust] ELSE acc[i]]

Refuse(L) == [L EXCEPT !.refused = @ + 1]

Known(L) == L.state # "none"                \* the receivable exists

UnpaidState(L) == IF L.assigned THEN "ASSIGNED" ELSE "RECOGNIZED"

ApplyObligation(L, e) ==
    IF ~Known(L) THEN [L EXCEPT !.net = e.amount, !.revision = e.revision, !.state = "RECOGNIZED"]
    ELSE IF e.revision > L.revision THEN [L EXCEPT !.net = e.amount, !.revision = e.revision]
    ELSE Refuse(L)

ApplyAssignment(L, e) ==
    IF ~Known(L) \/ L.state = "PAID" THEN Refuse(L)
    ELSE [L EXCEPT !.assigned = TRUE, !.state = IF L.paid = 0 THEN "ASSIGNED" ELSE "PARTIALLY_PAID"]

ApplyCorrection(L, e) ==
    IF ~Known(L) \/ e.revision # L.revision + 1 THEN Refuse(L)
    ELSE [L EXCEPT !.net = @ + e.amount, !.revision = e.revision,
                   !.state = IF L.net + e.amount <= L.paid THEN "PAID" ELSE @,
                   !.revoked = @ \/ (L.used /\ e.amount < 0)]

(* Cash at the source; without a receivable it stays unclassified. *)
ApplyPayout(L, e) ==
    LET paid == L.paid + e.amount
        escrowed == [L EXCEPT !.escrow = @ + e.amount]
    IN IF ~Known(L) THEN escrowed
       ELSE [escrowed EXCEPT !.paid = paid,
                             !.state = IF paid >= L.net THEN "PAID"
                                       ELSE IF L.assigned THEN "PARTIALLY_PAID" ELSE "RECOGNIZED"]

ApplyCancellation(L, e) ==
    IF L.paid < e.amount THEN Refuse(L)
    ELSE [L EXCEPT !.paid = @ - e.amount, !.escrow = @ - e.amount, !.revoked = @ \/ L.used,
                   !.state = IF L.paid > e.amount THEN "PARTIALLY_PAID" ELSE UnpaidState(L)]

ApplyLeg(L, e) == [L EXCEPT !.escrow = @ - e.amount, !.inFlight = @ + e.amount]

ApplyReceipt(L, e) == [L EXCEPT !.inFlight = @ - e.amount, !.received = @ + e.amount]

ApplyAllocation(L, e) ==
    IF L.allocated + e.amount > L.received THEN Refuse(L)
    ELSE [L EXCEPT !.allocated = @ + e.amount, !.debt = IF e.amount > @ THEN 0 ELSE @ - e.amount]

ApplyEvent(L, e) ==
    CASE e.type = "OBLIGATION" -> ApplyObligation(L, e)
      [] e.type = "ASSIGNMENT" -> ApplyAssignment(L, e)
      [] e.type = "CORRECTION" -> ApplyCorrection(L, e)
      [] e.type = "PAYOUT" -> ApplyPayout(L, e)
      [] e.type = "CANCELLATION" -> ApplyCancellation(L, e)
      [] e.type = "LEG" -> ApplyLeg(L, e)
      [] e.type = "DESTINATION_RECEIPT" -> ApplyReceipt(L, e)
      [] e.type = "ALLOCATION" -> ApplyAllocation(L, e)
      [] e.type = "DECISION_USE" -> [L EXCEPT !.used = @ \/ Known(L)]

Reconcile(obs) == FoldLeft(ApplyEvent, EmptyLedger, FoldLeft(Merge, <<>>, obs))

(* A report of an event: what an API says is CLAIMED and may be wrong; a    *)
(* chain report is PROVEN once consumed and OBSERVED before.                *)
Voices == {"mistaken api", "chain", "consumed"}

Observed(id, voice) ==
    [id |-> id, type |-> Reportable[id].type, revision |-> Reportable[id].revision,
     amount |-> Reportable[id].amount + (IF voice = "mistaken api" THEN 1 ELSE 0),
     trust |-> CASE voice = "consumed" -> "PROVEN" [] voice = "chain" -> "OBSERVED" [] OTHER -> "CLAIMED"]

Report(id, voice) ==
    /\ Len(reports) < MaxReports
    /\ reports' = Append(reports, Observed(id, voice))
    /\ UNCHANGED tx

ReportsInit == tx = <<>> /\ reports = <<>>

ReportsNext ==
    \/ \E leg \in LegShapes : AddLeg(leg)
    \/ \E id \in DOMAIN Reportable, voice \in Voices : Report(id, voice)

-----------------------------------------------------------------------------
(* Each direct repayment of a transaction is paired with its own allocation *)
(* and its own measured receipt, however many repayments, of whichever      *)
(* facility and way, surround it; one from a settlement is never taken for  *)
(* direct cash (pair_repayment_events).                                     *)
PairingExact ==
    \A i \in DOMAIN tx :
       PairRepayment(TxLogs, RepaidAt(i), tx[i].fac)
         = IF tx[i].way = "settlement" THEN {} ELSE {<<RepaidAt(i), RepaidAt(i) - 2, RepaidAt(i) - 1>>}

FirstReports ==
    SelectSeq([i \in DOMAIN reports |-> [o |-> reports[i], again |-> \E j \in 1..(i - 1) : reports[j].id = reports[i].id]],
              LAMBDA x : ~x.again)

(* An event counts once (reconcile): whatever sources repeat it, in whatever *)
(* order among the others, the ledger is that of its first report, and no    *)
(* more debt is paid than destination cash arrived.                          *)
CountedOnce ==
    /\ Reconcile(reports) = Reconcile([i \in DOMAIN FirstReports |-> FirstReports[i].o])
    /\ OpeningDebt - Reconcile(reports).debt <= Reconcile(reports).received
=============================================================================
