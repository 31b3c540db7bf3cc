------------------------------ MODULE CashBook ------------------------------
(***************************************************************************)
(* Settlement legs and destination cash                                    *)
(* (offchain/gpu/hashcredit_gpu/settlement/legs.py, reconciliation/): a    *)
(* leg of a source settlement is planned against the amount that was paid  *)
(* out, sent to a partner, followed until the loan currency arrives or is  *)
(* refunded, and booked as a cash receipt and an allocation.  The handler  *)
(* runs in the transaction that completes its job; acknowledgement and     *)
(* receipt are committed on their own.  Workers crash and lose their lease *)
(* anywhere.  A direct repayment is mirrored by reconcile_cash.            *)
(***************************************************************************)
EXTENDS Naturals, FiniteSets, Functions

CONSTANTS
    Legs,           \* legs of one settlement
    Directs,        \* references of direct repayments
    CashWorkers,
    Source,         \* what the settlement was paid out at its source
    LegAmount,      \* source amount of a quote: leg -> amount
    Minimum,        \* minimum destination amount of a quote
    Amounts,        \* destination amounts that may arrive
    MaxClaims       \* bound: how often a job is claimed

ASSUME CashConstants ==
    /\ IsFiniteSet(Legs) /\ Legs \cap Directs = {}
    /\ LegAmount \in [Legs -> Nat] /\ Source \in Nat
    /\ Amounts \subseteq Nat \ {0}
    /\ MaxClaims \in Nat
    /\ "none" \notin Legs \cup CashWorkers

VARIABLES
    reversed,       \* settlements.state is REVERSED
    planned,        \* outbox: SETTLEMENT_LEG_PLANNED
    acked,          \* outbox: SETTLEMENT_LEG_ACKNOWLEDGED
    refunded,       \* outbox: SETTLEMENT_LEG_REFUNDED
    legJob,         \* jobs: leg -> [state, holder, claims]
    expired,        \* quotes past expires_at
    hand,           \* worker -> [leg, pc, locked]
    partner,        \* external: leg -> none, SENT, RECEIVED, REFUNDED
    lateSends,      \* ghost: legs first sent by a worker that had lost its lease
    cash,           \* external: reference -> what the canonical chain says
    receipts,       \* cash_receipts: reference -> amount
    allocs,         \* allocations: reference -> received
    disputes,       \* open BLOCKING cases on receipts, and "settlement"
    sawReorg        \* ghost: recorded references seen off the canonical chain

legVars == <<reversed, planned, acked, refunded, legJob, expired, hand, partner, lateSends>>

bookVars == <<receipts, allocs, disputes, sawReorg>>

cashVars == <<legVars, bookVars, cash>>

-----------------------------------------------------------------------------
NoLeg == "none"

Resting == [leg |-> NoLeg, pc |-> "idle", locked |-> FALSE]

NoCash == [amount |-> 0, canonical |-> TRUE, final |-> FALSE, repaid |-> 0]

NoJob == [state |-> "none", holder |-> NoLeg, claims |-> 0]

Reserved(legs) == SumFunctionOnSet(LegAmount, legs)

Entered(rows, x, value) == [y \in DOMAIN rows \cup {x} |-> IF y = x THEN value ELSE rows[y]]

OutOfHand(legs) == {l \in legs : partner[l] \in {"SENT", "RECEIVED"}}

CashInit ==
    /\ reversed = FALSE
    /\ planned = {} /\ acked = {} /\ refunded = {} /\ expired = {}
    /\ legJob = [l \in Legs |-> NoJob]
    /\ hand = [w \in CashWorkers |-> Resting]
    /\ partner = [l \in Legs |-> "none"] /\ lateSends = {}
    /\ cash = [x \in Legs \cup Directs |-> NoCash]
    /\ receipts = <<>> /\ allocs = <<>> /\ disputes = {} /\ sawReorg = {}

-----------------------------------------------------------------------------
(* Planning *)

QuoteValid(l) == l \notin expired

SourceCovers(l) == l \in planned \/ Reserved(planned) + LegAmount[l] <= Source

MayEnqueue(l) == QuoteValid(l) /\ ~reversed /\ SourceCovers(l)

Unlocked(w) == \A v \in CashWorkers \ {w} : ~hand[v].locked

(* enqueue: the plan and the job in one transaction, under the settlement's *)
(* advisory lock.                                                           *)
Enqueue(l) ==
    /\ \A w \in CashWorkers : ~hand[w].locked
    /\ MayEnqueue(l)
    /\ planned' = planned \cup {l}
    /\ legJob' = [legJob EXCEPT ![l].state = IF @ = "none" THEN "PENDING" ELSE @]
    /\ UNCHANGED <<reversed, acked, refunded, expired, hand, partner, lateSends, bookVars, cash>>

-----------------------------------------------------------------------------
(* The handler *)

Holds(w) == hand[w].leg # NoLeg /\ legJob[hand[w].leg].holder = w

AtStep(w, pc) == hand[w].leg # NoLeg /\ hand[w].pc = pc

GoTo(w, pc) == hand' = [hand EXCEPT ![w].pc = pc]

(* The outcome is recorded only under the worker's own lease. *)
Outcome(w, state) ==
    /\ hand' = [hand EXCEPT ![w] = Resting]
    /\ legJob' = IF Holds(w) THEN [legJob EXCEPT ![hand[w].leg].state = state, ![hand[w].leg].holder = NoLeg]
                 ELSE legJob

Retry(w) == Outcome(w, "PENDING")

(* A job whose lease has run out is claimed while its worker still works. *)
ClaimLeg(w, l) ==
    /\ hand[w] = Resting
    /\ legJob[l].state \in {"PENDING", "RUNNING"} /\ legJob[l].claims < MaxClaims
    /\ legJob' = [legJob EXCEPT ![l] = [state |-> "RUNNING", holder |-> w, claims |-> @.claims + 1]]
    /\ hand' = [hand EXCEPT ![w] = [leg |-> l, pc |-> "start", locked |-> FALSE]]
    /\ UNCHANGED <<reversed, planned, acked, refunded, expired, partner, lateSends, bookVars, cash>>

LegCrash(w) ==
    /\ hand[w] # Resting
    /\ hand' = [hand EXCEPT ![w] = Resting]
    /\ UNCHANGED <<reversed, planned, acked, refunded, legJob, expired, partner, lateSends, bookVars, cash>>

StartAtQuote(w) ==                          \* mutant: the quote is checked before the partner is asked
    /\ AtStep(w, "start")
    /\ GoTo(w, IF hand[w].leg \in acked THEN "observe"
               ELSE IF QuoteValid(hand[w].leg) /\ partner[hand[w].leg] # "none" THEN "ack" ELSE "send")
    /\ UNCHANGED <<reversed, planned, acked, refunded, legJob, expired, partner, lateSends, bookVars, cash>>

(* Without an acknowledgement the partner is asked first: the send may have *)
(* happened and its answer been lost.                                       *)
Start(w) ==
    /\ AtStep(w, "start")
    /\ GoTo(w, IF hand[w].leg \in acked THEN "observe"
               ELSE IF partner[hand[w].leg] # "none" THEN "ack" ELSE "send")
    /\ UNCHANGED <<reversed, planned, acked, refunded, legJob, expired, partner, lateSends, bookVars, cash>>

(* enqueue again, then send; the partner takes a leg id once. *)
SendLeg(w) ==
    /\ AtStep(w, "send")
    /\ Unlocked(w)
    /\ LET l == hand[w].leg
       IN \/ /\ ~MayEnqueue(l)
             /\ Outcome(w, "DEAD")
             /\ UNCHANGED <<planned, partner, lateSends>>
          \/ /\ MayEnqueue(l)
             /\ planned' = planned \cup {l}
             /\ partner' = [partner EXCEPT ![l] = IF @ = "none" THEN "SENT" ELSE @]
             /\ lateSends' = IF partner[l] = "none" /\ ~Holds(w) THEN lateSends \cup {l} ELSE lateSends
             /\ \/ hand' = [hand EXCEPT ![w].pc = "ack", ![w].locked = TRUE] /\ UNCHANGED legJob
                \/ Retry(w)                 \* the answer is lost
    /\ UNCHANGED <<reversed, acked, refunded, expired, bookVars, cash>>

Acknowledge(w) ==
    /\ AtStep(w, "ack")
    /\ acked' = acked \cup {hand[w].leg}
    /\ GoTo(w, "observe")
    /\ UNCHANGED <<reversed, planned, refunded, legJob, expired, partner, lateSends, bookVars, cash>>

Observe(w) ==
    /\ AtStep(w, "observe")
    /\ LET l == hand[w].leg
       IN \/ partner[l] = "SENT" /\ Retry(w) /\ UNCHANGED refunded
          \/ /\ partner[l] = "REFUNDED"
             /\ refunded' = IF Holds(w) THEN refunded \cup {l} ELSE refunded
             /\ Outcome(w, "SUCCEEDED")
          \/ /\ partner[l] = "RECEIVED"
             /\ GoTo(w, "receipt")
             /\ UNCHANGED <<refunded, legJob>>
    /\ UNCHANGED <<reversed, planned, acked, expired, partner, lateSends, bookVars, cash>>

-----------------------------------------------------------------------------
(* Receipts and allocations *)

Indexed(x) == cash[x].amount > 0

(* record_destination_receipt for a reference the reader knows: what it    *)
(* books, and the case it opens otherwise.                                 *)
Recordable(x) == cash[x].canonical /\ cash[x].final /\ (x \in Legs => ~reversed)

Booked(x) == IF x \in DOMAIN receipts THEN receipts ELSE Entered(receipts, x, cash[x].amount)

ReceiptCases(x) ==
    CASE ~cash[x].canonical -> {x}
      [] cash[x].canonical /\ cash[x].final /\ x \in Legs /\ reversed -> {x}
      [] Recordable(x) /\ x \in DOMAIN receipts /\ receipts[x] # cash[x].amount -> {x}
      [] OTHER -> {}

RecordedOk(x) == Recordable(x) /\ (x \in DOMAIN receipts => receipts[x] = cash[x].amount)

(* record_confirmed_allocation *)
Allocatable(x) ==
    /\ cash[x].repaid > 0 /\ cash[x].repaid <= Booked(x)[x]
    /\ cash[x].canonical /\ cash[x].final
    /\ x \notin disputes
    /\ x \in DOMAIN allocs => allocs[x] = cash[x].repaid

(* The receipt is durable, and so is the case, whatever follows. *)
RecordReceipt(w) ==
    /\ AtStep(w, "receipt")
    /\ LET l == hand[w].leg
       IN /\ IF ~Indexed(l) THEN Retry(w) /\ UNCHANGED bookVars
             ELSE /\ receipts' = IF RecordedOk(l) THEN Booked(l) ELSE receipts
                  /\ disputes' = disputes \cup ReceiptCases(l)
                       \cup (IF RecordedOk(l) /\ cash[l].amount < Minimum THEN {"settlement"} ELSE {})
                  /\ sawReorg' = IF cash[l].canonical \/ l \notin DOMAIN receipts THEN sawReorg ELSE sawReorg \cup {l}
                  /\ UNCHANGED allocs
                  /\ IF RecordedOk(l) THEN GoTo(w, "allocate") /\ UNCHANGED legJob ELSE Retry(w)
    /\ UNCHANGED <<reversed, planned, acked, refunded, expired, partner, lateSends, cash>>

AllocateLeg(w) ==
    /\ AtStep(w, "allocate")
    /\ LET l == hand[w].leg
       IN IF Allocatable(l)
          THEN /\ allocs' = IF Holds(w) THEN Entered(allocs, l, cash[l].repaid) ELSE allocs
               /\ Outcome(w, "SUCCEEDED")
          ELSE Retry(w) /\ UNCHANGED allocs
    /\ UNCHANGED <<reversed, planned, acked, refunded, expired, partner, lateSends, receipts, disputes, sawReorg, cash>>

(* reconcile_cash.reconcile: receipt and allocation in one transaction; a   *)
(* refusal of either raises, and takes the case it opened with it.          *)
ReconcileDirect(x) ==
    /\ Indexed(x) /\ cash[x].repaid > 0
    /\ \/ /\ RecordedOk(x) /\ Allocatable(x)
          /\ receipts' = Booked(x)
          /\ allocs' = Entered(allocs, x, cash[x].repaid)
          /\ UNCHANGED sawReorg
       \/ /\ ~cash[x].canonical /\ x \in DOMAIN receipts
          /\ sawReorg' = sawReorg \cup {x}
          /\ UNCHANGED <<receipts, allocs>>
    /\ UNCHANGED <<legVars, disputes, cash>>

-----------------------------------------------------------------------------
(* Outside: time, the partner, and the destination chain *)

ExpireQuote(l) ==
    /\ l \notin expired
    /\ expired' = expired \cup {l}
    /\ UNCHANGED <<reversed, planned, acked, refunded, legJob, hand, partner, lateSends, bookVars, cash>>

ReverseSettlement ==
    /\ ~reversed
    /\ reversed' = TRUE
    /\ UNCHANGED <<planned, acked, refunded, legJob, expired, hand, partner, lateSends, bookVars, cash>>

Deliver(l, amount) ==
    /\ partner[l] = "SENT"
    /\ partner' = [partner EXCEPT ![l] = "RECEIVED"]
    /\ cash' = [cash EXCEPT ![l].amount = amount]
    /\ UNCHANGED <<reversed, planned, acked, refunded, legJob, expired, hand, lateSends, bookVars>>

Refund(l) ==
    /\ partner[l] = "SENT"
    /\ partner' = [partner EXCEPT ![l] = "REFUNDED"]
    /\ UNCHANGED <<reversed, planned, acked, refunded, legJob, expired, hand, lateSends, bookVars, cash>>

PayDirect(x, amount) ==
    /\ x \in Directs /\ ~Indexed(x)
    /\ cash' = [cash EXCEPT ![x].amount = amount, ![x].repaid = amount]
    /\ UNCHANGED <<legVars, bookVars>>

FinalizeCash(x) ==
    /\ Indexed(x) /\ ~cash[x].final
    /\ cash' = [cash EXCEPT ![x].final = TRUE]
    /\ UNCHANGED <<legVars, bookVars>>

(* repayFor on chain: never more than arrived. *)
RepayFor(x) ==
    /\ x \in Legs /\ Indexed(x) /\ cash[x].repaid = 0
    /\ cash' = [cash EXCEPT ![x].repaid = cash[x].amount]
    /\ UNCHANGED <<legVars, bookVars>>

ReorgCash(x) ==
    /\ Indexed(x) /\ cash[x].canonical
    /\ cash' = [cash EXCEPT ![x].canonical = FALSE]
    /\ UNCHANGED <<legVars, bookVars>>

LegStep(w) ==
    \/ \E l \in Legs : ClaimLeg(w, l)
    \/ LegCrash(w) \/ Start(w) \/ SendLeg(w) \/ Acknowledge(w) \/ Observe(w)
    \/ RecordReceipt(w) \/ AllocateLeg(w)

CashNext ==
    \/ \E w \in CashWorkers : LegStep(w)
    \/ \E l \in Legs : Enqueue(l) \/ ExpireQuote(l) \/ Refund(l)
    \/ \E l \in Legs, amount \in Amounts : Deliver(l, amount)
    \/ \E x \in Directs : ReconcileDirect(x)
    \/ \E x \in Directs, amount \in Amounts : PayDirect(x, amount)
    \/ \E x \in Legs \cup Directs : FinalizeCash(x) \/ RepayFor(x) \/ ReorgCash(x)
    \/ ReverseSettlement

-----------------------------------------------------------------------------
(* The legs in the partner's hands never add up to more than the settlement *)
(* was paid out (enqueue): plans reserve the source, and a handler that     *)
(* plans again on a retry reserves nothing new.                             *)
SourceCovered == Reserved(OutOfHand(Legs)) <= Source

(* Money in the partner's hands is never given up (handle): however answers *)
(* are lost, quotes expire, leases run out and workers crash, the job of a  *)
(* leg that its worker sent under its lease, and that was not refunded, is  *)
(* not dead.                                                                *)
SentIsFollowed == \A l \in OutOfHand(Legs) \ lateSends : legJob[l].state # "DEAD"

(* What handle says of itself: "never infer that a lost acknowledgement was *)
(* a failed send".                                                          *)
NeverInferred == \A l \in OutOfHand(Legs) : legJob[l].state # "DEAD"

(* A leg's job ends when its money is accounted for: the refund is on       *)
(* record, or the receipt and its allocation are booked, for no more than   *)
(* arrived.                                                                 *)
LegSettled ==
    \A l \in Legs : legJob[l].state = "SUCCEEDED" =>
       \/ partner[l] = "REFUNDED" /\ l \in refunded /\ l \notin DOMAIN allocs
       \/ l \in DOMAIN receipts /\ l \in DOMAIN allocs /\ allocs[l] <= receipts[l]

(* What record_destination_receipt says of itself: "A detected reorg        *)
(* quarantines the record".                                                 *)
ReorgQuarantined == sawReorg \subseteq disputes

(* Settlement legs: the legs never promise more than the source holds, a   *)
(* leg that was sent is followed until it settles, and what settled was    *)
(* delivered.                                                              *)
LegsKept == SourceCovered /\ SentIsFollowed /\ LegSettled
=============================================================================
