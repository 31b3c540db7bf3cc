---------------------------- MODULE CreditFacility ----------------------------
(***************************************************************************)
(* Facilities and their draws: CreditFacilityManager, ExposureController   *)
(* and GpuRiskPolicy (contracts/gpu).  A draw takes two transactions       *)
(* (reserveDraw, executeReservedDraw) or one (borrow); between the two the *)
(* authorization, the policy, the control agreement, the evidence, the     *)
(* signing key and the pool's cash may all move.                           *)
(*                                                                         *)
(* Wiring is sealed, so a provider's verifier (profile, manifest) is fixed.*)
(* Other contracts are variables their views return: `debt' is legalDebtAt *)
(* of the ledger, `cash' availableCash of the vault, `eligible'            *)
(* eligibleUnpaid of the receivable book (0 when its evidence has lapsed), *)
(* `control' whether the facility's agreement version is usable at E2,     *)
(* `linked' whether its wallet is linked and its signer an underwriter.    *)
(***************************************************************************)
EXTENDS Integers, FiniteSets, FiniteSetsExt, Functions, FacilityStates

CONSTANTS
    Facilities,
    Pools,          \* facilities under one cap: by borrower, group, provider, all
    Cap,            \* Cap[policy][pool]
    AdvanceRate,    \* advanceRateBps of each policy version
    Haircut,        \* concentration + collectability haircut of each version
    Bps,            \* 10_000
    Limits,         \* limits an underwriter may set
    Amounts,        \* amounts of a draw or a repayment
    EligibleAmounts,\* values of eligibleUnpaid
    Maturity,       \* maturityAt of each facility, 0 = none
    Ttls,           \* lifetimes of reservations
    Validities,     \* lifetimes of authorizations
    MaxCash, MaxPolicy, MaxAuthEpoch, MaxKeyEpoch, MaxNonce, MaxTime

ASSUME CreditConstants ==
    /\ IsFiniteSet(Facilities)
    /\ Pools \subseteq SUBSET Facilities
    /\ \A f \in Facilities : \E pool \in Pools : f \in pool      \* the cap on all
    /\ Cap \in [1 .. MaxPolicy -> [Pools -> Nat]]
    /\ Bps \in Nat \ {0}
    /\ AdvanceRate \in [1 .. MaxPolicy -> 1 .. Bps]
    /\ Haircut \in [1 .. MaxPolicy -> 0 .. Bps]
    /\ Limits \subseteq Nat /\ Amounts \subseteq Nat /\ EligibleAmounts \subseteq Nat
    /\ Ttls \subseteq Nat /\ Validities \subseteq Nat
    /\ Maturity \in [Facilities -> Nat]
    /\ MaxPolicy \in Nat \ {0}
    /\ MaxTime \in Nat /\ MaxNonce \in Nat /\ MaxCash \in Nat
    /\ MaxAuthEpoch \in Nat /\ MaxKeyEpoch \in Nat

VARIABLES
    now,
    debt, cash, eligible, control, linked,      \* views of other contracts
    policy,                 \* currentVersion, by ordinal
    keyEpoch, graceUntil,   \* UNDERWRITER key epoch and grace of the previous one
    state,                  \* FacilityState of each facility
    enrolled,               \* facilities known to the exposure controller
    auth,                   \* ExposureController._auth; epoch 0 = none
    anchor,                 \* CreditFacilityManager._anchors; exposureEpoch 0 = none
    drawNonce, reservations, reserved,
    drawsPaused, resumeApproved

envVars == <<now, debt, cash, eligible, control, linked>>
ruleVars == <<policy, keyEpoch, graceUntil>>
authVars == <<enrolled, auth, anchor>>
reserveVars == <<drawNonce, reservations, reserved>>
pauseVars == <<drawsPaused, resumeApproved>>
vars == <<envVars, ruleVars, state, authVars, reserveVars, pauseVars>>

Roles == {"REGISTRAR", "UNDERWRITER", "SERVICER", "GUARDIAN", "TREASURY"}

Authorization == [limit : Nat, policy : Nat, validUntil : Nat, epoch : Nat]

Anchor == [limit : Nat, policy : Nat, validUntil : Nat,
           signerEpoch : Nat, exposureEpoch : Nat]

Reservation == [facility : Facilities, amount : Nat, expiresAt : Nat,
                policy : Nat, epoch : Nat,
                state : {"ACTIVE", "CONSUMED", "CANCELLED", "EXPIRED"}]

-----------------------------------------------------------------------------
(* The state machine *)

(* _hasAuthority, for the transitions an external account may make itself. *)
Authority(from, to) ==
    CASE from = "DRAFT" -> {"REGISTRAR"}
      [] from = "UNDER_REVIEW" -> {"UNDERWRITER"}
      [] from = "CONTROL_PENDING" -> {"UNDERWRITER", "SERVICER"}
      [] to = "DRAW_FROZEN" -> {"GUARDIAN"}
      [] from = "DRAW_FROZEN" /\ to = "ACTIVE" -> {"UNDERWRITER"}
      [] to = "RECOVERY" -> {"SERVICER"}
      [] to = "RELEASED" -> {"SERVICER", "TREASURY"}
      [] OTHER -> {}

AnchorValid(f) ==                   \* _anchorValid
    /\ anchor[f].exposureEpoch # 0
    /\ anchor[f].validUntil > now
    /\ anchor[f].policy = policy

Guard(f, from, to) ==
    /\ from = "UNDER_REVIEW" => AnchorValid(f)
    /\ (to = "ACTIVE" /\ from # "DELINQUENT") => control[f]
    /\ to \in {"REPAID", "RELEASED"} => debt[f] = 0

SetState(f, to) == state' = [state EXCEPT ![f] = to]       \* here and in the ledger

-----------------------------------------------------------------------------
(* What may be drawn *)

Room(cap, used) == IF cap > used THEN cap - used ELSE 0

ExposureOfDebt(pool, res) ==                \* mutant: reservations not counted
    SumFunctionOnSet(debt, pool \cap enrolled)

Exposure(pool, res) ==                      \* _exposure, with reserved amounts res
    SumFunctionOnSet([f \in Facilities |-> debt[f] + res[f]], pool \cap enrolled)

Headroom(f, res) ==                         \* headroomOf
    Min({Room(Cap[auth[f].policy][pool], Exposure(pool, res)) :
            pool \in {p \in Pools : f \in p}})

ReceivableLimit(f) ==                       \* evaluate: haircut, then advance rate
    LET net == (eligible[f] * (Bps - Haircut[auth[f].policy])) \div Bps
    IN  (net * AdvanceRate[auth[f].policy]) \div Bps

AuthorityUsable(f) ==                       \* _authorityUsable
    /\ auth[f].limit # 0
    /\ auth[f].validUntil > now
    /\ auth[f].policy = policy
    /\ control[f]
    /\ Maturity[f] = 0 \/ now < Maturity[f]

AvailableDraw(f, res) ==                    \* evaluateDraw
    IF AuthorityUsable(f)
    THEN Min({Room(ReceivableLimit(f), debt[f] + res[f]),
              Room(auth[f].limit, debt[f] + res[f]),
              Headroom(f, res), cash})
    ELSE 0

EpochValid(e) == e = keyEpoch \/ (e + 1 = keyEpoch /\ now <= graceUntil)

(* _checkDrawable, made when reserving and again when executing. *)
Drawable(f) ==
    /\ ~drawsPaused
    /\ linked[f]
    /\ state[f] = "ACTIVE"
    /\ anchor[f].exposureEpoch # 0
    /\ anchor[f].validUntil > now
    /\ EpochValid(anchor[f].signerEpoch)
    /\ anchor[f].exposureEpoch = auth[f].epoch
    /\ anchor[f].policy = policy
    /\ control[f]

-----------------------------------------------------------------------------
Init ==
    /\ now = 0
    /\ debt = [f \in Facilities |-> 0]
    /\ cash = MaxCash
    /\ eligible \in [Facilities -> EligibleAmounts]
    /\ control = [f \in Facilities |-> TRUE]
    /\ linked = [f \in Facilities |-> TRUE]
    /\ policy = 1
    /\ keyEpoch = 0 /\ graceUntil = 0
    /\ state = [f \in Facilities |-> "NONE"]
    /\ enrolled = {}
    /\ auth = [f \in Facilities |->
                  [limit |-> 0, policy |-> 0, validUntil |-> 0, epoch |-> 0]]
    /\ anchor = [f \in Facilities |->
                    [limit |-> 0, policy |-> 0, validUntil |-> 0,
                     signerEpoch |-> 0, exposureEpoch |-> 0]]
    /\ drawNonce = [f \in Facilities |-> 0]
    /\ reservations = <<>>
    /\ reserved = [f \in Facilities |-> 0]
    /\ drawsPaused = FALSE
    /\ resumeApproved = FALSE

(* Lifecycle *)

OpenFacility(f) ==                  \* UNDERWRITER
    /\ state[f] = "NONE"
    /\ linked[f]
    /\ SetState(f, "DRAFT")
    /\ UNCHANGED <<envVars, ruleVars, authVars, reserveVars, pauseVars>>

Transition(f, to, by) ==
    /\ <<state[f], to>> \in TransitionTable
    /\ by \in Authority(state[f], to)
    /\ Guard(f, state[f], to)
    /\ SetState(f, to)
    /\ UNCHANGED <<envVars, ruleVars, authVars, reserveVars, pauseVars>>

FreezeDraws(f) ==                   \* GUARDIAN
    /\ state[f] = "ACTIVE"
    /\ SetState(f, "DRAW_FROZEN")
    /\ UNCHANGED <<envVars, ruleVars, authVars, reserveVars, pauseVars>>

RecoveryTransition(f, to) ==        \* called by the bound recovery manager
    /\ <<state[f], to>> \in TransitionTable
    /\ Guard(f, state[f], to)
    /\ to \in {"DELINQUENT", "ACTIVE", "DEFAULTED", "RECOVERY", "CLOSED_WITH_LOSS"}
    /\ SetState(f, to)
    /\ UNCHANGED <<envVars, ruleVars, authVars, reserveVars, pauseVars>>

SyncRepaidAnyDebt(f) ==             \* mutant: the balance is not read
    /\ state[f] \in SyncableStates
    /\ SetState(f, "REPAID")
    /\ UNCHANGED <<envVars, ruleVars, authVars, reserveVars, pauseVars>>

SyncRepaid(f) ==                    \* anyone
    /\ state[f] \in SyncableStates
    /\ debt[f] = 0
    /\ SetState(f, "REPAID")
    /\ UNCHANGED <<envVars, ruleVars, authVars, reserveVars, pauseVars>>

PauseDraws(paused) ==               \* GUARDIAN
    /\ paused \/ resumeApproved
    /\ drawsPaused' = paused
    /\ resumeApproved' = FALSE
    /\ UNCHANGED <<envVars, ruleVars, state, authVars, reserveVars>>

ApproveDrawResume ==                \* UNDERWRITER
    /\ resumeApproved' = TRUE
    /\ UNCHANGED <<envVars, ruleVars, state, authVars, reserveVars, drawsPaused>>

(* Authorization *)

PublishPolicy ==                    \* UNDERWRITER: a new version becomes current
    /\ policy < MaxPolicy
    /\ policy' = policy + 1
    /\ UNCHANGED <<envVars, keyEpoch, graceUntil, state, authVars, reserveVars,
                   pauseVars>>

RotateKeyEpoch(grace) ==            \* ADMIN
    /\ keyEpoch < MaxKeyEpoch
    /\ keyEpoch' = keyEpoch + 1
    /\ graceUntil' = now + grace
    /\ UNCHANGED <<envVars, policy, state, authVars, reserveVars, pauseVars>>

EnrollFacility(f) ==                \* UNDERWRITER, once the ledger knows it
    /\ f \notin enrolled
    /\ state[f] # "NONE"
    /\ enrolled' = enrolled \union {f}
    /\ UNCHANGED <<envVars, ruleVars, state, auth, anchor, reserveVars, pauseVars>>

SetAuthorizationSameEpoch(f, limit, ttl) ==     \* mutant: epoch bumped only once
    /\ f \in enrolled /\ control[f] /\ ttl # 0
    /\ auth[f].epoch < MaxAuthEpoch
    /\ auth' = [auth EXCEPT ![f] = [limit |-> limit, policy |-> policy,
                                    validUntil |-> now + ttl, epoch |-> 1]]
    /\ UNCHANGED <<envVars, ruleVars, state, enrolled, anchor, reserveVars, pauseVars>>

SetAuthorization(f, limit, ttl) ==  \* UNDERWRITER, pinned to the current policy
    /\ f \in enrolled
    /\ control[f]
    /\ ttl # 0
    /\ auth[f].epoch < MaxAuthEpoch
    /\ auth' = [auth EXCEPT ![f] = [limit |-> limit, policy |-> policy,
                                    validUntil |-> now + ttl,
                                    epoch |-> auth[f].epoch + 1]]
    /\ UNCHANGED <<envVars, ruleVars, state, enrolled, anchor, reserveVars, pauseVars>>

(* The signed decision must equal the controller's authorization            *)
(* (_requireExposureAgrees); its signature names key epoch e.               *)
AnchorAuthorization(f, e) ==
    /\ state[f] # "NONE"
    /\ auth[f].epoch # 0
    /\ auth[f].validUntil > now
    /\ auth[f].policy = policy
    /\ linked[f] /\ EpochValid(e)
    /\ anchor' = [anchor EXCEPT ![f] = [limit |-> auth[f].limit, policy |-> auth[f].policy,
                                        validUntil |-> auth[f].validUntil,
                                        signerEpoch |-> e, exposureEpoch |-> auth[f].epoch]]
    /\ UNCHANGED <<envVars, ruleVars, state, enrolled, auth, reserveVars, pauseVars>>

(* Draws, by the borrower's wallet *)

NewReservation(f, amount, ttl, st) ==
    [facility |-> f, amount |-> amount, expiresAt |-> now + ttl,
     policy |-> auth[f].policy, epoch |-> auth[f].epoch, state |-> st]

(* The gates of manager._reserve and controller.reserve. *)
MayReserve(f, amount) ==
    /\ Drawable(f)
    /\ amount # 0
    /\ amount <= AvailableDraw(f, reserved)
    /\ drawNonce[f] < MaxNonce

AddReservation(f, r) ==
    /\ drawNonce' = [drawNonce EXCEPT ![f] = @ + 1]
    /\ reservations' = [id \in DOMAIN reservations \union {<<f, drawNonce[f] + 1>>} |->
                           IF id = <<f, drawNonce[f] + 1>> THEN r ELSE reservations[id]]

ReserveDraw(f, amount, ttl) ==
    /\ ttl # 0
    /\ now + ttl <= MaxTime          \* expiresAt fits the clock
    /\ MayReserve(f, amount)
    /\ AddReservation(f, NewReservation(f, amount, ttl, "ACTIVE"))
    /\ reserved' = [reserved EXCEPT ![f] = @ + amount]
    /\ UNCHANGED <<envVars, ruleVars, state, authVars, pauseVars>>

PayOut(f, amount) ==                \* recordDraw, then vault.lend
    /\ amount <= cash
    /\ debt' = [debt EXCEPT ![f] = @ + amount]
    /\ cash' = cash - amount
    /\ UNCHANGED <<now, eligible, control, linked>>

MayConsume(id) ==                   \* consumeReservation, its own amount released
    LET r == reservations[id]
    IN  /\ now < r.expiresAt
        /\ auth[r.facility].epoch = r.epoch
        /\ r.policy = policy
        /\ control[r.facility]
        /\ r.amount <= AvailableDraw(r.facility,
                          [reserved EXCEPT ![r.facility] = @ - r.amount])

Close(id, st) == reservations' = [reservations EXCEPT ![id].state = st]

ReleaseReserved(id) ==
    reserved' = [reserved EXCEPT ![reservations[id].facility] = @ - reservations[id].amount]

ExecuteReservedDraw(id) ==
    /\ reservations[id].state = "ACTIVE"
    /\ Drawable(reservations[id].facility)
    /\ MayConsume(id)
    /\ Close(id, "CONSUMED")
    /\ ReleaseReserved(id)
    /\ PayOut(reservations[id].facility, reservations[id].amount)
    /\ UNCHANGED <<ruleVars, state, authVars, drawNonce, pauseVars>>

(* borrow: _reserve with one second to live, then _execute in the same      *)
(* transaction, whose gates repeat those just passed.                       *)
Borrow(f, amount) ==
    /\ MayReserve(f, amount)
    /\ AddReservation(f, NewReservation(f, amount, 1, "CONSUMED"))
    /\ PayOut(f, amount)
    /\ UNCHANGED <<ruleVars, state, authVars, reserved, pauseVars>>

CancelTwice(id) ==                  \* mutant: a closed reservation released again
    /\ reservations[id].state \in {"ACTIVE", "EXPIRED"}
    /\ Close(id, "CANCELLED")
    /\ ReleaseReserved(id)
    /\ UNCHANGED <<envVars, ruleVars, state, authVars, drawNonce, pauseVars>>

CancelReservation(id) ==            \* UNDERWRITER
    /\ reservations[id].state = "ACTIVE"
    /\ Close(id, "CANCELLED")
    /\ ReleaseReserved(id)
    /\ UNCHANGED <<envVars, ruleVars, state, authVars, drawNonce, pauseVars>>

ExpireReservation(id) ==            \* anyone
    /\ reservations[id].state = "ACTIVE"
    /\ now >= reservations[id].expiresAt
    /\ Close(id, "EXPIRED")
    /\ ReleaseReserved(id)
    /\ UNCHANGED <<envVars, ruleVars, state, authVars, drawNonce, pauseVars>>

(* Repayments: never paused, no evidence *)

Repaid(f, amount) ==                \* allocate and onRepayment; the excess is refundable
    LET applied == IF amount < debt[f] THEN amount ELSE debt[f]
    IN  /\ debt' = [debt EXCEPT ![f] = @ - applied]
        /\ cash' = cash + applied
        /\ UNCHANGED <<now, eligible, control, linked>>

RepayFor(f, amount) ==              \* manager.repayFor, by anyone
    /\ state[f] # "NONE"
    /\ amount # 0
    /\ Repaid(f, amount)
    /\ IF debt'[f] = 0 /\ <<state[f], "REPAID">> \in TransitionTable
       THEN SetState(f, "REPAID")
       ELSE UNCHANGED state
    /\ UNCHANGED <<ruleVars, authVars, reserveVars, pauseVars>>

RouterRepay(f, amount) ==           \* RepaymentRouter._apply, then syncRepaid
    /\ state[f] # "NONE"
    /\ amount # 0
    /\ Repaid(f, amount)
    /\ IF debt'[f] = 0 /\ state[f] \in SyncableStates
       THEN SetState(f, "REPAID")
       ELSE UNCHANGED state
    /\ UNCHANGED <<ruleVars, authVars, reserveVars, pauseVars>>

(* Steps of other contracts *)

Tick(bearing) ==                    \* time passes and debt in `bearing' grows
    /\ now < MaxTime
    /\ now' = now + 1
    /\ debt' = [f \in Facilities |->
                   IF f \in bearing /\ debt[f] > 0 THEN debt[f] + 1 ELSE debt[f]]
    /\ UNCHANGED <<cash, eligible, control, linked, ruleVars, state, authVars,
                   reserveVars, pauseVars>>

EligibleMoves(f, amount) ==
    /\ eligible' = [eligible EXCEPT ![f] = amount]
    /\ UNCHANGED <<now, debt, cash, control, linked, ruleVars, state, authVars,
                   reserveVars, pauseVars>>

ControlMoves(f) ==
    /\ control' = [control EXCEPT ![f] = ~@]
    /\ UNCHANGED <<now, debt, cash, eligible, linked, ruleVars, state, authVars,
                   reserveVars, pauseVars>>

LinkMoves(f) ==
    /\ linked' = [linked EXCEPT ![f] = ~@]
    /\ UNCHANGED <<now, debt, cash, eligible, control, ruleVars, state, authVars,
                   reserveVars, pauseVars>>

CashMoves(c) ==                     \* lenders deposit, withdraw or queue
    /\ cash' = c
    /\ UNCHANGED <<now, debt, eligible, control, linked, ruleVars, state, authVars,
                   reserveVars, pauseVars>>

FacilityNext(f) ==
    \/ OpenFacility(f) \/ EnrollFacility(f) \/ FreezeDraws(f) \/ SyncRepaid(f)
    \/ \E to \in States, by \in Roles : Transition(f, to, by)
    \/ \E to \in States : RecoveryTransition(f, to)
    \/ \E limit \in Limits, ttl \in Validities : SetAuthorization(f, limit, ttl)
    \/ \E e \in 0 .. keyEpoch : AnchorAuthorization(f, e)
    \/ \E amount \in Amounts :
          \/ \E ttl \in Ttls : ReserveDraw(f, amount, ttl)
          \/ Borrow(f, amount) \/ RepayFor(f, amount) \/ RouterRepay(f, amount)

EnvironmentNext ==
    \/ \E bearing \in SUBSET Facilities : Tick(bearing)
    \/ \E f \in Facilities : \/ \E a \in EligibleAmounts : EligibleMoves(f, a)
                             \/ ControlMoves(f) \/ LinkMoves(f)
    \/ \E c \in {0, MaxCash} : CashMoves(c)

Next ==
    \/ \E f \in Facilities : FacilityNext(f)
    \/ \E id \in DOMAIN reservations :
          ExecuteReservedDraw(id) \/ CancelReservation(id) \/ ExpireReservation(id)
    \/ \E paused \in BOOLEAN : PauseDraws(paused)
    \/ ApproveDrawResume \/ PublishPolicy
    \/ \E grace \in Ttls \union {0} : RotateKeyEpoch(grace)
    \/ EnvironmentNext

Spec == Init /\ [][Next]_vars

-----------------------------------------------------------------------------
TypeOK ==
    /\ now \in Nat
    /\ debt \in [Facilities -> Nat] /\ cash \in Nat
    /\ eligible \in [Facilities -> Nat]
    /\ control \in [Facilities -> BOOLEAN] /\ linked \in [Facilities -> BOOLEAN]
    /\ policy \in 1 .. MaxPolicy
    /\ keyEpoch \in Nat /\ graceUntil \in Nat
    /\ state \in [Facilities -> States]
    /\ enrolled \subseteq Facilities
    /\ auth \in [Facilities -> Authorization]
    /\ anchor \in [Facilities -> Anchor]
    /\ drawNonce \in [Facilities -> Nat]
    /\ DOMAIN reservations \subseteq Facilities \X Nat
    /\ \A id \in DOMAIN reservations : reservations[id] \in Reservation
    /\ reserved \in [Facilities -> Nat]
    /\ drawsPaused \in BOOLEAN /\ resumeApproved \in BOOLEAN

(* Reserved exposure is exactly the live reservations: nothing is released  *)
(* twice, and nothing consumed, cancelled or expired keeps headroom taken.  *)
ReservedIsLive ==
    \A f \in Facilities :
        reserved[f] = SumFunctionOnSet([id \in DOMAIN reservations |-> reservations[id].amount],
                          {id \in DOMAIN reservations :
                              id[1] = f /\ reservations[id].state = "ACTIVE"})

(* The signed decision and the controller's authorization are set in two    *)
(* contracts; while the anchor names the controller's epoch they agree on   *)
(* limit, policy and expiry, so the limit a draw is measured against is the *)
(* one that was signed.                                                     *)
AnchorAgrees ==
    \A f \in Facilities :
        (anchor[f].exposureEpoch = auth[f].epoch /\ auth[f].epoch # 0) =>
            /\ anchor[f].limit = auth[f].limit
            /\ anchor[f].policy = auth[f].policy
            /\ anchor[f].validUntil = auth[f].validUntil

(* A facility owes nothing before it is ACTIVE and nothing once REPAID or   *)
(* RELEASED, whichever of repayFor, the router, syncRepaid or a transition  *)
(* moved it and whatever is still reserved.                                 *)
DebtMatchesState ==
    \A f \in Facilities :
        state[f] \in {"NONE", "DRAFT", "UNDER_REVIEW", "CONTROL_PENDING",
                      "REPAID", "RELEASED"} => debt[f] = 0

Draws(f) == now' = now /\ debt'[f] > debt[f]

(* When cash leaves, everything that was true when the draw was reserved    *)
(* holds again: the facility is ACTIVE and not paused, and a signed         *)
(* decision under a valid key covers the debt and what is still reserved.   *)
ExecutedAsApproved ==
    \A f \in Facilities : Draws(f) =>
       /\ state[f] = "ACTIVE" /\ ~drawsPaused /\ control[f] /\ linked[f]
       /\ AnchorValid(f) /\ EpochValid(anchor[f].signerEpoch)
       /\ debt'[f] + reserved'[f] <= anchor[f].limit

(* Whoever reserves or draws, in whatever order: after the step the debt    *)
(* and reservations of the facility are within its receivables as they are  *)
(* now, and those of every pool it is in within the current policy's cap.   *)
CommitmentsCovered ==
    \A f \in Facilities : (Draws(f) \/ reserved'[f] > reserved[f]) =>
       /\ debt'[f] + reserved'[f] <= ReceivableLimit(f)
       /\ \A pool \in {p \in Pools : f \in p} :
             SumFunctionOnSet([g \in Facilities |-> debt'[g] + reserved'[g]], pool)
                 <= Cap[policy][pool]

(* No draw escapes its approval or its cover, and what is counted as        *)
(* reserved is what is still live, after any step of anyone.                *)
DrawsCovered == [][ExecutedAsApproved /\ CommitmentsCovered /\ ReservedIsLive']_vars

(* A reservation is used at most once: once closed it never changes.        *)
ReservationUsedOnce ==
    [][\A id \in DOMAIN reservations :
          /\ id \in DOMAIN reservations'
          /\ reservations[id].state # "ACTIVE" => reservations'[id] = reservations[id]]_vars
=============================================================================
