--------------------------- MODULE MCCreditFacility ---------------------------
(* CreditFacility for TLC: 50% advance after a 25% haircut, caps that fall  *)
(* with the second policy version.  Two worlds that never meet: `draws' has *)
(* one facility and every disturbance of its life; `pools' has two          *)
(* facilities under one cap while only receivables and the policy move.     *)
EXTENDS CreditFacility, TLC

CONSTANTS
    MaxDebt,            \* legal debt of a facility
    MaxChanges,         \* rule changes: policies, key epochs, authorizations
    PoolCap,            \* cap of every pool under policy 1
    First, Second       \* the facilities

VARIABLE world

MCCap == [p \in 1 .. MaxPolicy |-> [pool \in Pools |-> PoolCap - (p - 1)]]
MCAdvanceRate == [p \in 1 .. MaxPolicy |-> 2]
MCHaircut == [p \in 1 .. MaxPolicy |-> 1]
MCMaturity == [f \in Facilities |-> 0]

(* One disturbance at a time is outstanding. *)
Disturbances ==
    {<<"control", f>> : f \in {g \in Facilities : ~control[g]}}
       \union {<<"link", f>> : f \in {g \in Facilities : ~linked[g]}}
       \union {<<"evidence", f>> : f \in {g \in Facilities :
                                             \E a \in EligibleAmounts : a > eligible[g]}}
       \union (IF drawsPaused \/ resumeApproved THEN {<<"pause">>} ELSE {})
       \union (IF cash = 0 THEN {<<"cash">>} ELSE {})

DrawBounds ==
    /\ state[Second] = "NONE" /\ Second \notin enrolled
    /\ \A a \in EligibleAmounts : a <= eligible[Second]
    /\ \A id \in DOMAIN reservations : reservations[id].amount = 1
    /\ Disturbances # {} => debt[First] <= 1
    /\ Disturbances # {} /\ policy + keyEpoch > 1 => drawNonce[First] <= 1

(* By symmetry, a given facility is the first to reserve. *)
PoolBounds ==
    /\ drawNonce[Second] > 0 => drawNonce[First] > 0
    /\ keyEpoch = 0 /\ now <= 1
    /\ \A id \in DOMAIN reservations : reservations[id].expiresAt <= 1
    /\ \A f \in Facilities : auth[f].epoch <= 1 /\ linked[f] /\ control[f]
    /\ ~drawsPaused /\ ~resumeApproved
    /\ \A f \in Facilities :
          state[f] \notin {"DRAW_FROZEN", "DELINQUENT", "DEFAULTED", "RECOVERY",
                           "RELEASED", "CLOSED_WITH_LOSS"}

Bounded ==
    /\ \A f \in Facilities : debt[f] <= MaxDebt
    /\ Cardinality(Disturbances) <= 1
    /\ \A f \in Facilities : policy + keyEpoch + auth[f].epoch <= MaxChanges
    /\ IF world = "draws" THEN DrawBounds ELSE PoolBounds

MCInit == Init /\ world \in {"draws", "pools"} /\ Bounded

UnitDraws == \A f \in Facilities : debt'[f] - debt[f] \in -1 .. 1

MCNext == Next /\ UNCHANGED world /\ Bounded' /\ (world = "draws" => UnitDraws)

MCSpec == MCInit /\ [][MCNext]_<<vars, world>>
=============================================================================
