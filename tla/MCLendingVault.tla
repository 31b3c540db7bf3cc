---------------------------- MODULE MCLendingVault ----------------------------
(* LendingVault for TLC, in two worlds that never meet: `losses' has the    *)
(* write-offs, the rollover, refunds, donations and pauses with one queued  *)
(* request; `queue' has two requests that outlive price moves and time.     *)
EXTENDS LendingVault

CONSTANTS
    MaxBalance,         \* tokens that ever reach the vault
    MaxDebt,            \* legal debt of a facility
    MaxRecovery         \* cash tagged for closed epochs

VARIABLE world

LossBounds ==
    /\ \A f \in Facilities : debt[f] <= MaxDebt
    /\ \A e \in Epochs : epochRecoveryReceived[e] <= MaxRecovery
    /\ now <= 1
    /\ Len(requests) <= 1
    /\ \A id \in DOMAIN requests : requests[id].minAssets <= 1

QueueBounds ==
    /\ \A f \in Facilities : debt[f] <= 1
    /\ currentEpoch = 1
    /\ Len(requests) <= 2
    /\ \A id \in DOMAIN requests : requests[id].minAssets \in (IF id = 1 THEN {0, 2} ELSE {0})
    /\ ~depositsPaused
    /\ totalBorrowerOwned = 0
    /\ tracked = balance

(* By symmetry of the lenders, a given one of them is the first to queue. *)
Bounded ==
    /\ balance <= MaxBalance
    /\ requests # <<>> => requests[1].owner = CHOOSE lp \in LPs : TRUE
    /\ IF world = "losses" THEN LossBounds ELSE QueueBounds

MCInit == Init /\ world \in {"losses", "queue"}

(* The bounds are guards, so that fairness is sound. *)
MCSpec ==
    /\ MCInit
    /\ [][Next /\ UNCHANGED world /\ Bounded']_<<vars, world>>
    /\ Fairness

(* No request waits for ever: it is filled, cancelled or expired, or its    *)
(* epoch is lost, even behind a head whose floor NAV no longer meets        *)
(* (processWithdrawals stops at such a head until its seven days are over). *)
RequestsResolved == \A id \in 1 .. 2 : Waiting(id) ~> ~Waiting(id)
=============================================================================
