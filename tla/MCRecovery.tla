------------------------------ MODULE MCRecovery ------------------------------
EXTENDS Recovery, TLC

CONSTANTS
    Busy,           \* the facility that is scheduled, and may default
    MaxDebt,        \* no debt grows beyond this
    MaxPaid         \* all cash paid in over a behaviour

(* Any other facility borrows a unit and shares settlements with the busy   *)
(* one, before that one has a schedule.                                     *)
Quiet(f) ==
    /\ schedule[f] = NoSchedule
    /\ state[f] \in {"ACTIVE", "REPAID"}
    /\ \/ debt[f] + totalAllocated[f] + refundable[f] = 0 /\ state[f] = "ACTIVE"
       \/ schedule[Busy] = NoSchedule /\ now = 0 /\ debt[f] <= 1

Bounded ==
    /\ \A f \in Facilities : debt[f] <= MaxDebt
    /\ paidIn <= MaxPaid
    /\ \A f \in Facilities \ {Busy} : Quiet(f)
=============================================================================
