----------------------------- MODULE MCDebtLedger -----------------------------
(* DebtLedger and its mirrors for TLC: the history counters are bounded by a constraint. *)
EXTENDS LedgerMirrors

CONSTANTS
    MaxTotal,       \* bound of what all facilities draw
    MaxCharged,     \* bound of the fees all facilities are charged
    Busy            \* the facility that is charged, repriced, capitalised, frozen

(* Any other facility is opened in sealed wiring, draws, accrues and is     *)
(* repaid, next to a busy one without fees: enough for its debt to be       *)
(* pending next to the busy one's.                                          *)
Quiet(F) ==
    F.exists =>
       /\ wiringFinalized /\ hist[Busy].charged = 0
       /\ F.state = Active /\ ~F.frozen /\ ~F.capitalizes /\ F.fees = 0
       /\ F.segments = <<[start |-> 0, rateBps |-> 1]>>

Bounded ==
    /\ MapThenSumSet(LAMBDA f : hist[f].drawn, Facilities) <= MaxTotal
    /\ MapThenSumSet(LAMBDA f : hist[f].charged, Facilities) <= MaxCharged
    /\ \A f \in Facilities \ {Busy} : Quiet(facility[f])
=============================================================================
