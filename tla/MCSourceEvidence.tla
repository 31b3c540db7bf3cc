--------------------------- MODULE MCSourceEvidence ---------------------------
(* SourceEvidence for TLC. *)
EXTENDS SourceEvidence, TLC

CONSTANTS
    MaxLog,         \* events the source emits
    MaxNet,         \* net amount of an obligation
    MaxTokens       \* tokens in the escrow

MCDeltas == {-1, 1}

(* Due at the start, overdue after it. *)
MCDueAt == [ref \in Refs |-> 1]

(* Token moves beside the payouts, the pause, disputes and registration     *)
(* happen one at a time and while the log is short.                         *)
Aside == Cardinality({x \in {"tokens", "pause", "dispute"} :
             \/ x = "tokens" /\ escrow.balance
                                  # MapThenSumSet(LAMBDA s : payouts[s].amount,
                                        {s \in DOMAIN payouts : ~payouts[s].cancelled})
             \/ x = "pause" /\ evidencePaused
             \/ x = "dispute" /\ \E ref \in Refs : receivable[ref].disputed})

(* Events that touch no receivable: a checkpoint that locks nothing, a      *)
(* payout for no obligation.                                                *)
Loose == {i \in DOMAIN log : \/ log[i].kind = "CHECKPOINT" /\ log[i].version = 1
                             \/ log[i].kind = "PAYOUT" /\ log[i].ref = NoRef}

Bounded ==
    /\ Len(log) <= MaxLog
    /\ Cardinality(Loose) <= 1
    /\ \A ref \in Refs : obligation[ref].net <= MaxNet
    /\ escrow.balance <= MaxTokens
    /\ Len(log) > 2 => Aside = 0 /\ registered = Facilities
    /\ Aside <= 1

Alike == Permutations(Refs) \union Permutations(SettlementIds)
=============================================================================
