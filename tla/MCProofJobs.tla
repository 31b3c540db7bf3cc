------------------------------ MODULE MCProofJobs ------------------------------
(* ProofJobs for TLC, in two worlds that never meet: in `fleet' two workers *)
(* and the operator, with a bound on failed attempts; in `lone' one worker  *)
(* that may crash without bound and nobody who retries, where every job     *)
(* must still end.                                                          *)
EXTENDS ProofJobs, FiniteSetsExt

CONSTANTS
    First,          \* the worker of `lone' and, by symmetry, of the first claim
    MaxSetbacks     \* attempts that did not succeed, and one more of the first job

VARIABLE world

(* Every host runs its worker as the same pid, hence with the same worker_id. *)
MCWorkerId == [p \in Processes |-> "proof-1"]

Setbacks ==
    MapThenSumSet(LAMBDA k : job[k].attempt - (IF job[k].state = "SUCCEEDED" THEN 1 ELSE 0), Kinds)

FleetBounds ==
    /\ \/ Setbacks <= MaxSetbacks
       \/ Setbacks <= MaxSetbacks + 1 /\ job["PROOF_FETCH_ARTIFACT"].state = "ABSENT"
    /\ LET k == "PROOF_WAIT_ATTESTATION"
       IN  job[k].state = "LEASED" /\ job[k].attempt = 1 => holder[k] = First

LoneBounds ==
    /\ \A p \in Processes \ {First} : proc[p] = Idle
    /\ \A k \in Kinds : job[k].max = MaxAttempts

Bounded == IF world = "fleet" THEN FleetBounds ELSE LoneBounds

MCInit == Init /\ world \in {"fleet", "lone"}

(* The bounds are guards, so that fairness is sound. *)
MCSpec ==
    /\ MCInit
    /\ [][Next /\ UNCHANGED world /\ Bounded']_<<vars, world>>
    /\ Fairness
=============================================================================
