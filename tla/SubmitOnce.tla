------------------------------ MODULE SubmitOnce ------------------------------
(***************************************************************************)
(* What the transaction layer promises the job that asks for a submission  *)
(* (offchain/gpu/hashcredit_gpu/transactions): the chain settles each      *)
(* request at most once and for good, and what is reported to the job is   *)
(* what the chain settled.                                                 *)
(***************************************************************************)
CONSTANT Jobs

VARIABLES
    status,     \* what the job is told: NONE, PENDING, DONE, REVERTED
    settled     \* what the chain holds for ever: NO, DONE, REVERTED

Init ==
    /\ status = [j \in Jobs |-> "NONE"]
    /\ settled = [j \in Jobs |-> "NO"]

Request(j) ==
    /\ status[j] = "NONE"
    /\ status' = [status EXCEPT ![j] = "PENDING"]
    /\ UNCHANGED settled

Settle(j) ==
    /\ status[j] = "PENDING"
    /\ settled[j] = "NO"
    /\ \E outcome \in {"DONE", "REVERTED"} : settled' = [settled EXCEPT ![j] = outcome]
    /\ UNCHANGED status

Report(j) ==
    /\ status[j] = "PENDING"
    /\ settled[j] # "NO"
    /\ status' = [status EXCEPT ![j] = settled[j]]
    /\ UNCHANGED settled

Next == \E j \in Jobs : Request(j) \/ Settle(j) \/ Report(j)

Spec == Init /\ [][Next]_<<status, settled>>
=============================================================================
