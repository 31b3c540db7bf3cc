---------------------------- MODULE FacilityStates ----------------------------
(* The facility state machine of CreditFacilityManager.sol. *)

States == {"NONE", "DRAFT", "UNDER_REVIEW", "CONTROL_PENDING", "ACTIVE",
           "DRAW_FROZEN", "DELINQUENT", "DEFAULTED", "RECOVERY", "REPAID",
           "RELEASED", "CLOSED_WITH_LOSS"}              \* NONE: not opened

TransitionTable ==                  \* isTransitionAllowed
    {<<"DRAFT", "UNDER_REVIEW">>, <<"UNDER_REVIEW", "CONTROL_PENDING">>,
     <<"CONTROL_PENDING", "ACTIVE">>,
     <<"ACTIVE", "DRAW_FROZEN">>, <<"ACTIVE", "DELINQUENT">>, <<"ACTIVE", "REPAID">>,
     <<"DRAW_FROZEN", "ACTIVE">>, <<"DRAW_FROZEN", "DELINQUENT">>,
     <<"DELINQUENT", "ACTIVE">>, <<"DELINQUENT", "DEFAULTED">>,
     <<"DEFAULTED", "RECOVERY">>, <<"RECOVERY", "REPAID">>,
     <<"RECOVERY", "CLOSED_WITH_LOSS">>, <<"REPAID", "RELEASED">>}

(* States in which syncRepaid records a zero balance. *)
SyncableStates == {"ACTIVE", "DRAW_FROZEN", "DELINQUENT", "DEFAULTED", "RECOVERY",
                   "CLOSED_WITH_LOSS"}
=============================================================================
