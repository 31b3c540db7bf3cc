------------------------- MODULE CreditFacilityProofs -------------------------
(***************************************************************************)
(* For any facilities, caps, policies and bounds: the signed decision and  *)
(* the controller's authorization agree, a repaid facility owes nothing, a *)
(* closed reservation stays closed, and no draw or reservation exceeds the *)
(* decision, the receivables or a cap.  One invariant per concern; frame   *)
(* lemmas say which actions touch its variables.                           *)
(***************************************************************************)
EXTENDS CreditFacility, Sums, TLAPS

(* The draw gates are needed only where an action is allowed at all. *)
LEMMA NextCases ==
    ASSUME [Next]_vars
    PROVE  \/ UNCHANGED vars
           \/ \E f \in Facilities : FacilityNext(f)
           \/ \E id \in DOMAIN reservations :
                 ExecuteReservedDraw(id) \/ CancelReservation(id) \/ ExpireReservation(id)
           \/ \E paused \in BOOLEAN : PauseDraws(paused)
           \/ ApproveDrawResume \/ PublishPolicy
           \/ \E grace \in Ttls \union {0} : RotateKeyEpoch(grace)
           \/ EnvironmentNext
  BY Zenon DEF Next

-----------------------------------------------------------------------------
(* The two authorizations *)

AuthInv ==
    /\ now \in Nat /\ policy \in Nat /\ keyEpoch \in Nat
    /\ auth \in [Facilities -> Authorization]
    /\ anchor \in [Facilities -> Anchor]
    /\ \A f \in Facilities : anchor[f].exposureEpoch <= auth[f].epoch
    /\ AnchorAgrees

(* Only setAuthorization and anchorAuthorization write the two records. *)
LEMMA AuthFrame ==
    ASSUME [Next]_vars
    PROVE  \/ UNCHANGED <<auth, anchor>>
           \/ \E f \in Facilities, limit \in Limits, ttl \in Validities :
                 SetAuthorization(f, limit, ttl)
           \/ \E f \in Facilities, e \in 0 .. keyEpoch : AnchorAuthorization(f, e)
<1>1. CASE UNCHANGED vars
  BY <1>1 DEF vars, authVars
<1>2. CASE \E f \in Facilities : FacilityNext(f)
  <2>1. PICK f \in Facilities : FacilityNext(f)
    BY <1>2
  <2>2. CASE OpenFacility(f) \/ EnrollFacility(f) \/ FreezeDraws(f) \/ SyncRepaid(f)
    BY <2>2 DEF OpenFacility, EnrollFacility, FreezeDraws, SyncRepaid, authVars
  <2>3. CASE \E to \in States, by \in Roles : Transition(f, to, by)
    BY <2>3 DEF Transition, authVars
  <2>4. CASE \E to \in States : RecoveryTransition(f, to)
    BY <2>4 DEF RecoveryTransition, authVars
  <2>5. CASE \E limit \in Limits, ttl \in Validities : SetAuthorization(f, limit, ttl)
    BY <2>5
  <2>6. CASE \E e \in 0 .. keyEpoch : AnchorAuthorization(f, e)
    BY <2>6
  <2>7. CASE \E amount \in Amounts :
               \/ \E ttl \in Ttls : ReserveDraw(f, amount, ttl)
               \/ Borrow(f, amount) \/ RepayFor(f, amount) \/ RouterRepay(f, amount)
    BY <2>7 DEF ReserveDraw, Borrow, RepayFor, RouterRepay, authVars
  <2> QED
    BY <2>1, <2>2, <2>3, <2>4, <2>5, <2>6, <2>7, Zenon DEF FacilityNext
<1>3. CASE \E id \in DOMAIN reservations :
             ExecuteReservedDraw(id) \/ CancelReservation(id) \/ ExpireReservation(id)
  BY <1>3 DEF ExecuteReservedDraw, CancelReservation, ExpireReservation, authVars
<1>4. CASE \E paused \in BOOLEAN : PauseDraws(paused)
  BY <1>4 DEF PauseDraws, authVars
<1>5. CASE ApproveDrawResume \/ PublishPolicy
  BY <1>5 DEF ApproveDrawResume, PublishPolicy, authVars
<1>6. CASE \E grace \in Ttls \union {0} : RotateKeyEpoch(grace)
  BY <1>6 DEF RotateKeyEpoch, authVars
<1>7. CASE EnvironmentNext
  BY <1>7 DEF EnvironmentNext, Tick, EligibleMoves, ControlMoves, LinkMoves, CashMoves, authVars
<1> QED
  BY <1>1, <1>2, <1>3, <1>4, <1>5, <1>6, <1>7, NextCases

(* Time, policy and key epoch only ever advance. *)
LEMMA RulesType ==
    ASSUME [Next]_vars, now \in Nat, policy \in Nat, keyEpoch \in Nat
    PROVE  now' \in Nat /\ policy' \in Nat /\ keyEpoch' \in Nat
<1>1. CASE UNCHANGED vars
  BY <1>1 DEF vars, envVars, ruleVars
<1>2. CASE \E f \in Facilities : FacilityNext(f)
  <2>1. PICK f \in Facilities : FacilityNext(f)
    BY <1>2
  <2>2. UNCHANGED now /\ UNCHANGED <<policy, keyEpoch>>
    BY <2>1 DEF FacilityNext, OpenFacility, EnrollFacility, FreezeDraws, SyncRepaid,
                Transition, RecoveryTransition, SetAuthorization, AnchorAuthorization,
                ReserveDraw, Borrow, RepayFor, RouterRepay, Repaid, PayOut, envVars, ruleVars
  <2> QED
    BY <2>2
<1>3. CASE \E id \in DOMAIN reservations :
             ExecuteReservedDraw(id) \/ CancelReservation(id) \/ ExpireReservation(id)
  BY <1>3 DEF ExecuteReservedDraw, CancelReservation, ExpireReservation, PayOut,
              envVars, ruleVars
<1>4. CASE \E paused \in BOOLEAN : PauseDraws(paused)
  BY <1>4 DEF PauseDraws, envVars, ruleVars
<1>5. CASE ApproveDrawResume \/ PublishPolicy
  BY <1>5 DEF ApproveDrawResume, PublishPolicy, envVars, ruleVars
<1>6. CASE \E grace \in Ttls \union {0} : RotateKeyEpoch(grace)
  BY <1>6 DEF RotateKeyEpoch, envVars
<1>7. CASE EnvironmentNext
  BY <1>7 DEF EnvironmentNext, Tick, EligibleMoves, ControlMoves, LinkMoves, CashMoves, ruleVars
<1> QED
  BY <1>1, <1>2, <1>3, <1>4, <1>5, <1>6, <1>7, NextCases

LEMMA AuthInit == Init => AuthInv
  BY CreditConstants DEF Init, AuthInv, AnchorAgrees, Authorization, Anchor

LEMMA AuthStep ==
    ASSUME AuthInv, [Next]_vars
    PROVE  AuthInv'
<1>1. now' \in Nat /\ policy' \in Nat /\ keyEpoch' \in Nat
  BY RulesType DEF AuthInv
<1>2. CASE UNCHANGED <<auth, anchor>>
  BY <1>1, <1>2 DEF AuthInv, AnchorAgrees
<1>3. CASE \E f \in Facilities, limit \in Limits, ttl \in Validities :
             SetAuthorization(f, limit, ttl)
  <2>1. PICK f \in Facilities, limit \in Limits, ttl \in Validities :
            SetAuthorization(f, limit, ttl)
    BY <1>3
  <2> DEFINE new == [limit |-> limit, policy |-> policy, validUntil |-> now + ttl,
                     epoch |-> auth[f].epoch + 1]
  <2>2. auth' = [auth EXCEPT ![f] = new] /\ anchor' = anchor
    BY <2>1 DEF SetAuthorization
  <2>3. auth[f].epoch \in Nat
    BY DEF AuthInv, Authorization
  <2>4. new \in Authorization /\ new.epoch = auth[f].epoch + 1
    BY <2>3, CreditConstants DEF AuthInv, Authorization
  <2> HIDE DEF new
  <2>5. auth' \in [Facilities -> Authorization] /\ anchor' \in [Facilities -> Anchor]
    BY <2>2, <2>4 DEF AuthInv
  <2>6. \A g \in Facilities : /\ anchor[g].exposureEpoch \in Nat
                              /\ auth[g].epoch \in Nat
    BY DEF AuthInv, Authorization, Anchor
  <2>7. ASSUME NEW g \in Facilities
        PROVE  /\ anchor'[g].exposureEpoch <= auth'[g].epoch
               /\ (anchor'[g].exposureEpoch = auth'[g].epoch /\ auth'[g].epoch # 0) =>
                     /\ anchor'[g].limit = auth'[g].limit
                     /\ anchor'[g].policy = auth'[g].policy
                     /\ anchor'[g].validUntil = auth'[g].validUntil
    <3>1. CASE g = f
      BY <2>2, <2>3, <2>4, <2>6, <3>1 DEF AuthInv
    <3>2. CASE g # f
      BY <2>2, <3>2 DEF AuthInv, AnchorAgrees
    <3> QED
      BY <3>1, <3>2
  <2> QED
    BY <1>1, <2>5, <2>7 DEF AuthInv, AnchorAgrees
<1>4. CASE \E f \in Facilities, e \in 0 .. keyEpoch : AnchorAuthorization(f, e)
  <2>1. PICK f \in Facilities, e \in 0 .. keyEpoch : AnchorAuthorization(f, e)
    BY <1>4
  <2> DEFINE new == [limit |-> auth[f].limit, policy |-> auth[f].policy,
                     validUntil |-> auth[f].validUntil,
                     signerEpoch |-> e, exposureEpoch |-> auth[f].epoch]
  <2>2. anchor' = [anchor EXCEPT ![f] = new] /\ auth' = auth
    BY <2>1 DEF AnchorAuthorization
  <2>3. /\ new \in Anchor /\ new.exposureEpoch = auth[f].epoch
        /\ new.limit = auth[f].limit /\ new.policy = auth[f].policy
        /\ new.validUntil = auth[f].validUntil
        /\ auth[f].epoch \in Nat
    BY DEF AuthInv, Authorization, Anchor
  <2> HIDE DEF new
  <2>4. auth' \in [Facilities -> Authorization] /\ anchor' \in [Facilities -> Anchor]
    BY <2>2, <2>3 DEF AuthInv
  <2>5. ASSUME NEW g \in Facilities
        PROVE  /\ anchor'[g].exposureEpoch <= auth'[g].epoch
               /\ (anchor'[g].exposureEpoch = auth'[g].epoch /\ auth'[g].epoch # 0) =>
                     /\ anchor'[g].limit = auth'[g].limit
                     /\ anchor'[g].policy = auth'[g].policy
                     /\ anchor'[g].validUntil = auth'[g].validUntil
    <3>1. CASE g = f
      BY <2>2, <2>3, <3>1 DEF AuthInv
    <3>2. CASE g # f
      BY <2>2, <3>2 DEF AuthInv, AnchorAgrees
    <3> QED
      BY <3>1, <3>2
  <2> QED
    BY <1>1, <2>4, <2>5 DEF AuthInv, AnchorAgrees
<1> QED
  BY <1>2, <1>3, <1>4, AuthFrame

(* The limit a draw is measured against is the signed one: while the anchor *)
(* names the controller's authorization epoch, the two records agree.       *)
THEOREM AuthorizationsAgree == Spec => []AnchorAgrees
<1>1. AuthInv => AnchorAgrees
  BY DEF AuthInv
<1> QED
  BY AuthInit, AuthStep, <1>1, PTL DEF Spec

-----------------------------------------------------------------------------
(* Reservations.  A nonce counter above every id issued so far is what      *)
(* keeps a new reservation from overwriting a closed one.                   *)

ReserveInv ==
    /\ drawNonce \in [Facilities -> Nat]
    /\ \A id \in DOMAIN reservations :
          /\ id \in Facilities \X Nat
          /\ id[2] <= drawNonce[id[1]]
          /\ reservations[id] \in Reservation

(* Three ways to write the reservation table. *)
LEMMA ReserveFrame ==
    ASSUME [Next]_vars
    PROVE  \/ UNCHANGED <<drawNonce, reservations>>
           \/ \E f \in Facilities, amount \in Amounts, t \in Ttls \union {1},
                 st \in {"ACTIVE", "CONSUMED"} :
                    AddReservation(f, NewReservation(f, amount, t, st))
           \/ \E id \in DOMAIN reservations, st \in {"CONSUMED", "CANCELLED", "EXPIRED"} :
                    /\ reservations[id].state = "ACTIVE"
                    /\ Close(id, st) /\ UNCHANGED drawNonce
<1>1. CASE UNCHANGED vars
  BY <1>1 DEF vars, reserveVars
<1>2. CASE \E f \in Facilities : FacilityNext(f)
  <2>1. PICK f \in Facilities : FacilityNext(f)
    BY <1>2
  <2>2. CASE OpenFacility(f) \/ EnrollFacility(f) \/ FreezeDraws(f) \/ SyncRepaid(f)
    BY <2>2 DEF OpenFacility, EnrollFacility, FreezeDraws, SyncRepaid, reserveVars
  <2>3. CASE \E to \in States, by \in Roles : Transition(f, to, by)
    BY <2>3 DEF Transition, reserveVars
  <2>4. CASE \E to \in States : RecoveryTransition(f, to)
    BY <2>4 DEF RecoveryTransition, reserveVars
  <2>5. CASE \E limit \in Limits, ttl \in Validities : SetAuthorization(f, limit, ttl)
    BY <2>5 DEF SetAuthorization, reserveVars
  <2>6. CASE \E e \in 0 .. keyEpoch : AnchorAuthorization(f, e)
    BY <2>6 DEF AnchorAuthorization, reserveVars
  <2>7. CASE \E amount \in Amounts :
               \/ \E ttl \in Ttls : ReserveDraw(f, amount, ttl)
               \/ Borrow(f, amount) \/ RepayFor(f, amount) \/ RouterRepay(f, amount)
    <3>1. PICK amount \in Amounts :
               \/ \E ttl \in Ttls : ReserveDraw(f, amount, ttl)
               \/ Borrow(f, amount) \/ RepayFor(f, amount) \/ RouterRepay(f, amount)
      BY <2>7
    <3>2. CASE \E ttl \in Ttls : ReserveDraw(f, amount, ttl)
      BY <3>2 DEF ReserveDraw
    <3>3. CASE Borrow(f, amount)
      BY <3>3 DEF Borrow
    <3>4. CASE RepayFor(f, amount) \/ RouterRepay(f, amount)
      BY <3>4 DEF RepayFor, RouterRepay, reserveVars
    <3> QED
      BY <3>1, <3>2, <3>3, <3>4
  <2> QED
    BY <2>1, <2>2, <2>3, <2>4, <2>5, <2>6, <2>7, Zenon DEF FacilityNext
<1>3. CASE \E id \in DOMAIN reservations :
             ExecuteReservedDraw(id) \/ CancelReservation(id) \/ ExpireReservation(id)
  BY <1>3 DEF ExecuteReservedDraw, CancelReservation, ExpireReservation
<1>4. CASE \E paused \in BOOLEAN : PauseDraws(paused)
  BY <1>4 DEF PauseDraws, reserveVars
<1>5. CASE ApproveDrawResume \/ PublishPolicy
  BY <1>5 DEF ApproveDrawResume, PublishPolicy, reserveVars
<1>6. CASE \E grace \in Ttls \union {0} : RotateKeyEpoch(grace)
  BY <1>6 DEF RotateKeyEpoch, reserveVars
<1>7. CASE EnvironmentNext
  BY <1>7 DEF EnvironmentNext, Tick, EligibleMoves, ControlMoves, LinkMoves, CashMoves, reserveVars
<1> QED
  BY <1>1, <1>2, <1>3, <1>4, <1>5, <1>6, <1>7, NextCases

ClosedStaysClosed ==
    \A id \in DOMAIN reservations :
        /\ id \in DOMAIN reservations'
        /\ reservations[id].state # "ACTIVE" => reservations'[id] = reservations[id]

LEMMA ReserveInit == Init => ReserveInv
  BY DEF Init, ReserveInv

LEMMA ReserveStep ==
    ASSUME AuthInv, ReserveInv, [Next]_vars
    PROVE  ReserveInv' /\ ClosedStaysClosed
<1>1. CASE UNCHANGED <<drawNonce, reservations>>
  BY <1>1 DEF ReserveInv, ClosedStaysClosed
<1>2. CASE \E f \in Facilities, amount \in Amounts, t \in Ttls \union {1},
              st \in {"ACTIVE", "CONSUMED"} :
                 AddReservation(f, NewReservation(f, amount, t, st))
  <2>1. PICK f \in Facilities, amount \in Amounts, t \in Ttls \union {1},
              st \in {"ACTIVE", "CONSUMED"} :
                 AddReservation(f, NewReservation(f, amount, t, st))
    BY <1>2
  <2> DEFINE r == NewReservation(f, amount, t, st)
             new == <<f, drawNonce[f] + 1>>
  <2>2. r \in Reservation
    <3>1. amount \in Nat /\ t \in Nat /\ now \in Nat
      BY CreditConstants DEF AuthInv
    <3>2. auth[f].policy \in Nat /\ auth[f].epoch \in Nat
      BY DEF AuthInv, Authorization
    <3> QED
      BY <3>1, <3>2 DEF NewReservation, Reservation
  <2>3. /\ drawNonce' = [drawNonce EXCEPT ![f] = @ + 1]
        /\ reservations' = [id \in DOMAIN reservations \union {new} |->
                              IF id = new THEN r ELSE reservations[id]]
    BY <2>1 DEF AddReservation
  <2>4. drawNonce[f] \in Nat /\ drawNonce' \in [Facilities -> Nat]
    BY <2>3 DEF ReserveInv
  <2>5. new \in Facilities \X Nat /\ new[1] = f /\ new[2] = drawNonce[f] + 1
    BY <2>4
  <2> HIDE DEF r
  <2>6. new \notin DOMAIN reservations
    BY <2>4, <2>5 DEF ReserveInv
  <2> HIDE DEF new
  <2>7. ASSUME NEW id \in DOMAIN reservations
        PROVE  /\ id \in DOMAIN reservations'
               /\ reservations'[id] = reservations[id]
               /\ drawNonce[id[1]] <= drawNonce'[id[1]]
    <3>1. id # new /\ id[1] \in Facilities
      BY <2>6 DEF ReserveInv
    <3>2. drawNonce[id[1]] \in Nat
      BY <3>1 DEF ReserveInv
    <3>3. drawNonce[id[1]] <= drawNonce'[id[1]]
      BY <2>3, <2>4, <3>1, <3>2 DEF ReserveInv
    <3> QED
      BY <2>3, <3>1, <3>3
  <2>8. ASSUME NEW id \in DOMAIN reservations'
        PROVE  /\ id \in Facilities \X Nat
               /\ id[2] <= drawNonce'[id[1]]
               /\ reservations'[id] \in Reservation
    <3>1. CASE id = new
      <4>1. reservations'[id] = r
        BY <2>3, <3>1
      <4>2. drawNonce'[f] = drawNonce[f] + 1
        BY <2>3 DEF ReserveInv
      <4> QED
        BY <2>2, <2>4, <2>5, <3>1, <4>1, <4>2
    <3>2. CASE id # new
      <4>1. id \in DOMAIN reservations
        BY <2>3, <3>2
      <4>2. /\ id \in Facilities \X Nat /\ id[2] <= drawNonce[id[1]]
            /\ reservations[id] \in Reservation
        BY <4>1 DEF ReserveInv
      <4>3. id[2] \in Nat /\ drawNonce[id[1]] \in Nat /\ drawNonce'[id[1]] \in Nat
        BY <2>4, <4>2 DEF ReserveInv
      <4> QED
        BY <2>7, <4>1, <4>2, <4>3
    <3> QED
      BY <3>1, <3>2
  <2> QED
    BY <2>4, <2>7, <2>8 DEF ReserveInv, ClosedStaysClosed
<1>3. CASE \E id \in DOMAIN reservations, st \in {"CONSUMED", "CANCELLED", "EXPIRED"} :
                    /\ reservations[id].state = "ACTIVE"
                    /\ Close(id, st) /\ UNCHANGED drawNonce
  <2>1. PICK id \in DOMAIN reservations, st \in {"CONSUMED", "CANCELLED", "EXPIRED"} :
                    /\ reservations[id].state = "ACTIVE"
                    /\ Close(id, st) /\ UNCHANGED drawNonce
    BY <1>3
  <2>2. /\ DOMAIN reservations' = DOMAIN reservations
        /\ \A i \in DOMAIN reservations : i # id => reservations'[i] = reservations[i]
        /\ reservations'[id] = [reservations[id] EXCEPT !.state = st]
    BY <2>1 DEF Close
  <2>3. reservations'[id] \in Reservation
    BY <2>2 DEF ReserveInv, Reservation
  <2> QED
    BY <2>1, <2>2, <2>3 DEF ReserveInv, ClosedStaysClosed
<1> QED
  BY <1>1, <1>2, <1>3, ReserveFrame

(* A reservation is consumed, cancelled or expired at most once, and no     *)
(* later draw reuses its id.                                                *)
THEOREM ReservationsAreFinal == Spec => ReservationUsedOnce
<1>1. /\ AuthInv /\ ReserveInv /\ [Next]_vars
         => (AuthInv /\ ReserveInv)' /\ [ClosedStaysClosed]_vars
  BY AuthStep, ReserveStep
<1>2. Spec => [][ClosedStaysClosed]_vars
  BY AuthInit, ReserveInit, <1>1, PTL DEF Spec
<1> QED
  BY <1>2 DEF ReservationUsedOnce, ClosedStaysClosed

-----------------------------------------------------------------------------
(* Debt and state *)

DebtInv ==
    /\ debt \in [Facilities -> Nat]
    /\ state \in [Facilities -> States]
    /\ DebtMatchesState

ZeroDebtStates == {"NONE", "DRAFT", "UNDER_REVIEW", "CONTROL_PENDING", "REPAID", "RELEASED"}

(* How one step may move the debt and the state of a facility. *)
Allowed(f) ==
    \/ debt'[f] = debt[f] /\ state'[f] = state[f]
    \/ /\ debt'[f] = debt[f] /\ state'[f] \in States
       /\ state'[f] \in ZeroDebtStates => debt[f] = 0
    \/ state'[f] = state[f] /\ state[f] = "ACTIVE" /\ debt'[f] \in Nat
    \/ state'[f] = state[f] /\ debt'[f] \in Nat /\ (debt[f] = 0 => debt'[f] = 0)
    \/ debt'[f] = 0 /\ state'[f] \in States

LEMMA DebtInit == Init => DebtInv
  BY DEF Init, DebtInv, DebtMatchesState, States

(* openFacility, transition, recoveryTransition, freezeDraws and syncRepaid *)
LEMMA StateMoves ==
    ASSUME NEW f \in Facilities, NEW to \in States, DebtInv,
           UNCHANGED debt, SetState(f, to),
           to \in ZeroDebtStates => debt[f] = 0
    PROVE  \A g \in Facilities : Allowed(g)
  BY DEF DebtInv, SetState, Allowed

LEMMA PayOutMoves ==
    ASSUME NEW f \in Facilities, NEW amount \in Nat, DebtInv,
           PayOut(f, amount), UNCHANGED state, state[f] = "ACTIVE"
    PROVE  \A g \in Facilities : Allowed(g)
  BY DEF DebtInv, PayOut, Allowed

LEMMA RepaidMoves ==
    ASSUME NEW f \in Facilities, NEW amount \in Nat, DebtInv, Repaid(f, amount),
           \/ UNCHANGED state
           \/ debt'[f] = 0 /\ SetState(f, "REPAID")
    PROVE  \A g \in Facilities : Allowed(g)
<1>1. debt'[f] \in Nat /\ (debt[f] = 0 => debt'[f] = 0)
  BY DEF DebtInv, Repaid
<1>2. \A g \in Facilities : g # f => debt'[g] = debt[g]
  BY DEF DebtInv, Repaid
<1>3. "REPAID" \in States
  BY DEF States
<1> QED
  BY <1>1, <1>2, <1>3 DEF DebtInv, SetState, Allowed

LEMMA DebtFrame ==
    ASSUME DebtInv, ReserveInv, [Next]_vars
    PROVE  \A g \in Facilities : Allowed(g)
<1>0. ASSUME UNCHANGED <<debt, state>>
      PROVE  \A g \in Facilities : Allowed(g)
  BY <1>0 DEF Allowed
<1>1. CASE UNCHANGED vars
  BY <1>0, <1>1 DEF vars, envVars
<1>2. CASE \E f \in Facilities : FacilityNext(f)
  <2>1. PICK f \in Facilities : FacilityNext(f)
    BY <1>2
  <2>2. CASE OpenFacility(f)
    <3>1. debt[f] = 0
      BY <2>2 DEF OpenFacility, DebtInv, DebtMatchesState
    <3> QED
      BY <2>2, <3>1, StateMoves DEF OpenFacility, States, envVars
  <2>3. CASE EnrollFacility(f)
    BY <1>0, <2>3 DEF EnrollFacility, envVars
  <2>4. CASE FreezeDraws(f)
    BY <2>4, StateMoves DEF FreezeDraws, States, ZeroDebtStates, envVars
  <2>5. CASE SyncRepaid(f)
    BY <2>5, StateMoves DEF SyncRepaid, States, envVars
  <2>6. CASE \E to \in States, by \in Roles : Transition(f, to, by)
    <3>1. PICK to \in States, by \in Roles : Transition(f, to, by)
      BY <2>6
    <3>2. to \in ZeroDebtStates => debt[f] = 0
      BY <3>1 DEF Transition, TransitionTable, Guard, ZeroDebtStates, DebtInv, DebtMatchesState
    <3> QED
      BY <3>1, <3>2, StateMoves DEF Transition, envVars
  <2>7. CASE \E to \in States : RecoveryTransition(f, to)
    <3>1. PICK to \in States : RecoveryTransition(f, to)
      BY <2>7
    <3>2. to \notin ZeroDebtStates
      BY <3>1 DEF RecoveryTransition, ZeroDebtStates
    <3> QED
      BY <3>1, <3>2, StateMoves DEF RecoveryTransition, envVars
  <2>8. CASE \E limit \in Limits, ttl \in Validities : SetAuthorization(f, limit, ttl)
    BY <1>0, <2>8 DEF SetAuthorization, envVars
  <2>9. CASE \E e \in 0 .. keyEpoch : AnchorAuthorization(f, e)
    BY <1>0, <2>9 DEF AnchorAuthorization, envVars
  <2>10. CASE \E amount \in Amounts :
               \/ \E ttl \in Ttls : ReserveDraw(f, amount, ttl)
               \/ Borrow(f, amount) \/ RepayFor(f, amount) \/ RouterRepay(f, amount)
    <3>1. PICK amount \in Amounts :
               \/ \E ttl \in Ttls : ReserveDraw(f, amount, ttl)
               \/ Borrow(f, amount) \/ RepayFor(f, amount) \/ RouterRepay(f, amount)
      BY <2>10
    <3>2. amount \in Nat
      BY CreditConstants
    <3>3. CASE \E ttl \in Ttls : ReserveDraw(f, amount, ttl)
      BY <1>0, <3>3 DEF ReserveDraw, envVars
    <3>4. CASE Borrow(f, amount)
      BY <3>2, <3>4, PayOutMoves DEF Borrow, MayReserve, Drawable
    <3>5. CASE RepayFor(f, amount)
      BY <3>2, <3>5, RepaidMoves DEF RepayFor
    <3>6. CASE RouterRepay(f, amount)
      BY <3>2, <3>6, RepaidMoves DEF RouterRepay
    <3> QED
      BY <3>1, <3>3, <3>4, <3>5, <3>6
  <2> QED
    BY <2>1, <2>2, <2>3, <2>4, <2>5, <2>6, <2>7, <2>8, <2>9, <2>10, Zenon DEF FacilityNext
<1>3. CASE \E id \in DOMAIN reservations :
             ExecuteReservedDraw(id) \/ CancelReservation(id) \/ ExpireReservation(id)
  <2>1. PICK id \in DOMAIN reservations :
             ExecuteReservedDraw(id) \/ CancelReservation(id) \/ ExpireReservation(id)
    BY <1>3
  <2>2. CASE ExecuteReservedDraw(id)
    <3>1. reservations[id].facility \in Facilities /\ reservations[id].amount \in Nat
      BY DEF ReserveInv, Reservation
    <3> QED
      BY <2>2, <3>1, PayOutMoves DEF ExecuteReservedDraw, Drawable
  <2>3. CASE CancelReservation(id) \/ ExpireReservation(id)
    BY <1>0, <2>3 DEF CancelReservation, ExpireReservation, envVars
  <2> QED
    BY <2>1, <2>2, <2>3
<1>4. CASE \E paused \in BOOLEAN : PauseDraws(paused)
  BY <1>0, <1>4 DEF PauseDraws, envVars
<1>5. CASE ApproveDrawResume \/ PublishPolicy
  BY <1>0, <1>5 DEF ApproveDrawResume, PublishPolicy, envVars
<1>6. CASE \E grace \in Ttls \union {0} : RotateKeyEpoch(grace)
  BY <1>0, <1>6 DEF RotateKeyEpoch, envVars
<1>7. CASE EnvironmentNext
  <2>1. CASE \E bearing \in SUBSET Facilities : Tick(bearing)
    BY <2>1 DEF Tick, Allowed, DebtInv
  <2>2. CASE \E f \in Facilities : \/ \E a \in EligibleAmounts : EligibleMoves(f, a)
                                   \/ ControlMoves(f) \/ LinkMoves(f)
    BY <1>0, <2>2 DEF EligibleMoves, ControlMoves, LinkMoves
  <2>3. CASE \E c \in {0, MaxCash} : CashMoves(c)
    BY <1>0, <2>3 DEF CashMoves
  <2> QED
    BY <1>7, <2>1, <2>2, <2>3, Zenon DEF EnvironmentNext
<1> QED
  BY <1>1, <1>2, <1>3, <1>4, <1>5, <1>6, <1>7, NextCases

(* debt and state stay functions on the facilities. *)
LEMMA DebtShape ==
    ASSUME DebtInv, [Next]_vars
    PROVE  /\ debt' = [f \in Facilities |-> debt'[f]]
           /\ state' = [f \in Facilities |-> state'[f]]
<1>1. CASE UNCHANGED vars
  BY <1>1 DEF vars, envVars, DebtInv
<1>2. CASE \E f \in Facilities : FacilityNext(f)
  <2>1. PICK f \in Facilities : FacilityNext(f)
    BY <1>2
  <2>2. \/ UNCHANGED debt
        \/ \E amount \in Amounts : PayOut(f, amount) \/ Repaid(f, amount)
    BY <2>1 DEF FacilityNext, OpenFacility, EnrollFacility, FreezeDraws, SyncRepaid,
                Transition, RecoveryTransition, SetAuthorization, AnchorAuthorization,
                ReserveDraw, Borrow, RepayFor, RouterRepay, envVars
  <2>3. UNCHANGED state \/ \E to \in States : SetState(f, to)
    <3>1. "DRAFT" \in States /\ "DRAW_FROZEN" \in States /\ "REPAID" \in States
      BY DEF States
    <3> QED
      BY <2>1, <3>1 DEF FacilityNext, OpenFacility, EnrollFacility, FreezeDraws,
                SyncRepaid, Transition, RecoveryTransition, SetAuthorization,
                AnchorAuthorization, ReserveDraw, Borrow, RepayFor, RouterRepay
  <2>4. debt' = [g \in Facilities |-> debt'[g]]
    BY <2>2 DEF DebtInv, PayOut, Repaid
  <2>5. state' = [g \in Facilities |-> state'[g]]
    BY <2>3 DEF DebtInv, SetState
  <2> QED
    BY <2>4, <2>5
<1>3. CASE \E id \in DOMAIN reservations :
             ExecuteReservedDraw(id) \/ CancelReservation(id) \/ ExpireReservation(id)
  BY <1>3 DEF DebtInv, ExecuteReservedDraw, CancelReservation, ExpireReservation, PayOut, envVars
<1>4. CASE \E paused \in BOOLEAN : PauseDraws(paused)
  BY <1>4 DEF DebtInv, PauseDraws, envVars
<1>5. CASE ApproveDrawResume \/ PublishPolicy
  BY <1>5 DEF DebtInv, ApproveDrawResume, PublishPolicy, envVars
<1>6. CASE \E grace \in Ttls \union {0} : RotateKeyEpoch(grace)
  BY <1>6 DEF DebtInv, RotateKeyEpoch, envVars
<1>7. CASE EnvironmentNext
  BY <1>7 DEF DebtInv, EnvironmentNext, Tick, EligibleMoves, ControlMoves, LinkMoves, CashMoves
<1> QED
  BY <1>1, <1>2, <1>3, <1>4, <1>5, <1>6, <1>7, NextCases

LEMMA DebtStep ==
    ASSUME DebtInv, ReserveInv, [Next]_vars
    PROVE  DebtInv'
<1>1. \A g \in Facilities : Allowed(g)
  BY DebtFrame
<1>2. \A g \in Facilities : debt'[g] \in Nat /\ state'[g] \in States
  BY <1>1 DEF Allowed, DebtInv
<1>3. DebtMatchesState'
  BY <1>1 DEF Allowed, DebtInv, DebtMatchesState, ZeroDebtStates
<1> QED
  BY <1>2, <1>3, DebtShape DEF DebtInv

(* A facility owes nothing before it is ACTIVE and nothing once REPAID or   *)
(* RELEASED, whichever path moved it there.                                 *)
THEOREM RepaidOwesNothing == Spec => []DebtMatchesState
<1>1. DebtInv => DebtMatchesState
  BY DEF DebtInv
<1>2. AuthInv /\ ReserveInv /\ DebtInv /\ [Next]_vars => (AuthInv /\ ReserveInv /\ DebtInv)'
  BY AuthStep, ReserveStep, DebtStep
<1> QED
  BY AuthInit, ReserveInit, DebtInit, <1>1, <1>2, PTL DEF Spec

-----------------------------------------------------------------------------
(* What is drawn and reserved *)

Amount(res) == [id \in DOMAIN res |-> res[id].amount]

Live(res, f) == {id \in DOMAIN res : id[1] = f /\ res[id].state = "ACTIVE"}

DrawTypes ==
    /\ eligible \in [Facilities -> Nat] /\ cash \in Nat
    /\ policy \in 1 .. MaxPolicy
    /\ enrolled \subseteq Facilities

(* Exposure is summed over the enrolled facilities only, so the others must *)
(* have nothing to sum.                                                     *)
EnrolInv ==
    \A f \in Facilities \ enrolled : debt[f] = 0 /\ reserved[f] = 0 /\ auth[f].limit = 0

LiveInv ==
    /\ reserved \in [Facilities -> Nat]
    /\ IsFiniteSet(DOMAIN reservations)
    /\ \A id \in DOMAIN reservations :
          reservations[id].facility = id[1] /\ reservations[id].amount # 0
    /\ ReservedIsLive

DrawInv == DrawTypes /\ EnrolInv /\ LiveInv

(* A step that neither draws nor touches a reservation. *)
Quiet ==
    /\ UNCHANGED reserveVars
    /\ \A f \in Facilities : /\ now' = now => debt'[f] <= debt[f]
                             /\ debt[f] = 0 => debt'[f] = 0
    /\ enrolled \subseteq enrolled'
    /\ \A f \in Facilities \ enrolled : auth'[f] = auth[f]

(* The amounts and the live reservations of a table, as ReservedIsLive sums them. *)
LEMMA LiveSum ==
    ReservedIsLive <=> \A f \in Facilities :
        reserved[f] = SumFunctionOnSet(Amount(reservations), Live(reservations, f))
  BY DEF ReservedIsLive, Amount, Live

LEMMA LiveFinite ==
    ASSUME NEW res, IsFiniteSet(DOMAIN res), NEW f
    PROVE  IsFiniteSet(Live(res, f))
<1>1. Live(res, f) \in SUBSET DOMAIN res
  BY DEF Live
<1> QED
  BY <1>1, FS_Subset

Opens(res, new, r, res2) ==
    /\ IsFiniteSet(DOMAIN res) /\ \A id \in DOMAIN res : res[id].amount \in Nat
    /\ new \notin DOMAIN res /\ r.amount \in Nat
    /\ res2 = [id \in DOMAIN res \union {new} |-> IF id = new THEN r ELSE res[id]]

Closes(res, id, st, res2) ==
    /\ IsFiniteSet(DOMAIN res) /\ \A i \in DOMAIN res : res[i] \in Reservation
    /\ id \in DOMAIN res /\ res[id].state = "ACTIVE" /\ st # "ACTIVE"
    /\ res2 = [res EXCEPT ![id].state = st]

(* Opening a reservation adds its amount to its own facility's sum. *)
LEMMA LiveAfterAdd ==
    ASSUME NEW res, NEW new, NEW r, NEW res2, Opens(res, new, r, res2), NEW f
    PROVE  /\ IsFiniteSet(DOMAIN res2)
           /\ (new[1] = f /\ r.state = "ACTIVE") =>
                SumFunctionOnSet(Amount(res2), Live(res2, f))
                  = SumFunctionOnSet(Amount(res), Live(res, f)) + r.amount
           /\ ~(new[1] = f /\ r.state = "ACTIVE") =>
                SumFunctionOnSet(Amount(res2), Live(res2, f))
                  = SumFunctionOnSet(Amount(res), Live(res, f))
<1> USE DEF Opens
<1>1. DOMAIN res2 = DOMAIN res \union {new}
  OBVIOUS
<1>2. IsFiniteSet(DOMAIN res2)
  BY <1>1, FS_AddElement
<1>3. /\ res2[new] = r
      /\ \A id \in DOMAIN res : res2[id] = res[id]
  OBVIOUS
<1> DEFINE L == Live(res, f)
<1>4. /\ \A id \in L : Amount(res)[id] \in Int /\ Amount(res2)[id] = Amount(res)[id]
      /\ Amount(res2)[new] = r.amount
  BY <1>1, <1>3 DEF Amount, Live
<1>5. IsFiniteSet(L) /\ new \notin L
  BY LiveFinite DEF Live
<1>6. SumFunctionOnSet(Amount(res), L) \in Int
  <2> HIDE DEF L
  <2> QED
    BY <1>4, <1>5, SumInt
<1>7. CASE new[1] = f /\ r.state = "ACTIVE"
  <2>1. Live(res2, f) = L \union {new}
    BY <1>1, <1>3, <1>7 DEF Live
  <2>2. Amount(res2)[new] \in Int
    BY <1>4
  <2> HIDE DEF L
  <2>3. SumFunctionOnSet(Amount(res2), L \union {new})
          = SumFunctionOnSet(Amount(res), L) + Amount(res2)[new]
    <3>1. PICK A, B : A = Amount(res) /\ B = Amount(res2)
      OBVIOUS
    <3>2. /\ IsFiniteSet(L) /\ new \notin L
          /\ \A x \in L : A[x] \in Int /\ B[x] = A[x]
          /\ B[new] \in Int
      BY <1>4, <1>5, <2>2, <3>1
    <3>3. SumFunctionOnSet(B, L \union {new}) = SumFunctionOnSet(A, L) + B[new]
      BY <3>2, SumExtend
    <3> QED
      BY <3>1, <3>3
  <2> QED
    BY <1>2, <1>4, <1>7, <2>1, <2>3 DEF L
<1>8. CASE ~(new[1] = f /\ r.state = "ACTIVE")
  <2>1. Live(res2, f) = L
    BY <1>1, <1>3, <1>8 DEF Live
  <2> HIDE DEF L
  <2>3. SumFunctionOnSet(Amount(res2), L) = SumFunctionOnSet(Amount(res), L)
    BY <1>4, <1>5, SumAgree
  <2> QED
    BY <1>2, <1>6, <1>8, <2>1, <2>3 DEF L
<1> QED
  BY <1>7, <1>8

(* Closing an active one takes its amount off. *)
LEMMA LiveAfterClose ==
    ASSUME NEW res, NEW id, NEW st, NEW res2, Closes(res, id, st, res2), NEW f
    PROVE  /\ id[1] = f =>
                SumFunctionOnSet(Amount(res2), Live(res2, f))
                  = SumFunctionOnSet(Amount(res), Live(res, f)) - res[id].amount
           /\ id[1] # f =>
                SumFunctionOnSet(Amount(res2), Live(res2, f))
                  = SumFunctionOnSet(Amount(res), Live(res, f))
<1> USE DEF Closes
<1>1. /\ DOMAIN res2 = DOMAIN res
      /\ \A i \in DOMAIN res : i # id => res2[i] = res[i]
      /\ res2[id].state = st /\ res2[id].amount = res[id].amount
  BY DEF Reservation
<1> DEFINE L == Live(res, f)
<1>3. IsFiniteSet(L) /\ L \subseteq DOMAIN res
  BY LiveFinite DEF Live
<1>4. \A x \in L : Amount(res)[x] \in Int /\ Amount(res2)[x] = Amount(res)[x]
  BY <1>1 DEF Amount, Live, Reservation
<1>5. CASE id[1] = f
  <2>1. Live(res2, f) = L \ {id} /\ id \in L /\ Amount(res)[id] = res[id].amount
    BY <1>1, <1>5 DEF Live, Amount
  <2>2. IsFiniteSet(L \ {id})
    BY <1>3, FS_Subset
  <2> HIDE DEF L
  <2>3. SumFunctionOnSet(Amount(res), L) = Amount(res)[id] + SumFunctionOnSet(Amount(res), L \ {id})
    BY <1>3, <1>4, <2>1, SumRemove
  <2>4. SumFunctionOnSet(Amount(res2), L \ {id}) = SumFunctionOnSet(Amount(res), L \ {id})
    BY <1>4, <2>2, SumAgree
  <2>5. SumFunctionOnSet(Amount(res), L \ {id}) \in Int /\ Amount(res)[id] \in Int
    BY <1>4, <2>1, <2>2, SumInt
  <2>6. SumFunctionOnSet(Amount(res2), L \ {id}) = SumFunctionOnSet(Amount(res), L) - res[id].amount
    BY <2>1, <2>3, <2>4, <2>5
  <2> QED
    BY <1>5, <2>1, <2>6 DEF L
<1>6. CASE id[1] # f
  <2>1. Live(res2, f) = L
    BY <1>1, <1>6 DEF Live
  <2> HIDE DEF L
  <2>2. SumFunctionOnSet(Amount(res2), L) = SumFunctionOnSet(Amount(res), L)
    BY <1>3, <1>4, SumAgree
  <2>3. SumFunctionOnSet(Amount(res), L) \in Int
    BY <1>3, <1>4, SumInt
  <2> QED
    BY <1>6, <2>1, <2>2, <2>3 DEF L
<1> QED
  BY <1>5, <1>6

(* Every way the five kinds of step touch debt, reservations and enrolment. *)
LEMMA DrawCases ==
    ASSUME DebtInv, AuthInv, DrawTypes, [Next]_vars
    PROVE  \/ Quiet
           \/ \E f \in Facilities, amount \in Amounts, ttl \in Ttls : ReserveDraw(f, amount, ttl)
           \/ \E f \in Facilities, amount \in Amounts : Borrow(f, amount)
           \/ \E id \in DOMAIN reservations : ExecuteReservedDraw(id)
           \/ \E id \in DOMAIN reservations : CancelReservation(id) \/ ExpireReservation(id)
<1>0. \A f \in Facilities : debt[f] \in Nat
  BY DEF DebtInv
<1>q. ASSUME UNCHANGED reserveVars, UNCHANGED <<debt, enrolled, auth>>
      PROVE  Quiet
  BY <1>0, <1>q DEF Quiet
<1>1. CASE UNCHANGED vars
  BY <1>q, <1>1, Zenon DEF vars, envVars, authVars
<1>2. CASE \E f \in Facilities : FacilityNext(f)
  <2>1. PICK f \in Facilities : FacilityNext(f)
    BY <1>2
  <2>2. CASE OpenFacility(f) \/ FreezeDraws(f) \/ SyncRepaid(f)
    BY <1>q, <2>2, Zenon DEF OpenFacility, FreezeDraws, SyncRepaid, authVars, envVars
  <2>3. CASE EnrollFacility(f)
    BY <1>0, <2>3 DEF EnrollFacility, Quiet, envVars
  <2>4. CASE \E to \in States, by \in Roles : Transition(f, to, by)
    BY <1>q, <2>4, Zenon DEF Transition, authVars, envVars
  <2>5. CASE \E to \in States : RecoveryTransition(f, to)
    BY <1>q, <2>5, Zenon DEF RecoveryTransition, authVars, envVars
  <2>6. CASE \E limit \in Limits, ttl \in Validities : SetAuthorization(f, limit, ttl)
    <3>1. UNCHANGED reserveVars /\ UNCHANGED <<debt, enrolled>> /\ f \in enrolled
      BY <2>6, Zenon DEF SetAuthorization, envVars
    <3>2. \A g \in Facilities \ enrolled : auth'[g] = auth[g]
      BY <2>6, <3>1 DEF SetAuthorization, AuthInv
    <3> QED
      BY <1>0, <3>1, <3>2 DEF Quiet
  <2>7. CASE \E e \in 0 .. keyEpoch : AnchorAuthorization(f, e)
    BY <1>q, <2>7, Zenon DEF AnchorAuthorization, envVars
  <2>8. CASE \E amount \in Amounts :
               \/ \E ttl \in Ttls : ReserveDraw(f, amount, ttl)
               \/ Borrow(f, amount) \/ RepayFor(f, amount) \/ RouterRepay(f, amount)
    <3>1. PICK amount \in Amounts :
               \/ \E ttl \in Ttls : ReserveDraw(f, amount, ttl)
               \/ Borrow(f, amount) \/ RepayFor(f, amount) \/ RouterRepay(f, amount)
      BY <2>8
    <3>2. CASE RepayFor(f, amount) \/ RouterRepay(f, amount)
      <4>1. /\ UNCHANGED reserveVars /\ UNCHANGED <<enrolled, auth>> /\ Repaid(f, amount)
        BY <3>2, Zenon DEF RepayFor, RouterRepay, authVars
      <4>2. \A g \in Facilities : debt'[g] <= debt[g] /\ (debt[g] = 0 => debt'[g] = 0)
        BY <1>0, <4>1, CreditConstants DEF Repaid, DebtInv
      <4> QED
        BY <4>1, <4>2 DEF Quiet
    <3> QED
      BY <3>1, <3>2, Zenon
  <2> QED
    BY <2>1, <2>2, <2>3, <2>4, <2>5, <2>6, <2>7, <2>8, Zenon DEF FacilityNext
<1>3. CASE \E paused \in BOOLEAN : PauseDraws(paused)
  BY <1>q, <1>3, Zenon DEF PauseDraws, envVars, authVars
<1>4. CASE ApproveDrawResume \/ PublishPolicy
  BY <1>q, <1>4, Zenon DEF ApproveDrawResume, PublishPolicy, envVars, authVars
<1>5. CASE \E grace \in Ttls \union {0} : RotateKeyEpoch(grace)
  BY <1>q, <1>5, Zenon DEF RotateKeyEpoch, envVars, authVars
<1>6. CASE \E bearing \in SUBSET Facilities : Tick(bearing)
  <2>1. UNCHANGED reserveVars /\ UNCHANGED <<enrolled, auth>> /\ now' # now
    BY <1>6 DEF Tick, authVars, AuthInv
  <2>2. \A g \in Facilities : debt[g] = 0 => debt'[g] = 0
    BY <1>6 DEF Tick
  <2> QED
    BY <2>1, <2>2 DEF Quiet
<1>7. CASE \E f \in Facilities : \/ \E a \in EligibleAmounts : EligibleMoves(f, a)
                                 \/ ControlMoves(f) \/ LinkMoves(f)
  BY <1>q, <1>7, Zenon DEF EligibleMoves, ControlMoves, LinkMoves, authVars
<1>8. CASE \E c \in {0, MaxCash} : CashMoves(c)
  BY <1>q, <1>8, Zenon DEF CashMoves, authVars
<1> QED
  BY <1>1, <1>2, <1>3, <1>4, <1>5, <1>6, <1>7, <1>8, NextCases, Zenon DEF EnvironmentNext

LEMMA DrawTypesStep ==
    ASSUME DebtInv, ReserveInv, DrawTypes, [Next]_vars
    PROVE  DrawTypes'
<1>1. eligible' \in [Facilities -> Nat]
  <2>1. \/ UNCHANGED eligible
        \/ \E f \in Facilities, a \in EligibleAmounts : EligibleMoves(f, a)
    <3>1. CASE \E f \in Facilities : FacilityNext(f)
      <4>1. \/ UNCHANGED envVars
            \/ \E f \in Facilities, amount \in Amounts : PayOut(f, amount) \/ Repaid(f, amount)
        BY <3>1, Zenon DEF FacilityNext, OpenFacility, EnrollFacility, FreezeDraws,
           SyncRepaid, Transition, RecoveryTransition, SetAuthorization, AnchorAuthorization,
           ReserveDraw, Borrow, RepayFor, RouterRepay
      <4> QED
        BY <4>1, Zenon DEF envVars, PayOut, Repaid
    <3>2. CASE EnvironmentNext
      BY <3>2, Zenon DEF EnvironmentNext, Tick, ControlMoves, LinkMoves, CashMoves
    <3> QED
      BY <3>1, <3>2, NextCases, Zenon DEF vars, envVars, PayOut, ExecuteReservedDraw,
         CancelReservation, ExpireReservation, PauseDraws, ApproveDrawResume, PublishPolicy,
         RotateKeyEpoch
  <2> QED
    BY <2>1, CreditConstants DEF DrawTypes, EligibleMoves
<1>2. policy' \in 1 .. MaxPolicy
  <2>1. UNCHANGED policy \/ PublishPolicy
    BY NextCases, Zenon DEF vars, ruleVars, FacilityNext, OpenFacility, EnrollFacility, FreezeDraws, SyncRepaid,
       Transition, RecoveryTransition, SetAuthorization, AnchorAuthorization, ReserveDraw,
       Borrow, RepayFor, RouterRepay, ExecuteReservedDraw, CancelReservation,
       ExpireReservation, PauseDraws, ApproveDrawResume, RotateKeyEpoch,
       EnvironmentNext, Tick, EligibleMoves, ControlMoves, LinkMoves, CashMoves
  <2> QED
    BY <2>1, CreditConstants DEF DrawTypes, PublishPolicy
<1>3. enrolled' \subseteq Facilities
  <2>1. UNCHANGED enrolled \/ \E f \in Facilities : enrolled' = enrolled \union {f}
    BY NextCases, Zenon DEF vars, authVars, FacilityNext, OpenFacility, EnrollFacility, FreezeDraws, SyncRepaid,
       Transition, RecoveryTransition, SetAuthorization, AnchorAuthorization, ReserveDraw,
       Borrow, RepayFor, RouterRepay, ExecuteReservedDraw, CancelReservation,
       ExpireReservation, PauseDraws, ApproveDrawResume, PublishPolicy, RotateKeyEpoch,
       EnvironmentNext, Tick, EligibleMoves, ControlMoves, LinkMoves, CashMoves
  <2> QED
    BY <2>1 DEF DrawTypes
<1>4. cash' \in Nat
  <2>1. \/ UNCHANGED cash
        \/ \E f \in Facilities, a \in Amounts : PayOut(f, a) \/ Repaid(f, a)
        \/ \E id \in DOMAIN reservations : PayOut(reservations[id].facility, reservations[id].amount)
        \/ cash' = 0 \/ cash' = MaxCash
    BY NextCases, Zenon DEF vars, envVars, FacilityNext, OpenFacility, EnrollFacility, FreezeDraws, SyncRepaid,
       Transition, RecoveryTransition, SetAuthorization, AnchorAuthorization, ReserveDraw,
       Borrow, RepayFor, RouterRepay, ExecuteReservedDraw, CancelReservation,
       ExpireReservation, PauseDraws, ApproveDrawResume, PublishPolicy, RotateKeyEpoch,
       EnvironmentNext, Tick, EligibleMoves, ControlMoves, LinkMoves, CashMoves
  <2>2. ASSUME NEW f \in Facilities, NEW a \in Nat, PayOut(f, a) \/ Repaid(f, a)
        PROVE  cash' \in Nat
    BY <2>2 DEF PayOut, Repaid, DrawTypes, DebtInv
  <2>3. \A id \in DOMAIN reservations :
           reservations[id].facility \in Facilities /\ reservations[id].amount \in Nat
    BY DEF ReserveInv, Reservation
  <2>4. \A a \in Amounts : a \in Nat
    BY CreditConstants
  <2>5. CASE \/ \E f \in Facilities, a \in Amounts : PayOut(f, a) \/ Repaid(f, a)
             \/ \E id \in DOMAIN reservations : PayOut(reservations[id].facility, reservations[id].amount)
    BY <2>2, <2>3, <2>4, <2>5, Zenon
  <2>6. CASE UNCHANGED cash \/ cash' = 0 \/ cash' = MaxCash
    BY <2>6, CreditConstants DEF DrawTypes
  <2> QED
    BY <2>1, <2>5, <2>6
<1> QED
  BY <1>1, <1>2, <1>3, <1>4 DEF DrawTypes

-----------------------------------------------------------------------------
(* The draw limit *)

LEMMA RoomNat ==
    ASSUME NEW cap \in Int, NEW used \in Int
    PROVE  /\ Room(cap, used) \in Nat
           /\ \A a \in Nat \ {0} : a <= Room(cap, used) => used + a <= cap
  BY DEF Room

LEMMA ReceivableInt ==
    ASSUME NEW f \in Facilities, DrawTypes, auth[f].policy = policy
    PROVE  ReceivableLimit(f) \in Int
<1>1. PICK e, h, a : e = eligible[f] /\ h = Haircut[auth[f].policy] /\ a = AdvanceRate[auth[f].policy]
  OBVIOUS
<1>2. e \in Int /\ h \in Int /\ a \in Int /\ Bps \in Int /\ Bps > 0
  BY <1>1, CreditConstants DEF DrawTypes
<1>3. \A x \in Int : x \div Bps \in Int
  BY <1>2
<1>4. e * (Bps - h) \in Int
  BY <1>2
<1>5. PICK net : net = (e * (Bps - h)) \div Bps
  OBVIOUS
<1>6. net \in Int
  BY <1>3, <1>4, <1>5
<1>7. net * a \in Int
  BY <1>2, <1>6
<1>8. (net * a) \div Bps \in Int
  BY <1>3, <1>7
<1> QED
  BY <1>1, <1>5, <1>8 DEF ReceivableLimit

(* What a draw of `amount' on f, on top of the reservations res, may leave: *)
(* debt and reservations within the receivables, the limit and every cap.   *)
LEMMA Covered ==
    ASSUME AuthInv, DebtInv, DrawTypes, EnrolInv,
           NEW f \in Facilities, NEW res \in [Facilities -> Nat],
           \A g \in Facilities \ enrolled : res[g] = 0,
           NEW amount \in Nat, amount # 0, amount <= AvailableDraw(f, res),
           NEW total \in [Facilities -> Nat],
           total[f] = debt[f] + res[f] + amount,
           \A g \in Facilities \ {f} : total[g] = debt[g] + res[g]
    PROVE  /\ f \in enrolled
           /\ total[f] <= ReceivableLimit(f)
           /\ total[f] <= auth[f].limit
           /\ \A pool \in {p \in Pools : f \in p} :
                 SumFunctionOnSet(total, pool) <= Cap[policy][pool]
<1>1. AuthorityUsable(f)
  <2>1. ~AuthorityUsable(f) => AvailableDraw(f, res) = 0
    BY Zenon DEF AvailableDraw
  <2> QED
    BY <2>1
<1>2. f \in enrolled /\ auth[f].policy = policy /\ auth[f].limit \in Nat
  BY <1>1 DEF AuthorityUsable, EnrolInv, AuthInv, Authorization
<1>3. debt[f] \in Nat /\ res[f] \in Nat /\ cash \in Nat /\ ReceivableLimit(f) \in Int
  BY <1>2, ReceivableInt DEF DebtInv, DrawTypes
<1> DEFINE used == debt[f] + res[f]
           held == [g \in Facilities |-> debt[g] + res[g]]
           rooms == {Room(Cap[auth[f].policy][pool], Exposure(pool, res)) :
                        pool \in {p \in Pools : f \in p}}
           four == {Room(ReceivableLimit(f), used), Room(auth[f].limit, used),
                    Headroom(f, res), cash}
<1>4. ASSUME NEW pool \in Pools
      PROVE  /\ IsFiniteSet(pool) /\ pool \subseteq Facilities
             /\ Exposure(pool, res) = SumFunctionOnSet(held, pool \cap enrolled)
             /\ Exposure(pool, res) \in Nat
             /\ Cap[policy][pool] \in Nat
  <2>1. IsFiniteSet(pool) /\ pool \subseteq Facilities
    BY CreditConstants, FS_Subset
  <2>2. IsFiniteSet(pool \cap enrolled) /\ \A g \in pool \cap enrolled : held[g] \in Nat
    BY <2>1, FS_Subset DEF DebtInv
  <2>3. Exposure(pool, res) = SumFunctionOnSet(held, pool \cap enrolled)
    BY DEF Exposure
  <2>4. SumFunctionOnSet(held, pool \cap enrolled) \in Nat
    <3> HIDE DEF held
    <3> QED
      BY <2>2, SumNat
  <2>5. Cap[policy][pool] \in Nat
    BY CreditConstants DEF DrawTypes
  <2> QED
    BY <2>1, <2>3, <2>4, <2>5
<1>5. rooms \in SUBSET Nat /\ rooms # {}
  <2>1. ASSUME NEW pool \in Pools
        PROVE  Room(Cap[auth[f].policy][pool], Exposure(pool, res)) \in Nat
    <3>0. Cap[policy][pool] \in Nat /\ Exposure(pool, res) \in Nat
      BY <1>4, Zenon
    <3>1. Cap[auth[f].policy][pool] \in Int /\ Exposure(pool, res) \in Int
      BY <1>2, <3>0
    <3> QED
      BY <3>1, RoomNat, Zenon
  <2>2. \E pool \in Pools : f \in pool
    BY CreditConstants
  <2> QED
    BY <2>1, <2>2
<1>6. Headroom(f, res) \in Nat /\ \A r \in rooms : Headroom(f, res) <= r
  <2>1. Headroom(f, res) = Min(rooms)
    BY DEF Headroom
  <2> HIDE DEF rooms
  <2>2. Min(rooms) \in rooms /\ \A r \in rooms : Min(rooms) <= r
    BY <1>5, MinNat
  <2> QED
    BY <1>5, <2>1, <2>2
<1>u. used \in Int /\ auth[f].limit \in Int
  BY <1>2, <1>3
<1>7. four \in SUBSET Nat /\ four # {}
  <2>1. Room(ReceivableLimit(f), used) \in Nat /\ Room(auth[f].limit, used) \in Nat
    <3> HIDE DEF used
    <3> QED
      BY <1>u, <1>3, RoomNat, Zenon
  <2> QED
    BY <1>3, <1>6, <2>1
<1>8. \A r \in four : amount <= r
  <2>1. AvailableDraw(f, res) = Min(four)
    BY <1>1 DEF AvailableDraw
  <2> HIDE DEF four
  <2>2. Min(four) \in four /\ \A r \in four : Min(four) <= r
    BY <1>7, MinNat
  <2>3. Min(four) \in Nat /\ \A r \in four : r \in Nat
    BY <1>7, <2>2
  <2>4. amount <= Min(four)
    BY <2>1
  <2> QED
    BY <2>2, <2>3, <2>4
<1>9. /\ amount <= Room(ReceivableLimit(f), used)
      /\ amount <= Room(auth[f].limit, used)
      /\ amount <= Headroom(f, res)
  BY <1>8
<1>10. used + amount <= ReceivableLimit(f) /\ used + amount <= auth[f].limit
  <2> HIDE DEF used
  <2>1. amount \in Nat \ {0}
    OBVIOUS
  <2> QED
    BY <1>u, <1>3, <1>9, <2>1, RoomNat, Zenon
<1>11. ASSUME NEW pool \in Pools, f \in pool
       PROVE  SumFunctionOnSet(total, pool) <= Cap[policy][pool]
  <2>1. PICK c, x : c = Cap[policy][pool] /\ x = Exposure(pool, res)
    OBVIOUS
  <2>2. c \in Nat /\ x \in Nat
    BY <1>4, <2>1
  <2>3. Room(c, x) \in rooms
    BY <1>2, <1>11, <2>1
  <2>4. Room(c, x) \in Nat /\ Headroom(f, res) <= Room(c, x)
    BY <1>6, <2>2, <2>3, RoomNat
  <2>5. amount <= Room(c, x)
    BY <1>6, <1>9, <2>4
  <2>6. x + amount <= c
    BY <2>2, <2>5, RoomNat
  <2>7. x = SumFunctionOnSet(held, pool)
    <3>1. /\ IsFiniteSet(pool) /\ \A g \in pool : held[g] \in Int
          /\ \A g \in pool \ enrolled : held[g] = 0
      <4>1. IsFiniteSet(pool) /\ pool \subseteq Facilities
        BY <1>4
      <4>2. \A g \in Facilities : held[g] \in Int
        BY DEF DebtInv
      <4>3. \A g \in Facilities \ enrolled : held[g] = 0
        BY DEF EnrolInv
      <4> HIDE DEF held
      <4> QED
        BY <4>1, <4>2, <4>3
    <3>2. x = SumFunctionOnSet(held, pool \cap enrolled)
      BY <1>4, <2>1
    <3> HIDE DEF held
    <3>3. SumFunctionOnSet(held, pool) = SumFunctionOnSet(held, pool \intersect enrolled)
      BY <3>1, SumSupport
    <3> QED
      BY <3>2, <3>3
  <2>8. /\ IsFiniteSet(pool) /\ f \in pool
        /\ \A g \in pool : held[g] \in Int /\ total[g] \in Int
        /\ \A g \in pool \ {f} : total[g] = held[g]
    <3>1. IsFiniteSet(pool) /\ pool \subseteq Facilities
      BY <1>4
    <3>2. \A g \in Facilities : held[g] \in Int
      BY DEF DebtInv
    <3>3. \A g \in Facilities \ {f} : total[g] = held[g]
      OBVIOUS
    <3> HIDE DEF held
    <3> QED
      BY <1>11, <3>1, <3>2, <3>3
  <2>9. held[f] \in Nat /\ total[f] = held[f] + amount
    BY <1>3
  <2>10. SumFunctionOnSet(total, pool) = SumFunctionOnSet(held, pool) - held[f] + total[f]
    <3> HIDE DEF held
    <3> QED
      BY <2>8, SumChange
  <2> HIDE DEF held
  <2>11. SumFunctionOnSet(total, pool) = x + amount
    BY <2>2, <2>7, <2>9, <2>10
  <2> QED
    BY <2>1, <2>6, <2>11
<1> QED
  BY <1>2, <1>10, <1>11

-----------------------------------------------------------------------------
(* Each kind of step *)

Grows(f, inc) == inc \in Nat /\ reserved' = [reserved EXCEPT ![f] = @ + inc]

LEMMA AddLive ==
    ASSUME ReserveInv, LiveInv,
           NEW f \in Facilities, NEW amount \in Nat, amount # 0, NEW ttl, NEW st,
           AddReservation(f, NewReservation(f, amount, ttl, st)),
           NEW inc, st = "ACTIVE" => inc = amount, st # "ACTIVE" => inc = 0,
           Grows(f, inc)
    PROVE  LiveInv'
<1> USE DEF Grows
<1> DEFINE new == <<f, drawNonce[f] + 1>>
           r == NewReservation(f, amount, ttl, st)
<1>1. reservations' = [id \in DOMAIN reservations \union {new} |->
                          IF id = new THEN r ELSE reservations[id]]
  BY DEF AddReservation
<1>2. new[1] = f /\ new \notin DOMAIN reservations
  BY DEF ReserveInv
<1>3. r.facility = f /\ r.amount = amount /\ r.state = st
  BY DEF NewReservation
<1>4. inc \in Nat /\ reserved' \in [Facilities -> Nat]
  BY DEF LiveInv
<1>5. \A id \in DOMAIN reservations : reservations[id].amount \in Nat
  BY DEF ReserveInv, Reservation
<1>6. IsFiniteSet(DOMAIN reservations)
  BY DEF LiveInv
<1> HIDE DEF new, r
<1>7. \A id \in DOMAIN reservations' :
        reservations'[id].facility = id[1] /\ reservations'[id].amount # 0
  BY <1>1, <1>2, <1>3 DEF LiveInv
<1>8. /\ IsFiniteSet(DOMAIN reservations')
      /\ \A g :
           /\ (new[1] = g /\ r.state = "ACTIVE") =>
                SumFunctionOnSet(Amount(reservations'), Live(reservations', g))
                  = SumFunctionOnSet(Amount(reservations), Live(reservations, g)) + r.amount
           /\ ~(new[1] = g /\ r.state = "ACTIVE") =>
                SumFunctionOnSet(Amount(reservations'), Live(reservations', g))
                  = SumFunctionOnSet(Amount(reservations), Live(reservations, g))
  <2>1. r.amount \in Nat
    BY <1>3
  <2>2. PICK res, res2 : res = reservations /\ res2 = reservations'
    OBVIOUS
  <2>3. Opens(res, new, r, res2)
    BY <1>1, <1>2, <1>5, <1>6, <2>1, <2>2 DEF Opens
  <2>4. /\ IsFiniteSet(DOMAIN res2)
        /\ \A g :
           /\ (new[1] = g /\ r.state = "ACTIVE") =>
                SumFunctionOnSet(Amount(res2), Live(res2, g))
                  = SumFunctionOnSet(Amount(res), Live(res, g)) + r.amount
           /\ ~(new[1] = g /\ r.state = "ACTIVE") =>
                SumFunctionOnSet(Amount(res2), Live(res2, g))
                  = SumFunctionOnSet(Amount(res), Live(res, g))
    BY <2>3, LiveAfterAdd
  <2> QED
    BY <2>2, <2>4, Zenon
<1>9. ASSUME NEW g \in Facilities
      PROVE  reserved'[g] = SumFunctionOnSet(Amount(reservations'), Live(reservations', g))
  <2>1. reserved[g] = SumFunctionOnSet(Amount(reservations), Live(reservations, g))
    BY LiveSum DEF LiveInv
  <2>2. /\ reserved[g] \in Nat
        /\ g = f => reserved'[g] = reserved[g] + inc
        /\ g # f => reserved'[g] = reserved[g]
    BY <1>4 DEF LiveInv
  <2>3. CASE g = f /\ st = "ACTIVE"
    BY <1>2, <1>3, <1>8, <2>1, <2>2, <2>3
  <2>4. CASE ~(g = f /\ st = "ACTIVE")
    BY <1>2, <1>3, <1>8, <2>1, <2>2, <2>4
  <2> QED
    BY <2>3, <2>4
<1>10. ReservedIsLive'
  BY <1>9 DEF ReservedIsLive, Amount, Live
<1> QED
  BY <1>4, <1>7, <1>8, <1>10 DEF LiveInv

LEMMA CloseLive ==
    ASSUME ReserveInv, LiveInv, NEW id \in DOMAIN reservations,
           reservations[id].state = "ACTIVE", NEW st, st # "ACTIVE",
           Close(id, st), ReleaseReserved(id)
    PROVE  /\ LiveInv'
           /\ reservations[id].facility \in Facilities
           /\ reservations[id].amount \in Nat \ {0}
           /\ reserved' = [reserved EXCEPT ![reservations[id].facility]
                              = @ - reservations[id].amount]
<1>1. PICK f, amount : f = reservations[id].facility /\ amount = reservations[id].amount
  OBVIOUS
<1>2. f \in Facilities /\ f = id[1] /\ amount \in Nat /\ amount # 0
  BY <1>1 DEF ReserveInv, LiveInv, Reservation
<1>3. reserved' = [reserved EXCEPT ![f] = @ - amount]
  BY <1>1 DEF ReleaseReserved
<1>4. PICK res, res2 : res = reservations /\ res2 = reservations'
  OBVIOUS
<1>5. /\ IsFiniteSet(DOMAIN res) /\ id \in DOMAIN res /\ res[id].state = "ACTIVE"
      /\ \A i \in DOMAIN res : res[i] \in Reservation
      /\ res2 = [res EXCEPT ![id].state = st]
      /\ res[id].amount = amount
  BY <1>1, <1>4 DEF LiveInv, ReserveInv, Close
<1>c. Closes(res, id, st, res2)
  BY <1>5 DEF Closes
<1>6. \A g :
        /\ id[1] = g => SumFunctionOnSet(Amount(res2), Live(res2, g))
                          = SumFunctionOnSet(Amount(res), Live(res, g)) - res[id].amount
        /\ id[1] # g => SumFunctionOnSet(Amount(res2), Live(res2, g))
                          = SumFunctionOnSet(Amount(res), Live(res, g))
  BY <1>c, LiveAfterClose
<1>7. \A g \in Facilities :
        /\ reserved[g] \in Nat
        /\ reserved[g] = SumFunctionOnSet(Amount(res), Live(res, g))
  BY <1>4, LiveSum DEF LiveInv
<1>8. amount <= reserved[f]
  <2>1. PICK A : A = Amount(res)
    OBVIOUS
  <2>2. /\ id \in Live(res, f) /\ A[id] = amount
        /\ \A x \in Live(res, f) : A[x] \in Nat
    BY <1>2, <1>5, <2>1 DEF Live, Amount, Reservation
  <2>3. IsFiniteSet(Live(res, f))
    BY <1>5, LiveFinite
  <2>4. A[id] <= SumFunctionOnSet(A, Live(res, f))
    BY <2>2, <2>3, SumNat
  <2> QED
    BY <1>2, <1>7, <2>1, <2>2, <2>4
<1>9. reserved' \in [Facilities -> Nat]
  BY <1>2, <1>3, <1>7, <1>8 DEF LiveInv
<1>10. ASSUME NEW g \in Facilities
       PROVE  reserved'[g] = SumFunctionOnSet(Amount(res2), Live(res2, g))
  <2>1. /\ g = f => reserved'[g] = reserved[g] - amount
        /\ g # f => reserved'[g] = reserved[g]
    BY <1>2, <1>3, <1>7 DEF LiveInv
  <2> QED
    BY <1>2, <1>5, <1>6, <1>7, <2>1
<1>11. ReservedIsLive'
  BY <1>4, <1>10 DEF ReservedIsLive, Amount, Live
<1>12. /\ DOMAIN reservations' = DOMAIN reservations
       /\ \A i \in DOMAIN reservations : /\ reservations'[i].facility = reservations[i].facility
                                         /\ reservations'[i].amount = reservations[i].amount
  BY DEF Close, ReserveInv, Reservation
<1>13. LiveInv'
  BY <1>9, <1>11, <1>12 DEF LiveInv
<1> QED
  BY <1>1, <1>2, <1>3, <1>13

(* The gates of a draw, as ExecutedAsApproved lists them. *)
LEMMA GatesHold ==
    ASSUME AuthInv, NEW f \in Facilities, Drawable(f)
    PROVE  /\ state[f] = "ACTIVE" /\ ~drawsPaused /\ control[f] /\ linked[f]
           /\ AnchorValid(f) /\ EpochValid(anchor[f].signerEpoch)
           /\ anchor[f].limit = auth[f].limit
<1>1. anchor[f].limit = auth[f].limit
  BY DEF Drawable, AuthInv, AnchorAgrees
<1> QED
  BY <1>1, Zenon DEF Drawable, AnchorValid

(* A commitment of `amount' on f, reserved or drawn, leaves f and its pools covered. *)
LEMMA Commits ==
    ASSUME AuthInv, DebtInv, DrawInv, DebtInv', LiveInv',
           NEW f \in Facilities, NEW amount \in Nat, amount # 0,
           NEW res \in [Facilities -> Nat],
           \A g \in Facilities : g # f => res[g] = reserved[g],
           res[f] <= reserved[f],
           amount <= AvailableDraw(f, res), Drawable(f),
           debt'[f] + reserved'[f] = debt[f] + res[f] + amount,
           \A g \in Facilities : g # f => debt'[g] = debt[g] /\ reserved'[g] = reserved[g],
           UNCHANGED <<enrolled, auth>>
    PROVE  EnrolInv' /\ ExecutedAsApproved /\ CommitmentsCovered
<1> DEFINE total == [g \in Facilities |-> debt'[g] + reserved'[g]]
<1>1. \A g \in Facilities : debt[g] \in Nat /\ debt'[g] \in Nat /\ reserved'[g] \in Nat
                            /\ reserved[g] \in Nat /\ res[g] \in Nat
  BY DEF DebtInv, DrawInv, LiveInv
<1>2. \A g \in Facilities \ enrolled : res[g] = 0
  BY <1>1 DEF DrawInv, EnrolInv
<1>3. /\ total \in [Facilities -> Nat] /\ total[f] = debt[f] + res[f] + amount
      /\ \A g \in Facilities \ {f} : total[g] = debt[g] + res[g]
  BY <1>1
<1>4. /\ f \in enrolled
      /\ total[f] <= ReceivableLimit(f)
      /\ total[f] <= auth[f].limit
      /\ \A pool \in {p \in Pools : f \in p} :
            SumFunctionOnSet(total, pool) <= Cap[policy][pool]
  <2> HIDE DEF total
  <2> QED
    BY <1>2, <1>3, Covered DEF DrawInv
<1>5. \A g \in Facilities : (Draws(g) \/ reserved'[g] > reserved[g]) => g = f
  BY <1>1 DEF Draws
<1>6. CommitmentsCovered
  BY <1>4, <1>5, Zenon DEF CommitmentsCovered
<1>7. debt'[f] + reserved'[f] <= auth[f].limit
  BY <1>4
<1>8. ExecutedAsApproved
  BY <1>5, <1>7, GatesHold, Zenon DEF ExecutedAsApproved
<1>9. EnrolInv'
  BY <1>4 DEF DrawInv, EnrolInv
<1> QED
  BY <1>6, <1>8, <1>9

(* A step that commits nothing. *)
LEMMA NoCommitment ==
    ASSUME \A f \in Facilities : ~Draws(f) /\ ~(reserved'[f] > reserved[f])
    PROVE  ExecutedAsApproved /\ CommitmentsCovered
  BY Zenon DEF ExecutedAsApproved, CommitmentsCovered

LEMMA QuietStep ==
    ASSUME DebtInv, DebtInv', DrawInv, Quiet
    PROVE  EnrolInv' /\ LiveInv' /\ ExecutedAsApproved /\ CommitmentsCovered
<1>1. UNCHANGED <<reservations, reserved>>
  BY DEF Quiet, reserveVars
<1>2. LiveInv'
  BY <1>1 DEF DrawInv, LiveInv, ReservedIsLive
<1>3. EnrolInv'
  BY <1>1 DEF DrawInv, EnrolInv, Quiet
<1>4. \A f \in Facilities : /\ debt[f] \in Nat /\ debt'[f] \in Nat /\ reserved[f] \in Nat
                            /\ reserved'[f] = reserved[f]
  BY <1>1 DEF DebtInv, DrawInv, LiveInv
<1>5. \A f \in Facilities : ~Draws(f) /\ ~(reserved'[f] > reserved[f])
  BY <1>4 DEF Draws, Quiet
<1> QED
  BY <1>2, <1>3, <1>5, NoCommitment

LEMMA ReserveDrawStep ==
    ASSUME AuthInv, ReserveInv, DebtInv, DebtInv', DrawInv,
           NEW f \in Facilities, NEW amount \in Amounts, NEW ttl \in Ttls,
           ReserveDraw(f, amount, ttl)
    PROVE  EnrolInv' /\ LiveInv' /\ ExecutedAsApproved /\ CommitmentsCovered
<1>1. /\ amount \in Nat /\ amount # 0 /\ amount <= AvailableDraw(f, reserved) /\ Drawable(f)
      /\ AddReservation(f, NewReservation(f, amount, ttl, "ACTIVE"))
      /\ reserved' = [reserved EXCEPT ![f] = @ + amount]
      /\ UNCHANGED <<debt, enrolled, auth>>
  BY CreditConstants DEF ReserveDraw, MayReserve, envVars, authVars
<1>2. LiveInv
  BY DEF DrawInv
<1>3. LiveInv'
  <2>1. Grows(f, amount)
    BY <1>1 DEF Grows
  <2> QED
    BY <1>1, <1>2, <2>1, AddLive
<1>4. reserved \in [Facilities -> Nat] /\ debt[f] \in Nat
  BY <1>2 DEF LiveInv, DebtInv
<1>5. /\ reserved[f] <= reserved[f]
      /\ debt'[f] + reserved'[f] = debt[f] + reserved[f] + amount
      /\ \A g \in Facilities : g # f => debt'[g] = debt[g] /\ reserved'[g] = reserved[g]
  BY <1>1, <1>4
<1>6. EnrolInv' /\ ExecutedAsApproved /\ CommitmentsCovered
  BY <1>1, <1>3, <1>4, <1>5, Commits
<1> QED
  BY <1>3, <1>6

LEMMA BorrowStep ==
    ASSUME AuthInv, ReserveInv, DebtInv, DebtInv', DrawInv,
           NEW f \in Facilities, NEW amount \in Amounts, Borrow(f, amount)
    PROVE  EnrolInv' /\ LiveInv' /\ ExecutedAsApproved /\ CommitmentsCovered
<1>1. /\ amount \in Nat /\ amount # 0 /\ amount <= AvailableDraw(f, reserved) /\ Drawable(f)
      /\ AddReservation(f, NewReservation(f, amount, 1, "CONSUMED"))
      /\ debt' = [debt EXCEPT ![f] = @ + amount]
      /\ UNCHANGED <<reserved, enrolled, auth>>
  BY CreditConstants DEF Borrow, MayReserve, PayOut, authVars
<1>2. LiveInv
  BY DEF DrawInv
<1>3. reserved \in [Facilities -> Nat] /\ debt[f] \in Nat
  BY <1>2 DEF LiveInv, DebtInv
<1>4. PICK inc \in Nat : inc = 0
  OBVIOUS
<1>t. PICK st, ttl : st = "CONSUMED" /\ ttl = 1
  OBVIOUS
<1>5. LiveInv'
  <2>1. Grows(f, inc)
    BY <1>1, <1>3, <1>4 DEF Grows
  <2>2. st # "ACTIVE" /\ AddReservation(f, NewReservation(f, amount, ttl, st))
    BY <1>1, <1>t
  <2> QED
    <3>1. /\ amount \in Nat /\ amount # 0
          /\ st = "ACTIVE" => inc = amount
          /\ st # "ACTIVE" => inc = 0
      BY <1>1, <1>4, <1>t
    <3> QED
      BY <1>2, <2>1, <2>2, <3>1, AddLive
<1>6. /\ reserved[f] <= reserved[f]
      /\ debt'[f] + reserved'[f] = debt[f] + reserved[f] + amount
      /\ \A g \in Facilities : g # f => debt'[g] = debt[g] /\ reserved'[g] = reserved[g]
  <2>1. debt'[f] = debt[f] + amount /\ reserved'[f] = reserved[f] /\ reserved[f] \in Nat
    BY <1>1, <1>3 DEF DebtInv
  <2>2. \A g \in Facilities : g # f => debt'[g] = debt[g] /\ reserved'[g] = reserved[g]
    BY <1>1 DEF DebtInv
  <2> QED
    BY <1>1, <1>3, <2>1, <2>2
<1>7. EnrolInv' /\ ExecutedAsApproved /\ CommitmentsCovered
  BY <1>1, <1>3, <1>5, <1>6, Commits
<1> QED
  BY <1>5, <1>7

LEMMA ExecuteStep ==
    ASSUME AuthInv, ReserveInv, DebtInv, DebtInv', DrawInv,
           NEW id \in DOMAIN reservations, ExecuteReservedDraw(id)
    PROVE  EnrolInv' /\ LiveInv' /\ ExecutedAsApproved /\ CommitmentsCovered
<1>1. PICK f, amount : f = reservations[id].facility /\ amount = reservations[id].amount
  OBVIOUS
<1>2. /\ reservations[id].state = "ACTIVE" /\ Close(id, "CONSUMED") /\ ReleaseReserved(id)
      /\ UNCHANGED <<enrolled, auth>>
      /\ Drawable(f) /\ debt' = [debt EXCEPT ![f] = @ + amount]
      /\ amount <= AvailableDraw(f, [reserved EXCEPT ![f] = @ - amount])
  BY <1>1 DEF ExecuteReservedDraw, MayConsume, PayOut, authVars
<1>3. LiveInv
  BY DEF DrawInv
<1>4. /\ LiveInv' /\ f \in Facilities /\ amount \in Nat \ {0}
      /\ reserved' = [reserved EXCEPT ![f] = @ - amount]
  BY <1>1, <1>2, <1>3, CloseLive
<1>5. PICK res : res = [reserved EXCEPT ![f] = @ - amount]
  OBVIOUS
<1>6. /\ res \in [Facilities -> Nat] /\ debt[f] \in Nat
      /\ \A g \in Facilities : reserved[g] \in Nat
  BY <1>3, <1>4, <1>5 DEF LiveInv, DebtInv
<1>7. res[f] = reserved[f] - amount /\ reserved'[f] = res[f]
  BY <1>3, <1>4, <1>5 DEF LiveInv
<1>8. /\ \A g \in Facilities : g # f => res[g] = reserved[g]
      /\ \A g \in Facilities : g # f => debt'[g] = debt[g] /\ reserved'[g] = reserved[g]
  BY <1>2, <1>3, <1>4, <1>5 DEF LiveInv, DebtInv
<1>9. res[f] <= reserved[f] /\ debt'[f] + reserved'[f] = debt[f] + res[f] + amount
  <2>1. debt'[f] = debt[f] + amount
    BY <1>2, <1>4 DEF DebtInv
  <2> QED
    BY <1>4, <1>6, <1>7, <2>1
<1>10. amount <= AvailableDraw(f, res)
  BY <1>2, <1>5
<1>11. EnrolInv' /\ ExecutedAsApproved /\ CommitmentsCovered
  BY <1>2, <1>4, <1>6, <1>8, <1>9, <1>10, Commits
<1> QED
  BY <1>4, <1>11

LEMMA ReleaseStep ==
    ASSUME ReserveInv, DebtInv, DrawInv,
           NEW id \in DOMAIN reservations, CancelReservation(id) \/ ExpireReservation(id)
    PROVE  EnrolInv' /\ LiveInv' /\ ExecutedAsApproved /\ CommitmentsCovered
<1>1. /\ reservations[id].state = "ACTIVE" /\ ReleaseReserved(id)
      /\ \E st \in {"CANCELLED", "EXPIRED"} : Close(id, st)
      /\ UNCHANGED <<debt, enrolled, auth>>
  BY DEF CancelReservation, ExpireReservation, envVars, authVars
<1>2. LiveInv
  BY DEF DrawInv
<1>3. PICK f, amount : f = reservations[id].facility /\ amount = reservations[id].amount
  OBVIOUS
<1>4. /\ LiveInv' /\ f \in Facilities /\ amount \in Nat \ {0}
      /\ reserved' = [reserved EXCEPT ![f] = @ - amount]
  <2>1. PICK st \in {"CANCELLED", "EXPIRED"} : Close(id, st)
    BY <1>1
  <2>2. st # "ACTIVE"
    OBVIOUS
  <2> QED
    BY <1>1, <1>2, <1>3, <2>1, <2>2, CloseLive
<1>5. \A g \in Facilities : reserved[g] \in Nat /\ reserved'[g] \in Nat /\ reserved'[g] <= reserved[g]
  BY <1>2, <1>4 DEF LiveInv
<1>6. \A g \in Facilities : ~Draws(g) /\ ~(reserved'[g] > reserved[g])
  BY <1>1, <1>5 DEF Draws, DebtInv
<1>7. EnrolInv'
  BY <1>1, <1>5 DEF DrawInv, EnrolInv
<1> QED
  BY <1>4, <1>6, <1>7, NoCommitment

LEMMA DrawInit == Init => DrawInv
<1> SUFFICES ASSUME Init PROVE DrawInv
  OBVIOUS
<1>1. DrawTypes /\ EnrolInv
  <2>0. eligible \in [Facilities -> EligibleAmounts] /\ EligibleAmounts \subseteq Nat
    BY CreditConstants, Zenon DEF Init
  <2>1. eligible \in [Facilities -> Nat] /\ cash \in Nat /\ policy \in 1 .. MaxPolicy
    <3>1. eligible \in [Facilities -> Nat]
      BY <2>0
    <3>2. cash = MaxCash /\ policy = 1
      BY Zenon DEF Init
    <3> QED
      BY <3>1, <3>2, CreditConstants
  <2>2. enrolled = {} /\ \A f \in Facilities : debt[f] = 0 /\ reserved[f] = 0 /\ auth[f].limit = 0
    BY DEF Init
  <2> QED
    BY <2>1, <2>2 DEF DrawTypes, EnrolInv
<1>2. DOMAIN reservations = {} /\ IsFiniteSet({})
  BY FS_EmptySet DEF Init
<1>3. ReservedIsLive
  <2>1. \A f : Live(reservations, f) = {}
    BY <1>2 DEF Live
  <2>2. \A f \in Facilities : reserved[f] = 0
    BY DEF Init
  <2> QED
    BY <2>1, <2>2, SumEmpty, LiveSum
<1>4. reserved \in [Facilities -> Nat]
  BY DEF Init
<1>5. LiveInv
  BY <1>2, <1>3, <1>4 DEF LiveInv
<1> QED
  BY <1>1, <1>5 DEF DrawInv

LEMMA DrawStep ==
    ASSUME AuthInv, ReserveInv, DebtInv, DrawInv, [Next]_vars
    PROVE  DrawInv' /\ ExecutedAsApproved /\ CommitmentsCovered /\ ReservedIsLive'
<1>1. DebtInv'
  BY DebtStep
<1>2. DrawTypes'
  BY DrawTypesStep DEF DrawInv
<1>3. EnrolInv' /\ LiveInv' /\ ExecutedAsApproved /\ CommitmentsCovered
  BY <1>1, DrawCases, QuietStep, ReserveDrawStep, BorrowStep, ExecuteStep, ReleaseStep, Zenon
     DEF DrawInv
<1> QED
  BY <1>2, <1>3 DEF DrawInv, LiveInv

(* No draw escapes its approval or its cover: when cash leaves, the facility *)
(* is ACTIVE under a live signed decision that covers its debt and what is   *)
(* still reserved; after any reservation or draw the facility is within its  *)
(* receivables and each of its pools within its cap; and what is counted as  *)
(* reserved is what is still live.                                           *)
THEOREM DrawsStayCovered == Spec => DrawsCovered
<1> DEFINE Inv == AuthInv /\ ReserveInv /\ DebtInv /\ DrawInv
           Step == ExecutedAsApproved /\ CommitmentsCovered /\ ReservedIsLive'
<1>1. Inv /\ [Next]_vars => Inv' /\ [Step]_vars
  BY AuthStep, ReserveStep, DebtStep, DrawStep
<1>2. Init => Inv
  BY AuthInit, ReserveInit, DebtInit, DrawInit
<1> HIDE DEF Inv, Step
<1>3. Spec => [][Step]_vars
  BY <1>1, <1>2, PTL DEF Spec
<1> QED
  BY <1>3 DEF DrawsCovered, Step

(* In every state reserved exposure is exactly the live reservations. *)
THEOREM ReservedIsAlwaysLive == Spec => []ReservedIsLive
<1> DEFINE Inv == AuthInv /\ ReserveInv /\ DebtInv /\ DrawInv
<1>1. Inv /\ [Next]_vars => Inv'
  BY AuthStep, ReserveStep, DebtStep, DrawStep
<1>2. Init => Inv
  BY AuthInit, ReserveInit, DebtInit, DrawInit
<1>3. Inv => ReservedIsLive
  BY DEF DrawInv, LiveInv
<1> HIDE DEF Inv
<1> QED
  BY <1>1, <1>2, <1>3, PTL DEF Spec
=============================================================================
