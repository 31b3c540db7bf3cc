-------------------------- MODULE BookProofs --------------------------
(***************************************************************************)
(* The books the services keep.  Transaction intents: nonces are dense,    *)
(* ends are true, and the layer implements SubmitOnce.  Settlement legs,   *)
(* devices, ingestion and receivables follow, each with the invariant that *)
(* carries its property; none assumes a bound on workers, rows or time.    *)
(***************************************************************************)
EXTENDS TxDispatcher, CashBook, AssetRegistry, Ingestion, Receivables, Sums, FiniteSetTheorems, TLAPS

(* The blocks up to n that hold a transaction of the signer. *)
Used(n) == {m \in 1 .. n : m \in DOMAIN chain /\ chain[m].job \in Jobs}

(* The chain takes the signer's transactions in the order of their nonces. *)
MinedInOrder ==
    \A n \in DOMAIN chain : chain[n].job \in Jobs =>
        intent[chain[n].job].nonce = FirstNonce + Cardinality(Used(n - 1))

(* Reported ends are irrevocable. *)
EndsTrue ==
    \A j \in Jobs : /\ intent[j].state = "FINAL" => Irrevocable(j, TRUE)
                    /\ intent[j].state = "FAILED" => Irrevocable(j, FALSE)

IInv == TypeOK /\ NoncesDense /\ MinedInOrder /\ EndsTrue

-----------------------------------------------------------------------------
(* The chain and its nonces *)

(* The chain is a sequence of blocks. *)
LEMMA ChainType ==
    ASSUME TypeOK
    PROVE  /\ Len(chain) \in Nat /\ DOMAIN chain = 1 .. Len(chain)
           /\ \A n \in 1 .. Len(chain) :
                 chain[n] \in [job : Jobs \union {Idle}, fee : 0 .. MaxFee, ok : BOOLEAN]
<1> DEFINE B == [job : Jobs \union {Idle}, fee : 0 .. MaxFee, ok : BOOLEAN]
<1>1. chain \in Seq(B)
  BY DEF TypeOK
<1> HIDE DEF B
<1>2. Len(chain) \in Nat /\ DOMAIN chain = 1 .. Len(chain) /\ \A n \in 1 .. Len(chain) : chain[n] \in B
  BY <1>1
<1> QED
  BY <1>2 DEF B

(* The used blocks are finitely many. *)
LEMMA UsedFinite ==
    ASSUME NEW n \in Int
    PROVE  IsFiniteSet(Used(n)) /\ Cardinality(Used(n)) \in Nat
<1>1. IsFiniteSet(1 .. n)
  BY FS_Interval
<1>2. Used(n) \subseteq 1 .. n
  BY DEF Used
<1>3. IsFiniteSet(Used(n))
  BY <1>1, <1>2, FS_Subset
<1> QED
  BY <1>3, FS_CardinalityType

(* One more block. *)
LEMMA UsedNext ==
    ASSUME NEW n \in Nat, n >= 1, n \in DOMAIN chain
    PROVE  Cardinality(Used(n)) = IF chain[n].job \in Jobs THEN Cardinality(Used(n - 1)) + 1
                                  ELSE Cardinality(Used(n - 1))
<1>1. IsFiniteSet(Used(n - 1)) /\ n \notin Used(n - 1)
  BY UsedFinite DEF Used
<1>2. CASE chain[n].job \in Jobs
  <2>1. Used(n) = Used(n - 1) \union {n}
    BY <1>2 DEF Used
  <2> QED
    BY <1>1, <1>2, <2>1, FS_AddElement
<1>3. CASE chain[n].job \notin Jobs
  <2>1. Used(n) = Used(n - 1)
    BY <1>3 DEF Used
  <2> QED
    BY <1>3, <2>1
<1> QED
  BY <1>2, <1>3

(* The account nonce counts the used blocks. *)
LEMMA AccountCounts ==
    ASSUME TypeOK
    PROVE  AccountNonce = FirstNonce + Cardinality(Used(Len(chain)))
<1>1. UNION {Mined(j) : j \in Jobs} = Used(Len(chain))
  BY ChainType DEF Mined, Used
<1> QED
  BY <1>1 DEF AccountNonce

(* A used block below another has a lower count before it. *)
LEMMA UsedGrows ==
    ASSUME NEW m \in Nat, NEW n \in Nat, m >= 1, m < n, m \in DOMAIN chain, chain[m].job \in Jobs
    PROVE  Cardinality(Used(m - 1)) < Cardinality(Used(n - 1))
<1>1. Used(m - 1) \subseteq Used(n - 1) /\ m \in Used(n - 1) /\ m \notin Used(m - 1)
  BY DEF Used
<1>2. /\ IsFiniteSet(Used(n - 1)) /\ Cardinality(Used(n - 1)) \in Nat
      /\ Cardinality(Used(m - 1)) \in Nat
  BY UsedFinite
<1>3. /\ Cardinality(Used(m - 1)) <= Cardinality(Used(n - 1))
      /\ Cardinality(Used(n - 1)) = Cardinality(Used(m - 1)) => Used(n - 1) = Used(m - 1)
  BY <1>1, <1>2, FS_Subset
<1> QED
  BY <1>1, <1>2, <1>3

(* Nonces mined in order are mined once. *)
LEMMA MinedOnce ==
    ASSUME TypeOK, MinedInOrder, NEW j \in Jobs
    PROVE  /\ \A m, n \in Mined(j) : m = n
           /\ Cardinality(Mined(j)) <= 1
<1>1. ASSUME NEW m \in Mined(j), NEW n \in Mined(j), m < n
      PROVE  FALSE
  <2>1. m \in Nat /\ n \in Nat /\ m >= 1 /\ m \in DOMAIN chain /\ n \in DOMAIN chain
        /\ chain[m].job = j /\ chain[n].job = j
    BY ChainType DEF Mined
  <2>2. FirstNonce + Cardinality(Used(m - 1)) = FirstNonce + Cardinality(Used(n - 1))
    BY <2>1 DEF MinedInOrder
  <2>3. Cardinality(Used(m - 1)) < Cardinality(Used(n - 1))
    BY <1>1, <2>1, UsedGrows
  <2>4. Cardinality(Used(m - 1)) \in Nat /\ Cardinality(Used(n - 1)) \in Nat /\ FirstNonce \in Nat
    BY <2>1, UsedFinite, DispatcherConstants
  <2> QED
    BY <2>2, <2>3, <2>4
<1>2. \A m, n \in Mined(j) : m = n
  <2>1. Mined(j) \subseteq Nat
    BY ChainType DEF Mined
  <2> QED
    BY <1>1, <2>1
<1>3. Cardinality(Mined(j)) <= 1
  <2>1. CASE Mined(j) = {}
    BY <2>1, FS_EmptySet
  <2>2. CASE Mined(j) # {}
    <3>1. PICK m \in Mined(j) : TRUE
      BY <2>2
    <3>2. Mined(j) = {m}
      BY <1>2, <3>1
    <3> QED
      BY <3>2, FS_Singleton
  <2> QED
    BY <2>1, <2>2
<1> QED
  BY <1>2, <1>3

(* The recorded nonces are finitely many and in the database's range. *)
LEMMA PreparedFacts ==
    ASSUME TypeOK, NoncesDense
    PROVE  /\ IsFiniteSet(Prepared) /\ Cardinality(Prepared) \in Nat
           /\ \A j \in Prepared : /\ intent[j].nonce \in Nat
                                  /\ intent[j].nonce <= FirstNonce + Cardinality(Prepared) - 1
<1>1. IsFiniteSet(Prepared)
  BY DispatcherConstants, FS_Subset DEF Prepared
<1>2. Cardinality(Prepared) \in Nat
  BY <1>1, FS_CardinalityType
<1>3. ASSUME NEW j \in Prepared
      PROVE  intent[j].nonce \in Nat /\ intent[j].nonce <= FirstNonce + Cardinality(Prepared) - 1
  <2>1. intent[j].nonce \in FirstNonce .. FirstNonce + Cardinality(Prepared) - 1
    BY DEF NoncesDense
  <2> QED
    BY <2>1, <1>2, DispatcherConstants
<1> QED
  BY <1>1, <1>2, <1>3

(* The chain has not used more nonces than were recorded. *)
LEMMA AccountBound ==
    ASSUME TypeOK, NoncesDense, MinedInOrder
    PROVE  /\ AccountNonce \in Nat /\ AccountNonce >= FirstNonce
           /\ AccountNonce <= FirstNonce + Cardinality(Prepared)
<1> DEFINE U == Used(Len(chain))
           N == Cardinality(Prepared)
<1>1. /\ AccountNonce = FirstNonce + Cardinality(U) /\ FirstNonce \in Nat
      /\ IsFiniteSet(U) /\ Cardinality(U) \in Nat /\ N \in Nat
  BY AccountCounts, ChainType, UsedFinite, PreparedFacts, DispatcherConstants
<1>2. CASE U = {}
  BY <1>1, <1>2, FS_EmptySet
<1>3. CASE U # {}
  <2>1. U \in SUBSET Int
    BY DEF Used
  <2>2. PICK n \in U : \A m \in U : n >= m
    <3>1. Max(U) \in U /\ \A m \in U : Max(U) >= m
      <4> HIDE DEF U
      <4> QED
        BY <1>1, <1>3, <2>1, MaxExists
    <3> QED
      BY <3>1
  <2>3. n \in Nat /\ n >= 1 /\ n <= Len(chain) /\ n \in DOMAIN chain /\ chain[n].job \in Jobs
    BY ChainType DEF Used
  <2>4. U = Used(n - 1) \union {n} /\ n \notin Used(n - 1)
    <3>1. \A m \in U : m \in Used(n - 1) \union {n}
      BY <2>2, <2>3, ChainType DEF Used
    <3>2. \A m \in Used(n - 1) : m \in U
      BY <2>3, ChainType DEF Used
    <3>3. n \notin Used(n - 1)
      BY <2>3 DEF Used
    <3> HIDE DEF U
    <3> QED
      BY <3>1, <3>2, <3>3
  <2>5. Cardinality(U) = Cardinality(Used(n - 1)) + 1
    <3>1. IsFiniteSet(Used(n - 1))
      BY <2>3, UsedFinite
    <3> QED
      BY <2>4, <3>1, FS_AddElement
  <2>6. intent[chain[n].job].nonce = FirstNonce + Cardinality(Used(n - 1))
    BY <2>3 DEF MinedInOrder
  <2>7. intent[chain[n].job].nonce <= FirstNonce + N - 1
    <3>1. chain[n].job \in Prepared
      BY <2>3, DispatcherConstants DEF TypeOK
    <3> QED
      BY <3>1, PreparedFacts
  <2>8. Cardinality(Used(n - 1)) \in Nat
    BY <2>3, UsedFinite
  <2> HIDE DEF U
  <2> QED
    BY <1>1, <2>5, <2>6, <2>7, <2>8
<1> QED
  BY <1>2, <1>3

(* What a node answers for the pending count lies between the first nonce   *)
(* and the next one to record.                                              *)
LEMMA PendingBound ==
    ASSUME TypeOK, NoncesDense, MinedInOrder
    PROVE  /\ PendingCount \in Int /\ PendingCount >= FirstNonce
           /\ PendingCount <= FirstNonce + Cardinality(Prepared)
<1> DEFINE Q(n) == \A k \in AccountNonce .. n - 1 : \E tx \in mempool : intent[tx.job].nonce = k
           I == AccountNonce .. AccountNonce + Cardinality(Jobs)
           S == {n \in I : Q(n)}
<1>1. /\ AccountNonce \in Nat /\ AccountNonce >= FirstNonce /\ FirstNonce \in Nat
      /\ AccountNonce <= FirstNonce + Cardinality(Prepared)
      /\ Cardinality(Jobs) \in Nat /\ Cardinality(Prepared) \in Nat
  BY AccountBound, PreparedFacts, DispatcherConstants, FS_CardinalityType
<1>2. IsFiniteSet(S) /\ S \in SUBSET Int
  <2>1. IsFiniteSet(I)
    BY <1>1, FS_Interval
  <2>2. S \in SUBSET I /\ S \in SUBSET Int
    BY <1>1
  <2> HIDE DEF S, I
  <2> QED
    BY <2>1, <2>2, FS_Subset
<1>3. AccountNonce \in S
  BY <1>1
<1>4. PICK m \in S : m = PendingCount
  <2>1. Max(S) = PendingCount
    BY DEF PendingCount
  <2>2. Max(S) \in S
    <3> HIDE DEF S
    <3> QED
      BY <1>2, <1>3, MaxExists
  <2> QED
    BY <2>1, <2>2
<1>5. m \in Int /\ m >= AccountNonce /\ Q(m)
  BY <1>1
<1>6. CASE m = AccountNonce
  BY <1>1, <1>4, <1>6
<1>7. CASE m > AccountNonce
  <2>1. PICK tx \in mempool : intent[tx.job].nonce = m - 1
    BY <1>1, <1>5, <1>7
  <2>2. intent[tx.job].nonce <= FirstNonce + Cardinality(Prepared) - 1
    BY PreparedFacts DEF TypeOK
  <2> HIDE DEF Q, S
  <2> QED
    BY <1>1, <1>4, <1>5, <2>1, <2>2
<1> QED
  BY <1>1, <1>5, <1>6, <1>7

(* The next nonce continues the run of recorded ones, whatever part of them *)
(* the chain and the nodes know.                                            *)
LEMMA AllocateIs ==
    ASSUME TypeOK, NoncesDense, MinedInOrder
    PROVE  AllocateNonce = FirstNonce + Cardinality(Prepared)
<1> DEFINE N == Cardinality(Prepared)
           S == {PendingCount} \union {intent[j].nonce + 1 : j \in Prepared}
           m == FirstNonce + N
<1>1. /\ PendingCount \in Int /\ PendingCount >= FirstNonce /\ PendingCount <= m
      /\ FirstNonce \in Nat /\ N \in Nat
  BY PendingBound, PreparedFacts, DispatcherConstants
<1>2. \A j \in Prepared : intent[j].nonce \in Nat /\ intent[j].nonce <= m - 1
  BY <1>1, PreparedFacts
<1>3. S \in SUBSET Int /\ \A y \in S : m >= y
  <2> HIDE DEF N
  <2> QED
    BY <1>1, <1>2
<1>4. m \in S
  <2>1. CASE N = 0
    BY <1>1, <2>1
  <2>2. CASE N > 0
    <3>1. FirstNonce + N - 1 \in FirstNonce .. FirstNonce + N - 1
      BY <1>1, <2>2
    <3>2. PICK j \in Prepared : intent[j].nonce = FirstNonce + N - 1
      BY <3>1 DEF NoncesDense
    <3>3. intent[j].nonce + 1 = m
      BY <3>2, <1>1
    <3> QED
      BY <3>3
  <2> QED
    BY <1>1, <2>1, <2>2
<1>5. Max(S) = m
  <2> HIDE DEF S, m
  <2> QED
    BY <1>3, <1>4, MaxIs
<1> QED
  BY <1>5 DEF AllocateNonce

-----------------------------------------------------------------------------
(* Steps that leave the chain as it is *)

Rows == [state : LiveStates \union {"NONE", "FINAL", "FAILED"}, nonce : Nat,
         fee : 0 .. MaxFee, mined : Nat]

Blocks == [job : Jobs \union {Idle}, fee : 0 .. MaxFee, ok : BOOLEAN]

Reads == [job : Jobs \union {Idle}, fee : 0 .. MaxFee, answered : BOOLEAN]

(* What is computed from the chain alone stays. *)
LEMMA ChainKept ==
    ASSUME UNCHANGED chain
    PROVE  /\ \A n : Used(n)' = Used(n)
           /\ \A j, ok : Irrevocable(j, ok)' = Irrevocable(j, ok)
  BY DEF Used, Irrevocable, Mined, Deep, Confirmations

(* A new row of a recorded job keeps what the proof needs when it keeps the *)
(* nonce and reports no end that is not true.                               *)
LEMMA RowStep ==
    ASSUME IInv, UNCHANGED <<mempool, chain>>, NEW j \in Prepared, NEW row \in Rows,
           intent' = [intent EXCEPT ![j] = row],
           audit' \in [Jobs -> SUBSET (0 .. MaxFee)], \A i \in Prepared : audit'[i] # {},
           process' \in [Processes -> Reads],
           \A p \in Processes : process'[p].job # Idle => process'[p].job \in Prepared,
           row.nonce = intent[j].nonce, row.state # "NONE",
           row.state = "FINAL" => Irrevocable(j, TRUE),
           row.state = "FAILED" => Irrevocable(j, FALSE)
    PROVE  IInv'
<1>0. intent \in [Jobs -> Rows] /\ j \in Jobs /\ intent[j].state # "NONE"
  BY DEF IInv, TypeOK, Rows, Prepared
<1>1. intent' \in [Jobs -> Rows]
  BY <1>0
<1>2. \A i \in Jobs : /\ intent'[i].nonce = intent[i].nonce
                      /\ intent'[i].state # "NONE" <=> intent[i].state # "NONE"
                      /\ i # j => intent'[i] = intent[i]
  BY <1>0
<1>3. Prepared' = Prepared
  BY <1>2 DEF Prepared
<1>4. \A i \in Prepared : i \in Jobs
  BY DEF Prepared
<1>5. NoncesDense'
  <2>1. \A i, k \in Prepared : intent'[i].nonce = intent'[k].nonce => i = k
    BY <1>2, <1>4 DEF IInv, NoncesDense
  <2>2. {intent'[i].nonce : i \in Prepared} = {intent[i].nonce : i \in Prepared}
    BY <1>2, <1>4
  <2> QED
    BY <1>3, <2>1, <2>2 DEF IInv, NoncesDense
<1>6. MinedInOrder'
  <2>1. \A n : Used(n)' = Used(n)
    BY ChainKept
  <2> SUFFICES ASSUME NEW n \in DOMAIN chain, chain[n].job \in Jobs
               PROVE  intent'[chain[n].job].nonce = FirstNonce + Cardinality(Used(n - 1)')
    BY DEF MinedInOrder
  <2>2. intent[chain[n].job].nonce = FirstNonce + Cardinality(Used(n - 1))
    BY DEF IInv, MinedInOrder
  <2> QED
    BY <1>2, <2>1, <2>2
<1>7. EndsTrue'
  <2>1. \A i, ok : Irrevocable(i, ok)' = Irrevocable(i, ok)
    BY ChainKept
  <2>2. intent'[j] = row
    BY <1>0
  <2> QED
    BY <1>2, <2>1, <2>2 DEF IInv, EndsTrue
<1>8. TypeOK'
  BY <1>1, <1>3 DEF IInv, TypeOK, Rows, Reads
<1> QED
  BY <1>5, <1>6, <1>7, <1>8 DEF IInv

(* Prepare records the next nonce of the run. *)
LEMMA PrepareStep ==
    ASSUME IInv, NEW j \in Jobs, Prepare(j)
    PROVE  IInv' /\ Prepared' = Prepared \union {j}
<1> DEFINE N == Cardinality(Prepared)
<1>0. /\ intent \in [Jobs -> Rows] /\ j \notin Prepared
      /\ IsFiniteSet(Prepared) /\ N \in Nat /\ FirstNonce \in Nat /\ MaxFee \in Nat
  BY PreparedFacts, DispatcherConstants DEF IInv, TypeOK, Rows, Prepared, Prepare
<1>1. PICK next \in Nat : next = FirstNonce + N /\ AllocateNonce = next
  BY <1>0, AllocateIs DEF IInv
<1> DEFINE row == [state |-> "PREPARED", nonce |-> next, fee |-> 0, mined |-> 0]
<1>2. intent' = [intent EXCEPT ![j] = row] /\ UNCHANGED <<process, mempool, chain>>
  BY <1>1 DEF Prepare, NewIntent
<1>3. row \in Rows
  <2>1. 0 \in 0 .. MaxFee
    BY <1>0
  <2> QED
    BY <2>1 DEF Rows, LiveStates
<1>4. /\ intent'[j].state = "PREPARED" /\ intent'[j].nonce = FirstNonce + N
      /\ \A i \in Jobs \ {j} : intent'[i] = intent[i]
      /\ intent' \in [Jobs -> Rows]
  <2>1. intent'[j] = row
    BY <1>0, <1>2
  <2>2. intent' \in [Jobs -> Rows] /\ \A i \in Jobs \ {j} : intent'[i] = intent[i]
    <3> HIDE DEF row
    <3> QED
      BY <1>0, <1>2, <1>3
  <2> QED
    BY <1>1, <2>1, <2>2
<1> HIDE DEF row
<1>5. Prepared' = Prepared \union {j}
  BY <1>4 DEF Prepared
<1>6. Cardinality(Prepared') = N + 1
  BY <1>0, <1>5, FS_AddElement
<1>7. \A i \in Prepared : i \in Jobs \ {j}
  BY <1>0 DEF Prepared
<1>8. audit' = [audit EXCEPT ![j] = {0}]
  BY DEF Prepare, NewIntent
<1>9. TypeOK'
  <2>1. audit' \in [Jobs -> SUBSET (0 .. MaxFee)] /\ \A i \in Prepared' : audit'[i] # {}
    <3>1. audit \in [Jobs -> SUBSET (0 .. MaxFee)] /\ {0} \in SUBSET (0 .. MaxFee)
      BY <1>0 DEF IInv, TypeOK
    <3>2. audit' \in [Jobs -> SUBSET (0 .. MaxFee)]
      BY <1>8, <3>1
    <3>3. \A i \in Prepared : audit[i] # {}
      BY DEF IInv, TypeOK
    <3> QED
      BY <1>5, <1>7, <1>8, <3>1, <3>2, <3>3
  <2>2. /\ \A p \in Processes : process[p].job # Idle => process[p].job \in Prepared'
        /\ \A tx \in mempool : tx.job \in Prepared'
        /\ \A n \in DOMAIN chain : chain[n].job # Idle => chain[n].job \in Prepared'
    BY <1>5 DEF IInv, TypeOK
  <2> QED
    BY <1>2, <1>4, <2>1, <2>2 DEF IInv, TypeOK, Rows
<1>10. NoncesDense'
  <2> DEFINE K == {intent[i].nonce : i \in Prepared}
  <2>1. K = FirstNonce .. FirstNonce + N - 1
    BY DEF IInv, NoncesDense
  <2>2. {intent'[i].nonce : i \in Prepared'} = K \union {FirstNonce + N}
    BY <1>4, <1>5, <1>7
  <2>3. K \union {FirstNonce + N} = FirstNonce .. FirstNonce + (N + 1) - 1
    <3> HIDE DEF K, N
    <3> QED
      BY <2>1, <1>0
  <2>4. \A i \in Prepared : intent[i].nonce # FirstNonce + N
    <3>1. \A i \in Prepared : intent[i].nonce \in FirstNonce .. FirstNonce + N - 1
      BY <2>1
    <3> HIDE DEF K, N
    <3> QED
      BY <3>1, <1>0
  <2>5. \A i, k \in Prepared' : intent'[i].nonce = intent'[k].nonce => i = k
    <3> HIDE DEF N
    <3> QED
      BY <1>4, <1>5, <1>7, <2>4 DEF IInv, NoncesDense
  <2> QED
    BY <1>6, <2>2, <2>3, <2>5 DEF NoncesDense
<1>11. MinedInOrder'
  <2>1. \A n : Used(n)' = Used(n)
    BY <1>2, ChainKept
  <2> SUFFICES ASSUME NEW n \in DOMAIN chain, chain[n].job \in Jobs
               PROVE  intent'[chain[n].job].nonce = FirstNonce + Cardinality(Used(n - 1)')
    BY <1>2 DEF MinedInOrder
  <2>2. intent[chain[n].job].nonce = FirstNonce + Cardinality(Used(n - 1))
    BY DEF IInv, MinedInOrder
  <2>3. chain[n].job \in Prepared
    BY DispatcherConstants DEF IInv, TypeOK
  <2> QED
    BY <1>4, <1>7, <2>1, <2>2, <2>3
<1>12. EndsTrue'
  <2>1. \A i, ok : Irrevocable(i, ok)' = Irrevocable(i, ok)
    BY <1>2, ChainKept
  <2> QED
    BY <1>4, <2>1 DEF IInv, EndsTrue
<1> QED
  BY <1>5, <1>9, <1>10, <1>11, <1>12 DEF IInv

(* With the chain and the intents as they are, only types are at stake. *)
LEMMA IntentsKept ==
    ASSUME IInv, UNCHANGED <<intent, chain>>, TypeOK'
    PROVE  IInv'
<1>1. Prepared' = Prepared
  BY DEF Prepared
<1>2. NoncesDense'
  BY <1>1 DEF IInv, NoncesDense
<1>3. MinedInOrder'
  BY ChainKept DEF IInv, MinedInOrder
<1>4. EndsTrue'
  BY ChainKept DEF IInv, EndsTrue
<1> QED
  BY <1>2, <1>3, <1>4 DEF IInv

(* The newest signed bytes of a recorded job. *)
LEMMA SignedParamsType ==
    ASSUME TypeOK, NEW j \in Prepared
    PROVE  SignedParams(j) \in 0 .. MaxFee
<1>1. audit[j] \in SUBSET (0 .. MaxFee) /\ audit[j] # {}
  BY DEF TypeOK, Prepared
<1>2. IsFiniteSet(0 .. MaxFee)
  BY DispatcherConstants, FS_Interval
<1>3. IsFiniteSet(audit[j])
  <2> DEFINE I == 0 .. MaxFee
  <2>1. audit[j] \in SUBSET I /\ IsFiniteSet(I)
    BY <1>1, <1>2
  <2> HIDE DEF I
  <2> QED
    BY <2>1, FS_Subset
<1>4. Max(audit[j]) \in audit[j]
  <2>1. audit[j] \in SUBSET Int
    BY <1>1, DispatcherConstants
  <2> QED
    BY <1>1, <1>3, <2>1, MaxExists
<1> QED
  BY <1>1, <1>4 DEF SignedParams

(* What a process reads, sends and forgets. *)
LEMMA ProcessStep ==
    ASSUME TypeOK, UNCHANGED <<intent, audit, chain>>, NEW p \in Processes, NEW r \in Reads,
           process' = [process EXCEPT ![p] = r], r.job # Idle => r.job \in Prepared,
           mempool' \subseteq Signed, \A tx \in mempool' : tx.job \in Prepared
    PROVE  TypeOK'
<1>1. process \in [Processes -> Reads]
  BY DEF TypeOK, Reads
<1>2. process' \in [Processes -> Reads]
  BY <1>1
<1>3. \A q \in Processes : process'[q].job # Idle => process'[q].job \in Prepared
  BY <1>1 DEF TypeOK
<1>4. Prepared' = Prepared
  BY DEF Prepared
<1> QED
  BY <1>2, <1>3, <1>4 DEF TypeOK, Reads, Signed

LEMMA ReadForBroadcastStep ==
    ASSUME IInv, NEW p \in Processes, NEW j \in Jobs, ReadForBroadcast(p, j)
    PROVE  IInv'
<1>1. j \in Prepared
  BY DEF ReadForBroadcast, Prepared
<1>2. PICK fee \in 0 .. MaxFee : fee = SignedParams(j)
  BY <1>1, SignedParamsType DEF IInv
<1> DEFINE r == [job |-> j, fee |-> fee, answered |-> FALSE]
<1>3. process' = [process EXCEPT ![p] = r] /\ UNCHANGED <<intent, audit, mempool, chain>>
  BY <1>2 DEF ReadForBroadcast
<1>4. r \in Reads /\ r.job \in Prepared
  BY <1>1 DEF Reads
<1>5. mempool' \subseteq Signed /\ \A tx \in mempool' : tx.job \in Prepared
  BY <1>3 DEF IInv, TypeOK
<1> HIDE DEF r
<1>6. TypeOK'
  BY <1>3, <1>4, <1>5, ProcessStep DEF IInv
<1> QED
  BY <1>3, <1>6, IntentsKept

(* A process without a broadcast under way. *)
LEMMA Forgotten ==
    [job |-> Idle, fee |-> 0, answered |-> FALSE] \in Reads
<1>1. 0 \in 0 .. MaxFee
  BY DispatcherConstants
<1> QED
  BY <1>1 DEF Reads

LEMMA SendRawStep ==
    ASSUME IInv, NEW p \in Processes, SendRaw(p)
    PROVE  IInv'
<1> DEFINE r == process[p]
           tx == [job |-> r.job, fee |-> r.fee]
           done == [r EXCEPT !.job = Idle, !.fee = 0]
           said == [r EXCEPT !.answered = TRUE]
<1>1. r \in Reads /\ process \in [Processes -> Reads] /\ r.job # Idle /\ ~r.answered
  BY DEF SendRaw, IInv, TypeOK, Reads
<1>2. r.job \in Prepared /\ r.job \in Jobs
  BY <1>1 DEF IInv, TypeOK, Prepared
<1>3. 0 \in 0 .. MaxFee
  BY DispatcherConstants
<1>4. done \in Reads /\ said \in Reads /\ done.job = Idle /\ said.job = r.job
  BY <1>1, <1>3 DEF Reads
<1>5. tx \in Signed /\ tx.job \in Prepared
  BY <1>1, <1>2 DEF Signed, Reads
<1>6. /\ mempool' = mempool \/ mempool' = {t \in mempool : t.job # tx.job} \union {tx}
      /\ UNCHANGED <<intent, audit, chain>>
  BY DEF SendRaw
<1>7. process' = [process EXCEPT ![p] = done] \/ process' = [process EXCEPT ![p] = said]
  BY <1>1 DEF SendRaw
<1>8. mempool \subseteq Signed /\ \A t \in mempool : t.job \in Prepared
  BY DEF IInv, TypeOK
<1> HIDE DEF r, tx, done, said
<1>9. mempool' \subseteq Signed /\ \A t \in mempool' : t.job \in Prepared
  BY <1>5, <1>6, <1>8
<1>10. TypeOK'
  BY <1>2, <1>4, <1>6, <1>7, <1>9, ProcessStep DEF IInv
<1> QED
  BY <1>6, <1>10, IntentsKept

LEMMA CrashStep ==
    ASSUME IInv, NEW p \in Processes, Crash(p)
    PROVE  IInv'
<1> DEFINE r == [job |-> Idle, fee |-> 0, answered |-> FALSE]
<1>1. process' = [process EXCEPT ![p] = r] /\ UNCHANGED <<intent, audit, mempool, chain>>
  BY DEF Crash
<1>2. r \in Reads /\ r.job = Idle
  BY Forgotten
<1>3. mempool' \subseteq Signed /\ \A tx \in mempool' : tx.job \in Prepared
  BY <1>1 DEF IInv, TypeOK
<1> HIDE DEF r
<1>4. TypeOK'
  BY <1>1, <1>2, <1>3, ProcessStep DEF IInv
<1> QED
  BY <1>1, <1>4, IntentsKept

(* Rows and their audit log where a step leaves them. *)
LEMMA RowTypes ==
    ASSUME TypeOK
    PROVE  /\ intent \in [Jobs -> Rows] /\ Prepared \subseteq Jobs
           /\ audit \in [Jobs -> SUBSET (0 .. MaxFee)] /\ \A i \in Prepared : audit[i] # {}
           /\ process \in [Processes -> Reads]
           /\ \A p \in Processes : process[p].job # Idle => process[p].job \in Prepared
  BY DEF TypeOK, Rows, Reads, Prepared

LEMMA MarkSentStep ==
    ASSUME IInv, NEW p \in Processes, MarkSent(p)
    PROVE  IInv'
<1> DEFINE r == [job |-> Idle, fee |-> 0, answered |-> FALSE]
           j == process[p].job
           row == [intent[j] EXCEPT !.state = "SENT"]
<1>1. process' = [process EXCEPT ![p] = r] /\ UNCHANGED <<audit, mempool, chain>>
  BY DEF MarkSent
<1>2. r \in Reads /\ r.job = Idle
  BY Forgotten
<1>3. CASE intent' = intent
  <2>1. mempool' \subseteq Signed /\ \A tx \in mempool' : tx.job \in Prepared
    BY <1>1 DEF IInv, TypeOK
  <2> HIDE DEF r
  <2>2. TypeOK'
    BY <1>1, <1>2, <1>3, <2>1, ProcessStep DEF IInv
  <2> QED
    BY <1>1, <1>3, <2>2, IntentsKept
<1>4. CASE intent' # intent
  <2>0. intent \in [Jobs -> Rows] /\ Prepared \subseteq Jobs /\ process \in [Processes -> Reads]
    BY RowTypes DEF IInv
  <2>1. intent' = [intent EXCEPT ![j].state = "SENT"] /\ intent[j].state \in {"PREPARED", "SENT"}
    BY <1>4 DEF MarkSent
  <2>2. j \in Jobs
    <3>1. j = Idle => j \notin DOMAIN intent
      BY <2>0, DispatcherConstants
    <3>2. j \in Jobs \union {Idle}
      BY <2>0 DEF Reads
    <3>3. ASSUME j \notin DOMAIN intent PROVE FALSE
      <4> HIDE DEF j
      <4>1. intent' = intent
        BY <2>0, <2>1, <3>3
      <4> QED
        BY <4>1, <1>4
    <3> QED
      BY <3>1, <3>2, <3>3
  <2>3. j \in Prepared
    BY <2>1, <2>2 DEF Prepared
  <2> HIDE DEF j
  <2>4. row \in Rows /\ row.nonce = intent[j].nonce /\ row.state = "SENT"
    <3>1. intent[j] \in Rows
      BY <2>0, <2>2
    <3> QED
      BY <3>1 DEF Rows, LiveStates
  <2>5. intent' = [intent EXCEPT ![j] = row]
    BY <2>1
  <2> HIDE DEF row, r
  <2>6. /\ process' \in [Processes -> Reads]
        /\ \A q \in Processes : process'[q].job # Idle => process'[q].job \in Prepared
    BY <1>1, <1>2, <2>0, RowTypes DEF IInv
  <2>7. audit' \in [Jobs -> SUBSET (0 .. MaxFee)] /\ \A i \in Prepared : audit'[i] # {}
    BY <1>1, RowTypes DEF IInv
  <2> QED
    BY <1>1, <2>3, <2>4, <2>5, <2>6, <2>7, RowStep
<1> QED
  BY <1>3, <1>4

LEMMA FeeBumpStep ==
    ASSUME IInv, NEW j \in Jobs, FeeBump(j)
    PROVE  IInv'
<1>0. /\ intent \in [Jobs -> Rows] /\ intent[j] \in Rows /\ j \in Prepared
      /\ audit \in [Jobs -> SUBSET (0 .. MaxFee)] /\ MaxFee \in Nat
  BY RowTypes, DispatcherConstants DEF IInv, FeeBump, Prepared
<1>1. PICK fee \in 0 .. MaxFee : fee = intent[j].fee + 1
  BY <1>0 DEF FeeBump, Rows
<1> DEFINE row == [intent[j] EXCEPT !.state = "PREPARED", !.fee = fee]
           log == audit[j] \union {fee}
<1>2. intent' = [intent EXCEPT ![j] = row]
  BY <1>0, <1>1 DEF FeeBump
<1>3. row \in Rows /\ row.nonce = intent[j].nonce /\ row.state = "PREPARED"
  BY <1>0 DEF Rows, LiveStates
<1> HIDE DEF row
<1>4. audit' = [audit EXCEPT ![j] = log] /\ UNCHANGED <<process, mempool, chain>>
  BY <1>1 DEF FeeBump
<1>5. log \in SUBSET (0 .. MaxFee) /\ log # {}
  BY <1>0
<1> HIDE DEF log
<1>6. audit' \in [Jobs -> SUBSET (0 .. MaxFee)] /\ \A i \in Prepared : audit'[i] # {}
  BY <1>0, <1>4, <1>5, RowTypes DEF IInv
<1>7. /\ process' \in [Processes -> Reads]
      /\ \A q \in Processes : process'[q].job # Idle => process'[q].job \in Prepared
  BY <1>4, RowTypes DEF IInv
<1> QED
  BY <1>0, <1>2, <1>3, <1>4, <1>6, <1>7, RowStep

(* What reconcile writes: another state of a live job, an end only when the *)
(* chain holds it below the finality depth.                                 *)
LEMMA ReconcileRow ==
    ASSUME IInv, NEW j \in Jobs, NEW lagging \in BOOLEAN, Reconcile(j, lagging)
    PROVE  /\ j \in Prepared /\ intent[j].state \in LiveStates
           /\ \E row \in Rows :
                 /\ intent' = [intent EXCEPT ![j] = row]
                 /\ row.nonce = intent[j].nonce
                 /\ row.state \in {"ORPHANED", "MINED", "FINAL", "FAILED"}
                 /\ row.state = "FINAL" => Irrevocable(j, TRUE)
                 /\ row.state = "FAILED" => Irrevocable(j, FALSE)
<1>0. /\ intent \in [Jobs -> Rows] /\ intent[j] \in Rows /\ j \in Prepared
      /\ intent[j].state \in LiveStates
  BY RowTypes DEF IInv, Reconcile, LiveStates, Prepared
<1>1. ASSUME NEW to \in {"ORPHANED", "MINED", "FAILED"}, NEW n \in Nat, Move(j, to, n),
             to = "FAILED" => Irrevocable(j, FALSE)
      PROVE  \E row \in Rows :
                 /\ intent' = [intent EXCEPT ![j] = row]
                 /\ row.nonce = intent[j].nonce
                 /\ row.state \in {"ORPHANED", "MINED", "FINAL", "FAILED"}
                 /\ row.state = "FINAL" => Irrevocable(j, TRUE)
                 /\ row.state = "FAILED" => Irrevocable(j, FALSE)
  <2> DEFINE row == [intent[j] EXCEPT !.state = to, !.mined = n]
  <2>1. intent' = [intent EXCEPT ![j] = row]
    BY <1>0, <1>1 DEF Move
  <2>2. row \in Rows /\ row.nonce = intent[j].nonce /\ row.state = to
    BY <1>0 DEF Rows, LiveStates
  <2> HIDE DEF row
  <2> QED
    BY <1>1, <2>1, <2>2
<1>2. CASE MarkOrphaned(j)
  BY <1>0, <1>1, <1>2 DEF MarkOrphaned
<1>3. ASSUME NEW n \in Receipts(j), MarkFailed(j, n) \/ MarkMined(j, n) \/ MarkFinal(j, n)
      PROVE  \E row \in Rows :
                 /\ intent' = [intent EXCEPT ![j] = row]
                 /\ row.nonce = intent[j].nonce
                 /\ row.state \in {"ORPHANED", "MINED", "FINAL", "FAILED"}
                 /\ row.state = "FINAL" => Irrevocable(j, TRUE)
                 /\ row.state = "FAILED" => Irrevocable(j, FALSE)
  <2>1. n \in Mined(j) /\ n \in Nat /\ chain[n].ok \in BOOLEAN
    BY ChainType DEF IInv, Receipts, Mined
  <2>2. CASE MarkFailed(j, n)
    <3>1. Irrevocable(j, FALSE)
      BY <2>1, <2>2 DEF MarkFailed, Irrevocable
    <3> QED
      BY <1>1, <2>1, <2>2, <3>1 DEF MarkFailed
  <2>3. CASE MarkMined(j, n)
    BY <1>1, <2>1, <2>3 DEF MarkMined
  <2>4. CASE MarkFinal(j, n)
    <3>1. Irrevocable(j, TRUE)
      BY <2>1, <2>4 DEF MarkFinal, Irrevocable
    <3>2. PICK m \in Nat : m = IF intent[j].state = "MINED" THEN intent[j].mined ELSE n
      BY <1>0, <2>1 DEF Rows
    <3> DEFINE row == [intent[j] EXCEPT !.state = "FINAL", !.mined = m]
    <3>3. intent' = [intent EXCEPT ![j] = row]
      BY <1>0, <2>4, <3>2 DEF MarkFinal
    <3>4. row \in Rows /\ row.nonce = intent[j].nonce /\ row.state = "FINAL"
      BY <1>0 DEF Rows
    <3> HIDE DEF row
    <3> QED
      BY <3>1, <3>3, <3>4
  <2> QED
    BY <1>3, <2>2, <2>3, <2>4
<1>4. MarkOrphaned(j) \/ \E n \in Receipts(j) : MarkFailed(j, n) \/ MarkMined(j, n) \/ MarkFinal(j, n)
  BY DEF Reconcile
<1> QED
  BY <1>0, <1>2, <1>3, <1>4

LEMMA ReconcileStep ==
    ASSUME IInv, NEW j \in Jobs, NEW lagging \in BOOLEAN, Reconcile(j, lagging)
    PROVE  IInv'
<1>1. UNCHANGED <<audit, process, mempool, chain>>
  BY DEF Reconcile
<1>2. /\ process' \in [Processes -> Reads]
      /\ \A q \in Processes : process'[q].job # Idle => process'[q].job \in Prepared
      /\ audit' \in [Jobs -> SUBSET (0 .. MaxFee)] /\ \A i \in Prepared : audit'[i] # {}
  BY <1>1, RowTypes DEF IInv
<1> QED
  BY <1>1, <1>2, ReconcileRow, RowStep

-----------------------------------------------------------------------------
(* Steps of the chain *)

(* A longer chain keeps its blocks; the new one is the last. *)
LEMMA GrowFacts ==
    ASSUME TypeOK, NEW b \in Blocks, Grow(b)
    PROVE  /\ chain' \in Seq(Blocks) /\ Len(chain) \in Nat /\ Len(chain') = Len(chain) + 1
           /\ DOMAIN chain = 1 .. Len(chain) /\ DOMAIN chain' = 1 .. Len(chain) + 1
           /\ \A n \in 1 .. Len(chain) : chain'[n] = chain[n]
           /\ chain'[Len(chain) + 1] = b
<1>1. chain \in Seq(Blocks)
  BY DEF TypeOK, Blocks
<1>2. chain' = Append(chain, b)
  BY DEF Grow
<1> QED
  BY <1>1, <1>2

(* It keeps what the proof needs when the new block takes the next nonce. *)
LEMMA GrowStep ==
    ASSUME IInv, NEW b \in Blocks, Grow(b), UNCHANGED <<intent, audit, process>>,
           b.job # Idle => b.job \in Prepared /\ intent[b.job].nonce = AccountNonce,
           mempool' \subseteq mempool
    PROVE  IInv'
<1> DEFINE L == Len(chain)
<1>0. /\ chain' \in Seq(Blocks) /\ L \in Nat /\ Len(chain') = L + 1
      /\ DOMAIN chain = 1 .. L /\ DOMAIN chain' = 1 .. L + 1
      /\ \A n \in 1 .. L : chain'[n] = chain[n]
      /\ chain'[L + 1] = b
  BY GrowFacts DEF IInv
<1>1. Prepared' = Prepared
  BY DEF Prepared
<1>2. TypeOK'
  <2>1. \A n \in DOMAIN chain' : chain'[n].job # Idle => chain'[n].job \in Prepared
    <3> HIDE DEF L
    <3>1. \A n \in 1 .. L + 1 : n \in 1 .. L \/ n = L + 1
      BY <1>0
    <3>2. \A n \in 1 .. L : chain[n].job # Idle => chain[n].job \in Prepared
      BY <1>0 DEF IInv, TypeOK
    <3> QED
      BY <1>0, <3>1, <3>2
  <2> QED
    BY <1>0, <1>1, <2>1 DEF IInv, TypeOK, Blocks
<1>3. NoncesDense'
  BY <1>1 DEF IInv, NoncesDense
<1>4. MinedInOrder'
  <2>1. ASSUME NEW n \in 0 .. L PROVE Used(n)' = Used(n)
    <3> HIDE DEF L
    <3> QED
      BY <1>0 DEF Used
  <2>2. SUFFICES ASSUME NEW n \in DOMAIN chain', chain'[n].job \in Jobs
                 PROVE  intent[chain'[n].job].nonce = FirstNonce + Cardinality(Used(n - 1)')
    BY DEF MinedInOrder
  <2>3. n - 1 \in 0 .. L
    BY <1>0
  <2>4. Used(n - 1)' = Used(n - 1)
    BY <2>1, <2>3
  <2>5. CASE n \in 1 .. L
    <3>1. chain'[n] = chain[n] /\ n \in DOMAIN chain
      BY <1>0, <2>5
    <3> QED
      BY <2>2, <2>4, <3>1 DEF IInv, MinedInOrder
  <2>6. CASE n = L + 1
    <3>1. b.job # Idle /\ chain'[n] = b
      BY <1>0, <2>2, <2>6, DispatcherConstants
    <3>2. n - 1 = L
      BY <1>0, <2>6
    <3> QED
      BY <2>4, <3>1, <3>2, AccountCounts DEF IInv
  <2> QED
    BY <1>0, <2>5, <2>6
<1>5. EndsTrue'
  <2>1. ASSUME NEW j \in Jobs, NEW ok \in BOOLEAN, Irrevocable(j, ok) PROVE Irrevocable(j, ok)'
    <3>1. PICK n \in Mined(j) : Deep(n) /\ chain[n].ok = ok
      BY <2>1 DEF Irrevocable
    <3>2. n \in 1 .. L /\ chain[n].job = j
      BY <1>0 DEF Mined
    <3>3. n \in Mined(j)' /\ chain'[n].ok = ok
      BY <1>0, <3>1, <3>2 DEF Mined
    <3>4. Deep(n)'
      BY <1>0, <3>1, <3>2, DispatcherConstants DEF Deep, Confirmations
    <3> QED
      BY <3>3, <3>4 DEF Irrevocable
  <2> QED
    BY <2>1 DEF IInv, EndsTrue
<1> QED
  BY <1>2, <1>3, <1>4, <1>5 DEF IInv

LEMMA NoTxIsBlock == NoTx \in Blocks /\ NoTx.job = Idle
<1>1. 0 \in 0 .. MaxFee
  BY DispatcherConstants
<1> QED
  BY <1>1 DEF NoTx, Blocks

(* The block a transaction of the mempool is mined in. *)
LEMMA MineBlock ==
    ASSUME TypeOK, NEW tx \in mempool, NEW ok \in BOOLEAN
    PROVE  /\ [job |-> tx.job, fee |-> tx.fee, ok |-> ok] \in Blocks
           /\ tx.job \in Prepared /\ tx.job \in Jobs
<1>1. tx \in Signed /\ tx.job \in Prepared
  BY DEF TypeOK
<1>2. tx.job \in Jobs /\ tx.fee \in 0 .. MaxFee
  BY <1>1 DEF Signed
<1> QED
  BY <1>1, <1>2 DEF Blocks

LEMMA MineStep ==
    ASSUME IInv, NEW tx \in mempool, NEW ok \in BOOLEAN, Mine(tx, ok)
    PROVE  IInv'
<1> DEFINE b == [job |-> tx.job, fee |-> tx.fee, ok |-> ok]
<1>1. b \in Blocks /\ tx.job \in Prepared /\ b.job = tx.job
  BY MineBlock DEF IInv
<1>2. /\ Grow(b) /\ UNCHANGED <<intent, audit, process>>
      /\ intent[tx.job].nonce = AccountNonce /\ mempool' \subseteq mempool
  BY DEF Mine
<1> HIDE DEF b
<1> QED
  BY <1>1, <1>2, GrowStep

LEMMA EmptyBlockStep ==
    ASSUME IInv, EmptyBlock
    PROVE  IInv'
<1>1. Grow(NoTx) /\ UNCHANGED <<intent, audit, process, mempool>>
  BY DEF EmptyBlock
<1> QED
  BY <1>1, NoTxIsBlock, GrowStep

(* A reorg keeps the length and every block below its depth. *)
LEMMA ReorgFacts ==
    ASSUME TypeOK, NEW depth \in 1 .. FinalityDepth - 1, NEW returned, Reorg(depth, returned)
    PROVE  /\ chain' \in Seq(Blocks) /\ Len(chain) \in Nat /\ Len(chain') = Len(chain)
           /\ DOMAIN chain = 1 .. Len(chain) /\ DOMAIN chain' = 1 .. Len(chain)
           /\ \A n \in 1 .. Len(chain) - depth : chain'[n] = chain[n]
           /\ \A n \in Len(chain) - depth + 1 .. Len(chain) : chain'[n] = NoTx
           /\ Len(chain) - depth \in Nat /\ depth \in Nat /\ depth < FinalityDepth
           /\ FinalityDepth \in Nat
<1>0. /\ chain \in Seq(Blocks) /\ Len(chain) \in Nat /\ depth \in Nat /\ depth < FinalityDepth
      /\ FinalityDepth \in Nat /\ DOMAIN chain = 1 .. Len(chain)
  BY DispatcherConstants DEF TypeOK, Blocks
<1>1. PICK keep \in Nat : keep = Len(chain) - depth
  <2>1. Len(chain) - depth >= 0
    BY Zenon DEF Reorg
  <2>2. Len(chain) - depth \in Nat
    BY <1>0, <2>1
  <2> QED
    BY <2>2
<1> DEFINE head == SubSeq(chain, 1, keep)
           tail == [n \in 1 .. depth |-> NoTx]
<1>2. chain' = head \o tail
  BY <1>1 DEF Reorg
<1>3. /\ head \in Seq(Blocks) /\ Len(head) = keep
      /\ \A n \in 1 .. keep : head[n] = chain[n]
  <2>1. keep \in Nat /\ keep <= Len(chain)
    BY <1>0, <1>1
  <2>2. Len(head) = keep /\ \A n \in 1 .. keep : head[n] = chain[n]
    BY <1>0, <2>1
  <2>3. head \in Seq(Blocks)
    BY <1>0, <2>1
  <2> QED
    BY <2>2, <2>3
<1>4. tail \in Seq(Blocks) /\ Len(tail) = depth /\ \A n \in 1 .. depth : tail[n] = NoTx
  BY <1>0, NoTxIsBlock
<1> HIDE DEF head, tail
<1>5. chain' \in Seq(Blocks) /\ Len(chain') = keep + depth
  <2>1. Len(head \o tail) = Len(head) + Len(tail)
    BY <1>3, <1>4
  <2>2. head \o tail \in Seq(Blocks)
    BY <1>3, <1>4
  <2> QED
    BY <1>2, <1>3, <1>4, <2>1, <2>2
<1>6. ASSUME NEW n \in 1 .. keep PROVE chain'[n] = chain[n]
  BY <1>0, <1>2, <1>3, <1>4
<1>7. ASSUME NEW n \in keep + 1 .. keep + depth PROVE chain'[n] = NoTx
  BY <1>0, <1>2, <1>3, <1>4
<1> QED
  BY <1>0, <1>1, <1>5, <1>6, <1>7

(* Below the finality depth a reorg changes nothing. *)
LEMMA ReorgSettled ==
    ASSUME TypeOK, NEW depth \in 1 .. FinalityDepth - 1, NEW returned, Reorg(depth, returned),
           NEW j \in Jobs, NEW ok \in BOOLEAN
    PROVE  Irrevocable(j, ok)' <=> Irrevocable(j, ok)
<1> DEFINE L == Len(chain)
<1>0. /\ L \in Nat /\ Len(chain') = L /\ DOMAIN chain = 1 .. L /\ DOMAIN chain' = 1 .. L
      /\ \A n \in 1 .. L - depth : chain'[n] = chain[n]
      /\ L - depth \in Nat /\ depth \in Nat /\ depth < FinalityDepth /\ FinalityDepth \in Nat
  BY ReorgFacts
<1>1. ASSUME NEW n \in 1 .. L, L - n + 1 >= FinalityDepth PROVE n \in 1 .. L - depth
  BY <1>0, <1>1
<1>2. ASSUME Irrevocable(j, ok) PROVE Irrevocable(j, ok)'
  <2>1. PICK n \in Mined(j) : Deep(n) /\ chain[n].ok = ok
    BY <1>2 DEF Irrevocable
  <2>2. n \in 1 .. L /\ chain[n].job = j /\ L - n + 1 >= FinalityDepth
    BY <1>0, <2>1 DEF Mined, Deep, Confirmations
  <2>3. chain'[n] = chain[n]
    BY <1>0, <1>1, <2>2
  <2>4. n \in Mined(j)' /\ Deep(n)' /\ chain'[n].ok = ok
    BY <1>0, <2>1, <2>2, <2>3 DEF Mined, Deep, Confirmations
  <2> QED
    BY <2>4 DEF Irrevocable
<1>3. ASSUME Irrevocable(j, ok)' PROVE Irrevocable(j, ok)
  <2>1. PICK n \in Mined(j)' : Deep(n)' /\ chain'[n].ok = ok
    BY <1>3 DEF Irrevocable
  <2>2. n \in 1 .. L /\ chain'[n].job = j /\ L - n + 1 >= FinalityDepth
    BY <1>0, <2>1 DEF Mined, Deep, Confirmations
  <2>3. chain'[n] = chain[n]
    BY <1>0, <1>1, <2>2
  <2>4. n \in Mined(j) /\ Deep(n) /\ chain[n].ok = ok
    BY <1>0, <2>1, <2>2, <2>3 DEF Mined, Deep, Confirmations
  <2> QED
    BY <2>4 DEF Irrevocable
<1> QED
  BY <1>2, <1>3

LEMMA ReorgStep ==
    ASSUME IInv, NEW depth \in 1 .. FinalityDepth - 1, NEW returned \in SUBSET Signed,
           Reorg(depth, returned)
    PROVE  IInv'
<1> DEFINE L == Len(chain)
<1>0. /\ chain' \in Seq(Blocks) /\ L \in Nat /\ Len(chain') = L
      /\ DOMAIN chain = 1 .. L /\ DOMAIN chain' = 1 .. L
      /\ \A n \in 1 .. L - depth : chain'[n] = chain[n]
      /\ \A n \in L - depth + 1 .. L : chain'[n] = NoTx
      /\ L - depth \in Nat /\ depth \in Nat
  BY ReorgFacts DEF IInv
<1>1. Prepared' = Prepared /\ UNCHANGED <<intent, audit, process>>
  BY DEF Prepared, Reorg
<1>2. \A n \in 1 .. L : chain'[n].job # Idle => n \in 1 .. L - depth
  <2> HIDE DEF L
  <2> QED
    BY <1>0, NoTxIsBlock
<1>3. TypeOK'
  <2>1. mempool' \subseteq Signed
    BY DEF Reorg, IInv, TypeOK
  <2>2. \A tx \in mempool' : tx.job \in Prepared
    <3>1. SUFFICES ASSUME NEW tx \in returned PROVE tx.job \in Prepared
      BY DEF Reorg, IInv, TypeOK
    <3>2. PICK n \in L - depth + 1 .. L :
             chain[n].job \in Jobs /\ tx = [job |-> chain[n].job, fee |-> chain[n].fee]
      BY DEF Reorg
    <3>3. n \in DOMAIN chain
      BY <1>0
    <3>4. chain[n].job \in Prepared
      BY <3>2, <3>3, DispatcherConstants DEF IInv, TypeOK
    <3> QED
      BY <3>2, <3>4
  <2>3. \A n \in DOMAIN chain' : chain'[n].job # Idle => chain'[n].job \in Prepared
    <3>1. \A n \in 1 .. L - depth : n \in DOMAIN chain
      BY <1>0
    <3> QED
      BY <1>0, <1>2, <3>1 DEF IInv, TypeOK
  <2> QED
    BY <1>0, <1>1, <2>1, <2>2, <2>3 DEF IInv, TypeOK, Blocks
<1>4. NoncesDense'
  BY <1>1 DEF IInv, NoncesDense
<1>5. MinedInOrder'
  <2>1. ASSUME NEW n \in 0 .. L - depth PROVE Used(n)' = Used(n)
    <3> HIDE DEF L
    <3> QED
      BY <1>0 DEF Used
  <2>2. SUFFICES ASSUME NEW n \in DOMAIN chain', chain'[n].job \in Jobs
                 PROVE  intent[chain'[n].job].nonce = FirstNonce + Cardinality(Used(n - 1)')
    BY <1>1 DEF MinedInOrder
  <2>3. n \in 1 .. L - depth
    BY <1>0, <1>2, <2>2, DispatcherConstants
  <2>4. n - 1 \in 0 .. L - depth /\ n \in DOMAIN chain /\ chain'[n] = chain[n]
    BY <1>0, <2>3
  <2>5. Used(n - 1)' = Used(n - 1)
    BY <2>1, <2>4
  <2> QED
    BY <2>2, <2>4, <2>5 DEF IInv, MinedInOrder
<1>6. EndsTrue'
  BY <1>1, ReorgSettled DEF IInv, EndsTrue
<1> QED
  BY <1>3, <1>4, <1>5, <1>6 DEF IInv

-----------------------------------------------------------------------------
(* The invariant and its consequences *)

LEMMA InitInv == Init => IInv
<1> SUFFICES ASSUME Init PROVE IInv
  OBVIOUS
<1>0. 0 \in 0 .. MaxFee
  BY DispatcherConstants
<1>1. Prepared = {}
  BY DEF Init, Prepared, NoIntent
<1>2. TypeOK
  <2>1. [job |-> Idle, fee |-> 0, answered |-> FALSE] \in Reads
    BY Forgotten
  <2>2. process \in [Processes -> Reads] /\ \A p \in Processes : process[p].job = Idle
    BY <2>1 DEF Init
  <2>3. NoIntent \in Rows
    BY <1>0 DEF NoIntent, Rows
  <2>4. intent \in [Jobs -> Rows]
    BY <2>3 DEF Init
  <2>5. chain = <<>> /\ mempool = {} /\ audit \in [Jobs -> SUBSET (0 .. MaxFee)]
    BY DEF Init
  <2> QED
    BY <1>1, <2>2, <2>4, <2>5 DEF TypeOK, Rows, Reads, Signed
<1>3. NoncesDense
  <2>1. Cardinality(Prepared) = 0
    BY <1>1, FS_EmptySet
  <2>2. FirstNonce .. FirstNonce + 0 - 1 = {}
    BY DispatcherConstants
  <2> QED
    BY <1>1, <2>1, <2>2 DEF NoncesDense
<1>4. MinedInOrder
  BY DEF Init, MinedInOrder
<1>5. EndsTrue
  BY DEF Init, EndsTrue, NoIntent
<1> QED
  BY <1>2, <1>3, <1>4, <1>5 DEF IInv

(* Every step keeps the invariant. *)
LEMMA NextInv == IInv /\ [Next]_vars => IInv'
<1> SUFFICES ASSUME IInv, [Next]_vars PROVE IInv'
  OBVIOUS
<1>1. ASSUME NEW j \in Jobs, Prepare(j) PROVE IInv'
  BY <1>1, PrepareStep
<1>2. ASSUME NEW j \in Jobs, FeeBump(j) PROVE IInv'
  BY <1>2, FeeBumpStep
<1>3. ASSUME NEW p \in Processes, NEW j \in Jobs, ReadForBroadcast(p, j) PROVE IInv'
  BY <1>3, ReadForBroadcastStep
<1>4. ASSUME NEW p \in Processes, SendRaw(p) PROVE IInv'
  BY <1>4, SendRawStep
<1>5. ASSUME NEW p \in Processes, MarkSent(p) PROVE IInv'
  BY <1>5, MarkSentStep
<1>6. ASSUME NEW p \in Processes, Crash(p) PROVE IInv'
  BY <1>6, CrashStep
<1>7. ASSUME NEW j \in Jobs, NEW lagging \in BOOLEAN, Reconcile(j, lagging) PROVE IInv'
  BY <1>7, ReconcileStep
<1>8. ASSUME NEW tx \in mempool, NEW ok \in BOOLEAN, Mine(tx, ok) PROVE IInv'
  BY <1>8, MineStep
<1>9. CASE EmptyBlock
  BY <1>9, EmptyBlockStep
<1>10. ASSUME NEW depth \in 1 .. FinalityDepth - 1, NEW returned \in SUBSET Signed,
              Reorg(depth, returned)
       PROVE  IInv'
  BY <1>10, ReorgStep
<1>11. CASE UNCHANGED vars
  <2>1. TypeOK'
    BY <1>11 DEF vars, IInv, TypeOK, Prepared
  <2> QED
    BY <1>11, <2>1, IntentsKept DEF vars
<1> QED
  BY <1>1, <1>2, <1>3, <1>4, <1>5, <1>6, <1>7, <1>8, <1>9, <1>10, <1>11, Zenon DEF Next, Signed

(* Rows, signed bytes, the mempool and the chain have their types, and no   *)
(* process sends, no node holds and no block contains a transaction without *)
(* an intent recorded first (prepare stores the hash before any send).      *)
THEOREM TxType == Spec => []TypeOK
<1>1. IInv => TypeOK
  BY DEF IInv
<1> QED
  BY <1>1, InitInv, NextInv, PTL DEF Spec

(* The nonces of a signer's intents are one gapless run without repeats,    *)
(* whatever is unsent, unanswered, replaced or dropped by a reorg when      *)
(* allocate_nonce reads the pending count.                                  *)
THEOREM TxNoncesDense == Spec => []NoncesDense
<1>1. IInv => NoncesDense
  BY DEF IInv
<1> QED
  BY <1>1, InitInv, NextInv, PTL DEF Spec

(* A FINAL or FAILED intent is what the chain holds below the finality      *)
(* depth, and no job has two transactions on the chain, whatever fee bumps, *)
(* late copies and crashes did (reconcile).                                 *)
THEOREM TxOutcomeTrue == Spec => []OutcomeTrue
<1>1. IInv => OutcomeTrue
  BY MinedOnce DEF IInv, EndsTrue, OutcomeTrue
<1> QED
  BY <1>1, InitInv, NextInv, PTL DEF Spec

-----------------------------------------------------------------------------
(* The refinement of SubmitOnce *)

Status == [j \in Jobs |-> StatusOf(j)]
Settled == [j \in Jobs |-> SettledOf(j)]

(* What the job is told and what is settled follow the intents and the      *)
(* chain: equal where those that matter are.                                *)
LEMMA StatusKept ==
    ASSUME NEW j \in Jobs, intent'[j].state = intent[j].state
    PROVE  StatusOf(j)' = StatusOf(j)
  BY DEF StatusOf

LEMMA SettledKept ==
    ASSUME NEW j \in Jobs, \A ok \in BOOLEAN : Irrevocable(j, ok)' <=> Irrevocable(j, ok)
    PROVE  SettledOf(j)' = SettledOf(j)
  BY DEF SettledOf

(* A step that changes neither is a stutter. *)
LEMMA Stutters ==
    ASSUME \A j \in Jobs : intent'[j].state = intent[j].state,
           \A j \in Jobs, ok \in BOOLEAN : Irrevocable(j, ok)' <=> Irrevocable(j, ok)
    PROVE  UNCHANGED <<Status, Settled>>
<1>1. \A j \in Jobs : StatusOf(j)' = StatusOf(j)
  BY StatusKept
<1>2. \A j \in Jobs : SettledOf(j)' = SettledOf(j)
  BY SettledKept
<1> QED
  BY <1>1, <1>2 DEF Status, Settled

(* An end on the chain is one of the two, once mined once. *)
LEMMA OneEnd ==
    ASSUME TypeOK, MinedInOrder, NEW j \in Jobs
    PROVE  ~(Irrevocable(j, TRUE) /\ Irrevocable(j, FALSE))
  BY MinedOnce DEF Irrevocable

LEMMA RequestStep ==
    ASSUME IInv, NEW j \in Jobs, Prepare(j)
    PROVE  Once!Next
<1>1. \A i \in Jobs \ {j} : intent'[i].state = intent[i].state
  BY RowTypes DEF IInv, Prepare, NewIntent
<1>2. intent[j].state = "NONE" /\ intent'[j].state = "PREPARED" /\ UNCHANGED chain
  BY RowTypes DEF IInv, Prepare, NewIntent
<1>3. StatusOf(j) = "NONE" /\ StatusOf(j)' = "PENDING"
  BY <1>2 DEF StatusOf
<1>4. Status' = [Status EXCEPT ![j] = "PENDING"]
  <2>1. \A i \in Jobs \ {j} : StatusOf(i)' = StatusOf(i)
    BY <1>1, StatusKept
  <2> QED
    BY <1>3, <2>1 DEF Status
<1>5. Settled' = Settled
  BY <1>2, ChainKept, SettledKept DEF Settled
<1>6. Once!Request(j)
  BY <1>3, <1>4, <1>5 DEF Once!Request, Status, Settled
<1> QED
  BY <1>6 DEF Once!Next

(* Reconcile reports what is settled. *)
LEMMA ReportStep ==
    ASSUME IInv, NEW j \in Jobs, NEW lagging \in BOOLEAN, Reconcile(j, lagging)
    PROVE  Once!Next \/ UNCHANGED <<Status, Settled>>
<1>1. PICK row \in Rows :
         /\ intent' = [intent EXCEPT ![j] = row]
         /\ row.state \in {"ORPHANED", "MINED", "FINAL", "FAILED"}
         /\ row.state = "FINAL" => Irrevocable(j, TRUE)
         /\ row.state = "FAILED" => Irrevocable(j, FALSE)
  BY ReconcileRow
<1>2. /\ intent'[j] = row /\ \A i \in Jobs \ {j} : intent'[i] = intent[i]
      /\ intent[j].state \in LiveStates /\ UNCHANGED chain
  BY <1>1, RowTypes DEF IInv, Reconcile
<1>3. Settled' = Settled
  BY <1>2, ChainKept, SettledKept DEF Settled
<1>4. StatusOf(j) = "PENDING"
  BY <1>2 DEF StatusOf, LiveStates
<1>5. \A i \in Jobs \ {j} : StatusOf(i)' = StatusOf(i)
  BY <1>2, StatusKept
<1>6. CASE row.state \in {"ORPHANED", "MINED"}
  <2>1. StatusOf(j)' = "PENDING"
    BY <1>2, <1>6 DEF StatusOf
  <2>2. Status' = Status
    BY <1>4, <1>5, <2>1 DEF Status
  <2> QED
    BY <1>3, <2>2
<1>7. CASE row.state \in {"FINAL", "FAILED"}
  <2>1. StatusOf(j)' = SettledOf(j) /\ SettledOf(j) # "NO"
    <3>1. CASE row.state = "FINAL"
      BY <1>1, <1>2, <3>1 DEF StatusOf, SettledOf
    <3>2. CASE row.state = "FAILED"
      <4>1. Irrevocable(j, FALSE) /\ ~Irrevocable(j, TRUE)
        BY <1>1, <3>2, OneEnd DEF IInv
      <4> QED
        BY <1>2, <3>2, <4>1 DEF StatusOf, SettledOf
    <3> QED
      BY <1>7, <3>1, <3>2
  <2>2. Status' = [Status EXCEPT ![j] = SettledOf(j)]
    BY <1>5, <2>1 DEF Status
  <2>3. Once!Report(j)
    BY <1>3, <1>4, <2>1, <2>2 DEF Once!Report, Status, Settled
  <2> QED
    BY <2>3 DEF Once!Next
<1> QED
  BY <1>1, <1>6, <1>7

(* A job is mined once after a step, too. *)
LEMMA MinedOnceNow ==
    TypeOK /\ MinedInOrder => \A j \in Jobs : \A m, n \in Mined(j) : m = n
  BY MinedOnce

LEMMA MinedOnceThen ==
    (TypeOK /\ MinedInOrder => \A j \in Jobs : \A m, n \in Mined(j) : m = n)'
  BY MinedOnceNow, PTL

(* One block more makes at most one block final: the job whose transaction  *)
(* it holds is settled, for the first time.                                 *)
LEMMA SettleStep ==
    ASSUME IInv, IInv', NEW b \in Blocks, Grow(b), UNCHANGED intent
    PROVE  Once!Next \/ UNCHANGED <<Status, Settled>>
<1> DEFINE L == Len(chain)
<1>0. /\ L \in Nat /\ Len(chain') = L + 1 /\ FinalityDepth \in Nat /\ FinalityDepth >= 1
      /\ DOMAIN chain = 1 .. L /\ DOMAIN chain' = 1 .. L + 1
      /\ \A n \in 1 .. L : chain'[n] = chain[n]
  BY GrowFacts, DispatcherConstants DEF IInv
<1>d. PICK d \in Int : d = L + 2 - FinalityDepth
  BY <1>0
<1>1. ASSUME NEW n \in 1 .. L + 1, n # d
      PROVE  (L + 1) - n + 1 >= FinalityDepth <=> n \in 1 .. L /\ L - n + 1 >= FinalityDepth
  BY <1>0, <1>d, <1>1
<1>2. ASSUME NEW j \in Jobs, NEW ok \in BOOLEAN,
             ~(d \in DOMAIN chain' /\ chain'[d].job = j)
      PROVE  Irrevocable(j, ok)' <=> Irrevocable(j, ok)
  <2>1. ASSUME Irrevocable(j, ok) PROVE Irrevocable(j, ok)'
    <3>1. PICK n \in Mined(j) : Deep(n) /\ chain[n].ok = ok
      BY <2>1 DEF Irrevocable
    <3>2. n \in 1 .. L /\ chain[n].job = j /\ L - n + 1 >= FinalityDepth
      BY <1>0, <3>1 DEF Mined, Deep, Confirmations
    <3>3. chain'[n] = chain[n] /\ n \in 1 .. L + 1 /\ (L + 1) - n + 1 >= FinalityDepth
      BY <1>0, <3>2
    <3>4. n \in Mined(j)' /\ Deep(n)' /\ chain'[n].ok = ok
      BY <1>0, <3>1, <3>2, <3>3 DEF Mined, Deep, Confirmations
    <3> QED
      BY <3>4 DEF Irrevocable
  <2>2. ASSUME Irrevocable(j, ok)' PROVE Irrevocable(j, ok)
    <3>1. PICK n \in Mined(j)' : Deep(n)' /\ chain'[n].ok = ok
      BY <2>2 DEF Irrevocable
    <3>2. n \in 1 .. L + 1 /\ chain'[n].job = j /\ (L + 1) - n + 1 >= FinalityDepth
      BY <1>0, <3>1 DEF Mined, Deep, Confirmations
    <3>3. n # d
      BY <1>0, <1>2, <3>2
    <3>4. n \in 1 .. L /\ L - n + 1 >= FinalityDepth
      BY <1>1, <3>2, <3>3
    <3>5. n \in Mined(j) /\ Deep(n) /\ chain[n].ok = ok
      BY <1>0, <3>1, <3>2, <3>4 DEF Mined, Deep, Confirmations
    <3> QED
      BY <3>5 DEF Irrevocable
  <2> QED
    BY <2>1, <2>2
<1>3. Status' = Status
  BY StatusKept DEF Status
<1>4. CASE ~(d \in DOMAIN chain' /\ chain'[d].job \in Jobs)
  <2>1. \A j \in Jobs, ok \in BOOLEAN : Irrevocable(j, ok)' <=> Irrevocable(j, ok)
    BY <1>2, <1>4
  <2> QED
    BY <2>1, Stutters
<1>5. CASE d \in DOMAIN chain' /\ chain'[d].job \in Jobs
  <2>1. PICK j \in Jobs : j = chain'[d].job
    BY <1>5
  <2>2. d \in Mined(j)' /\ Deep(d)'
    <3>1. (L + 1) - d + 1 >= FinalityDepth
      BY <1>0, <1>d
    <3> QED
      BY <1>0, <1>5, <2>1, <3>1 DEF Mined, Deep, Confirmations
  <2>3. \A n \in Mined(j)' : n = d
    BY <2>2, MinedOnceThen DEF IInv
  <2>4. \A ok \in BOOLEAN : ~Irrevocable(j, ok)
    <3>1. SUFFICES ASSUME NEW n \in Mined(j), Deep(n) PROVE FALSE
      BY DEF Irrevocable
    <3>2. n \in 1 .. L /\ L - n + 1 >= FinalityDepth /\ chain'[n].job = j
      BY <1>0, <3>1 DEF Mined, Deep, Confirmations
    <3>3. n \in Mined(j)'
      BY <1>0, <3>2 DEF Mined
    <3>4. n = d
      BY <2>3, <3>3
    <3> QED
      BY <1>0, <1>d, <3>2, <3>4
  <2>5. SettledOf(j) = "NO"
    BY <2>4 DEF SettledOf
  <2>6. StatusOf(j) = "PENDING"
    <3>1. chain'[d].job \in Prepared'
      BY <1>5, DispatcherConstants DEF IInv, TypeOK
    <3>2. intent[j].state # "NONE"
      BY <2>1, <3>1 DEF Prepared
    <3>3. intent[j].state \notin {"FINAL", "FAILED"}
      BY <2>4 DEF IInv, EndsTrue
    <3> QED
      BY <3>2, <3>3 DEF StatusOf
  <2>7. SettledOf(j)' \in {"DONE", "REVERTED"}
    <3>1. chain'[d] \in Blocks
      BY <1>5, GrowFacts DEF IInv
    <3>2. chain'[d].ok \in BOOLEAN
      BY <3>1 DEF Blocks
    <3>3. Irrevocable(j, TRUE)' \/ Irrevocable(j, FALSE)'
      BY <2>2, <3>2 DEF Irrevocable
    <3> QED
      BY <3>3 DEF SettledOf
  <2>8. \A i \in Jobs \ {j} : SettledOf(i)' = SettledOf(i)
    BY <1>2, <2>1, SettledKept
  <2>9. PICK end \in {"DONE", "REVERTED"} : end = SettledOf(j)'
    BY <2>7
  <2>10. Settled' = [Settled EXCEPT ![j] = end]
    BY <2>8, <2>9 DEF Settled
  <2>11. Once!Settle(j)
    BY <1>3, <2>5, <2>6, <2>10 DEF Once!Settle, Status, Settled
  <2> QED
    BY <2>11 DEF Once!Next
<1> QED
  BY <1>4, <1>5

(* Steps of the dispatcher that no job hears of. *)
LEMMA QuietStep ==
    ASSUME UNCHANGED chain, \A j \in Jobs : StatusOf(j)' = StatusOf(j)
    PROVE  UNCHANGED <<Status, Settled>>
<1>1. Settled' = Settled
  BY ChainKept, SettledKept DEF Settled
<1> QED
  BY <1>1 DEF Status

LEMMA RefinesInit == Init => Once!Init
<1> SUFFICES ASSUME Init PROVE Once!Init
  OBVIOUS
<1>1. \A j \in Jobs : StatusOf(j) = "NONE"
  BY DEF Init, StatusOf, NoIntent
<1>2. \A j \in Jobs : SettledOf(j) = "NO"
  BY DEF Init, SettledOf, Irrevocable, Mined
<1> QED
  BY <1>1, <1>2 DEF Once!Init

LEMMA RefinesNext == IInv /\ IInv' /\ [Next]_vars => Once!Next \/ UNCHANGED <<Status, Settled>>
<1> SUFFICES ASSUME IInv, IInv', [Next]_vars PROVE Once!Next \/ UNCHANGED <<Status, Settled>>
  OBVIOUS
<1>0. intent \in [Jobs -> Rows]
  BY RowTypes DEF IInv
<1>1. ASSUME NEW j \in Jobs, Prepare(j) PROVE Once!Next
  BY <1>1, RequestStep
<1>2. ASSUME NEW j \in Jobs, FeeBump(j) PROVE UNCHANGED <<Status, Settled>>
  <2>1. /\ intent[j].state \in {"PREPARED", "SENT"} /\ UNCHANGED chain
        /\ intent'[j].state = "PREPARED" /\ \A i \in Jobs \ {j} : intent'[i] = intent[i]
    BY <1>0, <1>2 DEF FeeBump, Rows
  <2>2. StatusOf(j)' = StatusOf(j)
    BY <2>1 DEF StatusOf
  <2>3. \A i \in Jobs \ {j} : StatusOf(i)' = StatusOf(i)
    BY <2>1, StatusKept
  <2> QED
    BY <2>1, <2>2, <2>3, QuietStep
<1>3. ASSUME UNCHANGED <<intent, chain>> PROVE UNCHANGED <<Status, Settled>>
  BY <1>3, StatusKept, QuietStep
<1>4. ASSUME NEW p \in Processes, MarkSent(p) PROVE UNCHANGED <<Status, Settled>>
  <2> DEFINE j == process[p].job
  <2>1. UNCHANGED chain
    BY <1>4 DEF MarkSent
  <2>2. ASSUME NEW i \in Jobs PROVE StatusOf(i)' = StatusOf(i)
    <3>1. \/ intent'[i].state = intent[i].state
          \/ intent[i].state \in {"PREPARED", "SENT"} /\ intent'[i].state = "SENT"
      <4>1. CASE intent' = intent
        BY <4>1
      <4>2. CASE /\ intent[j].state \in {"PREPARED", "SENT"}
                 /\ intent' = [intent EXCEPT ![j].state = "SENT"]
        <5> HIDE DEF j
        <5>1. intent[i] \in Rows
          BY <1>0
        <5>2. CASE i = j
          BY <1>0, <4>2, <5>1, <5>2 DEF Rows
        <5>3. CASE i # j
          BY <1>0, <4>2, <5>3
        <5> QED
          BY <5>2, <5>3
      <4> QED
        BY <1>4, <4>1, <4>2 DEF MarkSent
    <3> QED
      BY <3>1 DEF StatusOf
  <2> QED
    BY <2>1, <2>2, QuietStep
<1>5. ASSUME NEW j \in Jobs, NEW lagging \in BOOLEAN, Reconcile(j, lagging)
      PROVE  Once!Next \/ UNCHANGED <<Status, Settled>>
  BY <1>5, ReportStep
<1>6. ASSUME NEW tx \in mempool, NEW ok \in BOOLEAN, Mine(tx, ok)
      PROVE  Once!Next \/ UNCHANGED <<Status, Settled>>
  <2>1. [job |-> tx.job, fee |-> tx.fee, ok |-> ok] \in Blocks
    BY MineBlock DEF IInv
  <2>2. Grow([job |-> tx.job, fee |-> tx.fee, ok |-> ok]) /\ UNCHANGED intent
    BY <1>6 DEF Mine
  <2> QED
    BY <2>1, <2>2, SettleStep
<1>7. ASSUME EmptyBlock PROVE Once!Next \/ UNCHANGED <<Status, Settled>>
  BY <1>7, NoTxIsBlock, SettleStep DEF EmptyBlock
<1>8. ASSUME NEW depth \in 1 .. FinalityDepth - 1, NEW returned \in SUBSET Signed,
             Reorg(depth, returned)
      PROVE  UNCHANGED <<Status, Settled>>
  <2>1. UNCHANGED intent
    BY <1>8 DEF Reorg
  <2>2. \A j \in Jobs, ok \in BOOLEAN : Irrevocable(j, ok)' <=> Irrevocable(j, ok)
    BY <1>8, ReorgSettled DEF IInv
  <2> QED
    BY <2>1, <2>2, Stutters
<1>9. ASSUME NEW p \in Processes, NEW j \in Jobs, ReadForBroadcast(p, j)
      PROVE  UNCHANGED <<Status, Settled>>
  BY <1>3, <1>9 DEF ReadForBroadcast
<1>10. ASSUME NEW p \in Processes, SendRaw(p) \/ Crash(p) PROVE UNCHANGED <<Status, Settled>>
  BY <1>3, <1>10 DEF SendRaw, Crash
<1>11. CASE UNCHANGED vars
  BY <1>3, <1>11 DEF vars
<1> QED
  BY <1>1, <1>2, <1>4, <1>5, <1>6, <1>7, <1>8, <1>9, <1>10, <1>11, Zenon DEF Next, Signed

(* The transaction layer implements SubmitOnce: each job's request is       *)
(* settled by the chain at most once, and what the job is told is what the  *)
(* chain settled, for any number of processes, crashes, replaced fees, lost *)
(* answers and reorgs shorter than the finality depth.                      *)
THEOREM TxSubmitsOnce == Spec => SubmitsOnce
<1>1. Init => Once!Init
  BY RefinesInit
<1>2. IInv /\ IInv' /\ [Next]_vars
        => [Once!Next]_<<[j \in Jobs |-> StatusOf(j)], [j \in Jobs |-> SettledOf(j)]>>
  BY RefinesNext DEF Status, Settled
<1> QED
  BY <1>1, <1>2, InitInv, NextInv, PTL DEF Spec, SubmitsOnce, Once!Spec

-----------------------------------------------------------------------------
(* Settlement legs and cash (CashBook) *)

JobRow == [state : {"none", "PENDING", "RUNNING", "SUCCEEDED", "DEAD"},
           holder : CashWorkers \union {NoLeg}, claims : Nat]

HandRow == [leg : Legs \union {NoLeg},
            pc : {"idle", "start", "send", "ack", "observe", "receipt", "allocate"}, locked : BOOLEAN]

CashRow == [amount : Nat, canonical : BOOLEAN, final : BOOLEAN, repaid : Nat]

LegType ==
    /\ planned \subseteq Legs
    /\ legJob \in [Legs -> JobRow]
    /\ hand \in [CashWorkers -> HandRow]
    /\ partner \in [Legs -> {"none", "SENT", "RECEIVED", "REFUNDED"}]

(* What was sent was planned, within the source. *)
PlansCover ==
    /\ \A l \in Legs : partner[l] # "none" => l \in planned
    /\ Reserved(planned) <= Source

(* The lease is free once the job ended; its holder is about to send only  *)
(* what nobody sent, except behind its back.                               *)
LeaseTrue ==
    /\ \A l \in Legs : legJob[l].state \in {"SUCCEEDED", "DEAD"} => legJob[l].holder = NoLeg
    /\ \A w \in CashWorkers : Holds(w) /\ hand[w].pc = "send" /\ partner[hand[w].leg] # "none" =>
          hand[w].leg \in lateSends

CashType == cash \in [Legs \union Directs -> CashRow]

(* The books repeat the chain: a receipt is what arrived, an allocation    *)
(* what was repaid from it.                                                *)
BooksTrue ==
    /\ \A l \in Legs : partner[l] # "RECEIVED" => cash[l].amount = 0
    /\ \A x \in Legs \union Directs : cash[x].repaid <= cash[x].amount
    /\ DOMAIN receipts \subseteq Legs \union Directs
    /\ \A x \in DOMAIN receipts : receipts[x] = cash[x].amount /\ cash[x].amount > 0
    /\ DOMAIN allocs \subseteq DOMAIN receipts
    /\ \A x \in DOMAIN allocs : allocs[x] = cash[x].repaid /\ cash[x].repaid > 0
    /\ \A w \in CashWorkers : hand[w].leg # NoLeg /\ hand[w].pc = "allocate" => hand[w].leg \in DOMAIN receipts

CashInv == LegType /\ PlansCover /\ LeaseTrue /\ SentIsFollowed /\ CashType /\ BooksTrue /\ LegSettled

LEMMA ReservedNat ==
    ASSUME NEW S \in SUBSET Legs
    PROVE  Reserved(S) \in Nat
  <1>1. IsFiniteSet(S) /\ \A l \in S : LegAmount[l] \in Nat
    BY CashConstants, FS_Subset
  <1> QED
    BY <1>1, SumNat DEF Reserved

LEMMA ReservedMore ==
    ASSUME NEW S \in SUBSET Legs, NEW l \in Legs, l \notin S
    PROVE  Reserved(S \union {l}) = Reserved(S) + LegAmount[l]
  <1>1. IsFiniteSet(S) /\ \A x \in S \union {l} : LegAmount[x] \in Int
    BY CashConstants, FS_Subset
  <1> QED
    BY <1>1, SumExtend DEF Reserved

(* Fewer legs reserve no more. *)
LEMMA ReservedLess ==
    ASSUME NEW S \in SUBSET Legs, NEW T \in SUBSET S
    PROVE  Reserved(T) <= Reserved(S)
  <1> DEFINE f == [l \in S |-> IF l \in T THEN LegAmount[l] ELSE 0]
  <1>1. IsFiniteSet(S) /\ IsFiniteSet(T) /\ \A x \in S : LegAmount[x] \in Nat
    BY CashConstants, FS_Subset
  <1>2. SumFunctionOnSet(f, S) <= SumFunctionOnSet(LegAmount, S)
    <2>1. \A x \in S : f[x] \in Int /\ LegAmount[x] \in Int /\ f[x] <= LegAmount[x]
      BY <1>1
    <2> QED
      BY <1>1, <2>1, SumLeq, Zenon
  <1>3. SumFunctionOnSet(f, S) = SumFunctionOnSet(f, S \intersect T)
    <2>1. (\A x \in S : f[x] \in Int) /\ \A x \in S \ T : f[x] = 0
      BY <1>1
    <2> QED
      BY <1>1, <2>1, SumSupport, Zenon
  <1>4. S \intersect T = T /\ SumFunctionOnSet(f, T) = SumFunctionOnSet(LegAmount, T)
    <2>1. \A x \in T : f[x] = LegAmount[x]
      OBVIOUS
    <2> QED
      BY <1>1, <2>1, SumAgree
  <1> QED
    BY <1>2, <1>3, <1>4 DEF Reserved

LEMMA CashInitInv == CashInit => CashInv
  <1> SUFFICES ASSUME CashInit
               PROVE  CashInv
    OBVIOUS
  <1>1. LegType /\ CashType
    <2>1. NoJob \in JobRow /\ Resting \in HandRow /\ NoCash \in CashRow
      BY DEF NoJob, JobRow, Resting, HandRow, NoCash, CashRow
    <2> QED
      BY <2>1 DEF CashInit, LegType, CashType
  <1>2. PlansCover
    BY SumEmpty, CashConstants DEF CashInit, PlansCover, Reserved
  <1>3. LeaseTrue /\ SentIsFollowed /\ LegSettled
    BY DEF CashInit, LeaseTrue, SentIsFollowed, LegSettled, OutOfHand, Holds, NoJob, Resting
  <1>4. BooksTrue
    BY DEF CashInit, BooksTrue, NoCash, Resting
  <1> QED
    BY <1>1, <1>2, <1>3, <1>4 DEF CashInv

LEMMA CashCovered == CashInv => SourceCovered
  <1> SUFFICES ASSUME CashInv
               PROVE  SourceCovered
    OBVIOUS
  <1>1. planned \in SUBSET Legs /\ OutOfHand(Legs) \in SUBSET planned
    BY DEF CashInv, LegType, PlansCover, OutOfHand
  <1>2. /\ Reserved(OutOfHand(Legs)) <= Reserved(planned)
        /\ Reserved(OutOfHand(Legs)) \in Nat /\ Reserved(planned) \in Nat
    BY <1>1, ReservedLess, ReservedNat
  <1> QED
    BY <1>2, CashConstants DEF CashInv, PlansCover, SourceCovered

(* A worker gives its job back, ends it, or leaves it to whom it is now    *)
(* leased.                                                                 *)
LEMMA OutcomeJobs ==
    ASSUME LegType, NEW w \in CashWorkers, hand[w].leg # NoLeg,
           NEW state \in {"PENDING", "SUCCEEDED", "DEAD"}, Outcome(w, state)
    PROVE  /\ legJob' \in [Legs -> JobRow] /\ hand' \in [CashWorkers -> HandRow]
           /\ hand[w].leg \in Legs
           /\ hand' = [hand EXCEPT ![w] = Resting] /\ hand'[w].leg = NoLeg
           /\ \A v \in CashWorkers \ {w} : hand'[v] = hand[v]
           /\ ~Holds(w) => legJob' = legJob
           /\ Holds(w) => legJob'[hand[w].leg].state = state /\ legJob'[hand[w].leg].holder = NoLeg
           /\ \A l \in Legs \ {hand[w].leg} : legJob'[l] = legJob[l]
  <1>1. hand[w].leg \in Legs /\ Resting \in HandRow /\ Resting.leg = NoLeg
    BY DEF LegType, HandRow, Resting
  <1> PICK k : k = hand[w].leg
    OBVIOUS
  <1>2. CASE Holds(w)
    <2>1. legJob' = [legJob EXCEPT ![k].state = state, ![k].holder = NoLeg]
      BY <1>2 DEF Outcome
    <2>2. PICK row : row = [legJob[k] EXCEPT !.state = state, !.holder = NoLeg]
      OBVIOUS
    <2>3. legJob' = [legJob EXCEPT ![k] = row]
      BY <1>1, <2>1, <2>2 DEF LegType
    <2>4. row \in JobRow /\ row.state = state /\ row.holder = NoLeg
      BY <1>1, <2>2 DEF LegType, JobRow
    <2> QED
      BY <1>1, <1>2, <2>3, <2>4 DEF Outcome, LegType
  <1>3. CASE ~Holds(w)
    BY <1>1, <1>3 DEF Outcome, LegType
  <1> QED
    BY <1>2, <1>3

(* Steps of the jobs that leave books, plans and partner alone. *)
LEMMA QuietLegs ==
    ASSUME CashInv, LegType',
           UNCHANGED <<planned, partner, lateSends, refunded, cash, receipts, allocs>>,
           \A l \in Legs :
              \/ legJob'[l] = legJob[l]
              \/ legJob'[l].state \notin {"SUCCEEDED", "DEAD"},
           \A v \in CashWorkers : Holds(v)' /\ hand'[v].pc = "send" =>
              \/ Holds(v) /\ hand[v].pc = "send" /\ hand'[v].leg = hand[v].leg
              \/ partner[hand'[v].leg] = "none",
           \A v \in CashWorkers : hand'[v].leg # NoLeg /\ hand'[v].pc = "allocate" =>
              hand[v].pc = "allocate" /\ hand'[v].leg = hand[v].leg
    PROVE  CashInv'
  <1>1. PlansCover' /\ CashType'
    BY DEF CashInv, PlansCover, CashType, Reserved
  <1>2. SentIsFollowed'
    BY DEF CashInv, SentIsFollowed, OutOfHand, LegType
  <1>3. LeaseTrue'
    BY DEF CashInv, LeaseTrue
  <1>4. BooksTrue'
    BY DEF CashInv, BooksTrue
  <1>5. LegSettled'
    BY DEF CashInv, LegSettled
  <1> QED
    BY <1>1, <1>2, <1>3, <1>4, <1>5 DEF CashInv

LEMMA EnqueueLegStep ==
    ASSUME CashInv, NEW l \in Legs, Enqueue(l)
    PROVE  CashInv'
  <1>1. UNCHANGED <<hand, partner, lateSends, refunded, cash, receipts, allocs>>
    BY DEF Enqueue, bookVars
  <1>2. /\ planned' = planned \union {l} /\ planned' \in SUBSET Legs
        /\ Reserved(planned') <= Source
    <2>1. planned \in SUBSET Legs /\ Reserved(planned) <= Source /\ planned' = planned \union {l}
      BY DEF Enqueue, CashInv, LegType, PlansCover
    <2>2. CASE l \in planned
      <3>1. planned' = planned
        BY <2>1, <2>2
      <3> QED
        BY <2>1, <3>1
    <2>3. CASE l \notin planned
      <3>1. Reserved(planned') = Reserved(planned) + LegAmount[l]
        BY <2>1, <2>3, ReservedMore
      <3> QED
        BY <2>1, <2>3, <3>1 DEF Enqueue, MayEnqueue, SourceCovers
    <2> QED
      BY <2>2, <2>3
  <1>3. /\ legJob' \in [Legs -> JobRow]
        /\ \A k \in Legs : /\ legJob'[k].holder = legJob[k].holder
                           /\ \/ legJob'[k].state = legJob[k].state
                              \/ legJob'[k].state = "PENDING"
    <2>1. PICK row : row = [legJob[l] EXCEPT !.state = IF @ = "none" THEN "PENDING" ELSE @]
      OBVIOUS
    <2>2. legJob' = [legJob EXCEPT ![l] = row]
      BY <2>1 DEF Enqueue, CashInv, LegType
    <2>3. row \in JobRow /\ row.holder = legJob[l].holder /\ row.state \in {legJob[l].state, "PENDING"}
      BY <2>1 DEF CashInv, LegType, JobRow
    <2> QED
      BY <2>2, <2>3 DEF CashInv, LegType
  <1>4. LegType' /\ PlansCover' /\ CashType' /\ BooksTrue'
    BY <1>1, <1>2, <1>3 DEF CashInv, LegType, PlansCover, CashType, BooksTrue
  <1>5. LeaseTrue'
    <2>1. \A v \in CashWorkers : Holds(v)' => Holds(v)
      BY <1>1, <1>3 DEF Holds, CashInv, LegType, HandRow
    <2> QED
      BY <1>1, <1>3, <2>1 DEF CashInv, LeaseTrue
  <1>6. SentIsFollowed' /\ LegSettled'
    BY <1>1, <1>3 DEF CashInv, SentIsFollowed, OutOfHand, LegSettled
  <1> QED
    BY <1>4, <1>5, <1>6 DEF CashInv

LEMMA ClaimLegStep ==
    ASSUME CashInv, NEW w \in CashWorkers, NEW l \in Legs, ClaimLeg(w, l)
    PROVE  CashInv'
  <1>1. PICK row : row = [state |-> "RUNNING", holder |-> w, claims |-> legJob[l].claims + 1]
    OBVIOUS
  <1>2. PICK h : h = [leg |-> l, pc |-> "start", locked |-> FALSE]
    OBVIOUS
  <1>3. row \in JobRow /\ row.state = "RUNNING" /\ h \in HandRow /\ h.leg = l /\ h.pc = "start"
    BY <1>1, <1>2 DEF JobRow, HandRow, CashInv, LegType
  <1>4. legJob' = [legJob EXCEPT ![l] = row] /\ hand' = [hand EXCEPT ![w] = h]
    BY <1>1, <1>2 DEF ClaimLeg
  <1>5. UNCHANGED <<planned, partner, lateSends, refunded, cash, receipts, allocs>>
    BY DEF ClaimLeg, bookVars
  <1>6. LegType'
    BY <1>3, <1>4, <1>5 DEF CashInv, LegType
  <1>7. \A k \in Legs : legJob'[k] = legJob[k] \/ legJob'[k].state \notin {"SUCCEEDED", "DEAD"}
    BY <1>3, <1>4 DEF CashInv, LegType
  <1>8. ASSUME NEW v \in CashWorkers, Holds(v)', hand'[v].pc = "send"
        PROVE  Holds(v) /\ hand[v].pc = "send" /\ hand'[v].leg = hand[v].leg
    <2>1. v # w /\ hand'[v] = hand[v]
      BY <1>3, <1>4, <1>8 DEF CashInv, LegType
    <2>2. hand[v].leg # NoLeg /\ hand[v].leg \in Legs /\ legJob'[hand[v].leg].holder = v
      BY <1>8, <2>1 DEF Holds, CashInv, LegType, HandRow
    <2>3. hand[v].leg # l
      BY <1>1, <1>4, <2>1, <2>2 DEF CashInv, LegType
    <2> QED
      BY <1>4, <1>8, <2>1, <2>2, <2>3 DEF Holds, CashInv, LegType
  <1>9. \A v \in CashWorkers : hand'[v].leg # NoLeg /\ hand'[v].pc = "allocate" =>
           hand[v].pc = "allocate" /\ hand'[v].leg = hand[v].leg
    BY <1>3, <1>4 DEF CashInv, LegType
  <1> QED
    BY <1>5, <1>6, <1>7, <1>8, <1>9, QuietLegs

LEMMA GoToHand ==
    ASSUME LegType, NEW w \in CashWorkers, hand[w].leg # NoLeg,
           NEW pc \in {"start", "send", "ack", "observe", "receipt", "allocate"}, GoTo(w, pc)
    PROVE  /\ hand' \in [CashWorkers -> HandRow] /\ hand[w].leg \in Legs
           /\ hand'[w].leg = hand[w].leg /\ hand'[w].pc = pc
           /\ \A v \in CashWorkers \ {w} : hand'[v] = hand[v]
  <1>1. PICK h : h = [hand[w] EXCEPT !.pc = pc]
    OBVIOUS
  <1>2. hand' = [hand EXCEPT ![w] = h]
    BY <1>1 DEF GoTo, LegType
  <1>3. h \in HandRow /\ h.leg = hand[w].leg /\ h.pc = pc
    BY <1>1 DEF LegType, HandRow
  <1> QED
    BY <1>2, <1>3 DEF LegType, HandRow

(* A worker goes on to a step that neither sends nor allocates, or to the  *)
(* send of a leg the partner does not know.                                *)
LEMMA GoOn ==
    ASSUME CashInv, NEW w \in CashWorkers, hand[w].leg # NoLeg,
           NEW pc \in {"send", "ack", "observe", "receipt"}, GoTo(w, pc),
           pc = "send" => partner[hand[w].leg] = "none",
           UNCHANGED <<planned, legJob, partner, lateSends, refunded, cash, receipts, allocs>>
    PROVE  CashInv'
  <1>1. /\ hand' \in [CashWorkers -> HandRow]
        /\ hand'[w].leg = hand[w].leg /\ hand'[w].pc = pc
        /\ \A v \in CashWorkers \ {w} : hand'[v] = hand[v]
    BY GoToHand DEF CashInv
  <1>2. LegType'
    BY <1>1 DEF CashInv, LegType
  <1>3. \A v \in CashWorkers : Holds(v)' /\ hand'[v].pc = "send" =>
              \/ Holds(v) /\ hand[v].pc = "send" /\ hand'[v].leg = hand[v].leg
              \/ partner[hand'[v].leg] = "none"
    BY <1>1 DEF Holds
  <1>4. \A v \in CashWorkers : hand'[v].leg # NoLeg /\ hand'[v].pc = "allocate" =>
              hand[v].pc = "allocate" /\ hand'[v].leg = hand[v].leg
    BY <1>1
  <1> QED
    BY <1>2, <1>3, <1>4, QuietLegs

(* A worker stops and its job waits for another. *)
LEMMA GiveBack ==
    ASSUME CashInv, NEW w \in CashWorkers, hand[w].leg # NoLeg, Retry(w),
           UNCHANGED <<planned, partner, lateSends, refunded, cash, receipts, allocs>>
    PROVE  CashInv'
  <1>1. PICK state : state = "PENDING"
    OBVIOUS
  <1>2. LegType /\ state \in {"PENDING", "SUCCEEDED", "DEAD"} /\ Outcome(w, state)
    BY <1>1 DEF Retry, CashInv
  <1>3. /\ legJob' \in [Legs -> JobRow] /\ hand' \in [CashWorkers -> HandRow]
        /\ hand[w].leg \in Legs
        /\ hand'[w].leg = NoLeg
        /\ \A v \in CashWorkers \ {w} : hand'[v] = hand[v]
        /\ ~Holds(w) => legJob' = legJob
        /\ Holds(w) => legJob'[hand[w].leg].state = state /\ legJob'[hand[w].leg].holder = NoLeg
        /\ \A l \in Legs \ {hand[w].leg} : legJob'[l] = legJob[l]
    BY <1>2, OutcomeJobs
  <1>4. LegType'
    BY <1>3 DEF CashInv, LegType
  <1>5. \A l \in Legs : legJob'[l] = legJob[l] \/ legJob'[l].state \notin {"SUCCEEDED", "DEAD"}
    BY <1>1, <1>3
  <1>6. ASSUME NEW v \in CashWorkers, Holds(v)', hand'[v].pc = "send"
        PROVE  Holds(v) /\ hand[v].pc = "send" /\ hand'[v].leg = hand[v].leg
    <2>1. v # w /\ hand'[v] = hand[v] /\ hand[v].leg \in Legs
      BY <1>3, <1>6 DEF Holds, CashInv, LegType, HandRow
    <2>2. v # NoLeg
      BY CashConstants DEF NoLeg
    <2> QED
      BY <1>3, <1>6, <2>1, <2>2 DEF Holds
  <1>7. \A v \in CashWorkers : hand'[v].leg # NoLeg /\ hand'[v].pc = "allocate" =>
              hand[v].pc = "allocate" /\ hand'[v].leg = hand[v].leg
    BY <1>3
  <1> QED
    BY <1>4, <1>5, <1>6, <1>7, QuietLegs

LEMMA HandlerSteps ==
    ASSUME CashInv, NEW w \in CashWorkers, LegCrash(w) \/ Start(w) \/ Acknowledge(w)
    PROVE  CashInv'
  <1>1. CASE LegCrash(w)
    <2>1. /\ hand' = [hand EXCEPT ![w] = Resting]
          /\ UNCHANGED <<planned, legJob, partner, lateSends, refunded, cash, receipts, allocs>>
      BY <1>1 DEF LegCrash, bookVars
    <2>2. Resting \in HandRow /\ Resting.leg = NoLeg
      BY DEF Resting, HandRow
    <2>3. LegType' /\ hand'[w].leg = NoLeg /\ \A v \in CashWorkers \ {w} : hand'[v] = hand[v]
      BY <2>1, <2>2 DEF CashInv, LegType
    <2> QED
      BY <2>1, <2>3, QuietLegs DEF Holds
  <1>2. CASE Start(w)
    <2>1. /\ hand[w].leg # NoLeg
          /\ UNCHANGED <<planned, legJob, partner, lateSends, refunded, cash, receipts, allocs>>
      BY <1>2 DEF Start, AtStep, bookVars
    <2>2. PICK pc \in {"send", "ack", "observe"} : GoTo(w, pc) /\ (pc = "send" => partner[hand[w].leg] = "none")
      BY <1>2 DEF Start
    <2> QED
      BY <2>1, <2>2, GoOn
  <1>3. CASE Acknowledge(w)
    <2>1. /\ hand[w].leg # NoLeg /\ GoTo(w, "observe")
          /\ UNCHANGED <<planned, legJob, partner, lateSends, refunded, cash, receipts, allocs>>
      BY <1>3 DEF Acknowledge, AtStep, bookVars
    <2> QED
      BY <2>1, GoOn
  <1> QED
    BY <1>1, <1>2, <1>3


(* Giving a leg up: its job is dead only if nobody sent it under a lease. *)
LEMMA GiveUpStep ==
    ASSUME CashInv, NEW w \in CashWorkers, hand[w].leg # NoLeg, hand[w].pc = "send", Outcome(w, "DEAD"),
           UNCHANGED <<planned, partner, lateSends, refunded, cash, receipts, allocs>>
    PROVE  CashInv'
  <1>1. PICK state : state = "DEAD"
    OBVIOUS
  <1>2. LegType /\ state \in {"PENDING", "SUCCEEDED", "DEAD"} /\ Outcome(w, state)
    BY <1>1 DEF CashInv
  <1>3. /\ legJob' \in [Legs -> JobRow] /\ hand' \in [CashWorkers -> HandRow]
        /\ hand[w].leg \in Legs
        /\ hand'[w].leg = NoLeg
        /\ \A v \in CashWorkers \ {w} : hand'[v] = hand[v]
        /\ ~Holds(w) => legJob' = legJob
        /\ Holds(w) => legJob'[hand[w].leg].state = state /\ legJob'[hand[w].leg].holder = NoLeg
        /\ \A l \in Legs \ {hand[w].leg} : legJob'[l] = legJob[l]
    BY <1>2, OutcomeJobs
  <1>4. LegType' /\ PlansCover' /\ CashType'
    BY <1>3 DEF CashInv, LegType, PlansCover, CashType, Reserved
  <1>5. \A v \in CashWorkers : Holds(v)' => Holds(v) /\ hand'[v] = hand[v]
    <2> SUFFICES ASSUME NEW v \in CashWorkers, Holds(v)'
                 PROVE  Holds(v) /\ hand'[v] = hand[v]
      OBVIOUS
    <2>1. v # w /\ hand'[v] = hand[v] /\ hand[v].leg \in Legs
      BY <1>3 DEF Holds, CashInv, LegType, HandRow
    <2>2. v # NoLeg
      BY CashConstants DEF NoLeg
    <2> QED
      BY <1>3, <2>1, <2>2 DEF Holds
  <1>6. LeaseTrue'
    BY <1>3, <1>5 DEF CashInv, LeaseTrue
  <1>7. SentIsFollowed'
    <2>1. Holds(w) /\ partner[hand[w].leg] # "none" => hand[w].leg \in lateSends
      BY DEF CashInv, LeaseTrue
    <2> QED
      BY <1>3, <2>1 DEF CashInv, SentIsFollowed, OutOfHand
  <1>8. BooksTrue'
    BY <1>3 DEF CashInv, BooksTrue
  <1>9. LegSettled'
    BY <1>1, <1>3 DEF CashInv, LegSettled
  <1> QED
    BY <1>4, <1>6, <1>7, <1>8, <1>9 DEF CashInv

(* The partner takes the leg. *)
LEMMA SendStep ==
    ASSUME CashInv, NEW w \in CashWorkers, SendLeg(w)
    PROVE  CashInv'
  <1> PICK l : l = hand[w].leg
    OBVIOUS
  <1>1. /\ hand[w].leg # NoLeg /\ hand[w].pc = "send" /\ l \in Legs
        /\ UNCHANGED <<refunded, cash, receipts, allocs>>
    BY DEF SendLeg, AtStep, CashInv, LegType, HandRow, bookVars
  <1>2. CASE ~MayEnqueue(l)
    <2>1. Outcome(w, "DEAD") /\ UNCHANGED <<planned, partner, lateSends>>
      BY <1>2 DEF SendLeg
    <2> QED
      BY <1>1, <2>1, GiveUpStep
  <1>3. CASE MayEnqueue(l)
    <2>1. /\ planned' = planned \union {l}
          /\ partner' = [partner EXCEPT ![l] = IF @ = "none" THEN "SENT" ELSE @]
          /\ lateSends' = IF partner[l] = "none" /\ ~Holds(w) THEN lateSends \union {l} ELSE lateSends
          /\ \/ hand' = [hand EXCEPT ![w].pc = "ack", ![w].locked = TRUE] /\ UNCHANGED legJob
             \/ Retry(w)
      BY <1>3 DEF SendLeg
    <2>2. /\ legJob' \in [Legs -> JobRow] /\ hand' \in [CashWorkers -> HandRow]
          /\ hand'[w].leg # NoLeg => hand'[w].pc = "ack"
          /\ \A v \in CashWorkers \ {w} : hand'[v] = hand[v]
          /\ \A k \in Legs : legJob'[k] = legJob[k] \/ (legJob'[k].state = "PENDING" /\ legJob'[k].holder = NoLeg)
      <3>1. CASE Retry(w)
        <4>1. PICK state : state = "PENDING"
          OBVIOUS
        <4>2. LegType /\ state \in {"PENDING", "SUCCEEDED", "DEAD"} /\ Outcome(w, state)
          BY <3>1, <4>1 DEF Retry, CashInv
        <4>3. /\ legJob' \in [Legs -> JobRow] /\ hand' \in [CashWorkers -> HandRow]
              /\ hand'[w].leg = NoLeg
              /\ \A v \in CashWorkers \ {w} : hand'[v] = hand[v]
              /\ ~Holds(w) => legJob' = legJob
              /\ Holds(w) => legJob'[hand[w].leg].state = state /\ legJob'[hand[w].leg].holder = NoLeg
              /\ \A k \in Legs \ {hand[w].leg} : legJob'[k] = legJob[k]
          BY <1>1, <4>2, OutcomeJobs
        <4> QED
          BY <4>1, <4>3, <1>1 DEF CashInv, LegType
      <3>2. CASE hand' = [hand EXCEPT ![w].pc = "ack", ![w].locked = TRUE] /\ UNCHANGED legJob
        <4>1. PICK h : h = [hand[w] EXCEPT !.pc = "ack", !.locked = TRUE]
          OBVIOUS
        <4>2. hand' = [hand EXCEPT ![w] = h]
          BY <3>2, <4>1 DEF CashInv, LegType
        <4>3. h \in HandRow /\ h.pc = "ack"
          BY <4>1 DEF CashInv, LegType, HandRow
        <4> QED
          BY <3>2, <4>2, <4>3 DEF CashInv, LegType
      <3> QED
        BY <2>1, <3>1, <3>2
    <2>3. /\ partner' \in [Legs -> {"none", "SENT", "RECEIVED", "REFUNDED"}]
          /\ partner'[l] # "none"
          /\ \A k \in Legs : partner'[k] = partner[k] \/ (k = l /\ partner[k] = "none" /\ partner'[k] = "SENT")
      BY <2>1, <1>1 DEF CashInv, LegType
    <2>4. planned' \in SUBSET Legs /\ Reserved(planned') <= Source
      <3>1. planned \in SUBSET Legs /\ Reserved(planned) <= Source
        BY DEF CashInv, LegType, PlansCover
      <3>2. CASE l \in planned
        <4>1. planned' = planned
          BY <2>1, <3>2
        <4> QED
          BY <3>1, <4>1
      <3>3. CASE l \notin planned
        <4>1. Reserved(planned') = Reserved(planned) + LegAmount[l]
          BY <1>1, <2>1, <3>1, <3>3, ReservedMore
        <4> QED
          BY <1>1, <1>3, <2>1, <3>1, <3>3, <4>1 DEF MayEnqueue, SourceCovers
      <3> QED
        BY <3>2, <3>3
    <2>5. LegType' /\ CashType'
      BY <1>1, <2>2, <2>3, <2>4 DEF LegType, CashInv, CashType
    <2>6. PlansCover'
      BY <1>1, <2>1, <2>3, <2>4 DEF CashInv, PlansCover
    <2>7. LeaseTrue'
      <3>1. \A k \in Legs : legJob'[k].state \in {"SUCCEEDED", "DEAD"} => legJob'[k].holder = NoLeg
        BY <2>2 DEF CashInv, LeaseTrue
      <3>2. ASSUME NEW v \in CashWorkers, Holds(v)', hand'[v].pc = "send", partner'[hand'[v].leg] # "none"
            PROVE  hand'[v].leg \in lateSends'
        <4>1. v # w /\ hand'[v] = hand[v] /\ hand[v].leg \in Legs /\ v # NoLeg
          BY <2>2, <3>2, CashConstants DEF Holds, CashInv, LegType, HandRow, NoLeg
        <4>2. Holds(v)
          BY <2>2, <3>2, <4>1 DEF Holds
        <4>3. CASE partner[hand[v].leg] # "none"
          BY <2>1, <3>2, <4>1, <4>2, <4>3 DEF CashInv, LeaseTrue
        <4>4. CASE partner[hand[v].leg] = "none"
          <5>1. hand[v].leg = l
            BY <2>3, <3>2, <4>1, <4>4
          <5>2. ~Holds(w)
            BY <4>1, <4>2, <5>1 DEF Holds
          <5> QED
            BY <2>1, <4>1, <4>4, <5>1, <5>2
        <4> QED
          BY <4>3, <4>4
      <3> QED
        BY <3>1, <3>2 DEF LeaseTrue
    <2>8. SentIsFollowed'
      <3> SUFFICES ASSUME NEW k \in Legs, partner'[k] \in {"SENT", "RECEIVED"}, k \notin lateSends',
                          legJob'[k].state = "DEAD"
                   PROVE  FALSE
        BY DEF SentIsFollowed, OutOfHand
      <3>1. legJob'[k] = legJob[k] /\ k \notin lateSends
        BY <2>1, <2>2
      <3>2. k = l /\ partner[k] = "none"
        BY <3>1, <2>3 DEF CashInv, SentIsFollowed, OutOfHand
      <3>3. Holds(w)
        BY <2>1, <3>2
      <3>4. legJob[k].holder = w /\ w # NoLeg
        BY <3>2, <3>3, CashConstants DEF Holds, NoLeg
      <3> QED
        BY <3>1, <3>4 DEF CashInv, LeaseTrue
    <2>9. BooksTrue'
      <3>1. \A k \in Legs : partner'[k] # "RECEIVED" => cash[k].amount = 0
        BY <2>3 DEF CashInv, BooksTrue
      <3> QED
        BY <1>1, <2>2, <3>1 DEF CashInv, BooksTrue
    <2>10. LegSettled'
      <3>1. \A k \in Legs : legJob'[k].state = "SUCCEEDED" => legJob[k].state = "SUCCEEDED"
        BY <2>2
      <3> QED
        BY <1>1, <2>3, <3>1 DEF CashInv, LegSettled
    <2> QED
      BY <2>5, <2>6, <2>7, <2>8, <2>9, <2>10 DEF CashInv
  <1> QED
    BY <1>2, <1>3


(* A leg whose refund is recorded or whose cash is allocated is settled. *)
LEMMA SettledByBooks ==
    ASSUME CashType', BooksTrue',
           \A l \in Legs : legJob'[l].state = "SUCCEEDED" =>
              (partner'[l] = "REFUNDED" /\ l \in refunded') \/ l \in DOMAIN allocs'
    PROVE  LegSettled'
  <1> SUFFICES ASSUME NEW l \in Legs, legJob'[l].state = "SUCCEEDED"
               PROVE  \/ partner'[l] = "REFUNDED" /\ l \in refunded' /\ l \notin DOMAIN allocs'
                      \/ l \in DOMAIN receipts' /\ l \in DOMAIN allocs' /\ allocs'[l] <= receipts'[l]
    BY DEF LegSettled
  <1>1. CASE l \in DOMAIN allocs'
    BY <1>1 DEF BooksTrue, CashType
  <1>2. CASE l \notin DOMAIN allocs'
    BY <1>2
  <1> QED
    BY <1>1, <1>2

LEMMA BooksBySettled ==
    ASSUME LegSettled
    PROVE  \A l \in Legs : legJob[l].state = "SUCCEEDED" =>
              (partner[l] = "REFUNDED" /\ l \in refunded) \/ l \in DOMAIN allocs
  BY DEF LegSettled

(* The job ends with the money accounted for. *)
LEMMA SucceedStep ==
    ASSUME CashInv, NEW w \in CashWorkers, hand[w].leg # NoLeg, Outcome(w, "SUCCEEDED"),
           UNCHANGED <<planned, partner, lateSends, cash, receipts>>, refunded \subseteq refunded',
           DOMAIN allocs \subseteq DOMAIN allocs', DOMAIN allocs' \subseteq DOMAIN receipts,
           \A x \in DOMAIN allocs' : allocs'[x] = cash[x].repaid /\ cash[x].repaid > 0,
           Holds(w) => \/ partner[hand[w].leg] = "REFUNDED" /\ hand[w].leg \in refunded'
                       \/ hand[w].leg \in DOMAIN allocs'
    PROVE  CashInv'
  <1>1. PICK state : state = "SUCCEEDED"
    OBVIOUS
  <1>2. LegType /\ state \in {"PENDING", "SUCCEEDED", "DEAD"} /\ Outcome(w, state)
    BY <1>1 DEF CashInv
  <1>3. /\ legJob' \in [Legs -> JobRow] /\ hand' \in [CashWorkers -> HandRow]
        /\ hand[w].leg \in Legs
        /\ hand'[w].leg = NoLeg
        /\ \A v \in CashWorkers \ {w} : hand'[v] = hand[v]
        /\ ~Holds(w) => legJob' = legJob
        /\ Holds(w) => legJob'[hand[w].leg].state = state /\ legJob'[hand[w].leg].holder = NoLeg
        /\ \A l \in Legs \ {hand[w].leg} : legJob'[l] = legJob[l]
    BY <1>2, OutcomeJobs
  <1>4. LegType' /\ PlansCover' /\ CashType'
    BY <1>3 DEF CashInv, LegType, PlansCover, CashType, Reserved
  <1>5. \A v \in CashWorkers : Holds(v)' => Holds(v) /\ hand'[v] = hand[v]
    <2> SUFFICES ASSUME NEW v \in CashWorkers, Holds(v)'
                 PROVE  Holds(v) /\ hand'[v] = hand[v]
      OBVIOUS
    <2>1. v # w /\ hand'[v] = hand[v] /\ hand[v].leg \in Legs
      BY <1>3 DEF Holds, CashInv, LegType, HandRow
    <2>2. v # NoLeg
      BY CashConstants DEF NoLeg
    <2> QED
      BY <1>3, <2>1, <2>2 DEF Holds
  <1>6. LeaseTrue'
    BY <1>3, <1>5 DEF CashInv, LeaseTrue
  <1>7. SentIsFollowed'
    BY <1>1, <1>3 DEF CashInv, SentIsFollowed, OutOfHand
  <1>8. BooksTrue'
    BY <1>3 DEF CashInv, BooksTrue
  <1>9. \A l \in Legs : legJob'[l].state = "SUCCEEDED" =>
           (partner'[l] = "REFUNDED" /\ l \in refunded') \/ l \in DOMAIN allocs'
    <2>1. \A l \in Legs : legJob[l].state = "SUCCEEDED" =>
              (partner[l] = "REFUNDED" /\ l \in refunded) \/ l \in DOMAIN allocs
      BY BooksBySettled DEF CashInv
    <2> QED
      BY <1>3, <2>1
  <1>10. LegSettled'
    BY <1>4, <1>8, <1>9, SettledByBooks
  <1> QED
    BY <1>4, <1>6, <1>7, <1>8, <1>10 DEF CashInv

LEMMA ObserveStep ==
    ASSUME CashInv, NEW w \in CashWorkers, Observe(w)
    PROVE  CashInv'
  <1> PICK l : l = hand[w].leg
    OBVIOUS
  <1>1. hand[w].leg # NoLeg /\ UNCHANGED <<planned, partner, lateSends, cash, receipts, allocs>>
    BY DEF Observe, AtStep, bookVars
  <1>2. CASE partner[l] = "SENT" /\ Retry(w) /\ UNCHANGED refunded
    BY <1>1, <1>2, GiveBack
  <1>3. CASE /\ partner[l] = "REFUNDED" /\ Outcome(w, "SUCCEEDED")
             /\ refunded' = IF Holds(w) THEN refunded \union {l} ELSE refunded
    <2>1. DOMAIN allocs' \subseteq DOMAIN receipts /\ \A x \in DOMAIN allocs' : allocs'[x] = cash[x].repaid /\ cash[x].repaid > 0
      BY <1>1 DEF CashInv, BooksTrue
    <2> QED
      BY <1>1, <1>3, <2>1, SucceedStep
  <1>4. CASE GoTo(w, "receipt") /\ UNCHANGED <<refunded, legJob>>
    BY <1>1, <1>4, GoOn
  <1> QED
    BY <1>2, <1>3, <1>4 DEF Observe

(* Booking a receipt of what the chain says. *)
LEMMA BookedTrue ==
    ASSUME CashInv, NEW x \in Legs \union Directs, Indexed(x), RecordedOk(x)
    PROVE  /\ DOMAIN Booked(x) = DOMAIN receipts \union {x}
           /\ \A y \in DOMAIN Booked(x) : Booked(x)[y] = cash[y].amount /\ cash[y].amount > 0
           /\ Booked(x)[x] = cash[x].amount
  <1>1. cash[x].amount > 0 /\ \A y \in DOMAIN receipts : receipts[y] = cash[y].amount /\ cash[y].amount > 0
    BY DEF Indexed, CashInv, BooksTrue
  <1> PICK amount : amount = cash[x].amount
    OBVIOUS
  <1>2. CASE x \in DOMAIN receipts
    BY <1>1, <1>2 DEF Booked
  <1>3. CASE x \notin DOMAIN receipts
    <2>1. PICK b : b = Entered(receipts, x, amount)
      OBVIOUS
    <2>2. /\ DOMAIN b = DOMAIN receipts \union {x} /\ b[x] = amount
          /\ \A y \in DOMAIN receipts \ {x} : b[y] = receipts[y]
      BY <2>1 DEF Entered
    <2>3. Booked(x) = b
      BY <1>3, <2>1 DEF Booked
    <2> QED
      BY <1>1, <2>2, <2>3
  <1> QED
    BY <1>2, <1>3

LEMMA ReceiptStep ==
    ASSUME CashInv, NEW w \in CashWorkers, RecordReceipt(w)
    PROVE  CashInv'
  <1> PICK l : l = hand[w].leg
    OBVIOUS
  <1>1. /\ hand[w].leg # NoLeg /\ l \in Legs
        /\ UNCHANGED <<planned, partner, lateSends, refunded, cash, allocs>>
    BY DEF RecordReceipt, AtStep, CashInv, LegType, HandRow, bookVars
  <1>2. CASE Retry(w) /\ UNCHANGED receipts
    BY <1>1, <1>2, GiveBack
  <1>3. CASE Indexed(l) /\ RecordedOk(l)
    <2>1. receipts' = Booked(l) /\ GoTo(w, "allocate") /\ UNCHANGED legJob
      BY <1>3 DEF RecordReceipt
    <2>2. /\ DOMAIN receipts' = DOMAIN receipts \union {l}
          /\ \A y \in DOMAIN receipts' : receipts'[y] = cash[y].amount /\ cash[y].amount > 0
      BY <1>1, <1>3, <2>1, BookedTrue
    <2>3. /\ hand' \in [CashWorkers -> HandRow] /\ hand'[w].leg = l /\ hand'[w].pc = "allocate"
          /\ \A v \in CashWorkers \ {w} : hand'[v] = hand[v]
      BY <1>1, <2>1, GoToHand DEF CashInv
    <2>4. LegType' /\ PlansCover' /\ CashType'
      BY <1>1, <2>1, <2>3 DEF CashInv, LegType, PlansCover, CashType, Reserved
    <2>5. LeaseTrue' /\ SentIsFollowed'
      BY <1>1, <2>1, <2>3 DEF CashInv, LeaseTrue, SentIsFollowed, OutOfHand, Holds
    <2>6. BooksTrue'
      BY <1>1, <2>2, <2>3 DEF CashInv, BooksTrue
    <2>7. LegSettled'
      <3>1. \A k \in Legs : legJob[k].state = "SUCCEEDED" =>
              (partner[k] = "REFUNDED" /\ k \in refunded) \/ k \in DOMAIN allocs
        BY BooksBySettled DEF CashInv
      <3> QED
        BY <1>1, <2>1, <2>4, <2>6, <3>1, SettledByBooks
    <2> QED
      BY <2>4, <2>5, <2>6, <2>7 DEF CashInv
  <1> QED
    BY <1>2, <1>3 DEF RecordReceipt, bookVars

LEMMA AllocateStep ==
    ASSUME CashInv, NEW w \in CashWorkers, AllocateLeg(w)
    PROVE  CashInv'
  <1> PICK l : l = hand[w].leg
    OBVIOUS
  <1>1. /\ hand[w].leg # NoLeg /\ l \in DOMAIN receipts
        /\ UNCHANGED <<planned, partner, lateSends, refunded, cash, receipts>>
    BY DEF AllocateLeg, AtStep, CashInv, BooksTrue
  <1>2. CASE ~Allocatable(l)
    <2>1. Retry(w) /\ UNCHANGED allocs
      BY <1>2 DEF AllocateLeg
    <2> QED
      BY <1>1, <2>1, GiveBack
  <1>3. CASE Allocatable(l)
    <2>1. Outcome(w, "SUCCEEDED") /\ allocs' = IF Holds(w) THEN Entered(allocs, l, cash[l].repaid) ELSE allocs
      BY <1>3 DEF AllocateLeg
    <2>2. cash[l].repaid > 0 /\ DOMAIN allocs \subseteq DOMAIN receipts
          /\ \A x \in DOMAIN allocs : allocs[x] = cash[x].repaid /\ cash[x].repaid > 0
      BY <1>3 DEF Allocatable, CashInv, BooksTrue
    <2>3. PICK value : value = cash[l].repaid
      OBVIOUS
    <2>4. /\ DOMAIN allocs \subseteq DOMAIN allocs' /\ DOMAIN allocs' \subseteq DOMAIN receipts
          /\ \A x \in DOMAIN allocs' : allocs'[x] = cash[x].repaid /\ cash[x].repaid > 0
          /\ Holds(w) => l \in DOMAIN allocs'
      <3>1. CASE Holds(w)
        <4>1. allocs' = Entered(allocs, l, value)
          BY <2>1, <2>3, <3>1
        <4>2. /\ DOMAIN allocs' = DOMAIN allocs \union {l} /\ allocs'[l] = value
              /\ \A y \in DOMAIN allocs \ {l} : allocs'[y] = allocs[y]
          BY <4>1 DEF Entered
        <4> QED
          BY <1>1, <2>2, <2>3, <3>1, <4>2
      <3>2. CASE ~Holds(w)
        BY <2>1, <2>2, <3>2
      <3> QED
        BY <3>1, <3>2
    <2> QED
      BY <1>1, <2>1, <2>4, SucceedStep
  <1> QED
    BY <1>2, <1>3


LEMMA LegReconcileStep ==
    ASSUME CashInv, NEW x \in Directs, ReconcileDirect(x)
    PROVE  CashInv'
  <1>1. /\ UNCHANGED <<planned, legJob, hand, partner, lateSends, refunded, cash>>
        /\ Indexed(x) /\ x \in Legs \union Directs
    BY DEF ReconcileDirect, legVars
  <1>2. LegType' /\ PlansCover' /\ CashType' /\ LeaseTrue' /\ SentIsFollowed'
    BY <1>1 DEF CashInv, LegType, PlansCover, CashType, Reserved, LeaseTrue, Holds, SentIsFollowed, OutOfHand
  <1>3. /\ DOMAIN receipts \subseteq DOMAIN receipts' /\ DOMAIN receipts' \subseteq DOMAIN receipts \union {x}
        /\ \A y \in DOMAIN receipts' : receipts'[y] = cash[y].amount /\ cash[y].amount > 0
        /\ DOMAIN allocs \subseteq DOMAIN allocs' /\ DOMAIN allocs' \subseteq DOMAIN receipts'
        /\ \A y \in DOMAIN allocs' : allocs'[y] = cash[y].repaid /\ cash[y].repaid > 0
    <2>0. /\ \A y \in DOMAIN receipts : receipts[y] = cash[y].amount /\ cash[y].amount > 0
          /\ DOMAIN allocs \subseteq DOMAIN receipts
          /\ \A y \in DOMAIN allocs : allocs[y] = cash[y].repaid /\ cash[y].repaid > 0
          /\ cash[x].repaid > 0
      BY DEF CashInv, BooksTrue, ReconcileDirect
    <2>1. CASE UNCHANGED <<receipts, allocs>>
      BY <2>0, <2>1
    <2>2. CASE RecordedOk(x) /\ receipts' = Booked(x) /\ allocs' = Entered(allocs, x, cash[x].repaid)
      <3>1. /\ DOMAIN receipts' = DOMAIN receipts \union {x}
            /\ \A y \in DOMAIN receipts' : receipts'[y] = cash[y].amount /\ cash[y].amount > 0
        BY <1>1, <2>2, BookedTrue
      <3>2. PICK value : value = cash[x].repaid
        OBVIOUS
      <3>3. allocs' = Entered(allocs, x, value)
        BY <2>2, <3>2
      <3>4. /\ DOMAIN allocs' = DOMAIN allocs \union {x} /\ allocs'[x] = value
            /\ \A y \in DOMAIN allocs \ {x} : allocs'[y] = allocs[y]
        BY <3>3 DEF Entered
      <3> QED
        BY <2>0, <3>1, <3>2, <3>4
    <2> QED
      BY <2>1, <2>2 DEF ReconcileDirect
  <1>4. BooksTrue'
    BY <1>1, <1>3 DEF CashInv, BooksTrue
  <1>5. LegSettled'
    <2>1. \A k \in Legs : legJob[k].state = "SUCCEEDED" =>
              (partner[k] = "REFUNDED" /\ k \in refunded) \/ k \in DOMAIN allocs
      BY BooksBySettled DEF CashInv
    <2> QED
      BY <1>1, <1>2, <1>3, <1>4, <2>1, SettledByBooks
  <1> QED
    BY <1>2, <1>4, <1>5 DEF CashInv

(* What happens on the destination chain. *)
LEMMA ChainCashStep ==
    ASSUME CashInv, NEW x \in Legs \union Directs, NEW row \in CashRow, cash' = [cash EXCEPT ![x] = row],
           \/ UNCHANGED partner
           \/ x \in Legs /\ partner[x] = "SENT" /\ partner' = [partner EXCEPT ![x] = "RECEIVED"],
           x \in Legs /\ partner'[x] # "RECEIVED" => row.amount = 0,
           row.repaid <= row.amount,
           cash[x].amount > 0 => row.amount = cash[x].amount,
           cash[x].repaid > 0 => row.repaid = cash[x].repaid,
           UNCHANGED <<planned, legJob, hand, lateSends, refunded, receipts, allocs>>
    PROVE  CashInv'
  <1>1. /\ CashType' /\ cash'[x] = row /\ \A y \in (Legs \union Directs) \ {x} : cash'[y] = cash[y]
    BY DEF CashInv, CashType
  <1>2. /\ partner' \in [Legs -> {"none", "SENT", "RECEIVED", "REFUNDED"}]
        /\ \A l \in Legs : \/ partner'[l] = partner[l]
                           \/ l = x /\ partner[l] = "SENT" /\ partner'[l] = "RECEIVED"
    BY DEF CashInv, LegType
  <1>3. LegType' /\ PlansCover'
    BY <1>2 DEF CashInv, LegType, PlansCover, Reserved
  <1>4. LeaseTrue'
    <2>1. \A v \in CashWorkers : Holds(v)' => Holds(v) /\ hand[v].leg \in Legs
      BY DEF Holds, CashInv, LegType, HandRow
    <2> QED
      BY <1>2, <2>1 DEF CashInv, LeaseTrue
  <1>5. SentIsFollowed'
    BY <1>2 DEF CashInv, SentIsFollowed, OutOfHand
  <1>6. BooksTrue'
    <2>1. \A l \in Legs : partner'[l] # "RECEIVED" => cash'[l].amount = 0
      BY <1>1, <1>2 DEF CashInv, BooksTrue
    <2>2. \A y \in Legs \union Directs : cash'[y].repaid <= cash'[y].amount
      BY <1>1 DEF CashInv, BooksTrue
    <2>3. \A y \in DOMAIN receipts : receipts[y] = cash'[y].amount /\ cash'[y].amount > 0
      BY <1>1 DEF CashInv, BooksTrue
    <2>4. \A y \in DOMAIN allocs : allocs[y] = cash'[y].repaid /\ cash'[y].repaid > 0
      BY <1>1 DEF CashInv, BooksTrue
    <2> QED
      BY <2>1, <2>2, <2>3, <2>4 DEF CashInv, BooksTrue
  <1>7. LegSettled'
    <2>1. \A k \in Legs : legJob[k].state = "SUCCEEDED" =>
              (partner[k] = "REFUNDED" /\ k \in refunded) \/ k \in DOMAIN allocs
      BY BooksBySettled DEF CashInv
    <2> QED
      BY <1>1, <1>2, <1>6, <2>1, SettledByBooks
  <1> QED
    BY <1>1, <1>3, <1>4, <1>5, <1>6, <1>7 DEF CashInv

LEMMA OutsideSteps ==
    ASSUME CashInv,
           \/ \E l \in Legs, amount \in Amounts : Deliver(l, amount)
           \/ \E x \in Directs, amount \in Amounts : PayDirect(x, amount)
           \/ \E x \in Legs \union Directs : FinalizeCash(x) \/ RepayFor(x) \/ ReorgCash(x)
    PROVE  CashInv'
  <1>0. CashType /\ \A x \in Legs \union Directs : cash[x] \in CashRow
    BY DEF CashInv, CashType
  <1>1. ASSUME NEW l \in Legs, NEW amount \in Amounts, Deliver(l, amount)
        PROVE  CashInv'
    <2>1. PICK row : row = [cash[l] EXCEPT !.amount = amount]
      OBVIOUS
    <2>2. /\ partner[l] = "SENT" /\ partner' = [partner EXCEPT ![l] = "RECEIVED"]
          /\ cash' = [cash EXCEPT ![l] = row]
          /\ UNCHANGED <<planned, legJob, hand, lateSends, refunded, receipts, allocs>>
      BY <1>0, <1>1, <2>1 DEF Deliver, CashType, bookVars
    <2>3. /\ row \in CashRow /\ row.amount = amount /\ row.repaid = cash[l].repaid /\ amount > 0
          /\ cash[l].amount = 0 /\ cash[l].repaid = 0
      BY <1>0, <2>1, <2>2, CashConstants DEF CashRow, CashInv, BooksTrue
    <2>4. partner'[l] = "RECEIVED" /\ l \in Legs \union Directs
      BY <2>2 DEF CashInv, LegType
    <2>5. row.repaid <= row.amount /\ ~(cash[l].amount > 0) /\ ~(cash[l].repaid > 0)
      BY <2>3, CashConstants
    <2> QED
      BY <2>2, <2>3, <2>4, <2>5, ChainCashStep
  <1>2. ASSUME NEW x \in Directs, NEW amount \in Amounts, PayDirect(x, amount)
        PROVE  CashInv'
    <2>1. PICK row : row = [cash[x] EXCEPT !.amount = amount, !.repaid = amount]
      OBVIOUS
    <2>2. /\ UNCHANGED partner /\ cash' = [cash EXCEPT ![x] = row]
          /\ UNCHANGED <<planned, legJob, hand, lateSends, refunded, receipts, allocs>>
      BY <1>0, <1>2, <2>1 DEF PayDirect, CashType, legVars, bookVars
    <2>3. /\ row \in CashRow /\ row.amount = amount /\ row.repaid = amount /\ amount \in Nat
          /\ ~(cash[x].amount > 0) /\ ~(cash[x].repaid > 0) /\ x \notin Legs
      <3>1. amount \in Nat /\ x \notin Legs /\ x \in Legs \union Directs
        BY CashConstants
      <3>2. cash[x] \in CashRow /\ cash[x].repaid <= cash[x].amount /\ ~(cash[x].amount > 0)
        BY <1>0, <1>2, <3>1 DEF CashInv, BooksTrue, PayDirect, Indexed
      <3>3. PICK half : half = [cash[x] EXCEPT !.amount = amount]
        OBVIOUS
      <3>4. half \in CashRow /\ half.amount = amount
        BY <3>1, <3>2, <3>3 DEF CashRow
      <3>5. row = [half EXCEPT !.repaid = amount]
        BY <2>1, <3>3
      <3>6. row \in CashRow /\ row.amount = amount /\ row.repaid = amount
        BY <3>1, <3>4, <3>5 DEF CashRow
      <3>7. ~(cash[x].repaid > 0)
        BY <3>2 DEF CashRow
      <3> QED
        BY <3>1, <3>2, <3>6, <3>7
    <2>4. row.repaid <= row.amount /\ x \in Legs \union Directs
      BY <2>3
    <2> QED
      BY <2>2, <2>3, <2>4, ChainCashStep
  <1>3. ASSUME NEW x \in Legs \union Directs, FinalizeCash(x) \/ RepayFor(x) \/ ReorgCash(x)
        PROVE  CashInv'
    <2>1. PICK row : /\ cash' = [cash EXCEPT ![x] = row]
                     /\ \/ row = [cash[x] EXCEPT !.final = TRUE]
                        \/ row = [cash[x] EXCEPT !.canonical = FALSE]
                        \/ row = [cash[x] EXCEPT !.repaid = cash[x].amount] /\ cash[x].repaid = 0
      BY <1>0, <1>3 DEF FinalizeCash, RepayFor, ReorgCash, CashType
    <2>2. /\ row \in CashRow /\ row.amount = cash[x].amount /\ row.repaid <= row.amount
          /\ cash[x].repaid > 0 => row.repaid = cash[x].repaid
      <3>1. cash[x] \in CashRow /\ cash[x].repaid <= cash[x].amount
        BY <1>0 DEF CashInv, BooksTrue
      <3>2. CASE row = [cash[x] EXCEPT !.final = TRUE]
        BY <3>1, <3>2 DEF CashRow
      <3>3. CASE row = [cash[x] EXCEPT !.canonical = FALSE]
        BY <3>1, <3>3 DEF CashRow
      <3>4. CASE row = [cash[x] EXCEPT !.repaid = cash[x].amount] /\ cash[x].repaid = 0
        BY <3>1, <3>4 DEF CashRow
      <3> QED
        BY <2>1, <3>2, <3>3, <3>4
    <2>3. UNCHANGED <<planned, legJob, hand, partner, lateSends, refunded, receipts, allocs>>
      BY <1>3 DEF FinalizeCash, RepayFor, ReorgCash, legVars, bookVars
    <2>4. x \in Legs /\ partner'[x] # "RECEIVED" => row.amount = 0
      BY <2>2, <2>3 DEF CashInv, BooksTrue
    <2> QED
      BY <2>1, <2>2, <2>3, <2>4, ChainCashStep
  <1> QED
    BY <1>1, <1>2, <1>3

LEMMA RefundStep ==
    ASSUME CashInv, NEW l \in Legs, Refund(l)
    PROVE  CashInv'
  <1>1. /\ partner[l] = "SENT" /\ partner' = [partner EXCEPT ![l] = "REFUNDED"]
        /\ UNCHANGED <<planned, legJob, hand, lateSends, refunded, cash, receipts, allocs>>
    BY DEF Refund, bookVars
  <1>2. /\ partner' \in [Legs -> {"none", "SENT", "RECEIVED", "REFUNDED"}]
        /\ \A k \in Legs : \/ partner'[k] = partner[k]
                           \/ partner[k] = "SENT" /\ partner'[k] = "REFUNDED"
    BY <1>1 DEF CashInv, LegType
  <1>3. LegType' /\ PlansCover' /\ CashType'
    BY <1>1, <1>2 DEF CashInv, LegType, PlansCover, Reserved, CashType
  <1>4. LeaseTrue'
    <2>1. \A v \in CashWorkers : Holds(v)' => Holds(v) /\ hand[v].leg \in Legs
      BY <1>1 DEF Holds, CashInv, LegType, HandRow
    <2> QED
      BY <1>1, <1>2, <2>1 DEF CashInv, LeaseTrue
  <1>5. SentIsFollowed'
    BY <1>1, <1>2 DEF CashInv, SentIsFollowed, OutOfHand
  <1>6. BooksTrue'
    BY <1>1, <1>2 DEF CashInv, BooksTrue
  <1>7. LegSettled'
    <2>1. \A k \in Legs : legJob[k].state = "SUCCEEDED" =>
              (partner[k] = "REFUNDED" /\ k \in refunded) \/ k \in DOMAIN allocs
      BY BooksBySettled DEF CashInv
    <2> QED
      BY <1>1, <1>2, <1>3, <1>6, <2>1, SettledByBooks
  <1> QED
    BY <1>3, <1>4, <1>5, <1>6, <1>7 DEF CashInv

LEMMA CashNextInv == CashInv /\ [CashNext]_cashVars => CashInv'
  <1> SUFFICES ASSUME CashInv, [CashNext]_cashVars
               PROVE  CashInv'
    OBVIOUS
  <1>1. ASSUME NEW w \in CashWorkers, LegStep(w)
        PROVE  CashInv'
    BY <1>1, ClaimLegStep, HandlerSteps, SendStep, ObserveStep, ReceiptStep, AllocateStep DEF LegStep
  <1>2. ASSUME NEW l \in Legs, Enqueue(l) \/ Refund(l)
        PROVE  CashInv'
    BY <1>2, EnqueueLegStep, RefundStep
  <1>3. ASSUME NEW x \in Directs, ReconcileDirect(x)
        PROVE  CashInv'
    BY <1>3, LegReconcileStep
  <1>4. CASE UNCHANGED <<planned, legJob, hand, partner, lateSends, refunded, cash, receipts, allocs>>
    <2>1. LegType'
      BY <1>4 DEF CashInv, LegType
    <2> QED
      BY <1>4, <2>1, QuietLegs DEF Holds
  <1>5. (\E l \in Legs : ExpireQuote(l)) \/ ReverseSettlement \/ UNCHANGED cashVars =>
           UNCHANGED <<planned, legJob, hand, partner, lateSends, refunded, cash, receipts, allocs>>
    BY DEF ExpireQuote, ReverseSettlement, cashVars, legVars, bookVars
  <1> QED
    BY <1>1, <1>2, <1>3, <1>4, <1>5, OutsideSteps DEF CashNext

(* Settlement legs, for any legs, amounts, workers and crashes: the legs   *)
(* never promise more than the source holds, a leg sent under its lease is *)
(* followed until it settles, and a job that succeeded has its money       *)
(* accounted for.                                                          *)
THEOREM CashLegsKept == CashInit /\ [][CashNext]_cashVars => []LegsKept
  <1>1. CashInv => LegsKept
    BY CashCovered DEF CashInv, LegsKept
  <1> QED
    BY CashInitInv, CashNextInv, <1>1, PTL

-----------------------------------------------------------------------------
(* Devices and rights (AssetRegistry) *)

AssetRow == [kind : {"PHYSICAL_GPU", "MIG_PARTITION"}, parent : Nat, status : {"ACTIVE", "RETIRED"},
             ownership : {"UNKNOWN"} \union {v.ownership : v \in Verdicts},
             review : {"UNVERIFIED"} \union {v.review : v \in Verdicts}, eligible : BOOLEAN]

LienRow == [asset : Nat, holder : FacilityIds \union {"third party"},
            kind : RightKinds \union {"ASSIGNMENT"}]

LinkRow == [borrower : Borrowers, state : {"REGISTERED", "VERIFIED", "REJECTED"}]

AssetType ==
    /\ asset \in Seq(AssetRow)
    /\ \A a \in Registered : asset[a].parent \in Registered \union {NoParent}
    /\ \A a \in Registered : asset[a].status = "RETIRED" => ~asset[a].eligible

Live(a) == a \in Registered /\ asset[a].status = "ACTIVE"

(* Keys, assignments and facilities' liens are on active assets only. *)
KeysLive == \A k \in DOMAIN active : Live(active[k])

AssignedLive == \A a \in DOMAIN assigned : Live(a)

LiensLive ==
    /\ liens \subseteq LienRow
    /\ \A l \in liens : l.asset \in Registered /\ (l.holder \in FacilityIds => Live(l.asset))

(* FinancedOnce, lien by lien. *)
LiensOnce ==
    \A l, m \in liens :
       l.holder \in FacilityIds /\ m.holder \in FacilityIds /\ (l.asset = m.asset \/ asset[l.asset].parent = m.asset)
       => l.holder = m.holder

LinksTrue ==
    /\ owner \in [Accounts -> Borrowers]
    /\ DOMAIN link \subseteq Accounts
    /\ \A c \in DOMAIN link : link[c] \in LinkRow
    /\ LinkCurrent

AssetInv == AssetType /\ KeysLive /\ AssignedLive /\ LiensLive /\ LiensOnce /\ LinksTrue

LEMMA AssetInitInv == AssetsInit => AssetInv
  BY DEF AssetsInit, AssetInv, AssetType, KeysLive, AssignedLive, LiensLive, LiensOnce, LinksTrue, LinkCurrent,
         Registered

LEMMA AssetInvKept == AssetInv => AssetsKept
  <1> SUFFICES ASSUME AssetInv
               PROVE  AssetsKept
    OBVIOUS
  <1>1. FinancedOnce
    <2>1. ASSUME NEW a \in Registered, NEW b \in Registered, a = b \/ asset[a].parent = b,
                 NEW f \in FinancedBy(a), NEW g \in FinancedBy(b)
          PROVE  f = g
      <3>1. PICK l \in liens : l.asset = a /\ l.holder \in FacilityIds /\ f = l.holder
        BY DEF FinancedBy, FacilityLiens
      <3>2. PICK m \in liens : m.asset = b /\ m.holder \in FacilityIds /\ g = m.holder
        BY DEF FinancedBy, FacilityLiens
      <3> QED
        BY <2>1, <3>1, <3>2 DEF AssetInv, LiensOnce
    <2> QED
      BY <2>1 DEF FinancedOnce
  <1>2. RetiredInert
    BY DEF AssetInv, AssetType, KeysLive, AssignedLive, LiensLive, Live, RetiredInert, ActiveKeys, FacilityLiens
  <1> QED
    BY <1>1, <1>2 DEF AssetInv, LinksTrue, AssetsKept

LEMMA RowTyped == ASSUME AssetType, NEW a \in Registered PROVE a \in Nat /\ asset[a] \in AssetRow
  BY DEF AssetType, Registered

(* A row changed in place: what it is part of, and its status, stay. *)
SameShape ==
    /\ asset' \in Seq(AssetRow)
    /\ DOMAIN asset' = Registered
    /\ \A a \in Registered : /\ asset'[a].parent = asset[a].parent /\ asset'[a].status = asset[a].status
                             /\ asset'[a].status = "RETIRED" => ~asset'[a].eligible

LEMMA RowChanged ==
    ASSUME AssetType, NEW a \in Registered, NEW row \in AssetRow,
           row.parent = asset[a].parent, row.status = asset[a].status, row.status = "RETIRED" => ~row.eligible,
           asset' = [asset EXCEPT ![a] = row]
    PROVE  SameShape
  BY DEF AssetType, SameShape, Registered

LEMMA EligibleSet ==
    ASSUME AssetType, NEW a \in Registered, NEW v \in BOOLEAN, v => asset[a].status = "ACTIVE",
           asset' = [asset EXCEPT ![a].eligible = v]
    PROVE  SameShape
  <1>1. asset[a] \in AssetRow
    BY DEF AssetType, Registered
  <1>2. PICK row : row = [asset[a] EXCEPT !.eligible = v]
    OBVIOUS
  <1>3. row \in AssetRow /\ row.parent = asset[a].parent /\ row.status = asset[a].status /\ row.eligible = v
    BY <1>1, <1>2 DEF AssetRow
  <1>4. asset' = [asset EXCEPT ![a] = row]
    BY <1>2
  <1>5. row.status = "RETIRED" => ~row.eligible
    BY <1>3
  <1> QED
    BY <1>3, <1>4, <1>5, RowChanged

LEMMA FlagRaised == ASSUME AssetType, NEW a \in Registered, RaiseFlag(a) PROVE SameShape
  <1>1. asset' = [asset EXCEPT ![a].eligible = FALSE]
    BY DEF RaiseFlag
  <1> QED
    BY <1>1, EligibleSet

LEMMA SameShapeTyped == AssetType /\ SameShape => AssetType'
  BY DEF AssetType, SameShape, Registered

(* Liens released or of third parties change nothing for the facilities. *)
LEMMA SameShapeLiens ==
    ASSUME AssetType, LiensLive, LiensOnce, SameShape,
           \A l \in liens' : l \in liens
                             \/ (l \in LienRow /\ l.asset \in Registered /\ l.holder \notin FacilityIds)
    PROVE  LiensLive' /\ LiensOnce'
  BY DEF AssetType, LiensLive, LiensOnce, SameShape, Live, Registered

LEMMA SameShapeLive == SameShape => (\A a \in Registered : Live(a) => Live(a)')
  BY DEF SameShape, Live, Registered

(* In-place steps that touch neither keys nor assignments. *)
LEMMA InPlace ==
    ASSUME AssetInv, SameShape, UNCHANGED <<active, assigned, owner, link>>,
           \A l \in liens' : l \in liens
                             \/ (l \in LienRow /\ l.asset \in Registered /\ l.holder \notin FacilityIds)
    PROVE  AssetInv'
  <1>1. AssetType' /\ LiensLive' /\ LiensOnce'
    BY SameShapeTyped, SameShapeLiens DEF AssetInv
  <1>2. KeysLive' /\ AssignedLive'
    BY SameShapeLive DEF AssetInv, KeysLive, AssignedLive, Live
  <1>3. LinksTrue'
    BY DEF AssetInv, LinksTrue, LinkCurrent
  <1> QED
    BY <1>1, <1>2, <1>3 DEF AssetInv

(* A new row at the end; the older ones as they were. *)
LEMMA RowAdded ==
    ASSUME AssetType, NEW row \in AssetRow, row.parent \in Registered \union {NoParent}, row.status = "ACTIVE",
           asset' = Append(asset, row)
    PROVE  /\ AssetType' /\ Fresh \notin Registered /\ Fresh \in Nat /\ Fresh # NoParent
           /\ Fresh \in DOMAIN asset' /\ asset'[Fresh] = row
           /\ \A a \in Registered : a \in DOMAIN asset' /\ asset'[a] = asset[a]
  <1>1. /\ DOMAIN asset = 1 .. Len(asset) /\ Len(asset) \in Nat
        /\ asset' \in Seq(AssetRow) /\ DOMAIN asset' = 1 .. Len(asset) + 1
        /\ asset'[Len(asset) + 1] = row /\ \A a \in 1 .. Len(asset) : asset'[a] = asset[a]
    BY DEF AssetType
  <1>2. AssetType'
    BY <1>1 DEF AssetType, Registered
  <1> QED
    BY <1>1, <1>2 DEF Fresh, Registered, NoParent

LEMMA NewAssetRow ==
    ASSUME NEW kind \in {"PHYSICAL_GPU", "MIG_PARTITION"}, NEW parent \in Nat,
           NEW ownership \in {"UNKNOWN"} \union {v.ownership : v \in Verdicts},
           NEW review \in {"UNVERIFIED"} \union {v.review : v \in Verdicts}
    PROVE  /\ NewAsset(kind, parent, ownership, review) \in AssetRow
           /\ NewAsset(kind, parent, ownership, review).parent = parent
           /\ NewAsset(kind, parent, ownership, review).status = "ACTIVE"
  BY DEF NewAsset, AssetRow

(* The rest of a step that adds a row and leaves the liens. *)
LEMMA RowAddedInv ==
    ASSUME AssetInv, NEW row \in AssetRow, row.parent \in Registered \union {NoParent}, row.status = "ACTIVE",
           asset' = Append(asset, row),
           \A k \in DOMAIN active' : (k \in DOMAIN active /\ active'[k] = active[k]) \/ active'[k] = Fresh,
           DOMAIN assigned' \subseteq DOMAIN assigned \union {Fresh},
           UNCHANGED <<liens, owner, link>>
    PROVE  AssetInv'
  <1>1. /\ AssetType' /\ Fresh \notin Registered
        /\ Fresh \in DOMAIN asset' /\ asset'[Fresh] = row
        /\ \A a \in Registered : a \in DOMAIN asset' /\ asset'[a] = asset[a]
    BY RowAdded DEF AssetInv
  <1>2. KeysLive' /\ AssignedLive'
    <2>1. ASSUME NEW k \in DOMAIN active' PROVE active'[k] \in DOMAIN asset' /\ asset'[active'[k]].status = "ACTIVE"
      BY <1>1 DEF AssetInv, KeysLive, Live
    <2>2. ASSUME NEW a \in DOMAIN assigned' PROVE a \in DOMAIN asset' /\ asset'[a].status = "ACTIVE"
      BY <1>1 DEF AssetInv, AssignedLive, Live
    <2> QED
      BY <2>1, <2>2 DEF KeysLive, AssignedLive, Live, Registered
  <1>3. LiensLive' /\ LiensOnce'
    BY <1>1 DEF AssetInv, LiensLive, LiensOnce, Live, Registered
  <1>4. LinksTrue'
    BY DEF AssetInv, LinksTrue, LinkCurrent
  <1> QED
    BY <1>1, <1>2, <1>3, <1>4 DEF AssetInv

LEMMA RegisterAssetStep ==
    ASSUME AssetInv, NEW by \in Roles, NEW keys \in SUBSET Keys, NEW account \in Accounts \union {NoAccount},
           RegisterAsset(by, keys, account)
    PROVE  AssetInv'
  <1>1. CASE \E k \in keys \cap DOMAIN active : RaiseFlag(active[k]) /\ UNCHANGED <<active, assigned>>
    <2>1. PICK k \in DOMAIN active : RaiseFlag(active[k]) /\ UNCHANGED <<active, assigned>>
      BY <1>1
    <2>2. active[k] \in Registered
      BY DEF AssetInv, KeysLive, Live
    <2>3. SameShape
      BY <2>1, <2>2, FlagRaised DEF AssetInv
    <2> QED
      BY <2>1, <2>3, InPlace DEF RegisterAsset
  <1>2. CASE /\ asset' = Append(asset, NewAsset("PHYSICAL_GPU", NoParent, "UNKNOWN", "UNVERIFIED"))
             /\ active' = Stored(active, keys, Fresh)
             /\ assigned' = IF account = NoAccount THEN assigned ELSE Stored(assigned, {Fresh}, account)
    <2>1. PICK row \in AssetRow : row = NewAsset("PHYSICAL_GPU", NoParent, "UNKNOWN", "UNVERIFIED")
                                  /\ row.parent = NoParent /\ row.status = "ACTIVE"
      BY NewAssetRow DEF NoParent
    <2>2. \A k \in DOMAIN active' : (k \in DOMAIN active /\ active'[k] = active[k]) \/ active'[k] = Fresh
      BY <1>2 DEF Stored
    <2>3. DOMAIN assigned' \subseteq DOMAIN assigned \union {Fresh}
      BY <1>2 DEF Stored
    <2> QED
      BY <1>2, <2>1, <2>2, <2>3, RowAddedInv DEF RegisterAsset
  <1> QED
    BY <1>1, <1>2 DEF RegisterAsset

LEMMA RegisterPartitionStep ==
    ASSUME AssetInv, NEW by \in Roles, NEW parent \in Registered, NEW keys \in SUBSET Keys,
           RegisterPartition(by, parent, keys)
    PROVE  AssetInv'
  <1>1. parent \in Nat /\ asset[parent].ownership \in {"UNKNOWN"} \union {v.ownership : v \in Verdicts}
    <2>1. parent \in Nat /\ asset[parent] \in AssetRow
      BY RowTyped DEF AssetInv
    <2> QED
      BY <2>1 DEF AssetRow
  <1>2. PICK row \in AssetRow : row = NewAsset("MIG_PARTITION", parent, asset[parent].ownership, "UNVERIFIED")
                                /\ row.parent = parent /\ row.status = "ACTIVE"
    BY <1>1, NewAssetRow
  <1>3. \A k \in DOMAIN active' : (k \in DOMAIN active /\ active'[k] = active[k]) \/ active'[k] = Fresh
    BY DEF RegisterPartition, Stored
  <1> QED
    BY <1>2, <1>3, RowAddedInv DEF RegisterPartition

(* Keys and assignments that move between active assets. *)
LEMMA AssetsUntouched ==
    ASSUME AssetInv, UNCHANGED <<asset, liens, owner, link>>,
           \A k \in DOMAIN active' : (k \in DOMAIN active /\ active'[k] = active[k]) \/ Live(active'[k]),
           \A a \in DOMAIN assigned' : a \in DOMAIN assigned \/ Live(a)
    PROVE  AssetInv'
  <1>1. AssetType' /\ LiensLive' /\ LiensOnce' /\ LinksTrue'
    BY DEF AssetInv, AssetType, LiensLive, LiensOnce, LinksTrue, LinkCurrent, Live, Registered
  <1>2. KeysLive' /\ AssignedLive'
    BY DEF AssetInv, KeysLive, AssignedLive, Live, Registered
  <1> QED
    BY <1>1, <1>2 DEF AssetInv

LEMMA AssignProviderStep ==
    ASSUME AssetInv, NEW by \in Roles, NEW a \in Registered, NEW account \in Accounts, AssignProvider(by, a, account)
    PROVE  AssetInv'
  <1>1. CASE assigned' = Stored(assigned, {a}, account) /\ UNCHANGED <<asset, flags>>
    <2>1. \A b \in DOMAIN assigned' : b \in DOMAIN assigned \/ Live(b)
      BY <1>1 DEF AssignProvider, Stored, Live
    <2> QED
      BY <1>1, <2>1, AssetsUntouched DEF AssignProvider
  <1>2. CASE RaiseFlag(a) /\ UNCHANGED assigned
    <2>1. SameShape
      BY <1>2, FlagRaised DEF AssetInv
    <2> QED
      BY <1>2, <2>1, InPlace DEF AssignProvider
  <1> QED
    BY <1>1, <1>2 DEF AssignProvider

LEMMA EndAssignmentStep ==
    ASSUME AssetInv, NEW by \in Roles, NEW a \in Registered, EndAssignment(by, a)
    PROVE  AssetInv'
  <1>1. \A b \in DOMAIN assigned' : b \in DOMAIN assigned
    BY DEF EndAssignment, Dropped
  <1> QED
    BY <1>1, AssetsUntouched DEF EndAssignment

LEMMA ChangeIdentityKeyStep ==
    ASSUME AssetInv, NEW by \in Roles, NEW a \in Registered, NEW old \in SUBSET Keys, NEW new \in Keys,
           ChangeIdentityKey(by, a, old, new)
    PROVE  AssetInv'
  <1>1. \A k \in DOMAIN active' : (k \in DOMAIN active /\ active'[k] = active[k]) \/ Live(active'[k])
    BY DEF ChangeIdentityKey, Stored, Dropped, Live
  <1> QED
    BY <1>1, AssetsUntouched DEF ChangeIdentityKey

LEMMA ReviewOwnershipStep ==
    ASSUME AssetInv, NEW by \in Roles, NEW a \in Registered, NEW verdict \in Verdicts,
           ReviewOwnership(by, a, verdict)
    PROVE  AssetInv'
  <1>1. asset[a] \in AssetRow /\ (asset[a].status = "RETIRED" => ~asset[a].eligible)
    BY DEF AssetInv, AssetType, Registered
  <1>2. PICK half : half = [asset[a] EXCEPT !.review = verdict.review]
    OBVIOUS
  <1>3. /\ half \in AssetRow /\ half.parent = asset[a].parent /\ half.status = asset[a].status
        /\ half.eligible = asset[a].eligible
    BY <1>1, <1>2 DEF AssetRow
  <1>4. PICK row : row = [half EXCEPT !.ownership = verdict.ownership]
    OBVIOUS
  <1>5. /\ row \in AssetRow /\ row.parent = asset[a].parent /\ row.status = asset[a].status
        /\ row.eligible = asset[a].eligible
    BY <1>3, <1>4 DEF AssetRow
  <1>6. asset' = [asset EXCEPT ![a] = row]
    BY <1>2, <1>4 DEF ReviewOwnership
  <1>7. SameShape
    BY <1>1, <1>5, <1>6, RowChanged DEF AssetInv
  <1> QED
    BY <1>7, InPlace DEF ReviewOwnership

LEMMA RecordThirdPartyRightStep ==
    ASSUME AssetInv, NEW by \in Roles, NEW a \in Registered, NEW kind \in RightKinds,
           RecordThirdPartyRight(by, a, kind)
    PROVE  AssetInv'
  <1>1. SameShape
    BY FlagRaised DEF AssetInv, RecordThirdPartyRight
  <1>2. PICK right : right = [asset |-> a, holder |-> "third party", kind |-> kind]
    OBVIOUS
  <1>3. right \in LienRow /\ right.asset \in Registered /\ right.holder \notin FacilityIds
    <2>1. a \in Nat
      BY RowTyped DEF AssetInv
    <2> QED
      BY <1>2, <2>1, AssetConstants DEF LienRow
  <1>4. liens' = liens \union {right}
    BY <1>2 DEF RecordThirdPartyRight
  <1> QED
    BY <1>1, <1>3, <1>4, InPlace DEF RecordThirdPartyRight

LEMMA EligibilityStep ==
    ASSUME AssetInv, NEW a \in Registered, NEW f, Eligibility(a, f)
    PROVE  AssetInv'
  <1>1. IsEligible(a, f) \in BOOLEAN /\ (IsEligible(a, f) => asset[a].status = "ACTIVE")
    BY DEF IsEligible, OwnState, FreeFor, FamilyFreeFor
  <1>2. asset' = [asset EXCEPT ![a].eligible = IsEligible(a, f)]
    BY DEF Eligibility
  <1> HIDE DEF IsEligible
  <1>3. SameShape
    BY <1>1, <1>2, EligibleSet DEF AssetInv
  <1> QED
    BY <1>3, InPlace DEF Eligibility
(* What eligibility finds makes the new lien the only facility's: on the   *)
(* asset itself, on its parent and on its partitions.                      *)
LEMMA AssignToFacilityStep ==
    ASSUME AssetInv, NEW by \in Roles, NEW a \in Registered, NEW f \in FacilityIds, AssignToFacility(by, a, f)
    PROVE  AssetInv'
  <1>1. asset[a].status = "ACTIVE" /\ FacilityLiens(a) = {} /\ FamilyFreeFor(a, f)
    BY DEF AssignToFacility, IsEligible, OwnState
  <1>2. SameShape
    BY <1>1, EligibleSet DEF AssetInv, AssignToFacility
  <1>3. PICK lien : lien = [asset |-> a, holder |-> f, kind |-> "ASSIGNMENT"]
    OBVIOUS
  <1>4. lien \in LienRow /\ lien.asset = a /\ lien.holder = f
    <2>1. a \in Nat
      BY RowTyped DEF AssetInv
    <2> QED
      BY <1>3, <2>1 DEF LienRow
  <1>5. liens' = liens \union {lien}
    BY <1>3 DEF AssignToFacility
  <1>6. AssetType'
    BY <1>2, SameShapeTyped DEF AssetInv
  <1>7. LiensLive'
    BY <1>1, <1>2, <1>4, <1>5 DEF AssetInv, LiensLive, SameShape, Live, Registered
  <1>8. ASSUME NEW m \in liens, m.holder \in FacilityIds
        PROVE  m.asset # a /\ (asset[m.asset].parent = a \/ asset[a].parent = m.asset => m.holder = f)
    <2>1. m.asset # a
      BY <1>1, <1>8 DEF FacilityLiens
    <2>2. m.asset \in Registered /\ m.holder \in FinancedBy(m.asset)
      BY <1>8 DEF FinancedBy, FacilityLiens, AssetInv, LiensLive
    <2> QED
      BY <1>1, <2>1, <2>2 DEF FamilyFreeFor
  <1>9. LiensOnce'
    <2>1. \A l \in liens' : l.asset \in Registered /\ asset'[l.asset].parent = asset[l.asset].parent
      BY <1>2, <1>4, <1>5 DEF SameShape, AssetInv, LiensLive
    <2> QED
      BY <1>4, <1>5, <1>8, <2>1 DEF LiensOnce, AssetInv
  <1>10. KeysLive' /\ AssignedLive' /\ LinksTrue'
    <2>1. UNCHANGED <<active, assigned, owner, link>>
      BY DEF AssignToFacility
    <2> QED
      BY <1>2, <2>1, SameShapeLive DEF AssetInv, KeysLive, AssignedLive, LinksTrue, LinkCurrent, Live
  <1> QED
    BY <1>6, <1>7, <1>9, <1>10 DEF AssetInv

(* Replacement: the old row retires, and everything that was on it moves   *)
(* to the new one or ends.                                                 *)
LEMMA ReplacedRows ==
    ASSUME AssetInv, NEW by \in Roles, NEW a \in Registered, NEW moved \in SUBSET Keys, NEW fresh \in SUBSET Keys,
           ReplaceAsset(by, a, moved, fresh)
    PROVE  /\ AssetType' /\ Fresh \notin Registered /\ Fresh \in Nat
           /\ Fresh \in DOMAIN asset' /\ asset'[Fresh].status = "ACTIVE" /\ asset'[Fresh].parent = NoParent
           /\ \A b \in Registered : b \in DOMAIN asset' /\ asset'[b].parent = asset[b].parent
           /\ \A b \in Registered \ {a} : asset'[b] = asset[b]
  <1>1. asset[a] \in AssetRow
    BY RowTyped DEF AssetInv
  <1>2. PICK half : half = [asset[a] EXCEPT !.status = "RETIRED"]
    OBVIOUS
  <1>3. half \in AssetRow /\ half.parent = asset[a].parent /\ half.status = "RETIRED"
    BY <1>1, <1>2 DEF AssetRow
  <1>4. PICK row : row = [half EXCEPT !.eligible = FALSE]
    OBVIOUS
  <1>5. row \in AssetRow /\ row.parent = asset[a].parent /\ ~row.eligible
    BY <1>3, <1>4 DEF AssetRow
  <1>6. PICK kept : kept = [asset EXCEPT ![a] = row]
    OBVIOUS
  <1>7. /\ kept \in Seq(AssetRow) /\ Len(kept) = Len(asset) /\ Len(asset) \in Nat
        /\ DOMAIN kept = 1 .. Len(asset) /\ Registered = 1 .. Len(asset)
        /\ kept[a] = row /\ \A b \in Registered \ {a} : kept[b] = asset[b]
    BY <1>5, <1>6 DEF AssetInv, AssetType, Registered
  <1>8. PICK new : new = NewAsset(asset[a].kind, NoParent, asset[a].ownership, asset[a].review)
    OBVIOUS
  <1>9. new \in AssetRow /\ new.parent = NoParent /\ new.status = "ACTIVE"
    BY <1>1, <1>8 DEF AssetRow, NewAsset, NoParent
  <1>10. asset' = Append(kept, new)
    BY <1>2, <1>4, <1>6, <1>8 DEF ReplaceAsset
  <1>11. /\ asset' \in Seq(AssetRow) /\ DOMAIN asset' = 1 .. Len(asset) + 1
         /\ asset'[Len(asset) + 1] = new /\ \A b \in 1 .. Len(asset) : asset'[b] = kept[b]
    BY <1>7, <1>9, <1>10
  <1>12. AssetType'
    <2>1. \A b \in Registered : asset[b].parent \in Registered \union {NoParent}
      BY DEF AssetInv, AssetType
    <2>2. ASSUME NEW b \in 1 .. Len(asset) + 1
          PROVE  /\ asset'[b].parent \in (1 .. Len(asset) + 1) \union {NoParent}
                 /\ asset'[b].status = "RETIRED" => ~asset'[b].eligible
      <3>1. CASE b = a
        BY <1>5, <1>7, <1>11, <2>1, <3>1
      <3>2. CASE b = Len(asset) + 1
        BY <1>9, <1>11, <3>2
      <3>3. CASE b \in Registered \ {a}
        BY <1>7, <1>11, <2>1, <3>3 DEF AssetInv, AssetType
      <3> QED
        BY <1>7, <3>1, <3>2, <3>3
    <2> QED
      BY <1>11, <2>2 DEF AssetType, Registered
  <1> QED
    BY <1>5, <1>7, <1>9, <1>11, <1>12 DEF Fresh

(* The liens after a replacement: those of facilities on the old asset are *)
(* on the new one.                                                         *)
LEMMA CarriedLien ==
    ASSUME LiensLive, NEW a, NEW new \in Nat, NEW l \in CarriedOver(a, new)
    PROVE  \/ l \in liens /\ ~(l.asset = a /\ l.holder \in FacilityIds)
           \/ \E m \in liens : m.asset = a /\ m.holder \in FacilityIds /\ l \in LienRow /\ l.asset = new
                               /\ l.holder = m.holder
  <1>1. PICK m \in liens : l = IF m \in FacilityLiens(a) THEN [m EXCEPT !.asset = new] ELSE m
    BY DEF CarriedOver
  <1>2. m \in LienRow
    BY DEF LiensLive
  <1>3. CASE m \in FacilityLiens(a)
    <2>1. l = [m EXCEPT !.asset = new]
      BY <1>1, <1>3
    <2>2. l \in LienRow /\ l.asset = new /\ l.holder = m.holder
      BY <1>2, <2>1 DEF LienRow
    <2> QED
      BY <1>3, <2>2 DEF FacilityLiens
  <1>4. CASE m \notin FacilityLiens(a)
    BY <1>1, <1>4 DEF FacilityLiens
  <1> QED
    BY <1>3, <1>4

LEMMA ReplaceAssetStep ==
    ASSUME AssetInv, NEW by \in Roles, NEW a \in Registered, NEW moved \in SUBSET Keys, NEW fresh \in SUBSET Keys,
           ReplaceAsset(by, a, moved, fresh)
    PROVE  AssetInv'
  <1>1. /\ AssetType' /\ Fresh \notin Registered /\ Fresh \in Nat
        /\ Fresh \in DOMAIN asset' /\ asset'[Fresh].status = "ACTIVE" /\ asset'[Fresh].parent = NoParent
        /\ \A b \in Registered : b \in DOMAIN asset' /\ asset'[b].parent = asset[b].parent
        /\ \A b \in Registered \ {a} : asset'[b] = asset[b]
    BY ReplacedRows
  <1>2. PICK n : n = Fresh
    OBVIOUS
  <1>3. KeysLive'
    <2>1. active' = Stored(Dropped(active, ActiveKeys(a)), moved \cup fresh, n)
      BY <1>2 DEF ReplaceAsset
    <2>2. ASSUME NEW k \in DOMAIN active'
          PROVE  active'[k] = n \/ (k \in DOMAIN active /\ active'[k] = active[k] /\ active[k] # a)
      BY <2>1 DEF Stored, Dropped, ActiveKeys
    <2>3. ASSUME NEW k \in DOMAIN active' PROVE active'[k] \in DOMAIN asset' /\ asset'[active'[k]].status = "ACTIVE"
      BY <1>1, <1>2, <2>2 DEF AssetInv, KeysLive, Live
    <2> QED
      BY <2>3 DEF KeysLive, Live, Registered
  <1>4. AssignedLive'
    <2>1. \A b \in DOMAIN assigned' : b = n \/ (b \in DOMAIN assigned /\ b # a)
      BY <1>2 DEF ReplaceAsset, Stored, Dropped
    <2>2. ASSUME NEW b \in DOMAIN assigned' PROVE b \in DOMAIN asset' /\ asset'[b].status = "ACTIVE"
      BY <1>1, <1>2, <2>1 DEF AssetInv, AssignedLive, Live
    <2> QED
      BY <2>2 DEF AssignedLive, Live, Registered
  <1>5. ASSUME NEW l \in liens'
        PROVE  \/ l \in liens /\ ~(l.asset = a /\ l.holder \in FacilityIds)
               \/ \E m \in liens : m.asset = a /\ m.holder \in FacilityIds /\ l \in LienRow /\ l.asset = n
                                   /\ l.holder = m.holder
    <2>1. l \in CarriedOver(a, n) /\ n \in Nat
      BY <1>1, <1>2 DEF ReplaceAsset
    <2> QED
      BY <2>1, CarriedLien DEF AssetInv
  <1>6. LiensLive'
    <2>1. ASSUME NEW l \in liens'
          PROVE  /\ l \in LienRow /\ l.asset \in DOMAIN asset'
                 /\ l.holder \in FacilityIds => asset'[l.asset].status = "ACTIVE"
      BY <1>1, <1>2, <1>5 DEF AssetInv, LiensLive, Live
    <2> QED
      BY <2>1 DEF LiensLive, Live, Registered
  <1>7. LiensOnce'
    <2>1. SUFFICES ASSUME NEW l \in liens', NEW m \in liens', l.holder \in FacilityIds, m.holder \in FacilityIds,
                          l.asset = m.asset \/ asset'[l.asset].parent = m.asset
                   PROVE  l.holder = m.holder
      BY DEF LiensOnce
    <2>2. \A k \in liens : k.asset \in Registered
      BY DEF AssetInv, LiensLive
    <2>3. \A b \in Registered : asset[b].parent \in Registered \union {NoParent}
      BY DEF AssetInv, AssetType
    <2>4. NoParent \notin Registered
      BY DEF NoParent, AssetInv, AssetType, Registered
    <2>5. n # NoParent
      BY <1>2 DEF Fresh, NoParent, AssetInv, AssetType
    <2>6. CASE l.asset = n
      <3>1. PICK x \in liens : x.asset = a /\ x.holder \in FacilityIds /\ l.holder = x.holder
        BY <1>1, <1>2, <1>5, <2>2, <2>6
      <3>2. m.asset = n
        BY <1>1, <1>2, <1>5, <2>1, <2>2, <2>4, <2>5, <2>6
      <3>3. PICK y \in liens : y.asset = a /\ y.holder \in FacilityIds /\ m.holder = y.holder
        BY <1>1, <1>2, <1>5, <2>2, <3>2
      <3> QED
        BY <3>1, <3>3 DEF AssetInv, LiensOnce
    <2>7. CASE l.asset # n
      <3>1. l \in liens /\ l.asset \in Registered
        BY <1>5, <2>2, <2>7
      <3>2. m.asset # n
        BY <1>1, <1>2, <2>1, <2>3, <2>5, <2>7, <3>1
      <3>3. m \in liens
        BY <1>5, <3>2
      <3> QED
        BY <1>1, <2>1, <3>1, <3>3 DEF AssetInv, LiensOnce
    <2> QED
      BY <2>6, <2>7
  <1>8. LinksTrue'
    BY DEF ReplaceAsset, AssetInv, LinksTrue, LinkCurrent
  <1> QED
    BY <1>1, <1>3, <1>4, <1>6, <1>7, <1>8 DEF AssetInv

(* The links of accounts: the devices are left alone. *)
LEMMA RegistryKept ==
    AssetInv /\ UNCHANGED registry => (AssetType /\ KeysLive /\ AssignedLive /\ LiensLive /\ LiensOnce)'
  BY DEF AssetInv, registry, AssetType, KeysLive, AssignedLive, LiensLive, LiensOnce, Live, Registered

LEMMA LinkAccountStep ==
    ASSUME AssetInv, NEW by \in Roles, NEW c \in Accounts, NEW b \in Borrowers,
           LinkAccount(by, c, b) \/ RelinkAccount(by, c, b)
    PROVE  AssetInv'
  <1>1. PICK row : row = [borrower |-> b, state |-> "REGISTERED"]
    OBVIOUS
  <1>2. row \in LinkRow /\ row.borrower = b
    BY <1>1 DEF LinkRow
  <1>3. /\ c \notin DOMAIN link
        /\ link' = [k \in {c} \union DOMAIN link |-> IF k \in {c} THEN row ELSE link[k]]
        /\ owner' = owner \/ owner' = [owner EXCEPT ![c] = b]
        /\ owner' = owner => owner[c] = b \/ owner' = [owner EXCEPT ![c] = b]
        /\ UNCHANGED registry
    BY <1>1 DEF LinkAccount, RelinkAccount, Stored
  <1>4. owner \in [Accounts -> Borrowers] /\ owner' \in [Accounts -> Borrowers] /\ owner'[c] = b
    BY <1>3 DEF AssetInv, LinksTrue
  <1>5. LinksTrue'
    BY <1>2, <1>3, <1>4 DEF AssetInv, LinksTrue, LinkCurrent
  <1> QED
    BY <1>3, <1>5, RegistryKept DEF AssetInv

LEMMA ReviewLinkStep ==
    ASSUME AssetInv, NEW by \in Roles, NEW c \in Accounts, NEW verdict \in {"VERIFIED", "REJECTED"},
           ReviewLink(by, c, verdict)
    PROVE  AssetInv'
  <1>1. c \in DOMAIN link /\ link[c] \in LinkRow /\ link' = [link EXCEPT ![c].state = verdict]
        /\ UNCHANGED <<registry, owner>>
    BY DEF ReviewLink, AssetInv, LinksTrue
  <1>2. PICK row : row = [link[c] EXCEPT !.state = verdict]
    OBVIOUS
  <1>3. row \in LinkRow /\ row.borrower = link[c].borrower
    BY <1>1, <1>2 DEF LinkRow
  <1>4. link' = [link EXCEPT ![c] = row]
    BY <1>1, <1>2
  <1>5. LinksTrue'
    BY <1>1, <1>3, <1>4 DEF AssetInv, LinksTrue, LinkCurrent
  <1> QED
    BY <1>1, <1>5, RegistryKept DEF AssetInv

LEMMA ReleaseLinkStep ==
    ASSUME AssetInv, NEW by \in Roles, NEW c \in Accounts, ReleaseLink(by, c)
    PROVE  AssetInv'
  <1>1. /\ UNCHANGED registry /\ owner' = owner
        /\ \A k \in DOMAIN link' : k \in DOMAIN link /\ link'[k] = link[k]
    BY DEF ReleaseLink, Dropped
  <1>2. LinksTrue'
    BY <1>1 DEF AssetInv, LinksTrue, LinkCurrent
  <1> QED
    BY <1>1, <1>2, RegistryKept DEF AssetInv

LEMMA AssetQuietStep ==
    ASSUME AssetInv, UNCHANGED <<asset, active, assigned, owner, link>>, liens' \subseteq liens
    PROVE  AssetInv'
  <1>1. SameShape
    BY DEF AssetInv, AssetType, SameShape, Registered
  <1> QED
    BY <1>1, InPlace

(* Every step of the registry keeps the invariant. *)
LEMMA AssetsStepInv == AssetInv /\ [AssetsNext]_assetVars => AssetInv'
  <1> SUFFICES ASSUME AssetInv, [AssetsNext]_assetVars
               PROVE  AssetInv'
    OBVIOUS
  <1>1. CASE UNCHANGED assetVars
    BY <1>1, AssetQuietStep DEF assetVars
  <1>2. ASSUME NEW by \in Roles, RegisterStep(by) PROVE AssetInv'
    BY <1>2, RegisterAssetStep, RegisterPartitionStep, AssignProviderStep, EndAssignmentStep,
       ChangeIdentityKeyStep, ReplaceAssetStep DEF RegisterStep
  <1>3. ASSUME NEW by \in Roles, ReviewStep(by) PROVE AssetInv'
    <2>1. ASSUME NEW a \in Registered, ResolveFlag(by, a) PROVE AssetInv'
      BY <2>1, AssetQuietStep DEF ResolveFlag
    <2>2. ASSUME NEW a \in Registered, NEW kind \in DocKinds, AttachDocument(by, a, kind) PROVE AssetInv'
      BY <2>2, AssetQuietStep DEF AttachDocument
    <2>3. ASSUME NEW l \in liens, Release(by, l) PROVE AssetInv'
      BY <2>3, AssetQuietStep DEF Release
    <2> QED
      BY <1>3, <2>1, <2>2, <2>3, ReviewOwnershipStep, RecordThirdPartyRightStep, AssignToFacilityStep
      DEF ReviewStep
  <1>4. ASSUME NEW by \in Roles, LinkStep(by) PROVE AssetInv'
    BY <1>4, LinkAccountStep, ReviewLinkStep, ReleaseLinkStep DEF LinkStep
  <1>5. ASSUME NEW a \in Registered, NEW f, Eligibility(a, f) PROVE AssetInv'
    BY <1>5, EligibilityStep
  <1> QED
    BY <1>1, <1>2, <1>3, <1>4, <1>5 DEF AssetsNext

(* No device is ever financed twice, alone or through its parent and its   *)
(* partitions; a replaced one keeps no key, assignment, lien or            *)
(* eligibility; an account changes hands only between two links: for any   *)
(* number of devices, keys, facilities and accounts.                       *)
THEOREM AssetsAlwaysKept == AssetsInit /\ [][AssetsNext]_assetVars => []AssetsKept
  <1>1. AssetsInit => AssetInv
    BY AssetInitInv
  <1>2. AssetInv /\ [AssetsNext]_assetVars => AssetInv'
    BY AssetsStepInv
  <1>3. AssetInv => AssetsKept
    BY AssetInvKept
  <1> QED
    BY <1>1, <1>2, <1>3, PTL

-----------------------------------------------------------------------------
(* Ingestion and outbox (Ingestion) *)

CursorRow == [open : BOOLEAN, high : Nat, token : Nat, end : Nat]

CollectorRow == [pc : {"idle", "window", "page"}, stream : Streams, st : CursorRow, start : Nat, end : Nat,
                 page : SUBSET Items, next : Nat]

IngestionType ==
    /\ now \in Nat
    /\ Listed \subseteq Items /\ listing \in [Listed -> Nat]
    /\ cursor \in [Streams -> CursorRow]
    /\ worker \in [Workers -> CollectorRow]

(* What is not listed yet can still come in time. *)
OnTime == \A i \in Items \ Listed : now <= AsOf[i] + Overlap

(* The listed rows of a window that end before its overlap: no new ones    *)
(* come once the window has ended.                                         *)
Ripe(start, end) == {i \in Listed : InWindow(i, start, end) /\ AsOf[i] < Before(end, Overlap)}

InStore(i) == <<"API", i>> \in raw

(* The pages before the token are stored, as far as they are ripe. *)
PagesRead(start, end, token) ==
    \A i \in Ripe(start, end) : Rank(i, ListedIn(start, end)) <= token => InStore(i)

CursorTrue(c) ==
    /\ c.high <= now
    /\ c.token # NoToken => c.end <= now /\ PagesRead(Before(c.high, Overlap), c.end, c.token)

(* What a collector of the polled stream has in hand: a page that goes     *)
(* seamlessly onto those before, however rows shifted since.               *)
CollectorTrue(m) ==
    m.pc # "idle" /\ m.stream = "poll" =>
       /\ m.start = Before(m.st.high, Overlap) /\ m.end <= now
       /\ PagesRead(m.start, m.end, m.st.token)
       /\ m.pc = "page" =>
             \A i \in Ripe(m.start, m.end) :
                m.next = NoToken \/ Rank(i, ListedIn(m.start, m.end)) <= m.next => i \in m.page \/ InStore(i)

IngestionInv ==
    /\ IngestionType /\ OnTime /\ NothingSkipped
    /\ CursorTrue(cursor["poll"])
    /\ \A w \in Workers : CollectorTrue(worker[w])

LEMMA BeforeNat == ASSUME NEW t \in Nat, NEW d \in Nat PROVE Before(t, d) \in Nat /\ Before(t, d) <= t
  BY DEF Before

LEMMA RankBounds ==
    ASSUME IngestionType, NEW start, NEW end, NEW i \in ListedIn(start, end)
    PROVE  /\ IsFiniteSet(ListedIn(start, end)) /\ Cardinality(ListedIn(start, end)) \in Nat
           /\ Rank(i, ListedIn(start, end)) \in Nat
           /\ 0 < Rank(i, ListedIn(start, end))
           /\ Rank(i, ListedIn(start, end)) <= Cardinality(ListedIn(start, end))
  <1> DEFINE rows == ListedIn(start, end)
             ahead == {j \in rows : listing[j] <= listing[i]}
  <1>1. rows \subseteq Items /\ IsFiniteSet(Items)
    BY IngestionConstants DEF IngestionType, ListedIn
  <1>2. IsFiniteSet(rows)
    BY <1>1, FS_Subset, Zenon
  <1>3. ahead \subseteq rows
    OBVIOUS
  <1>4. IsFiniteSet(ahead) /\ Cardinality(ahead) <= Cardinality(rows)
    BY <1>2, <1>3, FS_Subset, Zenon
  <1>5. i \in ahead
    BY DEF IngestionType, ListedIn
  <1>6. Cardinality(ahead) \in Nat /\ Cardinality(rows) \in Nat /\ Cardinality(ahead) # 0
    BY <1>2, <1>4, <1>5, FS_CardinalityType, FS_EmptySet
  <1> QED
    BY <1>2, <1>4, <1>6 DEF Rank

LEMMA NothingBeforeFirst ==
    ASSUME IngestionType, NEW start, NEW end PROVE PagesRead(start, end, NoToken)
  <1>1. SUFFICES ASSUME NEW i \in Ripe(start, end) PROVE ~(Rank(i, ListedIn(start, end)) <= NoToken)
    BY DEF PagesRead
  <1>2. i \in ListedIn(start, end)
    BY DEF Ripe, ListedIn
  <1> QED
    BY <1>2, RankBounds DEF NoToken

(* Steps that leave the listing and lose nothing. *)
LEMMA MoreStored ==
    ASSUME IngestionType, listing' = listing, raw \subseteq raw', NEW start, NEW end, NEW token,
           PagesRead(start, end, token)
    PROVE  PagesRead(start, end, token)'
  BY DEF PagesRead, Ripe, Listed, ListedIn, InWindow, Rank, InStore

LEMMA CursorStays ==
    ASSUME IngestionType, listing' = listing, raw \subseteq raw', now' \in Nat, now <= now',
           NEW c \in CursorRow, CursorTrue(c)
    PROVE  CursorTrue(c)'
  <1>1. c.high \in Nat /\ c.end \in Nat /\ now \in Nat
    BY DEF CursorRow, IngestionType
  <1>2. PagesRead(Before(c.high, Overlap), c.end, c.token) => PagesRead(Before(c.high, Overlap), c.end, c.token)'
    BY MoreStored
  <1> QED
    BY <1>1, <1>2 DEF CursorTrue

LEMMA CollectorStays ==
    ASSUME IngestionType, listing' = listing, raw \subseteq raw', now' \in Nat, now <= now',
           NEW m \in CollectorRow, CollectorTrue(m)
    PROVE  CollectorTrue(m)'
  <1> SUFFICES ASSUME m.pc # "idle", m.stream = "poll"
               PROVE  CollectorTrue(m)'
    BY DEF CollectorTrue
  <1>1. m.end \in Nat /\ now \in Nat
    BY DEF CollectorRow, IngestionType
  <1>2. PagesRead(m.start, m.end, m.st.token)'
    BY MoreStored DEF CollectorTrue
  <1>3. m.end <= now' /\ m.start = Before(m.st.high, Overlap)
    BY <1>1 DEF CollectorTrue
  <1>4. m.pc = "page" =>
             \A i \in Ripe(m.start, m.end)' :
                m.next = NoToken \/ Rank(i, ListedIn(m.start, m.end))' <= m.next => i \in m.page \/ InStore(i)'
    BY DEF CollectorTrue, Ripe, Listed, ListedIn, InWindow, Rank, InStore
  <1> QED
    BY <1>2, <1>3, <1>4 DEF CollectorTrue

LEMMA RankNextNat ==
    ASSUME IngestionType', NEW start, NEW end, NEW i \in ListedIn(start, end)'
    PROVE  Rank(i, ListedIn(start, end))' \in Nat
  <1> DEFINE rows == ListedIn(start, end)'
             ahead == {j \in rows : listing'[j] <= listing'[i]}
  <1>1. ahead \subseteq Items /\ IsFiniteSet(Items)
    BY IngestionConstants DEF IngestionType, ListedIn, Listed
  <1>2. IsFiniteSet(ahead)
    BY <1>1, FS_Subset, Zenon
  <1>3. Cardinality(ahead) \in Nat
    BY <1>2, FS_CardinalityType
  <1> QED
    BY <1>3 DEF Rank

(* A row that the provider adds in front only moves the others back. *)
LEMMA RanksOnlyGrow ==
    ASSUME IngestionType, NEW i \in Items, NEW at \in Nat, Publish(i, at), IngestionType',
           NEW start, NEW end, NEW j \in ListedIn(start, end)
    PROVE  Rank(j, ListedIn(start, end)) <= Rank(j, ListedIn(start, end))'
  <1> DEFINE rows == ListedIn(start, end)
             ahead == {k \in rows : listing[k] <= listing[j]}
             later == {k \in ListedIn(start, end)' : listing'[k] <= listing'[j]}
  <1>1. ahead \subseteq later
    BY DEF IngestionType, Publish, ListedIn, Listed, InWindow
  <1>2. later \subseteq Items /\ IsFiniteSet(Items)
    BY IngestionConstants DEF IngestionType, ListedIn, Listed
  <1>3. IsFiniteSet(later)
    BY <1>2, FS_Subset, Zenon
  <1>4. Cardinality(ahead) <= Cardinality(later)
    BY <1>1, <1>3, FS_Subset, Zenon
  <1> QED
    BY <1>4 DEF Rank

LEMMA PublishType ==
    ASSUME IngestionType, NEW i \in Items, NEW at \in Nat, Publish(i, at)
    PROVE  IngestionType' /\ Listed' = Listed \union {i}
  <1>1. Listed' = Listed \union {i} /\ listing' \in [Listed' -> Nat]
    BY DEF IngestionType, Publish, Listed
  <1> QED
    BY <1>1 DEF IngestionType, Publish

(* The new row is not ripe in any window that has ended. *)
LEMMA PublishRipe ==
    ASSUME IngestionType, OnTime, NEW i \in Items, NEW at \in Nat, Publish(i, at),
           NEW start, NEW end \in Nat, end <= now
    PROVE  Ripe(start, end)' = Ripe(start, end)
  <1>1. i \notin Listed /\ Listed' = Listed \union {i} /\ now \in Nat /\ AsOf[i] \in Nat /\ Overlap \in Nat
    BY PublishType, IngestionConstants DEF Publish, IngestionType
  <1>2. now <= AsOf[i] + Overlap
    BY <1>1 DEF OnTime
  <1>3. ~(AsOf[i] < Before(end, Overlap))
    BY <1>1, <1>2 DEF Before
  <1> QED
    BY <1>1, <1>3 DEF Ripe, InWindow

LEMMA PublishRead ==
    ASSUME IngestionType, OnTime, NEW i \in Items, NEW at \in Nat, Publish(i, at),
           NEW start, NEW end \in Nat, end <= now, NEW token \in Nat, PagesRead(start, end, token)
    PROVE  PagesRead(start, end, token)'
  <1>1. SUFFICES ASSUME NEW j \in Ripe(start, end), Rank(j, ListedIn(start, end))' <= token
                 PROVE  InStore(j)'
    BY PublishRipe DEF PagesRead
  <1>2. j \in ListedIn(start, end) /\ j \in ListedIn(start, end)' /\ IngestionType'
    BY PublishType DEF Ripe, ListedIn, InWindow
  <1>3. Rank(j, ListedIn(start, end)) <= Rank(j, ListedIn(start, end))'
    BY <1>2, RanksOnlyGrow
  <1>4. Rank(j, ListedIn(start, end)) \in Nat
    BY <1>2, RankBounds
  <1>5. Rank(j, ListedIn(start, end))' \in Nat
    BY <1>2, RankNextNat
  <1>6. Rank(j, ListedIn(start, end)) <= token
    BY <1>1, <1>3, <1>4, <1>5
  <1> QED
    BY <1>6 DEF PagesRead, InStore, Publish, store

LEMMA PublishStep ==
    ASSUME IngestionInv, NEW i \in Items, NEW at \in Nat, Publish(i, at)
    PROVE  IngestionInv'
  <1>1. IngestionType /\ OnTime /\ IngestionType' /\ Listed' = Listed \union {i}
        /\ UNCHANGED <<now, cursor, worker, raw>>
    BY PublishType DEF IngestionInv, Publish, store
  <1>2. OnTime'
    BY <1>1 DEF OnTime
  <1>3. now \in Nat /\ AsOf[i] \in Nat /\ Overlap \in Nat /\ i \notin Listed
    BY <1>1, IngestionConstants DEF IngestionType, Publish
  <1>4. PICK c \in CursorRow : c = cursor["poll"]
    BY <1>1 DEF IngestionType, Streams
  <1>5. c.high \in Nat /\ c.end \in Nat /\ c.token \in Nat /\ CursorTrue(c)
    BY <1>4 DEF CursorRow, IngestionInv
  <1>6. CursorTrue(c)'
    <2>1. c.token # NoToken => PagesRead(Before(c.high, Overlap), c.end, c.token)'
      BY <1>1, <1>5, PublishRead DEF CursorTrue
    <2> QED
      BY <1>1, <1>5, <2>1 DEF CursorTrue
  <1>7. NothingSkipped'
    <2>1. now <= AsOf[i] + Overlap
      BY <1>1, <1>3 DEF OnTime
    <2>2. ~(AsOf[i] < Before(c.high, Overlap))
      BY <1>3, <1>5, <2>1 DEF Before, CursorTrue
    <2>3. \A j \in Listed : AsOf[j] < Before(c.high, Overlap) => <<"API", j>> \in raw
      BY <1>4 DEF IngestionInv, NothingSkipped, WindowStart
    <2> QED
      BY <1>1, <1>4, <2>2, <2>3 DEF NothingSkipped, WindowStart
  <1>8. ASSUME NEW w \in Workers PROVE CollectorTrue(worker[w])'
    <2>1. PICK m \in CollectorRow : m = worker[w]
      BY <1>1 DEF IngestionType
    <2>2. CollectorTrue(m) /\ worker'[w] = m
      BY <1>1, <2>1 DEF IngestionInv
    <2>3. CollectorTrue(m)'
      <3> SUFFICES ASSUME m.pc # "idle", m.stream = "poll"
                   PROVE  CollectorTrue(m)'
        BY DEF CollectorTrue
      <3>1. m.end \in Nat /\ m.st.token \in Nat /\ m.next \in Nat /\ m.end <= now /\ now' = now
            /\ m.start = Before(m.st.high, Overlap)
        BY <1>1, <2>2 DEF CollectorRow, CursorRow, CollectorTrue
      <3>2. PagesRead(m.start, m.end, m.st.token)'
        BY <1>1, <2>2, <3>1, PublishRead DEF CollectorTrue
      <3>3. ASSUME m.pc = "page", NEW j \in Ripe(m.start, m.end)',
                   m.next = NoToken \/ Rank(j, ListedIn(m.start, m.end))' <= m.next
            PROVE  j \in m.page \/ InStore(j)'
        <4>1. j \in Ripe(m.start, m.end)
          BY <1>1, <3>1, PublishRipe
        <4>2. j \in ListedIn(m.start, m.end) /\ j \in ListedIn(m.start, m.end)'
          BY <1>1, <4>1 DEF Ripe, ListedIn, InWindow
        <4>3. /\ Rank(j, ListedIn(m.start, m.end)) <= Rank(j, ListedIn(m.start, m.end))'
              /\ Rank(j, ListedIn(m.start, m.end)) \in Nat
              /\ Rank(j, ListedIn(m.start, m.end))' \in Nat
          BY <1>1, <4>2, RanksOnlyGrow, RankBounds, RankNextNat
        <4>4. m.next = NoToken \/ Rank(j, ListedIn(m.start, m.end)) <= m.next
          BY <3>1, <3>3, <4>3
        <4>5. j \in m.page \/ InStore(j)
          BY <2>2, <3>3, <4>1, <4>4 DEF CollectorTrue
        <4> QED
          BY <1>1, <4>5 DEF InStore
      <3> QED
        BY <3>1, <3>2, <3>3 DEF CollectorTrue
    <2> QED
      BY <2>2, <2>3 DEF CollectorTrue, PagesRead, Ripe, ListedIn, Listed, Rank, InStore, InWindow
  <1>9. CursorTrue(cursor["poll"])'
    BY <1>1, <1>4, <1>6
  <1> QED
    BY <1>1, <1>2, <1>7, <1>8, <1>9 DEF IngestionInv

(* Everything but one collector's hand, its stream's cursor and more rows. *)
LEMMA OthersStay ==
    ASSUME IngestionInv, listing' = listing, raw \subseteq raw', now' \in Nat, now <= now',
           NEW w \in Workers, worker'[w] = worker[w]
    PROVE  CollectorTrue(worker[w])'
  <1>1. PICK m \in CollectorRow : m = worker[w]
    BY DEF IngestionInv, IngestionType
  <1>2. CollectorTrue(m)
    BY <1>1 DEF IngestionInv
  <1>3. CollectorTrue(m)'
    BY <1>2, CollectorStays DEF IngestionInv
  <1> QED
    BY <1>1, <1>3 DEF CollectorTrue, PagesRead, Ripe, ListedIn, Listed, Rank, InStore, InWindow

LEMMA PollCursorStays ==
    ASSUME IngestionInv, listing' = listing, raw \subseteq raw', now' \in Nat, now <= now',
           cursor'["poll"] = cursor["poll"]
    PROVE  CursorTrue(cursor["poll"])' /\ NothingSkipped'
  <1>1. PICK c \in CursorRow : c = cursor["poll"]
    BY DEF IngestionInv, IngestionType, Streams
  <1>2. CursorTrue(c)'
    BY <1>1, CursorStays DEF IngestionInv
  <1>3. CursorTrue(cursor["poll"])'
    BY <1>1, <1>2 DEF CursorTrue, PagesRead, Ripe, ListedIn, Listed, Rank, InStore, InWindow
  <1>4. NothingSkipped'
    BY DEF IngestionInv, NothingSkipped, WindowStart, Listed
  <1> QED
    BY <1>3, <1>4

(* Steps of the clock, the webhooks and the outbox. *)
LEMMA CollectorsIdle ==
    ASSUME IngestionInv, UNCHANGED <<listing, cursor, worker>>, raw \subseteq raw', now' \in Nat, now <= now',
           OnTime'
    PROVE  IngestionInv'
  <1>1. IngestionType'
    BY DEF IngestionInv, IngestionType, Listed
  <1>2. \A w \in Workers : CollectorTrue(worker[w])'
    BY OthersStay
  <1> QED
    BY <1>1, <1>2, PollCursorStays DEF IngestionInv

LEMMA TickStep == IngestionInv /\ Tick => IngestionInv'
  <1> SUFFICES ASSUME IngestionInv, Tick
               PROVE  IngestionInv'
    OBVIOUS
  <1>1. now \in Nat /\ now' = now + 1 /\ UNCHANGED <<listing, cursor, worker, raw>>
    BY DEF Tick, store, IngestionInv, IngestionType
  <1>2. OnTime'
    <2>1. \A i \in Items : AsOf[i] \in Nat /\ Overlap \in Nat
      BY IngestionConstants
    <2> QED
      BY <1>1, <2>1 DEF Tick, OnTime, Listed
  <1> QED
    BY <1>1, <1>2, CollectorsIdle

LEMMA RawMore == ASSUME NEW o, NEW items, StoreObservations(o, items) PROVE raw \subseteq raw'
  BY DEF StoreObservations

LEMMA NowStays == IngestionInv /\ now' = now /\ listing' = listing => now' \in Nat /\ now <= now' /\ OnTime'
  BY DEF IngestionInv, IngestionType, OnTime, Listed

LEMMA StoreStep ==
    ASSUME IngestionInv, UNCHANGED <<now, listing, cursor, worker>>, raw \subseteq raw'
    PROVE  IngestionInv'
  BY NowStays, CollectorsIdle

(* A collector that stops leaves the rest as it is. *)
LEMMA IdleTrue == IdleCollector \in CollectorRow /\ IdleCollector.pc = "idle"
  BY DEF IdleCollector, CollectorRow, NewCursor, CursorRow, Streams, NoToken

LEMMA HandStep ==
    ASSUME IngestionInv, UNCHANGED <<now, listing, cursor, raw>>, NEW w \in Workers, NEW m \in CollectorRow,
           worker' = [worker EXCEPT ![w] = m], CollectorTrue(m)'
    PROVE  IngestionInv'
  <1>1. IngestionType'
    BY DEF IngestionInv, IngestionType, Listed
  <1>2. ASSUME NEW v \in Workers PROVE CollectorTrue(worker[v])'
    <2>1. CASE v = w
      <3>1. worker'[v] = m
        BY <2>1 DEF IngestionInv, IngestionType
      <3> QED
        BY <3>1 DEF CollectorTrue, PagesRead, Ripe, ListedIn, Listed, Rank, InStore, InWindow
    <2>2. CASE v # w
      <3>1. worker'[v] = worker[v]
        BY <2>2 DEF IngestionInv, IngestionType
      <3> QED
        BY <3>1, NowStays, OthersStay
    <2> QED
      BY <2>1, <2>2
  <1> QED
    BY <1>1, <1>2, NowStays, PollCursorStays DEF IngestionInv

LEMMA StopStep ==
    ASSUME IngestionInv, UNCHANGED <<now, listing, cursor, raw>>, NEW w \in Workers,
           worker' = [worker EXCEPT ![w] = IdleCollector]
    PROVE  IngestionInv'
  <1>1. PICK m \in CollectorRow : m = IdleCollector /\ m.pc = "idle"
    BY IdleTrue
  <1>2. CollectorTrue(m)'
    BY <1>1 DEF CollectorTrue
  <1> QED
    BY <1>1, <1>2, HandStep

LEMMA FetchStep ==
    ASSUME IngestionInv, NEW w \in Workers, Fetch(w)
    PROVE  IngestionInv'
  <1>1. PICK m \in CollectorRow : m = worker[w]
    BY DEF IngestionInv, IngestionType
  <1>2. PICK rows : rows = ListedIn(m.start, m.end)
    OBVIOUS
  <1>3. PICK page : page = Page(rows, m.st.token)
    OBVIOUS
  <1>4. /\ page.items = {i \in rows : Rank(i, rows) \in m.st.token + 1 .. m.st.token + PageSize}
        /\ page.next = IF m.st.token + PageSize < Cardinality(rows) THEN m.st.token + PageSize ELSE NoToken
    BY <1>3 DEF Page
  <1>5. m.st.token \in Nat /\ PageSize \in Nat /\ PageSize > 0
    BY IngestionConstants DEF CollectorRow, CursorRow
  <1>6. UNCHANGED <<now, listing, cursor, raw>> /\ m.pc = "window" /\ IngestionType
    BY <1>1 DEF Fetch, store, IngestionInv
  <1>7. CASE worker' = [worker EXCEPT ![w] = IdleCollector]
    BY <1>6, <1>7, StopStep
  <1>8. CASE worker' = [worker EXCEPT ![w] = [m EXCEPT !.pc = "page", !.page = page.items, !.next = page.next]]
    <2>1. PICK n : n = [m EXCEPT !.pc = "page", !.page = page.items, !.next = page.next]
      OBVIOUS
    <2>2. rows \subseteq Items /\ page.items \subseteq Items /\ page.next \in Nat
      BY <1>2, <1>4, <1>5, <1>6 DEF ListedIn, IngestionType, NoToken
    <2>3. /\ n \in CollectorRow /\ n.pc = "page" /\ n.page = page.items /\ n.next = page.next
          /\ n.stream = m.stream /\ n.st = m.st /\ n.start = m.start /\ n.end = m.end
      BY <2>1, <2>2 DEF CollectorRow
    <2>4. CollectorTrue(n)'
      <3> SUFFICES ASSUME n.stream = "poll"
                   PROVE  CollectorTrue(n)'
        BY DEF CollectorTrue
      <3>1. CollectorTrue(m)
        BY <1>1 DEF IngestionInv
      <3>2. m.start = Before(m.st.high, Overlap) /\ m.end <= now /\ PagesRead(m.start, m.end, m.st.token)
        BY <1>6, <2>3, <3>1 DEF CollectorTrue
      <3>3. ASSUME NEW i \in Ripe(m.start, m.end), page.next = NoToken \/ Rank(i, rows) <= page.next
            PROVE  i \in page.items \/ InStore(i)
        <4>1. i \in rows
          BY <1>2 DEF Ripe, ListedIn
        <4>2. Rank(i, rows) \in Nat /\ Cardinality(rows) \in Nat /\ Rank(i, rows) <= Cardinality(rows)
          BY <1>2, <1>6, <4>1, RankBounds
        <4>3. CASE Rank(i, rows) <= m.st.token
          BY <1>2, <3>2, <4>3 DEF PagesRead
        <4>4. CASE m.st.token < Rank(i, rows)
          <5>1. Rank(i, rows) <= m.st.token + PageSize
            BY <1>4, <1>5, <3>3, <4>2 DEF NoToken
          <5> QED
            BY <1>4, <1>5, <4>1, <4>2, <4>4, <5>1
        <4> QED
          BY <1>5, <4>2, <4>3, <4>4
      <3>4. CollectorTrue(n)
        BY <1>2, <2>3, <3>2, <3>3 DEF CollectorTrue
      <3> QED
        BY <1>6, <2>3, <3>4, NowStays, CollectorStays
    <2> QED
      BY <1>6, <1>8, <2>1, <2>3, <2>4, HandStep
  <1> QED
    <2>1. page = Page(ListedIn(worker[w].start, worker[w].end), worker[w].st.token)
      BY <1>1, <1>2, <1>3
    <2>2. \/ worker' = [worker EXCEPT ![w] = IdleCollector]
          \/ worker' = [worker EXCEPT ![w] = [m EXCEPT !.pc = "page", !.page = page.items, !.next = page.next]]
      BY <1>1, <2>1 DEF Fetch, Gap
    <2> QED
      BY <1>7, <1>8, <2>2

(* A collector moves its stream's cursor. *)
LEMMA CursorStep ==
    ASSUME IngestionInv, UNCHANGED <<now, listing>>, raw \subseteq raw',
           NEW s \in Streams, NEW c \in CursorRow, cursor' = [cursor EXCEPT ![s] = c],
           NEW w \in Workers, NEW m \in CollectorRow, worker' = [worker EXCEPT ![w] = m], CollectorTrue(m)',
           s = "poll" => /\ CursorTrue(c)'
                         /\ \A i \in Listed : AsOf[i] < Before(c.high, Overlap) => <<"API", i>> \in raw'
    PROVE  IngestionInv'
  <1>1. IngestionType' /\ now' \in Nat /\ now <= now' /\ OnTime'
    BY NowStays DEF IngestionInv, IngestionType, Listed
  <1>2. ASSUME NEW v \in Workers PROVE CollectorTrue(worker[v])'
    <2>1. CASE v = w
      <3>1. worker'[v] = m
        BY <2>1 DEF IngestionInv, IngestionType
      <3> QED
        BY <3>1 DEF CollectorTrue, PagesRead, Ripe, ListedIn, Listed, Rank, InStore, InWindow
    <2>2. CASE v # w
      <3>1. worker'[v] = worker[v]
        BY <2>2 DEF IngestionInv, IngestionType
      <3> QED
        BY <1>1, <3>1, OthersStay
    <2> QED
      BY <2>1, <2>2
  <1>3. CursorTrue(cursor["poll"])' /\ NothingSkipped'
    <2>1. CASE s = "poll"
      <3>1. cursor'["poll"] = c
        BY <2>1 DEF IngestionInv, IngestionType
      <3>2. CursorTrue(cursor["poll"])'
        BY <2>1, <3>1 DEF CursorTrue, PagesRead, Ripe, ListedIn, Listed, Rank, InStore, InWindow
      <3>3. NothingSkipped'
        BY <2>1, <3>1 DEF NothingSkipped, WindowStart, Listed
      <3> QED
        BY <3>2, <3>3
    <2>2. CASE s # "poll"
      <3>1. cursor'["poll"] = cursor["poll"]
        BY <2>2 DEF IngestionInv, IngestionType, Streams
      <3> QED
        BY <1>1, <3>1, PollCursorStays
    <2> QED
      BY <2>1, <2>2
  <1> QED
    BY <1>1, <1>2, <1>3 DEF IngestionInv

(* A new stream's cursor: nothing is behind it. *)
LEMMA NewCursorTrue ==
    ASSUME NEW start \in Nat PROVE NewCursor(start) \in CursorRow /\ NewCursor(start).token = NoToken
                                   /\ NewCursor(start).high = start
  BY DEF NewCursor, CursorRow, NoToken

LEMMA WindowNat ==
    ASSUME IngestionType, NEW s \in Streams, NEW st \in CursorRow
    PROVE  /\ InitialStart(s) \in Nat /\ WindowStart(s, st.high) \in Nat
           /\ WindowEnd(s, st, WindowStart(s, st.high)) \in Nat
           /\ s = "poll" /\ st.token = NoToken => WindowEnd(s, st, WindowStart(s, st.high)) <= now
  <1>1. /\ now \in Nat /\ Overlap \in Nat /\ MaxWindow \in Nat /\ RefetchWindow[1] \in Nat
        /\ RefetchWindow[2] \in Nat /\ st.high \in Nat /\ st.end \in Nat
    BY IngestionConstants DEF IngestionType, CursorRow
  <1>2. InitialStart(s) \in Nat /\ WindowStart(s, st.high) \in Nat
    BY <1>1, BeforeNat DEF InitialStart, WindowStart
  <1>3. PICK start \in Nat : start = WindowStart(s, st.high)
    BY <1>2
  <1>4. WindowEnd(s, st, start) \in Nat /\ (s = "poll" /\ st.token = NoToken => WindowEnd(s, st, start) <= now)
    BY <1>1 DEF WindowEnd, EarlierOf
  <1> QED
    BY <1>2, <1>3, <1>4

LEMMA OpenStep ==
    ASSUME IngestionInv, NEW w \in Workers, NEW s \in Streams, Open(w, s)
    PROVE  IngestionInv'
  <1>1. IngestionType /\ UNCHANGED <<now, listing, raw>> /\ now' \in Nat /\ now <= now'
    BY NowStays DEF Open, store, IngestionInv
  <1>2. PICK st : st = IF cursor[s].open THEN cursor[s] ELSE NewCursor(InitialStart(s))
    OBVIOUS
  <1>3. st \in CursorRow /\ (st = cursor[s] \/ (st.token = NoToken /\ st.high = InitialStart(s)))
    <2>1. cursor[s] \in CursorRow /\ InitialStart(s) \in Nat
      BY <1>1, WindowNat DEF IngestionType
    <2> QED
      BY <1>2, <2>1, NewCursorTrue
  <1>4. PICK start \in Nat : start = WindowStart(s, st.high)
    BY <1>1, <1>3, WindowNat
  <1>5. PICK end \in Nat : end = WindowEnd(s, st, start)
    BY <1>1, <1>3, <1>4, WindowNat
  <1>6. s = "poll" => CursorTrue(st) /\ \A i \in Listed : AsOf[i] < Before(st.high, Overlap) => <<"API", i>> \in raw
    <2>1. CASE st = cursor[s]
      BY <2>1 DEF IngestionInv, NothingSkipped, WindowStart
    <2>2. CASE st.token = NoToken /\ st.high = InitialStart(s)
      <3>1. \A i \in Listed : AsOf[i] \in Nat /\ Overlap \in Nat /\ now \in Nat
        BY <1>1, IngestionConstants DEF IngestionType
      <3>2. s = "poll" => st.high = 0
        BY <2>2 DEF InitialStart
      <3> QED
        BY <1>1, <2>2, <3>1, <3>2 DEF CursorTrue, Before, IngestionType
    <2> QED
      BY <1>3, <2>1, <2>2
  <1>7. s = "poll" => /\ CursorTrue(st)'
                      /\ \A i \in Listed : AsOf[i] < Before(st.high, Overlap) => <<"API", i>> \in raw'
    BY <1>1, <1>3, <1>6, CursorStays
  <1>8. cursor' = [cursor EXCEPT ![s] = st]
    BY <1>2 DEF Open
  <1>9. CASE worker' = worker
    <2>1. PICK m \in CollectorRow : m = worker[w]
      BY <1>1 DEF IngestionType
    <2>2. worker' = [worker EXCEPT ![w] = m] /\ CollectorTrue(m)
      BY <1>1, <1>9, <2>1 DEF IngestionType, IngestionInv
    <2> QED
      BY <1>1, <1>3, <1>7, <1>8, <2>2, CollectorStays, CursorStep
  <1>10. CASE worker' = [worker EXCEPT ![w] = [IdleCollector EXCEPT !.pc = "window", !.stream = s, !.st = st,
                                                                   !.start = start, !.end = end]]
    <2>1. PICK m : m = [IdleCollector EXCEPT !.pc = "window", !.stream = s, !.st = st, !.start = start, !.end = end]
      OBVIOUS
    <2>2. /\ m \in CollectorRow /\ m.pc = "window" /\ m.stream = s /\ m.st = st /\ m.start = start /\ m.end = end
      BY <1>3, <1>4, <1>5, <2>1, IdleTrue DEF CollectorRow
    <2>3. CollectorTrue(m)
      <3> SUFFICES ASSUME s = "poll"
                   PROVE  CollectorTrue(m)
        BY <2>2 DEF CollectorTrue
      <3>1. start = Before(st.high, Overlap)
        BY <1>4 DEF WindowStart
      <3>2. st.token # NoToken => end = st.end
        BY <1>5 DEF WindowEnd
      <3>3. CASE st.token = NoToken
        <4>1. end <= now
          BY <1>1, <1>3, <1>4, <1>5, <3>3, WindowNat
        <4>2. PagesRead(start, end, st.token)
          BY <1>1, <3>3, NothingBeforeFirst
        <4> QED
          BY <2>2, <3>1, <4>1, <4>2 DEF CollectorTrue
      <3>4. CASE st.token # NoToken
        BY <1>6, <2>2, <3>1, <3>2, <3>4 DEF CollectorTrue, CursorTrue
      <3> QED
        BY <3>3, <3>4
    <2> QED
      BY <1>1, <1>3, <1>7, <1>8, <1>10, <2>1, <2>2, <2>3, CollectorStays, CursorStep
  <1> QED
    BY <1>2, <1>4, <1>5, <1>9, <1>10 DEF Open

LEMMA StoredPage ==
    ASSUME NEW items, StoreObservations("API", items)
    PROVE  raw \subseteq raw' /\ \A i \in items : <<"API", i>> \in raw'
  BY DEF StoreObservations

LEMMA CommitStep ==
    ASSUME IngestionInv, NEW w \in Workers, Commit(w)
    PROVE  IngestionInv'
  <1>1. IngestionType /\ UNCHANGED <<now, listing>> /\ now' \in Nat /\ now <= now'
    BY NowStays DEF Commit, IngestionInv
  <1>2. PICK m \in CollectorRow : m = worker[w]
    BY <1>1 DEF IngestionType
  <1>3. m.pc = "page" /\ CollectorTrue(m)
    BY <1>2 DEF Commit, IngestionInv
  <1>4. CASE cursor[m.stream] # m.st
    <2>1. worker' = [worker EXCEPT ![w] = IdleCollector] /\ UNCHANGED <<cursor, raw>>
      BY <1>2, <1>4 DEF Commit, store
    <2> QED
      BY <1>1, <2>1, StopStep
  <1>5. CASE cursor[m.stream] = m.st
    <2>1. PICK next : next = Advanced(m.st, m.next, m.end)
      OBVIOUS
    <2>2. /\ StoreObservations("API", m.page)
          /\ cursor' = [cursor EXCEPT ![m.stream] = next]
          /\ worker' = [worker EXCEPT ![w] = IF m.next = NoToken THEN IdleCollector
                                             ELSE [m EXCEPT !.pc = "window", !.st = next, !.page = {}]]
      BY <1>2, <1>5, <2>1 DEF Commit
    <2>3. raw \subseteq raw' /\ \A i \in m.page : <<"API", i>> \in raw'
      BY <2>2, StoredPage
    <2>4. /\ m.stream \in Streams /\ m.st \in CursorRow /\ m.next \in Nat /\ m.end \in Nat /\ m.st.high \in Nat
          /\ m.st.token \in Nat
      BY DEF CollectorRow, CursorRow
    <2>5. /\ next \in CursorRow
          /\ m.next = NoToken => next.high = m.end /\ next.token = NoToken
          /\ m.next # NoToken => next.high = m.st.high /\ next.token = m.next /\ next.end = m.end
      <3>1. CASE m.next = NoToken
        BY <2>1, <2>4, <3>1 DEF Advanced, CursorRow, NoToken
      <3>2. CASE m.next # NoToken
        BY <2>1, <2>4, <3>2 DEF Advanced, CursorRow
      <3> QED
        BY <3>1, <3>2
    <2>6. m.stream = "poll" =>
             \A i \in Ripe(m.start, m.end)' :
                m.next = NoToken \/ Rank(i, ListedIn(m.start, m.end))' <= m.next => <<"API", i>> \in raw'
      BY <1>1, <1>3, <2>3 DEF CollectorTrue, Ripe, Listed, ListedIn, InWindow, Rank, InStore
    <2>7. m.stream = "poll" => m.start = Before(m.st.high, Overlap) /\ m.end <= now'
      BY <1>1, <1>3 DEF CollectorTrue
    <2>8. m.stream = "poll" =>
             /\ CursorTrue(next)'
             /\ \A i \in Listed : AsOf[i] < Before(next.high, Overlap) => <<"API", i>> \in raw'
      <3> SUFFICES ASSUME m.stream = "poll"
                   PROVE  /\ CursorTrue(next)'
                          /\ \A i \in Listed : AsOf[i] < Before(next.high, Overlap) => <<"API", i>> \in raw'
        OBVIOUS
      <3>1. \A i \in Listed : AsOf[i] < Before(m.st.high, Overlap) => <<"API", i>> \in raw'
        BY <1>5, <2>3 DEF IngestionInv, NothingSkipped, WindowStart
      <3>2. CASE m.next = NoToken
        <4>1. ASSUME NEW i \in Listed, AsOf[i] < Before(m.end, Overlap) PROVE <<"API", i>> \in raw'
          <5>1. AsOf[i] \in Nat /\ Overlap \in Nat /\ m.start \in Nat
            BY <1>1, IngestionConstants DEF IngestionType, CollectorRow
          <5>2. CASE AsOf[i] < m.start
            BY <2>7, <3>1, <5>2
          <5>3. CASE m.start <= AsOf[i]
            <6>1. AsOf[i] <= m.end
              <7>1. Before(m.end, Overlap) \in Nat /\ Before(m.end, Overlap) <= m.end
                BY <2>4, <5>1, BeforeNat
              <7> QED
                BY <2>4, <4>1, <5>1, <7>1
            <6>2. i \in Ripe(m.start, m.end)'
              BY <1>1, <4>1, <5>3, <6>1 DEF Ripe, InWindow, Listed
            <6> QED
              BY <2>6, <3>2, <6>2
          <5> QED
            BY <5>1, <5>2, <5>3
        <4> QED
          BY <2>5, <2>7, <3>2, <4>1 DEF CursorTrue
      <3>3. CASE m.next # NoToken
        <4>1. PagesRead(m.start, m.end, m.next)'
          BY <2>6 DEF PagesRead, InStore
        <4>2. CursorTrue(m.st) /\ m.st.high <= now'
          BY <1>1, <1>5 DEF IngestionInv, CursorTrue
        <4> QED
          BY <2>5, <2>7, <3>1, <3>3, <4>1, <4>2 DEF CursorTrue
      <3> QED
        BY <3>2, <3>3
    <2>9. CASE m.next = NoToken
      <3>1. PICK n \in CollectorRow : n = IdleCollector /\ n.pc = "idle"
        BY IdleTrue
      <3>2. CollectorTrue(n)'
        BY <3>1 DEF CollectorTrue
      <3>3. worker' = [worker EXCEPT ![w] = n]
        BY <2>2, <2>9, <3>1
      <3> QED
        BY <1>1, <2>2, <2>3, <2>4, <2>5, <2>8, <3>2, <3>3, CursorStep
    <2>10. CASE m.next # NoToken
      <3>1. PICK n : n = [m EXCEPT !.pc = "window", !.st = next, !.page = {}]
        OBVIOUS
      <3>2. /\ n \in CollectorRow /\ n.pc = "window" /\ n.stream = m.stream /\ n.st = next
            /\ n.start = m.start /\ n.end = m.end
        BY <2>5, <3>1 DEF CollectorRow
      <3>3. m.stream = "poll" => PagesRead(m.start, m.end, m.next)'
        BY <2>6 DEF PagesRead, InStore
      <3>4. CollectorTrue(n)'
        BY <2>5, <2>7, <2>10, <3>2, <3>3 DEF CollectorTrue
      <3>5. worker' = [worker EXCEPT ![w] = n]
        BY <2>2, <2>10, <3>1
      <3> QED
        <4>1. /\ n \in CollectorRow /\ next \in CursorRow /\ m.stream \in Streams /\ raw \subseteq raw'
              /\ cursor' = [cursor EXCEPT ![m.stream] = next] /\ UNCHANGED <<now, listing>>
          BY <1>1, <2>2, <2>3, <2>4, <2>5, <3>2
        <4> QED
          BY <2>8, <3>4, <3>5, <4>1, CursorStep
    <2> QED
      BY <2>9, <2>10
  <1> QED
    BY <1>4, <1>5

LEMMA IngestionInitInv == IngestionInit => IngestionInv
  <1> SUFFICES ASSUME IngestionInit
               PROVE  IngestionInv
    OBVIOUS
  <1>1. [NewCursor(0) EXCEPT !.open = FALSE] \in CursorRow /\ [NewCursor(0) EXCEPT !.open = FALSE].high = 0
        /\ [NewCursor(0) EXCEPT !.open = FALSE].token = NoToken
    BY DEF NewCursor, CursorRow, NoToken
  <1>2. Listed = {} /\ now = 0
    BY DEF IngestionInit, Listed
  <1>3. IngestionType
    BY <1>1, <1>2, IdleTrue DEF IngestionInit, IngestionType, Listed
  <1>4. OnTime
    <2>1. \A i \in Items : AsOf[i] \in Nat /\ Overlap \in Nat
      BY IngestionConstants
    <2> QED
      BY <1>2, <2>1 DEF OnTime
  <1>5. CursorTrue(cursor["poll"]) /\ NothingSkipped
    <2>1. cursor["poll"].high = 0 /\ cursor["poll"].token = NoToken
      BY <1>1 DEF IngestionInit, Streams
    <2>2. CursorTrue(cursor["poll"])
      BY <1>2, <2>1 DEF CursorTrue
    <2>3. NothingSkipped
      BY <1>2 DEF NothingSkipped
    <2> QED
      BY <2>2, <2>3
  <1>6. \A w \in Workers : CollectorTrue(worker[w])
    BY IdleTrue DEF IngestionInit, CollectorTrue
  <1> QED
    BY <1>3, <1>4, <1>5, <1>6 DEF IngestionInv

LEMMA IngestionStepInv == IngestionInv /\ [IngestionNext]_ingestionVars => IngestionInv'
  <1> SUFFICES ASSUME IngestionInv, [IngestionNext]_ingestionVars
               PROVE  IngestionInv'
    OBVIOUS
  <1>1. CASE UNCHANGED ingestionVars
    BY <1>1, StoreStep DEF ingestionVars
  <1>2. CASE Tick
    BY <1>2, TickStep
  <1>3. ASSUME NEW i \in Items, NEW at \in 1 .. Cardinality(Listed) + 1, Publish(i, at) PROVE IngestionInv'
    <2>1. at \in Nat
      OBVIOUS
    <2> QED
      BY <1>3, <2>1, PublishStep
  <1>4. ASSUME NEW w \in Workers, (\E s \in Streams : Open(w, s)) \/ Fetch(w) \/ Commit(w) \/ Abandon(w)
        PROVE  IngestionInv'
    <2>1. CASE Abandon(w)
      BY <2>1, StopStep DEF Abandon, store
    <2> QED
      BY <1>4, <2>1, OpenStep, FetchStep, CommitStep
  <1>5. ASSUME NEW i \in Items, Webhook(i) PROVE IngestionInv'
    <2>1. raw \subseteq raw'
      BY <1>5, RawMore DEF Webhook
    <2> QED
      BY <1>5, <2>1, StoreStep DEF Webhook
  <1>6. ASSUME NEW i \in Items, RequestSourceProof(i) \/ Send(i) \/ MarkEventSent(i) \/ SendCrash(i) \/ SendFails(i)
        PROVE  IngestionInv'
    BY <1>6, StoreStep DEF RequestSourceProof, Send, MarkEventSent, SendCrash, SendFails, store
  <1> QED
    BY <1>1, <1>2, <1>3, <1>4, <1>5, <1>6 DEF IngestionNext

(* No settlement that the provider lists within the overlap is lost by the *)
(* polled stream (collector.py), for any number of settlements, collectors *)
(* and pages, any page size and any overlap.                               *)
THEOREM NothingEverSkipped == IngestionInit /\ [][IngestionNext]_ingestionVars => []NothingSkipped
  <1>1. IngestionInit => IngestionInv
    BY IngestionInitInv
  <1>2. IngestionInv /\ [IngestionNext]_ingestionVars => IngestionInv'
    BY IngestionStepInv
  <1>3. IngestionInv => NothingSkipped
    BY DEF IngestionInv
  <1> QED
    BY <1>1, <1>2, <1>3, PTL

-----------------------------------------------------------------------------
(* The outbox *)

EventRow == [sent : BOOLEAN, attempt : Nat]

(* One event per request; what is marked sent, or about to be, has arrived. *)
OutboxInv ==
    /\ DOMAIN outbox = requests
    /\ \A i \in requests : outbox[i] \in EventRow
    /\ \A i \in requests : outbox[i].sent => i \in delivered
    /\ sending \subseteq delivered /\ sending \subseteq requests
    /\ \A i \in Paid : (\E o \in {"API", "WEBHOOK"} : <<o, i>> \in raw) => i \in requests

LEMMA RequestedKeeps ==
    ASSUME OutboxInv, NEW items, Requested(items), UNCHANGED dispatch
    PROVE  /\ DOMAIN outbox' = requests' /\ requests' = requests \union items
           /\ \A i \in requests' : outbox'[i] \in EventRow
           /\ \A i \in requests' : outbox'[i].sent => i \in delivered'
           /\ sending' \subseteq delivered' /\ sending' \subseteq requests'
  <1>1. PICK row : row = [sent |-> FALSE, attempt |-> 0]
    OBVIOUS
  <1>2. row \in EventRow /\ ~row.sent
    BY <1>1 DEF EventRow
  <1>3. /\ requests' = requests \union items
        /\ DOMAIN outbox' = requests \union items
        /\ \A i \in requests : outbox'[i] = outbox[i]
        /\ \A i \in items \ requests : outbox'[i] = row
    BY <1>1 DEF OutboxInv, Requested, Emit
  <1> QED
    BY <1>2, <1>3 DEF OutboxInv, dispatch

LEMMA ObservedKeeps ==
    ASSUME OutboxInv, NEW o, NEW items \in SUBSET Items, StoreObservations(o, items), UNCHANGED dispatch
    PROVE  OutboxInv'
  <1> DEFINE new == {i \in items : <<o, i>> \notin raw}
  <1>1. Requested(Candidates(new)) /\ raw' = raw \union {<<o, i>> : i \in new}
    BY DEF StoreObservations
  <1>2. requests' = requests \union Candidates(new)
    BY <1>1, RequestedKeeps
  <1>3. \A i \in Paid : (\E p \in {"API", "WEBHOOK"} : <<p, i>> \in raw') => i \in requests'
    BY <1>1, <1>2 DEF OutboxInv, Candidates
  <1> QED
    BY <1>1, <1>3, RequestedKeeps DEF OutboxInv

LEMMA OutboxInitInv == IngestionInit => OutboxInv
  BY DEF IngestionInit, OutboxInv

LEMMA OutboxStepInv == IngestionInv /\ OutboxInv /\ [IngestionNext]_ingestionVars => OutboxInv'
  <1> SUFFICES ASSUME IngestionInv, OutboxInv, [IngestionNext]_ingestionVars
               PROVE  OutboxInv'
    OBVIOUS
  <1>1. ASSUME UNCHANGED <<store, dispatch>> PROVE OutboxInv'
    BY <1>1 DEF OutboxInv, store, dispatch
  <1>2. CASE UNCHANGED ingestionVars
    BY <1>1, <1>2 DEF ingestionVars, store, dispatch
  <1>3. CASE Tick
    BY <1>1, <1>3 DEF Tick
  <1>4. ASSUME NEW i \in Items, NEW at, Publish(i, at) PROVE OutboxInv'
    BY <1>1, <1>4 DEF Publish
  <1>5. ASSUME NEW w \in Workers, (\E s \in Streams : Open(w, s)) \/ Fetch(w) \/ Abandon(w) PROVE OutboxInv'
    BY <1>1, <1>5 DEF Open, Fetch, Abandon
  <1>6. ASSUME NEW w \in Workers, Commit(w) PROVE OutboxInv'
    <2>1. worker[w].page \in SUBSET Items
      BY DEF IngestionInv, IngestionType, CollectorRow
    <2>2. UNCHANGED dispatch /\ (StoreObservations("API", worker[w].page) \/ UNCHANGED store)
      BY <1>6 DEF Commit
    <2> QED
      BY <1>1, <2>1, <2>2, ObservedKeeps
  <1>7. ASSUME NEW i \in Items, Webhook(i) PROVE OutboxInv'
    BY <1>7, ObservedKeeps DEF Webhook
  <1>8. ASSUME NEW i \in Items, RequestSourceProof(i) PROVE OutboxInv'
    <2>1. Requested({i}) /\ raw' = raw /\ UNCHANGED dispatch
      BY <1>8 DEF RequestSourceProof
    <2> QED
      BY <2>1, RequestedKeeps DEF OutboxInv
  <1>9. ASSUME NEW i \in Items, Send(i) PROVE OutboxInv'
    BY <1>9 DEF Send, Sendable, OutboxInv, store
  <1>10. ASSUME NEW i \in Items, SendCrash(i) PROVE OutboxInv'
    BY <1>10 DEF SendCrash, OutboxInv, store
  <1>11. ASSUME NEW i \in Items, MarkEventSent(i) PROVE OutboxInv'
    <2>1. i \in requests /\ i \in delivered /\ outbox[i] \in EventRow
      BY <1>11 DEF MarkEventSent, OutboxInv
    <2>2. PICK row : row = [sent |-> TRUE, attempt |-> outbox[i].attempt + 1]
      OBVIOUS
    <2>3. row \in EventRow
      BY <2>1, <2>2 DEF EventRow
    <2>4. outbox' = [outbox EXCEPT ![i] = row] /\ UNCHANGED <<raw, requests, delivered>> /\ sending' \subseteq sending
      BY <1>11, <2>2 DEF MarkEventSent
    <2> QED
      BY <2>1, <2>3, <2>4 DEF OutboxInv
  <1>12. ASSUME NEW i \in Items, SendFails(i) PROVE OutboxInv'
    <2>1. i \in requests /\ outbox[i] \in EventRow
      BY <1>12 DEF SendFails, Sendable, OutboxInv
    <2>2. PICK row : row = [outbox[i] EXCEPT !.attempt = @ + 1]
      OBVIOUS
    <2>3. row \in EventRow /\ row.sent = outbox[i].sent
      BY <2>1, <2>2 DEF EventRow
    <2>4. outbox' = [outbox EXCEPT ![i] = row] /\ UNCHANGED <<raw, requests, delivered, sending>>
      BY <1>12, <2>2 DEF SendFails, dispatch
    <2> QED
      BY <2>1, <2>3, <2>4 DEF OutboxInv
  <1> QED
    BY <1>2, <1>3, <1>4, <1>5, <1>6, <1>7, <1>8, <1>9, <1>10, <1>11, <1>12 DEF IngestionNext

(* Every paid settlement that is stored has its proof request, with one    *)
(* event that is still to be published or has reached the publisher        *)
(* (emit_candidate, dispatch_outbox), whatever crashed in between.         *)
THEOREM CandidatesReachPublisher ==
    IngestionInit /\ [][IngestionNext]_ingestionVars => []CandidateReachesPublisher
  <1>1. IngestionInit => IngestionInv /\ OutboxInv
    BY IngestionInitInv, OutboxInitInv
  <1>2. IngestionInv /\ OutboxInv /\ [IngestionNext]_ingestionVars => (IngestionInv /\ OutboxInv)'
    BY IngestionStepInv, OutboxStepInv
  <1>3. OutboxInv => CandidateReachesPublisher
    BY DEF OutboxInv, CandidateReachesPublisher
  <1> QED
    BY <1>1, <1>2, <1>3, PTL

-----------------------------------------------------------------------------
(* Receivables (Receivables) *)

ClaimRow == [net : Int, paid : Int, revision : Nat, assigned : BOOLEAN, checkpoint : BOOLEAN,
             state : {"PAID", "PARTIALLY_PAID", "ASSIGNED", "RECOGNIZED", "DISPUTED"}]

RevisionRow == [ref : Refs, revision : Nat, kind : Kinds \union {"RECOGNIZED"}, obs : Observations,
                delta : Int, unpaid : Int, late : BOOLEAN]

ClaimType ==
    /\ DOMAIN claim \subseteq Refs
    /\ \A r \in DOMAIN claim : claim[r] \in ClaimRow
    /\ history \subseteq RevisionRow /\ IsFiniteSet(history)
    /\ \A h \in history : h.ref \in DOMAIN claim

(* A revision kept out of the balance blocks its receivable. *)
LateBlocks == \A h \in history : h.late => HasCase(h.ref)

Heard(t) ==
    \/ \E h \in Applied(t.ref) : h.revision = t.revision /\ h.kind = t.kind /\ h.delta = t.delta
    \/ HasCase(t.ref)

AllHeard == \A t \in told : Heard(t)

BalanceOf(r) ==
    \E first \in Applied(r) :
       /\ AppliedAs(r, "RECOGNIZED") = {first}
       /\ {h.revision : h \in Applied(r)} = first.revision .. claim[r].revision
       /\ \A h, g \in Applied(r) : h.obs = g.obs => h = g
       /\ claim[r].net = first.delta + Moved(r, "CORRECTION")
       /\ claim[r].paid = first.delta - first.unpaid + Moved(r, "PAYOUT") - Moved(r, "CANCELLATION")

(* A standing decision, draft or approved, rests on assigned receivables   *)
(* as they are.                                                            *)
DecisionRests ==
    /\ decision = [status |-> decision.status, basis |-> decision.basis]
    /\ decision.status \in {"none", "DRAFT", "APPROVED", "REVOKED"}
    /\ decision.status \in {"DRAFT", "APPROVED"} =>
          \A r \in DOMAIN decision.basis : r \in Assigned /\ decision.basis[r] = Unpaid(r)

ClaimInv == ClaimType /\ LateBlocks /\ AllHeard /\ (\A r \in DOMAIN claim : BalanceOf(r)) /\ DecisionRests

LEMMA ClaimInvKept == ClaimInv => ClaimsKept
  <1> SUFFICES ASSUME ClaimInv
               PROVE  ClaimsKept
    OBVIOUS
  <1>1. NothingSilent
    BY DEF ClaimInv, AllHeard, Heard, NothingSilent, Reasons
  <1>2. BalanceIsHistory
    BY DEF ClaimInv, BalanceOf, BalanceIsHistory
  <1>3. DecisionCurrent
    BY DEF ClaimInv, DecisionRests, DecisionCurrent
  <1> QED
    BY <1>1, <1>2, <1>3 DEF ClaimsKept

LEMMA ClaimInitInv == ReceivablesInit => ClaimInv
  BY FS_EmptySet DEF ReceivablesInit, ClaimInv, ClaimType, LateBlocks, AllHeard, DecisionRests, NoDecision

(* Cases stay open and history is never rewritten. *)
LEMMA HeardStays ==
    ASSUME AllHeard, history \subseteq history', cases \subseteq cases'
    PROVE  \A t \in told : Heard(t)'
  BY DEF AllHeard, Heard, HasCase, Applied

LEMMA BalanceStays ==
    ASSUME NEW r, BalanceOf(r), Applied(r)' = Applied(r),
           claim'[r].net = claim[r].net, claim'[r].paid = claim[r].paid, claim'[r].revision = claim[r].revision
    PROVE  BalanceOf(r)'
  <1>1. \A k : AppliedAs(r, k)' = AppliedAs(r, k) /\ Moved(r, k)' = Moved(r, k)
    BY DEF AppliedAs, Moved
  <1>2. PICK first \in Applied(r) :
       /\ AppliedAs(r, "RECOGNIZED") = {first}
       /\ {h.revision : h \in Applied(r)} = first.revision .. claim[r].revision
       /\ \A h, g \in Applied(r) : h.obs = g.obs => h = g
       /\ claim[r].net = first.delta + Moved(r, "CORRECTION")
       /\ claim[r].paid = first.delta - first.unpaid + Moved(r, "PAYOUT") - Moved(r, "CANCELLATION")
    BY DEF BalanceOf
  <1>3. /\ first \in Applied(r)' /\ AppliedAs(r, "RECOGNIZED")' = {first}
        /\ {h.revision : h \in Applied(r)'} = first.revision .. claim'[r].revision
        /\ \A h, g \in Applied(r)' : h.obs = g.obs => h = g
    BY <1>1, <1>2
  <1>4. /\ claim'[r].net = first.delta + Moved(r, "CORRECTION")'
        /\ claim'[r].paid = first.delta - first.unpaid + Moved(r, "PAYOUT")' - Moved(r, "CANCELLATION")'
    BY <1>1, <1>2
  <1> QED
    BY <1>3, <1>4 DEF BalanceOf

(* Steps that only flag, or change a claim's place outside its balance. *)
LEMMA ClaimsStay ==
    ASSUME ClaimInv, history' = history, DOMAIN claim' = DOMAIN claim,
           \A r \in DOMAIN claim : /\ claim'[r] \in ClaimRow /\ claim'[r].net = claim[r].net
                                   /\ claim'[r].paid = claim[r].paid /\ claim'[r].revision = claim[r].revision,
           cases \subseteq cases'
    PROVE  ClaimType' /\ LateBlocks' /\ (\A t \in told : Heard(t)') /\ (\A r \in DOMAIN claim' : BalanceOf(r)')
  <1>1. ClaimType' /\ LateBlocks'
    BY DEF ClaimInv, ClaimType, LateBlocks, HasCase
  <1>2. \A t \in told : Heard(t)'
    BY HeardStays DEF ClaimInv
  <1>3. ASSUME NEW r \in DOMAIN claim' PROVE BalanceOf(r)'
    <2>1. Applied(r)' = Applied(r)
      BY DEF Applied
    <2> QED
      BY <2>1, BalanceStays DEF ClaimInv
  <1> QED
    BY <1>1, <1>2, <1>3

LEMMA DecisionStays ==
    ASSUME DecisionRests, decision' = decision,
           \A r \in Assigned : r \in DOMAIN claim' /\ claim'[r].assigned /\ claim'[r].net = claim[r].net
                               /\ claim'[r].paid = claim[r].paid
    PROVE  DecisionRests'
  BY DEF DecisionRests, Assigned, Unpaid

LEMMA FlagStays ==
    ASSUME ClaimInv, UNCHANGED <<claim, history, decision>>, cases \subseteq cases'
    PROVE  ClaimType' /\ LateBlocks' /\ (\A t \in told : Heard(t)') /\ (\A r \in DOMAIN claim' : BalanceOf(r)')
           /\ DecisionRests'
  <1>1. \A r \in DOMAIN claim : claim[r] \in ClaimRow
    BY DEF ClaimInv, ClaimType
  <1>2. DecisionRests'
    BY DEF ClaimInv, DecisionRests, Assigned, Unpaid
  <1> QED
    BY <1>1, <1>2, ClaimsStay

LEMMA RecordStep ==
    ASSUME ClaimInv, NEW r \in Refs, NEW obs \in Observations, NEW net \in Nat, NEW paid \in Nat, NEW revision \in Nat,
           NEW operating \in BOOLEAN, NEW earned \in BOOLEAN,
           RecordObligation(r, obs, net, paid, revision, operating, earned)
    PROVE  ClaimInv'
  <1>1. CASE UNCHANGED <<claim, history>> /\ cases \subseteq cases'
    BY <1>1, FlagStays DEF RecordObligation, ClaimInv, AllHeard
  <1>2. CASE /\ r \notin DOMAIN claim
             /\ claim' = Recorded(r, NewClaim(net, paid, revision))
             /\ history' = history \cup {NewRevision(r, revision, "RECOGNIZED", obs, net, net - paid, FALSE)}
             /\ cases \subseteq cases'
    <2>1. PICK row : row = NewClaim(net, paid, revision)
      OBVIOUS
    <2>2. row \in ClaimRow /\ row.net = net /\ row.paid = paid /\ row.revision = revision
      BY <2>1 DEF NewClaim, ClaimRow
    <2>3. PICK h : h = NewRevision(r, revision, "RECOGNIZED", obs, net, net - paid, FALSE)
      OBVIOUS
    <2>4. /\ h \in RevisionRow /\ h.ref = r /\ h.revision = revision /\ h.kind = "RECOGNIZED" /\ h.delta = net
          /\ h.unpaid = net - paid /\ ~h.late
      BY <2>3 DEF NewRevision, RevisionRow
    <2>5. /\ DOMAIN claim' = DOMAIN claim \union {r} /\ claim'[r] = row
          /\ \A o \in DOMAIN claim : claim'[o] = claim[o]
          /\ history' = history \union {h}
      BY <1>2, <2>1, <2>3 DEF Recorded
    <2>6. ClaimType'
      <3>1. IsFiniteSet(history')
        BY <2>5, FS_AddElement DEF ClaimInv, ClaimType
      <3> QED
        BY <2>2, <2>4, <2>5, <3>1 DEF ClaimInv, ClaimType
    <2>7. LateBlocks'
      BY <1>2, <2>4, <2>5 DEF ClaimInv, LateBlocks, HasCase
    <2>8. AllHeard'
      <3>1. told' = told
        BY DEF RecordObligation
      <3> QED
        BY <1>2, <2>5, <3>1, HeardStays DEF ClaimInv, AllHeard
    <2>9. ASSUME NEW o \in DOMAIN claim PROVE BalanceOf(o)'
      <3>1. Applied(o)' = Applied(o)
        BY <1>2, <2>4, <2>5 DEF Applied
      <3> QED
        BY <2>5, <3>1, BalanceStays DEF ClaimInv
    <2>10. BalanceOf(r)'
      <3>1. Applied(r)' = {h}
        BY <1>2, <2>4, <2>5 DEF Applied, ClaimInv, ClaimType
      <3>2. AppliedAs(r, "RECOGNIZED")' = {h}
        BY <2>4, <3>1 DEF AppliedAs
      <3>3. \A k \in Kinds : AppliedAs(r, k)' = {}
        BY <2>4, <3>1 DEF AppliedAs, Kinds
      <3>4. \A k \in Kinds : Moved(r, k)' = 0
        BY <3>3, SumEmpty DEF Moved
      <3>5. {g.revision : g \in Applied(r)'} = h.revision .. claim'[r].revision
        <4>1. {g.revision : g \in Applied(r)'} = {revision}
          BY <2>4, <3>1
        <4>2. revision .. revision = {revision}
          OBVIOUS
        <4> QED
          BY <2>2, <2>4, <2>5, <4>1, <4>2
      <3>6. Moved(r, "CORRECTION")' = 0 /\ Moved(r, "PAYOUT")' = 0 /\ Moved(r, "CANCELLATION")' = 0
        BY <3>4 DEF Kinds
      <3>7. claim'[r].net = h.delta + Moved(r, "CORRECTION")'
            /\ claim'[r].paid = h.delta - h.unpaid + Moved(r, "PAYOUT")' - Moved(r, "CANCELLATION")'
        BY <2>2, <2>4, <2>5, <3>6
      <3> QED
        BY <3>1, <3>2, <3>5, <3>7 DEF BalanceOf
    <2>11. DecisionRests'
      <3>1. decision' = decision
        BY DEF RecordObligation
      <3> QED
        BY <2>5, <3>1, DecisionStays DEF ClaimInv, Assigned
    <2> QED
      BY <2>5, <2>6, <2>7, <2>8, <2>9, <2>10, <2>11 DEF ClaimInv
  <1> QED
    BY <1>1, <1>2 DEF RecordObligation, OpenCase

(* A kind's revisions after one more was applied. *)
LEMMA MovedMore ==
    ASSUME ClaimType, NEW r, NEW h, h \notin Applied(r), Applied(r)' = Applied(r) \union {h}, h.delta \in Int,
           NEW k
    PROVE  /\ Moved(r, k) \in Int
           /\ Moved(r, k)' = Moved(r, k) + (IF h.kind = k THEN h.delta ELSE 0)
           /\ AppliedAs(r, k)' = IF h.kind = k THEN AppliedAs(r, k) \union {h} ELSE AppliedAs(r, k)
  <1> DEFINE S == AppliedAs(r, k)
             T == AppliedAs(r, k)'
  <1>1. IsFiniteSet(S) /\ (\A g \in S : g.delta \in Int) /\ h \notin S
    <2>1. S \subseteq history /\ S \subseteq Applied(r)
      BY DEF AppliedAs, Applied
    <2> QED
      BY <2>1, FS_Subset DEF ClaimType, RevisionRow
  <1>2. T = IF h.kind = k THEN S \union {h} ELSE S
    BY DEF AppliedAs
  <1>3. Moved(r, k) \in Int
    <2>1. \A g \in S : [x \in S |-> x.delta][g] \in Int
      BY <1>1
    <2> QED
      BY <1>1, <2>1, SumInt, Zenon DEF Moved
  <1>4. CASE h.kind = k
    <2>0. PICK f : f = [x \in S |-> x.delta]
      OBVIOUS
    <2>1. PICK e : e = [x \in S \union {h} |-> x.delta]
      OBVIOUS
    <2>2. SumFunctionOnSet(e, S \union {h}) = SumFunctionOnSet(f, S) + h.delta
      <3>1. PICK s : s = S
        OBVIOUS
      <3>2. IsFiniteSet(s) /\ h \notin s /\ e[h] = h.delta /\ e[h] \in Int
        BY <1>1, <2>1, <3>1
      <3>3. \A x \in s : f[x] \in Int /\ e[x] = f[x]
        BY <1>1, <2>0, <2>1, <3>1
      <3>4. OneMore(s, h, f, e)
        BY <3>2, <3>3 DEF OneMore
      <3>5. SumFunctionOnSet(e, s \union {h}) = SumFunctionOnSet(f, s) + e[h]
        BY <3>4, SumOneMore
      <3> QED
        BY <3>1, <3>2, <3>5
    <2>3. T = S \union {h}
      BY <1>2, <1>4
    <2>4. Moved(r, k)' = SumFunctionOnSet([x \in T |-> x.delta], T)
      BY DEF Moved
    <2>5. Moved(r, k)' = SumFunctionOnSet(e, S \union {h})
      BY <2>1, <2>3, <2>4, Zenon
    <2>6. Moved(r, k) = SumFunctionOnSet(f, S)
      BY <2>0 DEF Moved
    <2> QED
      BY <1>2, <1>3, <1>4, <2>2, <2>5, <2>6
  <1>5. CASE h.kind # k
    <2>1. T = S
      BY <1>2, <1>5
    <2>2. Moved(r, k)' = Moved(r, k)
      BY <2>1 DEF Moved
    <2> QED
      BY <1>3, <1>5, <2>1, <2>2
  <1> QED
    BY <1>4, <1>5

(* A revision that is next in order. *)
LEMMA ApplyStep ==
    ASSUME ClaimInv, NEW r \in DOMAIN claim, NEW obs \in Observations, NEW revision \in Nat, NEW kind \in Kinds,
           NEW delta \in Int, ~Reused(r, obs), NextInOrder(r, revision), Apply(r, revision, kind, obs, delta),
           Told(r, revision, kind, delta)
    PROVE  ClaimInv'
  <1>1. /\ claim[r] \in ClaimRow /\ claim[r].net \in Int /\ claim[r].paid \in Int /\ claim[r].assigned \in BOOLEAN
        /\ claim[r].revision \in Nat /\ ClaimType /\ r \in Refs
    BY DEF ClaimInv, ClaimType, ClaimRow
  <1>2. PICK after : after = AfterRevision(r, kind, delta)
    OBVIOUS
  <1>3. /\ after.net = claim[r].net + (IF kind = "CORRECTION" THEN delta ELSE 0)
        /\ after.paid = claim[r].paid + (IF kind = "PAYOUT" THEN delta ELSE 0) - (IF kind = "CANCELLATION" THEN delta ELSE 0)
    <2>1. after.net = claim[r].net + (IF kind = "CORRECTION" THEN delta ELSE 0)
      BY <1>2 DEF AfterRevision
    <2>2. CASE kind = "CORRECTION"
      BY <1>1, <1>2, <2>1, <2>2 DEF AfterRevision
    <2>3. CASE kind = "PAYOUT"
      BY <1>1, <1>2, <2>1, <2>3 DEF AfterRevision
    <2>4. CASE kind = "CANCELLATION"
      BY <1>1, <1>2, <2>1, <2>4 DEF AfterRevision
    <2> QED
      BY <2>2, <2>3, <2>4 DEF Kinds
  <1>4. after.net \in Int /\ after.paid \in Int
    BY <1>1, <1>3
  <1>5. PICK state : state = StateOf(after.net, after.paid, claim[r].assigned)
    OBVIOUS
  <1>6. state \in {"PAID", "PARTIALLY_PAID", "ASSIGNED", "RECOGNIZED"}
    BY <1>1, <1>4, <1>5 DEF StateOf
  <1>7. PICK row : row = [claim[r] EXCEPT !.net = after.net, !.paid = after.paid, !.revision = revision,
                                          !.state = state, !.checkpoint = FALSE]
    OBVIOUS
  <1>8. /\ row \in ClaimRow /\ row.net = after.net /\ row.paid = after.paid /\ row.revision = revision
        /\ row.assigned = claim[r].assigned
    BY <1>1, <1>4, <1>6, <1>7 DEF ClaimRow
  <1>9. claim' = [claim EXCEPT ![r] = row]
    BY <1>2, <1>5, <1>7 DEF Apply
  <1>10. PICK h : h = NewRevision(r, revision, kind, obs, delta, after.net - after.paid, FALSE)
    OBVIOUS
  <1>11. /\ h \in RevisionRow /\ h.ref = r /\ h.revision = revision /\ h.kind = kind /\ h.delta = delta
         /\ h.obs = obs /\ ~h.late
    BY <1>1, <1>4, <1>10 DEF NewRevision, RevisionRow
  <1>12. history' = history \union {h} /\ cases' = cases
    BY <1>2, <1>10 DEF Apply
  <1>13. ClaimType'
    <2>1. IsFiniteSet(history')
      BY <1>1, <1>12, FS_AddElement DEF ClaimType
    <2> QED
      BY <1>8, <1>9, <1>11, <1>12, <2>1 DEF ClaimInv, ClaimType
  <1>14. LateBlocks'
    BY <1>11, <1>12 DEF ClaimInv, LateBlocks, HasCase
  <1>15. Applied(r)' = Applied(r) \union {h} /\ h \notin Applied(r)
    BY <1>11, <1>12 DEF Applied, Reused
  <1>16. AllHeard'
    <2>1. PICK t : t = [ref |-> r, revision |-> revision, kind |-> kind, delta |-> delta]
      OBVIOUS
    <2>2. told' = told \union {t} /\ t.ref = r /\ t.revision = revision /\ t.kind = kind /\ t.delta = delta
      BY <2>1 DEF Told
    <2>3. Heard(t)'
      BY <1>11, <1>15, <2>2 DEF Heard
    <2>4. \A u \in told : Heard(u)'
      BY <1>12, HeardStays DEF ClaimInv
    <2> QED
      BY <2>2, <2>3, <2>4 DEF AllHeard
  <1>17. ASSUME NEW o \in DOMAIN claim, o # r PROVE BalanceOf(o)'
    <2>1. Applied(o)' = Applied(o)
      BY <1>11, <1>12, <1>17 DEF Applied
    <2>2. claim'[o] = claim[o]
      BY <1>9, <1>17
    <2> QED
      BY <2>1, <2>2, BalanceStays DEF ClaimInv
  <1>18. BalanceOf(r)'
    <2>1. PICK first \in Applied(r) :
       /\ AppliedAs(r, "RECOGNIZED") = {first}
       /\ {g.revision : g \in Applied(r)} = first.revision .. claim[r].revision
       /\ \A g, e \in Applied(r) : g.obs = e.obs => g = e
       /\ claim[r].net = first.delta + Moved(r, "CORRECTION")
       /\ claim[r].paid = first.delta - first.unpaid + Moved(r, "PAYOUT") - Moved(r, "CANCELLATION")
      BY DEF ClaimInv, BalanceOf
    <2>2. first \in RevisionRow /\ first.revision \in Nat /\ first.delta \in Int /\ first.unpaid \in Int
      BY <1>1 DEF ClaimType, Applied, RevisionRow
    <2>3. ASSUME NEW k
          PROVE  /\ Moved(r, k) \in Int
                 /\ Moved(r, k)' = Moved(r, k) + (IF kind = k THEN delta ELSE 0)
                 /\ AppliedAs(r, k)' = IF kind = k THEN AppliedAs(r, k) \union {h} ELSE AppliedAs(r, k)
      BY <1>1, <1>11, <1>15, MovedMore
    <2>4. AppliedAs(r, "RECOGNIZED")' = {first}
      <3>1. kind # "RECOGNIZED"
        BY DEF Kinds
      <3> QED
        BY <2>1, <2>3, <3>1
    <2>5. {g.revision : g \in Applied(r)'} = first.revision .. claim'[r].revision
      <3>1. first.revision \in {g.revision : g \in Applied(r)}
        OBVIOUS
      <3>2. first.revision <= claim[r].revision
        BY <1>1, <2>1, <2>2, <3>1
      <3>3. revision = claim[r].revision + 1 /\ claim'[r].revision = revision
        BY <1>1, <1>8, <1>9 DEF NextInOrder
      <3>4. {g.revision : g \in Applied(r)'} = {g.revision : g \in Applied(r)} \union {revision}
        BY <1>11, <1>15
      <3>5. first.revision .. claim[r].revision + 1 = (first.revision .. claim[r].revision) \union {claim[r].revision + 1}
        BY <1>1, <2>2, <3>2
      <3> QED
        BY <2>1, <3>3, <3>4, <3>5
    <2>6. \A g, e \in Applied(r)' : g.obs = e.obs => g = e
      <3>1. \A g \in Applied(r) : g.obs # obs
        BY DEF Applied, Reused
      <3> QED
        BY <1>11, <1>15, <2>1, <3>1
    <2>7. claim'[r].net = first.delta + Moved(r, "CORRECTION")'
      <3>1. Moved(r, "CORRECTION") \in Int
            /\ Moved(r, "CORRECTION")' = Moved(r, "CORRECTION") + (IF kind = "CORRECTION" THEN delta ELSE 0)
        BY <2>3
      <3>2. claim'[r].net = after.net
        BY <1>8, <1>9
      <3> QED
        BY <1>1, <1>3, <2>1, <2>2, <3>1, <3>2
    <2>8. claim'[r].paid = first.delta - first.unpaid + Moved(r, "PAYOUT")' - Moved(r, "CANCELLATION")'
      <3>1. Moved(r, "PAYOUT") \in Int
            /\ Moved(r, "PAYOUT")' = Moved(r, "PAYOUT") + (IF kind = "PAYOUT" THEN delta ELSE 0)
        BY <2>3
      <3>2. Moved(r, "CANCELLATION") \in Int
            /\ Moved(r, "CANCELLATION")' = Moved(r, "CANCELLATION") + (IF kind = "CANCELLATION" THEN delta ELSE 0)
        BY <2>3
      <3>3. claim'[r].paid = after.paid
        BY <1>8, <1>9
      <3> QED
        BY <1>1, <1>3, <2>1, <2>2, <3>1, <3>2, <3>3
    <2> QED
      BY <1>15, <2>4, <2>5, <2>6, <2>7, <2>8 DEF BalanceOf
  <1>19. DecisionRests'
    <2>1. CASE claim[r].assigned /\ decision.status \in {"DRAFT", "APPROVED"}
      <3>1. decision' = [decision EXCEPT !.status = "REVOKED"]
        BY <2>1 DEF Apply, Revoke
      <3> QED
        BY <3>1 DEF ClaimInv, DecisionRests
    <2>2. CASE claim[r].assigned /\ decision.status \notin {"DRAFT", "APPROVED"}
      <3>1. decision' = decision
        BY <2>2 DEF Apply, Revoke
      <3> QED
        BY <2>2, <3>1 DEF ClaimInv, DecisionRests
    <2>3. CASE ~claim[r].assigned
      <3>1. decision' = decision
        BY <2>3 DEF Apply
      <3>2. \A o \in Assigned : o \in DOMAIN claim' /\ claim'[o] = claim[o] /\ claim[o].assigned
        BY <1>9, <2>3 DEF Assigned
      <3> QED
        BY <3>1, <3>2, DecisionStays DEF ClaimInv
    <2> QED
      BY <1>1, <2>1, <2>2, <2>3
  <1> QED
    BY <1>9, <1>13, <1>14, <1>16, <1>17, <1>18, <1>19 DEF ClaimInv

LEMMA CaseOpened == ASSUME NEW code, NEW r, OpenCase(code, r) PROVE HasCase(r)' /\ cases \subseteq cases'
  <1>1. PICK c : c = [code |-> code, entity |-> r]
    OBVIOUS
  <1>2. c.entity = r /\ cases' = cases \union {c}
    BY <1>1 DEF OpenCase
  <1> QED
    BY <1>2 DEF HasCase

(* What was said is heard, when it changes nothing but the cases. *)
LEMMA FlaggedStep ==
    ASSUME ClaimInv, NEW r, NEW revision, NEW kind, NEW delta,
           UNCHANGED <<claim, history, decision>>, cases \subseteq cases', Told(r, revision, kind, delta),
           HasCase(r)' \/ \E h \in Applied(r) : h.revision = revision /\ h.kind = kind /\ h.delta = delta
    PROVE  ClaimInv'
  <1>1. PICK t : t = [ref |-> r, revision |-> revision, kind |-> kind, delta |-> delta]
    OBVIOUS
  <1>2. told' = told \union {t} /\ t.ref = r /\ t.revision = revision /\ t.kind = kind /\ t.delta = delta
    BY <1>1 DEF Told
  <1>3. Heard(t)'
    BY <1>2 DEF Heard, Applied
  <1>4. AllHeard'
    BY <1>2, <1>3, FlagStays DEF AllHeard
  <1> QED
    BY <1>4, FlagStays DEF ClaimInv

LEMMA RepeatedStep ==
    ASSUME ClaimInv, NEW r \in DOMAIN claim, NEW revision \in Nat, NEW kind \in Kinds, NEW delta \in Int,
           Repeated(r, revision, kind, delta), Told(r, revision, kind, delta)
    PROVE  ClaimInv'
  <1>1. PICK h \in Previous(r, revision, kind) :
           \/ h.delta = delta /\ UNCHANGED <<claim, history, cases, decision>>
           \/ h.delta # delta /\ Flag(r, "REVISION_CONFLICT")
    BY DEF Repeated
  <1>2. h \in history /\ h.ref = r /\ h.revision = revision /\ h.kind = kind
    BY DEF Previous
  <1>3. CASE h.delta = delta /\ UNCHANGED <<claim, history, cases, decision>>
    <2>1. CASE h.late
      <3>1. HasCase(r)'
        BY <1>2, <1>3, <2>1 DEF ClaimInv, LateBlocks, HasCase
      <3> QED
        BY <1>3, <3>1, FlaggedStep
    <2>2. CASE ~h.late
      <3>1. h \in Applied(r)
        BY <1>2, <2>2 DEF Applied
      <3> QED
        BY <1>2, <1>3, <3>1, FlaggedStep
    <2> QED
      BY <2>1, <2>2
  <1>4. CASE Flag(r, "REVISION_CONFLICT")
    <2>1. HasCase(r)' /\ cases \subseteq cases'
      BY <1>4, CaseOpened DEF Flag
    <2> QED
      BY <1>4, <2>1, FlaggedStep DEF Flag
  <1> QED
    BY <1>1, <1>3, <1>4

LEMMA OutOfOrderStep ==
    ASSUME ClaimInv, NEW r \in DOMAIN claim, NEW obs \in Observations, NEW revision \in Nat, NEW kind \in Kinds,
           NEW delta \in Int, OutOfOrder(r, revision, kind, obs, delta), Told(r, revision, kind, delta)
    PROVE  ClaimInv'
  <1>1. HasCase(r)' /\ cases \subseteq cases' /\ UNCHANGED <<claim, decision>>
    BY CaseOpened DEF OutOfOrder
  <1>2. PICK h : h = NewRevision(r, revision, kind, obs, delta, Unpaid(r), TRUE)
    OBVIOUS
  <1>3. h \in RevisionRow /\ h.ref = r /\ h.late
    <2>1. Unpaid(r) \in Int /\ r \in Refs
      BY DEF ClaimInv, ClaimType, ClaimRow, Unpaid
    <2> QED
      BY <1>2, <2>1 DEF NewRevision, RevisionRow
  <1>4. history' = history \union {h}
    BY <1>2 DEF OutOfOrder
  <1>5. ClaimType'
    <2>1. IsFiniteSet(history')
      BY <1>4, FS_AddElement DEF ClaimInv, ClaimType
    <2> QED
      BY <1>1, <1>3, <1>4, <2>1 DEF ClaimInv, ClaimType
  <1>6. LateBlocks'
    BY <1>1, <1>3, <1>4 DEF ClaimInv, LateBlocks, HasCase
  <1>7. AllHeard'
    <2>1. PICK t : t = [ref |-> r, revision |-> revision, kind |-> kind, delta |-> delta]
      OBVIOUS
    <2>2. told' = told \union {t} /\ t.ref = r
      BY <2>1 DEF Told
    <2>3. Heard(t)'
      BY <1>1, <2>2 DEF Heard
    <2>4. \A u \in told : Heard(u)'
      BY <1>1, <1>4, HeardStays DEF ClaimInv
    <2> QED
      BY <2>2, <2>3, <2>4 DEF AllHeard
  <1>8. ASSUME NEW o \in DOMAIN claim' PROVE BalanceOf(o)'
    <2>1. Applied(o)' = Applied(o)
      BY <1>3, <1>4 DEF Applied
    <2> QED
      BY <1>1, <2>1, BalanceStays DEF ClaimInv
  <1>9. DecisionRests'
    BY <1>1 DEF ClaimInv, DecisionRests, Assigned, Unpaid
  <1> QED
    BY <1>5, <1>6, <1>7, <1>8, <1>9 DEF ClaimInv

LEMMA ApplyRevisionStep ==
    ASSUME ClaimInv, NEW r \in Refs, NEW obs \in Observations, NEW revision \in Nat, NEW kind \in Kinds,
           NEW delta \in Int, ApplyRevision(r, obs, revision, kind, delta)
    PROVE  ClaimInv'
  <1>1. r \in DOMAIN claim /\ Told(r, revision, kind, delta)
    BY DEF ApplyRevision
  <1>2. ASSUME NEW code, Flag(r, code) PROVE ClaimInv'
    <2>1. HasCase(r)' /\ cases \subseteq cases' /\ UNCHANGED <<claim, history, decision>>
      BY <1>2, CaseOpened DEF Flag
    <2> QED
      BY <1>1, <2>1, FlaggedStep
  <1> QED
    BY <1>1, <1>2, RepeatedStep, OutOfOrderStep, ApplyStep DEF ApplyRevision

(* The steps outside the service. *)
LEMMA OutsideStep ==
    ASSUME ClaimInv, NEW r \in DOMAIN claim, NEW row \in ClaimRow, claim' = [claim EXCEPT ![r] = row],
           row.net = claim[r].net, row.paid = claim[r].paid, row.revision = claim[r].revision,
           claim[r].assigned => row.assigned, UNCHANGED <<history, cases, decision, told>>
    PROVE  ClaimInv'
  <1>1. /\ DOMAIN claim' = DOMAIN claim /\ cases \subseteq cases'
        /\ \A o \in DOMAIN claim : /\ claim'[o] \in ClaimRow /\ claim'[o].net = claim[o].net
                                   /\ claim'[o].paid = claim[o].paid /\ claim'[o].revision = claim[o].revision
                                   /\ claim[o].assigned => claim'[o].assigned
    BY DEF ClaimInv, ClaimType
  <1>2. DecisionRests'
    BY <1>1, DecisionStays DEF ClaimInv, Assigned
  <1> QED
    BY <1>1, <1>2, ClaimsStay DEF ClaimInv, AllHeard

LEMMA AssignStep == ASSUME ClaimInv, NEW r \in Refs, Assign(r) PROVE ClaimInv'
  <1>1. r \in DOMAIN claim /\ claim[r] \in ClaimRow
    BY DEF Assign, ClaimInv, ClaimType
  <1>2. PICK half : half = [claim[r] EXCEPT !.assigned = TRUE]
    OBVIOUS
  <1>3. /\ half \in ClaimRow /\ half.net = claim[r].net /\ half.paid = claim[r].paid
        /\ half.revision = claim[r].revision /\ half.assigned /\ half.state = claim[r].state
    BY <1>1, <1>2 DEF ClaimRow
  <1>4. PICK row : row = [half EXCEPT !.state = IF @ = "RECOGNIZED" THEN "ASSIGNED" ELSE @]
    OBVIOUS
  <1>5. /\ row \in ClaimRow /\ row.net = claim[r].net /\ row.paid = claim[r].paid
        /\ row.revision = claim[r].revision /\ row.assigned
    BY <1>3, <1>4 DEF ClaimRow
  <1>6. claim' = [claim EXCEPT ![r] = row]
    BY <1>1, <1>2, <1>4 DEF Assign
  <1> QED
    BY <1>1, <1>5, <1>6, OutsideStep DEF Assign

LEMMA CheckpointStep == ASSUME ClaimInv, NEW r \in Refs, Checkpoint(r) PROVE ClaimInv'
  <1>1. r \in DOMAIN claim /\ claim[r] \in ClaimRow
    BY DEF Checkpoint, ClaimInv, ClaimType
  <1>2. PICK row : row = [claim[r] EXCEPT !.checkpoint = TRUE]
    OBVIOUS
  <1>3. /\ row \in ClaimRow /\ row.net = claim[r].net /\ row.paid = claim[r].paid
        /\ row.revision = claim[r].revision /\ row.assigned = claim[r].assigned
    BY <1>1, <1>2 DEF ClaimRow
  <1>4. claim' = [claim EXCEPT ![r] = row]
    BY <1>1, <1>2 DEF Checkpoint
  <1> QED
    BY <1>1, <1>3, <1>4, OutsideStep DEF Checkpoint

LEMMA DisputeStep == ASSUME ClaimInv, NEW r \in Refs, Dispute(r) PROVE ClaimInv'
  <1>1. r \in DOMAIN claim /\ claim[r] \in ClaimRow
    BY DEF Dispute, ClaimInv, ClaimType
  <1>2. PICK row : row = [claim[r] EXCEPT !.state = "DISPUTED"]
    OBVIOUS
  <1>3. /\ row \in ClaimRow /\ row.net = claim[r].net /\ row.paid = claim[r].paid
        /\ row.revision = claim[r].revision /\ row.assigned = claim[r].assigned
    BY <1>1, <1>2 DEF ClaimRow
  <1>4. claim' = [claim EXCEPT ![r] = row]
    BY <1>1, <1>2 DEF Dispute
  <1> QED
    BY <1>1, <1>3, <1>4, OutsideStep DEF Dispute

LEMMA DecisionStep == ASSUME ClaimInv, Decide \/ Approve PROVE ClaimInv'
  <1>1. UNCHANGED <<claim, history, cases, told>>
    BY DEF Decide, Approve
  <1>2. ClaimType' /\ LateBlocks' /\ (\A t \in told : Heard(t)') /\ (\A r \in DOMAIN claim' : BalanceOf(r)')
    BY <1>1, ClaimsStay DEF ClaimInv, ClaimType
  <1>3. CASE Decide
    <2>1. Assigned' = Assigned /\ \A r \in Assigned : Unpaid(r)' = Unpaid(r)
      BY <1>1 DEF Assigned, Unpaid
    <2>2. decision' = [status |-> "DRAFT", basis |-> [r \in Assigned |-> Unpaid(r)]]
      BY <1>3 DEF Decide
    <2>3. DecisionRests'
      BY <2>1, <2>2 DEF DecisionRests
    <2> QED
      BY <1>1, <1>2, <2>3 DEF ClaimInv, AllHeard
  <1>4. CASE Approve
    <2>1. decision.status = "DRAFT" /\ decision' = [decision EXCEPT !.status = "APPROVED"]
      BY <1>4 DEF Approve
    <2>2. decision'.status = "APPROVED" /\ decision'.basis = decision.basis
          /\ decision' = [status |-> decision'.status, basis |-> decision'.basis]
      BY <2>1 DEF ClaimInv, DecisionRests
    <2>3. DecisionRests'
      BY <1>1, <2>1, <2>2 DEF ClaimInv, DecisionRests, Assigned, Unpaid
    <2> QED
      BY <1>1, <1>2, <2>3 DEF ClaimInv, AllHeard
  <1> QED
    BY <1>3, <1>4

LEMMA ClaimsStepInv == ClaimInv /\ [ReceivablesNext]_claimVars => ClaimInv'
  <1> SUFFICES ASSUME ClaimInv, [ReceivablesNext]_claimVars
               PROVE  ClaimInv'
    OBVIOUS
  <1>1. CASE UNCHANGED claimVars
    BY <1>1, FlagStays DEF claimVars, ClaimInv, AllHeard
  <1>2. ASSUME NEW r \in Refs, NEW obs \in Observations, NEW s \in Statements,
               NEW operating \in BOOLEAN, NEW earned \in BOOLEAN,
               RecordObligation(r, obs, s[1], s[2], s[3], operating, earned)
        PROVE  ClaimInv'
    <2>1. s[1] \in Nat /\ s[2] \in Nat /\ s[3] \in Nat
      BY ClaimConstants
    <2> QED
      BY <1>2, <2>1, RecordStep
  <1>3. ASSUME NEW r \in Refs, NEW obs \in Observations, NEW rev \in 1..MaxRevision, NEW kind \in Kinds,
               NEW delta \in Deltas(kind), ApplyRevision(r, obs, rev, kind, delta)
        PROVE  ClaimInv'
    <2>1. rev \in Nat /\ delta \in Int
      BY DEF Deltas
    <2> QED
      BY <1>3, <2>1, ApplyRevisionStep
  <1>4. ASSUME NEW r \in Refs, Assign(r) \/ Checkpoint(r) \/ Dispute(r) PROVE ClaimInv'
    BY <1>4, AssignStep, CheckpointStep, DisputeStep
  <1>5. CASE Decide \/ Approve
    BY <1>5, DecisionStep
  <1> QED
    BY <1>1, <1>2, <1>3, <1>4, <1>5 DEF ReceivablesNext

(* Every revision given to the service is in the balance once or blocks    *)
(* the receivable, the balance is what the applied revisions add up to,    *)
(* and an approved decision rests on current balances (apply_revision):    *)
(* for any receivables, observations and number of revisions.              *)
THEOREM ClaimsAlwaysKept == ReceivablesInit /\ [][ReceivablesNext]_claimVars => []ClaimsKept
  <1>1. ReceivablesInit => ClaimInv
    BY ClaimInitInv
  <1>2. ClaimInv /\ [ReceivablesNext]_claimVars => ClaimInv'
    BY ClaimsStepInv
  <1>3. ClaimInv => ClaimsKept
    BY ClaimInvKept
  <1> QED
    BY <1>1, <1>2, <1>3, PTL
=============================================================================
