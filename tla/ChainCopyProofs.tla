---------------------------- MODULE ChainCopyProofs ----------------------------
(***************************************************************************)
(* What a copy of chain state may claim, for any obligations, amounts and  *)
(* schedules.                                                              *)
(***************************************************************************)
EXTENDS SourceEvidence, ChainIndexer, SigRelay, Sums, SequenceTheorems, TLAPS

-----------------------------------------------------------------------------
(* Events *)

Recorded == {"RECOGNIZED", "ASSIGNED", "CORRECTED"}     \* numbered by revision

Paying == {"PAYOUT", "PAYOUT_CANCELLED"}                \* numbered by settlementSeq

Event ==
    [kind : {"RECOGNIZED"}, version : {1, 2}, ref : Refs, revision : {1}, amount : Nat]
    \union [kind : {"ASSIGNED"}, ref : Refs, facility : Facilities, revision : Nat]
    \union [kind : {"CORRECTED"}, ref : Refs, amount : Int, revision : Nat, cancel : BOOLEAN]
    \union [kind : Paying, ref : Refs \union {NoRef}, amount : Nat, seq : Nat]
    \union [kind : {"CHECKPOINT"}, version : {1, 2}, seq : Int, latestRevision : Int,
            openAmount : Int, paidCumulative : Int, observedAt : Int, protectedUntil : Int]

(* The second log of a recognition, which is no event of its own. *)
Twin(e) == e.kind = "RECOGNIZED" /\ e.version = 2

(* An event of an obligation, and what it adds to its net amount. *)
Moving(e) == e.kind \in Recorded \/ (e.kind \in Paying /\ e.ref # NoRef)

Net(e) == IF e.kind \in {"RECOGNIZED", "CORRECTED"} THEN e.amount ELSE 0

(* Events of ref in the log l whose economic key is not among the consumed. *)
Pending(l, c, ref) ==
    {i \in DOMAIN l : /\ Moving(l[i]) /\ l[i].ref = ref /\ ~Twin(l[i])
                      /\ \A j \in c : EconomicKey(l[j]) # EconomicKey(l[i])}

(* What they will add to the copy. *)
LagRevision(l, c, ref) == SumFunctionOnSet([i \in DOMAIN l |-> 1], Pending(l, c, ref))

LagNet(l, c, ref) == SumFunctionOnSet([i \in DOMAIN l |-> Net(l[i])], Pending(l, c, ref))

LagPaid(l, c, ref) == SumFunctionOnSet([i \in DOMAIN l |-> Paid(l[i])], Pending(l, c, ref))

(* Economic keys are used once, and a twin follows its recognition. *)
Keyed(l) ==
    /\ l \in Seq(Event)
    /\ \A i, j \in DOMAIN l :
          (/\ Moving(l[i]) /\ ~Twin(l[i]) /\ Moving(l[j]) /\ ~Twin(l[j])
           /\ EconomicKey(l[i]) = EconomicKey(l[j])) => i = j
    /\ \A i \in DOMAIN l : Twin(l[i]) =>
          i - 1 \in DOMAIN l /\ l[i - 1] = Recognition(l[i].ref, l[i].amount, 1)

-----------------------------------------------------------------------------
(* The invariant *)

Obligation == [status : {"NONE", "OPEN", "PAID", "CANCELLED"}, net : Int, paid : Int,
               revision : Nat, assignedTo : Facilities \union {NoFacility}]

Receivable == [state : {"NONE", "OPEN", "ASSIGNED", "PAID", "CANCELLED"}, net : Int, paid : Int,
               revision : Int, facility : Facilities \union {NoFacility},
               disputed : BOOLEAN, validUntil : Int, denominationProven : BOOLEAN]

TypeInv ==
    /\ srcNow \in Int /\ dstNow \in Int
    /\ obligation \in [Refs -> Obligation]
    /\ account \in [latestRevision : Int, openAmount : Int, paidCumulative : Int,
                    checkpointSeq : Int, protectedUntil : Int]
    /\ payouts \in Seq([ref : Refs \union {NoRef}, amount : Nat, cancelled : BOOLEAN])
    /\ Keyed(log)
    /\ consumed \subseteq DOMAIN log
    /\ receivable \in [Refs -> Receivable]
    /\ stats \in [eventsConsumed : Int, openAmount : Int, paidCumulative : Int]
    /\ checkpoint \in [seq : Int, latestRevision : Int, openAmount : Int,
                       paidCumulative : Int, observedAt : Int, protectedUntil : Int]

(* A logged event is numbered within what its obligation or payout reached. *)
Sound(e) ==
    /\ e.kind \in Recorded => e.revision \in 1 .. obligation[e.ref].revision
    /\ e.kind = "ASSIGNED" => e.facility = obligation[e.ref].assignedTo
    /\ e.kind \in Paying => /\ e.seq \in DOMAIN payouts
                            /\ e.ref = payouts[e.seq].ref
                            /\ e.amount = payouts[e.seq].amount
    /\ e.kind = "PAYOUT_CANCELLED" => payouts[e.seq].cancelled

LogInv == \A i \in DOMAIN log : Sound(log[i])

Sane(o) ==
    /\ o.status = "NONE" => o.net = 0 /\ o.paid = 0 /\ o.revision = 0 /\ o.assignedTo = NoFacility
    /\ o.status = "PAID" => o.net = o.paid
    /\ o.paid <= o.net

Cancels(e, ref) == e.kind = "CORRECTED" /\ e.ref = ref /\ e.cancel

SourceInv ==
    /\ \A ref \in Refs : Sane(obligation[ref])
    /\ \A ref \in Refs : obligation[ref].status = "CANCELLED" =>
                            \E i \in DOMAIN log : Cancels(log[i], ref)
    /\ \A s \in DOMAIN payouts :
          payouts[s].ref # NoRef => obligation[payouts[s].ref].status # "NONE"

Tidy(r) == r.state = "NONE" => r.net = 0 /\ r.paid = 0 /\ r.revision = 0

BookInv ==
    /\ \A ref \in Refs : /\ Tidy(receivable[ref])
                         /\ receivable[ref].facility \in {NoFacility, obligation[ref].assignedTo}
    /\ \A i \in consumed :
          /\ (log[i].kind = "PAYOUT" /\ log[i].ref # NoRef) => receivable[log[i].ref].state # "NONE"
          /\ Cancels(log[i], log[i].ref) => receivable[log[i].ref].state = "CANCELLED"

(* While a reservation lasts the account is as its checkpoint says. *)
LockInv ==
    /\ \A i \in DOMAIN log :
          (log[i].kind = "CHECKPOINT" /\ log[i].version = 2) =>
             /\ log[i].protectedUntil <= account.protectedUntil
             /\ srcNow < log[i].protectedUntil => log[i].latestRevision = account.latestRevision
    /\ \A i \in DOMAIN log :
          (log[i].kind = "CHECKPOINT" /\ log[i].version = 1) => log[i].observedAt = 0
    /\ checkpoint.observedAt # 0 =>
          \E i \in DOMAIN log : /\ log[i].kind = "CHECKPOINT" /\ log[i].version = 2
                                /\ log[i].protectedUntil = checkpoint.protectedUntil
                                /\ log[i].latestRevision = checkpoint.latestRevision

(* The copy lags the obligation by exactly the events it has not consumed. *)
PendingInv ==
    \A ref \in Refs :
        /\ obligation[ref].revision = receivable[ref].revision + LagRevision(log, consumed, ref)
        /\ obligation[ref].net = receivable[ref].net + LagNet(log, consumed, ref)
        /\ obligation[ref].paid = receivable[ref].paid + LagPaid(log, consumed, ref)

-----------------------------------------------------------------------------
(* Events and their keys *)

LEMMA EventTypes ==
    ASSUME NEW e \in Event
    PROVE  /\ e.kind \in Recorded \union Paying \union {"CHECKPOINT"}
           /\ e.kind \in Recorded => e.ref \in Refs /\ e.revision \in Nat
           /\ e.kind \in Paying => e.ref \in Refs \union {NoRef} /\ e.amount \in Nat /\ e.seq \in Nat
           /\ e.kind = "RECOGNIZED" => e.version \in {1, 2} /\ e.revision = 1 /\ e.amount \in Nat
           /\ e.kind = "CORRECTED" => e.amount \in Int /\ e.cancel \in BOOLEAN
           /\ e.kind = "ASSIGNED" => e.facility \in Facilities
           /\ e.kind = "CHECKPOINT" => /\ e.version \in {1, 2} /\ e.seq \in Int
                                       /\ e.latestRevision \in Int /\ e.openAmount \in Int
                                       /\ e.paidCumulative \in Int /\ e.observedAt \in Int
                                       /\ e.protectedUntil \in Int
  BY DEF Event, Recorded, Paying

LEMMA EventWeights ==
    ASSUME NEW e \in Event
    PROVE  Net(e) \in Int /\ Paid(e) \in Int
  BY EventTypes DEF Net, Paid, Recorded, Paying

Subject(e) == IF e.kind = "CHECKPOINT" THEN NoRef ELSE e.ref

Number(e) == IF e.kind \in Recorded THEN e.revision ELSE e.seq

LEMMA KeyOf ==
    ASSUME NEW e \in Event
    PROVE  EconomicKey(e) = <<e.kind, Subject(e), Number(e)>>
<1>1. e.kind \in Recorded \union Paying \union {"CHECKPOINT"}
  BY EventTypes
<1>2. CASE e.kind \in Recorded
  BY <1>2 DEF EconomicKey, Subject, Number, Recorded
<1>3. CASE e.kind \in Paying
  BY <1>3 DEF EconomicKey, Subject, Number, Recorded, Paying
<1>4. CASE e.kind = "CHECKPOINT"
  BY <1>4 DEF EconomicKey, Subject, Number, Recorded
<1> QED
  BY <1>1, <1>2, <1>3, <1>4

LEMMA SameKey ==
    ASSUME NEW e \in Event, NEW d \in Event, EconomicKey(e) = EconomicKey(d)
    PROVE  /\ e.kind = d.kind
           /\ e.kind # "CHECKPOINT" => e.ref = d.ref
           /\ e.kind \in Recorded => e.revision = d.revision
           /\ e.kind \in Paying => e.seq = d.seq
<1>1. e.kind = d.kind /\ Subject(e) = Subject(d) /\ Number(e) = Number(d)
  BY KeyOf
<1> QED
  BY <1>1 DEF Subject, Number, Recorded, Paying

(* A log with one event more. *)
LEMMA AppendFacts ==
    ASSUME NEW l \in Seq(Event), NEW e \in Event
    PROVE  /\ Append(l, e) \in Seq(Event)
           /\ Len(l) \in Nat /\ Len(Append(l, e)) = Len(l) + 1
           /\ DOMAIN l = 1 .. Len(l)
           /\ DOMAIN Append(l, e) = DOMAIN l \union {Len(l) + 1}
           /\ Len(l) + 1 \notin DOMAIN l
           /\ \A i \in DOMAIN l : Append(l, e)[i] = l[i]
           /\ Append(l, e)[Len(l) + 1] = e
  OBVIOUS

LEMMA EmitOne ==
    ASSUME log \in Seq(Event), NEW e \in Event, Emit(<<e>>)
    PROVE  log' = Append(log, e)
  BY DEF Emit

LEMMA EmitTwo ==
    ASSUME log \in Seq(Event), NEW e \in Event, NEW d \in Event, Emit(<<e, d>>)
    PROVE  log' = Append(Append(log, e), d)
  BY DEF Emit

-----------------------------------------------------------------------------
(* What is pending *)

Affects(e, ref) == Moving(e) /\ e.ref = ref

(* A key the log does not have yet. *)
Fresh(l, e) == \A j \in DOMAIN l : EconomicKey(l[j]) # EconomicKey(e)

LEMMA PendingSets ==
    ASSUME NEW l \in Seq(Event), NEW c, NEW ref
    PROVE  /\ IsFiniteSet(Pending(l, c, ref))
           /\ Pending(l, c, ref) \subseteq DOMAIN l
           /\ \A i \in Pending(l, c, ref) : l[i] \in Event /\ Net(l[i]) \in Int /\ Paid(l[i]) \in Int
<1>1. Len(l) \in Nat /\ DOMAIN l = 1 .. Len(l) /\ \A i \in DOMAIN l : l[i] \in Event
  OBVIOUS
<1>2. IsFiniteSet(DOMAIN l)
  BY <1>1, FS_Interval
<1>3. Pending(l, c, ref) \in SUBSET DOMAIN l
  BY DEF Pending
<1>4. IsFiniteSet(Pending(l, c, ref))
  BY <1>2, <1>3, FS_Subset
<1> QED
  BY <1>1, <1>3, <1>4, EventWeights

(* A fresh event is pending; a twin is not. *)
LEMMA PendingAppend ==
    ASSUME NEW l \in Seq(Event), NEW c \in SUBSET DOMAIN l, NEW e \in Event, NEW ref,
           (Moving(e) /\ ~Twin(e)) => Fresh(l, e)
    PROVE  /\ (Affects(e, ref) /\ ~Twin(e)) =>
                 Pending(Append(l, e), c, ref) = Pending(l, c, ref) \union {Len(l) + 1}
           /\ ~(Affects(e, ref) /\ ~Twin(e)) =>
                 Pending(Append(l, e), c, ref) = Pending(l, c, ref)
<1>1. PICK l2, n : l2 = Append(l, e) /\ n = Len(l) + 1
  OBVIOUS
<1>2. /\ DOMAIN l2 = DOMAIN l \union {n} /\ n \notin DOMAIN l
      /\ \A i \in DOMAIN l : l2[i] = l[i]
      /\ l2[n] = e
  BY <1>1, AppendFacts
<1>3. \A j \in c : l2[j] = l[j]
  BY <1>2
<1>4. ASSUME NEW i \in DOMAIN l
      PROVE  i \in Pending(l2, c, ref) <=> i \in Pending(l, c, ref)
  BY <1>2, <1>3, Zenon DEF Pending
<1>5. n \in Pending(l2, c, ref) <=> Affects(e, ref) /\ ~Twin(e)
  <2>1. n \in Pending(l2, c, ref) => Affects(e, ref) /\ ~Twin(e)
    BY <1>2, Zenon DEF Pending, Affects
  <2>2. ASSUME Affects(e, ref), ~Twin(e) PROVE n \in Pending(l2, c, ref)
    <3>1. \A j \in c : EconomicKey(l2[j]) # EconomicKey(l2[n])
      BY <1>2, <1>3, <2>2, Zenon DEF Fresh, Affects
    <3> QED
      BY <1>2, <2>2, <3>1 DEF Pending, Affects
  <2> QED
    BY <2>1, <2>2
<1>6. Pending(l2, c, ref) \subseteq DOMAIN l \union {n} /\ Pending(l, c, ref) \subseteq DOMAIN l
  BY <1>2 DEF Pending
<1>7. CASE Affects(e, ref) /\ ~Twin(e)
  <2>1. Pending(l2, c, ref) = Pending(l, c, ref) \union {n}
    BY <1>4, <1>5, <1>6, <1>7
  <2> QED
    BY <1>1, <1>7, <2>1
<1>8. CASE ~(Affects(e, ref) /\ ~Twin(e))
  <2>1. Pending(l2, c, ref) = Pending(l, c, ref)
    BY <1>4, <1>5, <1>6, <1>8
  <2> QED
    BY <1>1, <1>8, <2>1
<1> QED
  BY <1>7, <1>8

LEMMA LagAppend ==
    ASSUME NEW l \in Seq(Event), NEW c \in SUBSET DOMAIN l, NEW e \in Event, NEW ref,
           (Moving(e) /\ ~Twin(e)) => Fresh(l, e)
    PROVE  /\ (Affects(e, ref) /\ ~Twin(e)) =>
                 /\ LagRevision(Append(l, e), c, ref) = LagRevision(l, c, ref) + 1
                 /\ LagNet(Append(l, e), c, ref) = LagNet(l, c, ref) + Net(e)
                 /\ LagPaid(Append(l, e), c, ref) = LagPaid(l, c, ref) + Paid(e)
           /\ ~(Affects(e, ref) /\ ~Twin(e)) =>
                 /\ LagRevision(Append(l, e), c, ref) = LagRevision(l, c, ref)
                 /\ LagNet(Append(l, e), c, ref) = LagNet(l, c, ref)
                 /\ LagPaid(Append(l, e), c, ref) = LagPaid(l, c, ref)
<1>1. PICK l2, n, P, P2 : /\ l2 = Append(l, e) /\ n = Len(l) + 1
                          /\ P = Pending(l, c, ref) /\ P2 = Pending(l2, c, ref)
  OBVIOUS
<1>2. PICK f1, g1, f2, g2, f3, g3 :
        /\ f1 = [i \in DOMAIN l |-> 1] /\ g1 = [i \in DOMAIN l2 |-> 1]
        /\ f2 = [i \in DOMAIN l |-> Net(l[i])] /\ g2 = [i \in DOMAIN l2 |-> Net(l2[i])]
        /\ f3 = [i \in DOMAIN l |-> Paid(l[i])] /\ g3 = [i \in DOMAIN l2 |-> Paid(l2[i])]
  OBVIOUS
<1>3. /\ DOMAIN l2 = DOMAIN l \union {n} /\ n \notin DOMAIN l
      /\ \A i \in DOMAIN l : l2[i] = l[i]
      /\ l2[n] = e
  BY <1>1, AppendFacts
<1>4. /\ IsFiniteSet(P) /\ P \subseteq DOMAIN l
      /\ \A i \in P : Net(l[i]) \in Int /\ Paid(l[i]) \in Int
  BY <1>1, PendingSets
<1>5. Net(e) \in Int /\ Paid(e) \in Int
  BY EventWeights
<1>6. /\ \A i \in P : f1[i] \in Int /\ g1[i] = f1[i]
      /\ \A i \in P : f2[i] \in Int /\ g2[i] = f2[i]
      /\ \A i \in P : f3[i] \in Int /\ g3[i] = f3[i]
      /\ g1[n] = 1 /\ g2[n] = Net(e) /\ g3[n] = Paid(e) /\ n \notin P
  BY <1>2, <1>3, <1>4
<1>7. /\ LagRevision(l, c, ref) = SumFunctionOnSet(f1, P)
      /\ LagNet(l, c, ref) = SumFunctionOnSet(f2, P)
      /\ LagPaid(l, c, ref) = SumFunctionOnSet(f3, P)
      /\ LagRevision(l2, c, ref) = SumFunctionOnSet(g1, P2)
      /\ LagNet(l2, c, ref) = SumFunctionOnSet(g2, P2)
      /\ LagPaid(l2, c, ref) = SumFunctionOnSet(g3, P2)
  BY <1>1, <1>2, Zenon DEF LagRevision, LagNet, LagPaid
<1>8. CASE Affects(e, ref) /\ ~Twin(e)
  <2>1. P2 = P \union {n}
    BY <1>1, <1>8, PendingAppend
  <2>2. OneMore(P, n, f1, g1) /\ OneMore(P, n, f2, g2) /\ OneMore(P, n, f3, g3)
    BY <1>4, <1>5, <1>6 DEF OneMore
  <2>3. SumFunctionOnSet(g1, P \union {n}) = SumFunctionOnSet(f1, P) + g1[n]
    BY <2>2, SumOneMore
  <2>4. SumFunctionOnSet(g2, P \union {n}) = SumFunctionOnSet(f2, P) + g2[n]
    BY <2>2, SumOneMore
  <2>5. SumFunctionOnSet(g3, P \union {n}) = SumFunctionOnSet(f3, P) + g3[n]
    BY <2>2, SumOneMore
  <2> QED
    BY <1>1, <1>6, <1>7, <1>8, <2>1, <2>3, <2>4, <2>5
<1>9. CASE ~(Affects(e, ref) /\ ~Twin(e))
  <2>1. P2 = P
    BY <1>1, <1>9, PendingAppend
  <2>2. SumFunctionOnSet(g1, P) = SumFunctionOnSet(f1, P)
    BY <1>4, <1>6, SumAgree
  <2>3. SumFunctionOnSet(g2, P) = SumFunctionOnSet(f2, P)
    BY <1>4, <1>6, SumAgree
  <2>4. SumFunctionOnSet(g3, P) = SumFunctionOnSet(f3, P)
    BY <1>4, <1>6, SumAgree
  <2> QED
    BY <1>1, <1>7, <1>9, <2>1, <2>2, <2>3, <2>4
<1> QED
  BY <1>8, <1>9

(* The event of the log that counts for l[i]: the first log of a recognition. *)
LEMMA Counterpart ==
    ASSUME NEW l, Keyed(l), NEW i \in DOMAIN l, Moving(l[i])
    PROVE  \E k \in DOMAIN l : /\ Moving(l[k]) /\ ~Twin(l[k]) /\ l[k].ref = l[i].ref
                               /\ EconomicKey(l[k]) = EconomicKey(l[i])
                               /\ Net(l[k]) = Net(l[i]) /\ Paid(l[k]) = Paid(l[i])
<1>1. CASE ~Twin(l[i])
  BY <1>1
<1>2. CASE Twin(l[i])
  <2>1. PICK k : k = i - 1
    OBVIOUS
  <2>2. k \in DOMAIN l /\ l[k] = Recognition(l[i].ref, l[i].amount, 1) /\ l[i] \in Event /\ l[k] \in Event
    BY <1>2, <2>1 DEF Keyed
  <2>3. l[i].kind = "RECOGNIZED" /\ l[i].revision = 1
    BY <1>2, <2>2, EventTypes DEF Twin
  <2>4. /\ l[k].kind = "RECOGNIZED" /\ l[k].revision = 1 /\ l[k].version = 1
        /\ l[k].ref = l[i].ref /\ l[k].amount = l[i].amount
    BY <2>2 DEF Recognition
  <2>5. EconomicKey(l[k]) = EconomicKey(l[i])
    BY <2>3, <2>4, Zenon DEF EconomicKey
  <2>6. Net(l[k]) = Net(l[i]) /\ Paid(l[k]) = Paid(l[i])
    BY <2>3, <2>4 DEF Net, Paid
  <2>7. Moving(l[k]) /\ ~Twin(l[k])
    BY <2>4 DEF Moving, Twin, Recorded
  <2> QED
    BY <2>2, <2>4, <2>5, <2>6, <2>7
<1> QED
  BY <1>1, <1>2

LEMMA PendingConsume ==
    ASSUME NEW l, Keyed(l), NEW c \in SUBSET DOMAIN l, NEW i \in DOMAIN l, NEW ref,
           \A j \in c : EconomicKey(l[j]) # EconomicKey(l[i])
    PROVE  /\ Affects(l[i], ref) =>
                 \E k \in Pending(l, c, ref) :
                    /\ Pending(l, c \union {i}, ref) = Pending(l, c, ref) \ {k}
                    /\ Net(l[k]) = Net(l[i]) /\ Paid(l[k]) = Paid(l[i])
           /\ ~Affects(l[i], ref) => Pending(l, c \union {i}, ref) = Pending(l, c, ref)
<1>0. \A j \in DOMAIN l : l[j] \in Event
  BY DEF Keyed
<1>1. CASE Affects(l[i], ref)
  <2>1. PICK k \in DOMAIN l : /\ Moving(l[k]) /\ ~Twin(l[k]) /\ l[k].ref = ref
                              /\ EconomicKey(l[k]) = EconomicKey(l[i])
                              /\ Net(l[k]) = Net(l[i]) /\ Paid(l[k]) = Paid(l[i])
    BY <1>1, Counterpart DEF Affects
  <2>2. k \in Pending(l, c, ref)
    BY <2>1, Zenon DEF Pending
  <2>3. k \notin Pending(l, c \union {i}, ref)
    BY <2>1, Zenon DEF Pending
  <2>4. \A j \in DOMAIN l : Moving(l[j]) /\ ~Twin(l[j]) /\ EconomicKey(l[j]) = EconomicKey(l[k]) => j = k
    BY <2>1, Zenon DEF Keyed
  <2>5. \A j : j \in Pending(l, c, ref) /\ j # k => j \in Pending(l, c \union {i}, ref)
    BY <2>1, <2>4, Zenon DEF Pending
  <2>6. \A j : j \in Pending(l, c \union {i}, ref) => j \in Pending(l, c, ref)
    BY Zenon DEF Pending
  <2>7. Pending(l, c \union {i}, ref) = Pending(l, c, ref) \ {k}
    BY <2>3, <2>5, <2>6
  <2> QED
    BY <1>1, <2>1, <2>2, <2>7
<1>2. CASE ~Affects(l[i], ref)
  <2>1. ASSUME NEW j \in Pending(l, c, ref) PROVE EconomicKey(l[i]) # EconomicKey(l[j])
    <3>1. j \in DOMAIN l /\ Moving(l[j]) /\ l[j].ref = ref
      BY DEF Pending
    <3>2. SUFFICES ASSUME EconomicKey(l[i]) = EconomicKey(l[j]) PROVE FALSE
      OBVIOUS
    <3>3. l[i].kind = l[j].kind /\ (l[i].kind # "CHECKPOINT" => l[i].ref = l[j].ref)
      BY <1>0, <3>1, <3>2, SameKey
    <3> QED
      BY <1>2, <3>1, <3>3 DEF Affects, Moving, Recorded, Paying
  <2>2. \A j : j \in Pending(l, c, ref) => j \in Pending(l, c \union {i}, ref)
    BY <2>1, Zenon DEF Pending
  <2>3. \A j : j \in Pending(l, c \union {i}, ref) => j \in Pending(l, c, ref)
    BY Zenon DEF Pending
  <2>4. Pending(l, c \union {i}, ref) = Pending(l, c, ref)
    BY <2>2, <2>3
  <2> QED
    BY <1>2, <2>4
<1> QED
  BY <1>1, <1>2

LEMMA LagConsume ==
    ASSUME NEW l, Keyed(l), NEW c \in SUBSET DOMAIN l, NEW i \in DOMAIN l, NEW ref,
           \A j \in c : EconomicKey(l[j]) # EconomicKey(l[i])
    PROVE  /\ Affects(l[i], ref) =>
                 /\ LagRevision(l, c, ref) = LagRevision(l, c \union {i}, ref) + 1
                 /\ LagNet(l, c, ref) = LagNet(l, c \union {i}, ref) + Net(l[i])
                 /\ LagPaid(l, c, ref) = LagPaid(l, c \union {i}, ref) + Paid(l[i])
           /\ ~Affects(l[i], ref) =>
                 /\ LagRevision(l, c, ref) = LagRevision(l, c \union {i}, ref)
                 /\ LagNet(l, c, ref) = LagNet(l, c \union {i}, ref)
                 /\ LagPaid(l, c, ref) = LagPaid(l, c \union {i}, ref)
<1>0. l \in Seq(Event)
  BY DEF Keyed
<1>1. CASE ~Affects(l[i], ref)
  <2>1. Pending(l, c \union {i}, ref) = Pending(l, c, ref)
    BY <1>1, PendingConsume
  <2> QED
    BY <1>1, <2>1, Zenon DEF LagRevision, LagNet, LagPaid
<1>2. CASE Affects(l[i], ref)
  <2>1. PICK k \in Pending(l, c, ref) :
                    /\ Pending(l, c \union {i}, ref) = Pending(l, c, ref) \ {k}
                    /\ Net(l[k]) = Net(l[i]) /\ Paid(l[k]) = Paid(l[i])
    BY <1>2, PendingConsume
  <2>2. PICK P, f1, f2, f3 : /\ P = Pending(l, c, ref) /\ f1 = [j \in DOMAIN l |-> 1]
                             /\ f2 = [j \in DOMAIN l |-> Net(l[j])]
                             /\ f3 = [j \in DOMAIN l |-> Paid(l[j])]
    OBVIOUS
  <2>3. /\ IsFiniteSet(P) /\ P \subseteq DOMAIN l
        /\ \A j \in P : Net(l[j]) \in Int /\ Paid(l[j]) \in Int
    BY <1>0, <2>2, PendingSets
  <2>4. /\ IsFiniteSet(P) /\ k \in P
        /\ \A j \in P : f1[j] \in Int
        /\ \A j \in P : f2[j] \in Int
        /\ \A j \in P : f3[j] \in Int
        /\ f1[k] = 1 /\ f2[k] = Net(l[i]) /\ f3[k] = Paid(l[i])
    BY <2>1, <2>2, <2>3
  <2>5. SumFunctionOnSet(f1, P) = f1[k] + SumFunctionOnSet(f1, P \ {k})
    BY <2>4, SumRemove
  <2>6. SumFunctionOnSet(f2, P) = f2[k] + SumFunctionOnSet(f2, P \ {k})
    BY <2>4, SumRemove
  <2>7. SumFunctionOnSet(f3, P) = f3[k] + SumFunctionOnSet(f3, P \ {k})
    BY <2>4, SumRemove
  <2>8. /\ LagRevision(l, c, ref) = SumFunctionOnSet(f1, P)
        /\ LagNet(l, c, ref) = SumFunctionOnSet(f2, P)
        /\ LagPaid(l, c, ref) = SumFunctionOnSet(f3, P)
        /\ LagRevision(l, c \union {i}, ref) = SumFunctionOnSet(f1, P \ {k})
        /\ LagNet(l, c \union {i}, ref) = SumFunctionOnSet(f2, P \ {k})
        /\ LagPaid(l, c \union {i}, ref) = SumFunctionOnSet(f3, P \ {k})
    BY <2>1, <2>2, Zenon DEF LagRevision, LagNet, LagPaid
  <2>9. /\ SumFunctionOnSet(f1, P \ {k}) \in Int /\ SumFunctionOnSet(f2, P \ {k}) \in Int
        /\ SumFunctionOnSet(f3, P \ {k}) \in Int
    <3>1. IsFiniteSet(P \ {k}) /\ \A j \in P \ {k} : f1[j] \in Int /\ f2[j] \in Int /\ f3[j] \in Int
      BY <2>4, FS_Subset
    <3> QED
      BY <3>1, SumInt
  <2>10. /\ LagRevision(l, c, ref) = LagRevision(l, c \union {i}, ref) + 1
         /\ LagNet(l, c, ref) = LagNet(l, c \union {i}, ref) + Net(l[i])
         /\ LagPaid(l, c, ref) = LagPaid(l, c \union {i}, ref) + Paid(l[i])
    BY <2>4, <2>5, <2>6, <2>7, <2>8, <2>9
  <2> QED
    BY <1>2, <2>10
<1> QED
  BY <1>1, <1>2

(* What is pending is counted by natural and whole numbers. *)
LEMMA LagTypes ==
    ASSUME NEW l \in Seq(Event), NEW c, NEW ref
    PROVE  /\ LagRevision(l, c, ref) \in Nat /\ LagNet(l, c, ref) \in Int /\ LagPaid(l, c, ref) \in Int
           /\ LagRevision(l, c, ref) = 0 => LagNet(l, c, ref) = 0 /\ LagPaid(l, c, ref) = 0
<1>1. PICK P, f1, f2, f3 : /\ P = Pending(l, c, ref) /\ f1 = [j \in DOMAIN l |-> 1]
                           /\ f2 = [j \in DOMAIN l |-> Net(l[j])]
                           /\ f3 = [j \in DOMAIN l |-> Paid(l[j])]
  OBVIOUS
<1>2. /\ IsFiniteSet(P) /\ P \subseteq DOMAIN l
      /\ \A j \in P : Net(l[j]) \in Int /\ Paid(l[j]) \in Int
  BY <1>1, PendingSets
<1>3. /\ IsFiniteSet(P)
      /\ \A j \in P : f1[j] \in Nat /\ f1[j] = 1
      /\ \A j \in P : f2[j] \in Int
      /\ \A j \in P : f3[j] \in Int
  BY <1>1, <1>2
<1>4. /\ SumFunctionOnSet(f1, P) \in Nat
      /\ \A j \in P : f1[j] <= SumFunctionOnSet(f1, P)
  BY <1>3, SumNat
<1>5. SumFunctionOnSet(f2, P) \in Int /\ SumFunctionOnSet(f3, P) \in Int
  BY <1>3, SumInt
<1>6. /\ LagRevision(l, c, ref) = SumFunctionOnSet(f1, P)
      /\ LagNet(l, c, ref) = SumFunctionOnSet(f2, P)
      /\ LagPaid(l, c, ref) = SumFunctionOnSet(f3, P)
  BY <1>1, Zenon DEF LagRevision, LagNet, LagPaid
<1>7. SumFunctionOnSet(f1, P) = 0 => P = {}
  BY <1>3, <1>4
<1>8. P = {} => SumFunctionOnSet(f2, P) = 0 /\ SumFunctionOnSet(f3, P) = 0
  BY SumEmpty
<1> QED
  BY <1>4, <1>5, <1>6, <1>7, <1>8

-----------------------------------------------------------------------------
(* Totals *)

(* The entries of a book: obligations of the escrow or their copies. *)
Entries(T) == \A r \in Refs : T[r].revision \in Int /\ T[r].net \in Int /\ T[r].paid \in Int

(* Event e is booked: its entry moves, the others keep their figures. *)
Moved(T, T2, e) ==
    /\ Entries(T) /\ Entries(T2)
    /\ \A r \in Refs : Affects(e, r) => /\ T2[r].revision = T[r].revision + 1
                                        /\ T2[r].net = T[r].net + Net(e)
                                        /\ T2[r].paid = T[r].paid + Paid(e)
    /\ \A r \in Refs : ~Affects(e, r) => /\ T2[r].revision = T[r].revision
                                         /\ T2[r].net = T[r].net
                                         /\ T2[r].paid = T[r].paid

Revisions(T) == SumFunctionOnSet([r \in Refs |-> T[r].revision], Refs)

OpenTotal(T) == SumFunctionOnSet([r \in Refs |-> T[r].net - T[r].paid], Refs)

LEMMA TotalTypes ==
    ASSUME NEW T, Entries(T)
    PROVE  Revisions(T) \in Int /\ OpenTotal(T) \in Int
<1>1. PICK f, g : f = [r \in Refs |-> T[r].revision] /\ g = [r \in Refs |-> T[r].net - T[r].paid]
  OBVIOUS
<1>2. IsFiniteSet(Refs) /\ (\A r \in Refs : f[r] \in Int) /\ (\A r \in Refs : g[r] \in Int)
  BY <1>1, EvidenceConstants DEF Entries
<1>3. SumFunctionOnSet(f, Refs) \in Int /\ SumFunctionOnSet(g, Refs) \in Int
  BY <1>2, SumInt
<1> QED
  BY <1>1, <1>3, Zenon DEF Revisions, OpenTotal

LEMMA MovedTotals ==
    ASSUME NEW T, NEW T2, NEW e \in Event, Moved(T, T2, e)
    PROVE  /\ Moving(e) => /\ Revisions(T2) = Revisions(T) + 1
                           /\ OpenTotal(T2) = OpenTotal(T) + Net(e) - Paid(e)
           /\ ~Moving(e) => /\ Revisions(T2) = Revisions(T)
                            /\ OpenTotal(T2) = OpenTotal(T)
<1>1. PICK f, g, f2, g2 :
        /\ f = [r \in Refs |-> T[r].revision] /\ g = [r \in Refs |-> T[r].net - T[r].paid]
        /\ f2 = [r \in Refs |-> T2[r].revision] /\ g2 = [r \in Refs |-> T2[r].net - T2[r].paid]
  OBVIOUS
<1>2. /\ Revisions(T) = SumFunctionOnSet(f, Refs) /\ OpenTotal(T) = SumFunctionOnSet(g, Refs)
      /\ Revisions(T2) = SumFunctionOnSet(f2, Refs) /\ OpenTotal(T2) = SumFunctionOnSet(g2, Refs)
  BY <1>1, Zenon DEF Revisions, OpenTotal
<1>3. IsFiniteSet(Refs)
  BY EvidenceConstants
<1>4. /\ \A r \in Refs : T[r].revision \in Int /\ T[r].net \in Int /\ T[r].paid \in Int
      /\ \A r \in Refs : T2[r].revision \in Int /\ T2[r].net \in Int /\ T2[r].paid \in Int
  BY DEF Moved, Entries
<1>5. CASE Moving(e)
  <2>1. PICK a \in Refs : a = e.ref
    BY <1>5, EventTypes DEF Moving
  <2>2. Affects(e, a) /\ \A r \in Refs : r # a => ~Affects(e, r)
    BY <1>5, <2>1 DEF Affects
  <2>3. \A r \in Refs \ {a} : f2[r] = f[r]
    BY <1>1, <2>2 DEF Moved
  <2>3a. \A r \in Refs \ {a} : g2[r] = g[r]
    BY <1>1, <2>2 DEF Moved
  <2>4. \A r \in Refs : f[r] \in Int /\ f2[r] \in Int
    BY <1>1, <1>4
  <2>5. \A r \in Refs : g[r] \in Int /\ g2[r] \in Int
    BY <1>1, <1>4
  <2>6. Net(e) \in Int /\ Paid(e) \in Int
    BY EventWeights
  <2>7. /\ T2[a].revision = T[a].revision + 1 /\ T2[a].net = T[a].net + Net(e)
        /\ T2[a].paid = T[a].paid + Paid(e)
    BY <2>2 DEF Moved
  <2>8. f2[a] = f[a] + 1 /\ g2[a] = g[a] + Net(e) - Paid(e)
    BY <1>1, <1>4, <2>6, <2>7
  <2>9. SumFunctionOnSet(f2, Refs) = SumFunctionOnSet(f, Refs) - f[a] + f2[a]
    BY <1>3, <2>3, <2>4, SumChange
  <2>10. SumFunctionOnSet(g2, Refs) = SumFunctionOnSet(g, Refs) - g[a] + g2[a]
    BY <1>3, <2>3a, <2>5, SumChange
  <2>11. SumFunctionOnSet(f, Refs) \in Int /\ SumFunctionOnSet(g, Refs) \in Int
    BY <1>3, <2>4, <2>5, SumInt
  <2>12. f[a] \in Int /\ g[a] \in Int
    BY <2>4, <2>5
  <2> QED
    BY <1>2, <1>5, <2>6, <2>8, <2>9, <2>10, <2>11, <2>12
<1>6. CASE ~Moving(e)
  <2>1. \A r \in Refs : f[r] = f2[r] /\ g[r] = g2[r]
    BY <1>1, <1>6 DEF Moved, Affects
  <2>2. SumFunctionOnSet(f2, Refs) = SumFunctionOnSet(f, Refs) /\ SumFunctionOnSet(g2, Refs) = SumFunctionOnSet(g, Refs)
    BY <1>3, <2>1, SumAgree
  <2> QED
    BY <1>2, <1>6, <2>2
<1> QED
  BY <1>5, <1>6

(* The payouts not cancelled among some events of a log. *)
PaidIn(l, c) == SumFunctionOnSet([i \in DOMAIN l |-> Paid(l[i])], c)

LEMMA PaidTypes ==
    ASSUME NEW l \in Seq(Event), NEW c \in SUBSET DOMAIN l
    PROVE  PaidIn(l, c) \in Int /\ IsFiniteSet(c) /\ \A i \in DOMAIN l : l[i] \in Event
<1>1. Len(l) \in Nat /\ DOMAIN l = 1 .. Len(l) /\ \A i \in DOMAIN l : l[i] \in Event
  OBVIOUS
<1>1a. IsFiniteSet(DOMAIN l)
  BY <1>1, FS_Interval
<1>2. IsFiniteSet(c)
  BY <1>1a, FS_Subset
<1>3. PICK f : f = [i \in DOMAIN l |-> Paid(l[i])]
  OBVIOUS
<1>4. \A i \in c : f[i] \in Int
  BY <1>1, <1>3, EventWeights
<1>5. SumFunctionOnSet(f, c) \in Int
  BY <1>2, <1>4, SumInt
<1> QED
  BY <1>1, <1>2, <1>3, <1>5, Zenon DEF PaidIn

LEMMA PaidAppend ==
    ASSUME NEW l \in Seq(Event), NEW c \in SUBSET DOMAIN l, NEW e \in Event
    PROVE  /\ PaidIn(Append(l, e), c) = PaidIn(l, c)
           /\ PaidIn(Append(l, e), DOMAIN Append(l, e)) = PaidIn(l, DOMAIN l) + Paid(e)
<1>1. PICK l2, n : l2 = Append(l, e) /\ n = Len(l) + 1
  OBVIOUS
<1>2. PICK f, g : f = [i \in DOMAIN l |-> Paid(l[i])] /\ g = [i \in DOMAIN l2 |-> Paid(l2[i])]
  OBVIOUS
<1>3. /\ DOMAIN l2 = DOMAIN l \union {n} /\ n \notin DOMAIN l
      /\ \A i \in DOMAIN l : l2[i] = l[i]
      /\ l2[n] = e
  BY <1>1, AppendFacts
<1>4. IsFiniteSet(c) /\ IsFiniteSet(DOMAIN l) /\ \A i \in DOMAIN l : l[i] \in Event
  BY PaidTypes
<1>5. \A i \in DOMAIN l : f[i] = g[i] /\ f[i] \in Int
  BY <1>2, <1>3, <1>4, EventWeights
<1>6. g[n] = Paid(e) /\ Paid(e) \in Int
  BY <1>2, <1>3, EventWeights
<1>7. SumFunctionOnSet(g, c) = SumFunctionOnSet(f, c)
  BY <1>4, <1>5, SumAgree
<1>8. OneMore(DOMAIN l, n, f, g)
  BY <1>3, <1>4, <1>5, <1>6 DEF OneMore
<1>9. SumFunctionOnSet(g, DOMAIN l \union {n}) = SumFunctionOnSet(f, DOMAIN l) + g[n]
  BY <1>8, SumOneMore
<1>10. PaidIn(l2, c) = SumFunctionOnSet(g, c) /\ PaidIn(l, c) = SumFunctionOnSet(f, c)
  BY <1>2, Zenon DEF PaidIn
<1>11. PaidIn(l2, DOMAIN l2) = SumFunctionOnSet(g, DOMAIN l2) /\ PaidIn(l, DOMAIN l) = SumFunctionOnSet(f, DOMAIN l)
  BY <1>2, Zenon DEF PaidIn
<1> QED
  BY <1>1, <1>3, <1>6, <1>7, <1>9, <1>10, <1>11

LEMMA PaidConsume ==
    ASSUME NEW l \in Seq(Event), NEW c \in SUBSET DOMAIN l, NEW i \in DOMAIN l, i \notin c
    PROVE  PaidIn(l, c \union {i}) = PaidIn(l, c) + Paid(l[i])
<1>1. PICK f : f = [j \in DOMAIN l |-> Paid(l[j])]
  OBVIOUS
<1>2. IsFiniteSet(c) /\ \A j \in DOMAIN l : l[j] \in Event
  BY PaidTypes
<1>3. \A j \in DOMAIN l : f[j] \in Int /\ f[j] = Paid(l[j])
  BY <1>1, <1>2, EventWeights
<1>4. OneMore(c, i, f, f)
  BY <1>2, <1>3 DEF OneMore
<1>5. SumFunctionOnSet(f, c \union {i}) = SumFunctionOnSet(f, c) + f[i]
  BY <1>4, SumOneMore
<1>6. PaidIn(l, c) = SumFunctionOnSet(f, c) /\ PaidIn(l, c \union {i}) = SumFunctionOnSet(f, c \union {i})
  BY <1>1, Zenon DEF PaidIn
<1> QED
  BY <1>3, <1>5, <1>6

-----------------------------------------------------------------------------
(* The log grows *)

(* l2 is the log l with event e, and its twin if it has one. *)
Grown(l, l2, c, e) ==
    /\ Keyed(l2)
    /\ \A i \in DOMAIN l : i \in DOMAIN l2 /\ l2[i] = l[i]
    /\ \A i \in DOMAIN l2 : \/ i \in DOMAIN l
                            \/ l2[i] = e
                            \/ e.kind = "RECOGNIZED" /\ Twin(l2[i]) /\ l2[i].ref = e.ref
    /\ \E i \in DOMAIN l2 : l2[i] = e
    /\ \A ref \in Refs : Affects(e, ref) =>
          /\ LagRevision(l2, c, ref) = LagRevision(l, c, ref) + 1
          /\ LagNet(l2, c, ref) = LagNet(l, c, ref) + Net(e)
          /\ LagPaid(l2, c, ref) = LagPaid(l, c, ref) + Paid(e)
    /\ \A ref \in Refs : ~Affects(e, ref) =>
          /\ LagRevision(l2, c, ref) = LagRevision(l, c, ref)
          /\ LagNet(l2, c, ref) = LagNet(l, c, ref)
          /\ LagPaid(l2, c, ref) = LagPaid(l, c, ref)
    /\ PaidIn(l2, c) = PaidIn(l, c)
    /\ PaidIn(l2, DOMAIN l2) = PaidIn(l, DOMAIN l) + Paid(e)

LEMMA KeyedAppend ==
    ASSUME NEW l, Keyed(l), NEW e \in Event,
           (Moving(e) /\ ~Twin(e)) => Fresh(l, e),
           Twin(e) => Len(l) \in DOMAIN l /\ l[Len(l)] = Recognition(e.ref, e.amount, 1)
    PROVE  Keyed(Append(l, e))
<1>0. l \in Seq(Event)
  BY DEF Keyed
<1>1. PICK l2, n : l2 = Append(l, e) /\ n = Len(l) + 1
  OBVIOUS
<1>2. /\ l2 \in Seq(Event)
      /\ DOMAIN l2 = DOMAIN l \union {n} /\ n \notin DOMAIN l
      /\ \A i \in DOMAIN l : l2[i] = l[i]
      /\ l2[n] = e
      /\ Len(l) \in Nat /\ DOMAIN l = 1 .. Len(l)
  BY <1>0, <1>1, AppendFacts
<1>3. ASSUME NEW i \in DOMAIN l2, NEW j \in DOMAIN l2,
             Moving(l2[i]) /\ ~Twin(l2[i]), Moving(l2[j]) /\ ~Twin(l2[j]),
             EconomicKey(l2[i]) = EconomicKey(l2[j])
      PROVE  i = j
  <2>1. CASE i \in DOMAIN l /\ j \in DOMAIN l
    BY <1>2, <1>3, <2>1, Zenon DEF Keyed
  <2>2. CASE i = n /\ j \in DOMAIN l
    BY <1>2, <1>3, <2>2, Zenon DEF Fresh
  <2>3. CASE j = n /\ i \in DOMAIN l
    BY <1>2, <1>3, <2>3, Zenon DEF Fresh
  <2>4. CASE i = n /\ j = n
    BY <2>4
  <2> QED
    BY <1>2, <2>1, <2>2, <2>3, <2>4
<1>4. ASSUME NEW i \in DOMAIN l2, Twin(l2[i])
      PROVE  i - 1 \in DOMAIN l2 /\ l2[i - 1] = Recognition(l2[i].ref, l2[i].amount, 1)
  <2>1. CASE i \in DOMAIN l
    <3>1. PICK k : k = i - 1
      OBVIOUS
    <3>2. l2[i] = l[i]
      BY <1>2, <2>1
    <3>3. k \in DOMAIN l /\ l[k] = Recognition(l[i].ref, l[i].amount, 1)
      BY <1>4, <2>1, <3>1, <3>2 DEF Keyed
    <3>4. k \in DOMAIN l2 /\ l2[k] = Recognition(l2[i].ref, l2[i].amount, 1)
      BY <1>2, <3>2, <3>3, Zenon
    <3> QED
      BY <3>1, <3>4
  <2>2. CASE i = n
    <3>1. PICK k : k = i - 1
      OBVIOUS
    <3>2. k = Len(l)
      BY <1>1, <1>2, <2>2, <3>1
    <3>3. l2[i] = e
      BY <1>2, <2>2
    <3>4. k \in DOMAIN l2 /\ l2[k] = Recognition(l2[i].ref, l2[i].amount, 1)
      BY <1>2, <1>4, <3>2, <3>3, Zenon
    <3> QED
      BY <3>1, <3>4
  <2> QED
    BY <1>2, <2>1, <2>2
<1>5. Keyed(l2)
  BY <1>2, <1>3, <1>4 DEF Keyed
<1> QED
  BY <1>1, <1>5

LEMMA GrownOne ==
    ASSUME NEW l, Keyed(l), NEW c \in SUBSET DOMAIN l, NEW e \in Event, ~Twin(e),
           Moving(e) => Fresh(l, e)
    PROVE  Grown(l, Append(l, e), c, e)
<1>0. l \in Seq(Event)
  BY DEF Keyed
<1>1. PICK l2 : l2 = Append(l, e)
  OBVIOUS
<1>2. Keyed(l2)
  BY <1>1, KeyedAppend
<1>3. /\ DOMAIN l2 = DOMAIN l \union {Len(l) + 1}
      /\ \A i \in DOMAIN l : l2[i] = l[i]
      /\ l2[Len(l) + 1] = e
  BY <1>0, <1>1, AppendFacts
<1>4. ASSUME NEW ref \in Refs
      PROVE  /\ Affects(e, ref) =>
                 /\ LagRevision(l2, c, ref) = LagRevision(l, c, ref) + 1
                 /\ LagNet(l2, c, ref) = LagNet(l, c, ref) + Net(e)
                 /\ LagPaid(l2, c, ref) = LagPaid(l, c, ref) + Paid(e)
             /\ ~Affects(e, ref) =>
                 /\ LagRevision(l2, c, ref) = LagRevision(l, c, ref)
                 /\ LagNet(l2, c, ref) = LagNet(l, c, ref)
                 /\ LagPaid(l2, c, ref) = LagPaid(l, c, ref)
  BY <1>0, <1>1, LagAppend
<1>5. /\ PaidIn(l2, c) = PaidIn(l, c)
      /\ PaidIn(l2, DOMAIN l2) = PaidIn(l, DOMAIN l) + Paid(e)
  BY <1>0, <1>1, PaidAppend
<1>6. Grown(l, l2, c, e)
  BY <1>2, <1>3, <1>4, <1>5, Zenon DEF Grown
<1> QED
  BY <1>1, <1>6

LEMMA GrownTwo ==
    ASSUME NEW l, Keyed(l), NEW c \in SUBSET DOMAIN l, NEW ref0 \in Refs, NEW a \in Nat,
           NEW e \in Event, NEW d \in Event,
           e = Recognition(ref0, a, 1), d = Recognition(ref0, a, 2), Fresh(l, e)
    PROVE  Grown(l, Append(Append(l, e), d), c, e)
<1>0. l \in Seq(Event)
  BY DEF Keyed
<1>1. PICK l1, l2 : l1 = Append(l, e) /\ l2 = Append(l1, d)
  OBVIOUS
<1>2. /\ e.kind = "RECOGNIZED" /\ e.version = 1 /\ e.ref = ref0 /\ e.amount = a
      /\ d.kind = "RECOGNIZED" /\ d.version = 2 /\ d.ref = ref0 /\ d.amount = a
  BY DEF Recognition
<1>3. ~Twin(e) /\ Twin(d)
  BY <1>2 DEF Twin
<1>4. Grown(l, l1, c, e)
  BY <1>1, <1>3, GrownOne
<1>5. Keyed(l1)
  BY <1>4 DEF Grown
<1>6. /\ l1 \in Seq(Event) /\ Len(l1) = Len(l) + 1 /\ Len(l) + 1 \in DOMAIN l1
      /\ DOMAIN l1 = DOMAIN l \union {Len(l) + 1}
      /\ \A i \in DOMAIN l : l1[i] = l[i]
      /\ l1[Len(l) + 1] = e
  BY <1>0, <1>1, AppendFacts
<1>7. Len(l1) \in DOMAIN l1 /\ l1[Len(l1)] = Recognition(d.ref, d.amount, 1)
  BY <1>2, <1>6
<1>8. Keyed(l2)
  BY <1>1, <1>3, <1>5, <1>7, KeyedAppend
<1>9. /\ DOMAIN l2 = DOMAIN l1 \union {Len(l1) + 1}
      /\ \A i \in DOMAIN l1 : l2[i] = l1[i]
      /\ l2[Len(l1) + 1] = d
  BY <1>1, <1>6, AppendFacts
<1>10. c \in SUBSET DOMAIN l1
  BY <1>6
<1>11. ASSUME NEW ref \in Refs
       PROVE  /\ LagRevision(l2, c, ref) = LagRevision(l1, c, ref)
              /\ LagNet(l2, c, ref) = LagNet(l1, c, ref)
              /\ LagPaid(l2, c, ref) = LagPaid(l1, c, ref)
  <2>1. /\ l1 \in Seq(Event) /\ c \in SUBSET DOMAIN l1 /\ d \in Event
        /\ (Moving(d) /\ ~Twin(d)) => Fresh(l1, d)
    BY <1>3, <1>6, <1>10
  <2>2. ~(Affects(d, ref) /\ ~Twin(d)) =>
           /\ LagRevision(Append(l1, d), c, ref) = LagRevision(l1, c, ref)
           /\ LagNet(Append(l1, d), c, ref) = LagNet(l1, c, ref)
           /\ LagPaid(Append(l1, d), c, ref) = LagPaid(l1, c, ref)
    BY <2>1, LagAppend
  <2> QED
    BY <1>1, <1>3, <2>2, Zenon
<1>12. /\ PaidIn(l2, c) = PaidIn(l1, c)
       /\ PaidIn(l2, DOMAIN l2) = PaidIn(l1, DOMAIN l1) + Paid(d)
  BY <1>1, <1>6, <1>10, PaidAppend
<1>13. Paid(d) = 0
  BY <1>2 DEF Paid
<1>14. PaidIn(l1, DOMAIN l1) \in Int
  BY <1>6, PaidTypes
<1>15. PaidIn(l2, c) = PaidIn(l1, c) /\ PaidIn(l2, DOMAIN l2) = PaidIn(l1, DOMAIN l1)
  BY <1>12, <1>13, <1>14
<1>16. /\ \A i \in DOMAIN l : i \in DOMAIN l2 /\ l2[i] = l[i]
       /\ \A i \in DOMAIN l2 : \/ i \in DOMAIN l
                               \/ l2[i] = e
                               \/ e.kind = "RECOGNIZED" /\ Twin(l2[i]) /\ l2[i].ref = e.ref
       /\ \E i \in DOMAIN l2 : l2[i] = e
  BY <1>2, <1>3, <1>6, <1>9, Zenon
<1>17. Grown(l, l2, c, e)
  BY <1>4, <1>8, <1>11, <1>15, <1>16, Zenon DEF Grown
<1> QED
  BY <1>1, <1>17

-----------------------------------------------------------------------------
(* The escrow's side *)

LEMMA TotalsForm ==
    TotalsAgree <=> /\ account.latestRevision = Revisions(obligation)
                    /\ account.openAmount = OpenTotal(obligation)
                    /\ account.paidCumulative = PaidIn(log, DOMAIN log)
                    /\ stats.eventsConsumed = Revisions(receivable)
                    /\ stats.openAmount = OpenTotal(receivable)
                    /\ stats.paidCumulative = PaidIn(log, consumed)
  BY Zenon DEF TotalsAgree, Revisions, OpenTotal, PaidIn, LivePayouts

(* A step of the escrow that books and logs event e. *)
Writes(e) ==
    /\ Grown(log, log', consumed, e)
    /\ Moved(obligation, obligation', e)
    /\ Moving(e) => /\ account'.latestRevision = account.latestRevision + 1
                    /\ account'.openAmount = account.openAmount + Net(e) - Paid(e)
    /\ ~Moving(e) => /\ account'.latestRevision = account.latestRevision
                     /\ account'.openAmount = account.openAmount
    /\ account'.paidCumulative = account.paidCumulative + Paid(e)
    /\ UNCHANGED <<consumed, receivable, stats>>

LEMMA WritesKeep ==
    ASSUME TypeInv, PendingInv, TotalsAgree, NEW e \in Event, Writes(e)
    PROVE  PendingInv' /\ TotalsAgree'
<1>0. Entries(obligation) /\ Entries(obligation')
  BY DEF Writes, Moved
<1>1. /\ Moving(e) => /\ Revisions(obligation') = Revisions(obligation) + 1
                      /\ OpenTotal(obligation') = OpenTotal(obligation) + Net(e) - Paid(e)
      /\ ~Moving(e) => /\ Revisions(obligation') = Revisions(obligation)
                       /\ OpenTotal(obligation') = OpenTotal(obligation)
  BY MovedTotals DEF Writes
<1>2. PaidIn(log', consumed) = PaidIn(log, consumed) /\ PaidIn(log', DOMAIN log') = PaidIn(log, DOMAIN log) + Paid(e)
  BY DEF Writes, Grown
<1>3. TotalsAgree'
  <2>1. /\ account.latestRevision = Revisions(obligation)
        /\ account.openAmount = OpenTotal(obligation)
        /\ account.paidCumulative = PaidIn(log, DOMAIN log)
        /\ stats.eventsConsumed = Revisions(receivable)
        /\ stats.openAmount = OpenTotal(receivable)
        /\ stats.paidCumulative = PaidIn(log, consumed)
    BY TotalsForm
  <2>2. consumed' = consumed /\ receivable' = receivable /\ stats' = stats
    BY DEF Writes
  <2>3. /\ account'.latestRevision = Revisions(obligation')
        /\ account'.openAmount = OpenTotal(obligation')
        /\ account'.paidCumulative = PaidIn(log', DOMAIN log')
    BY <1>1, <1>2, <2>1 DEF Writes
  <2>4. /\ stats'.eventsConsumed = Revisions(receivable')
        /\ stats'.openAmount = OpenTotal(receivable')
        /\ stats'.paidCumulative = PaidIn(log', consumed')
    BY <1>2, <2>1, <2>2
  <2> QED
    BY <2>3, <2>4, Zenon DEF TotalsAgree, Revisions, OpenTotal, PaidIn, LivePayouts
<1>4. ASSUME NEW ref \in Refs
      PROVE  /\ obligation'[ref].revision = receivable'[ref].revision + LagRevision(log', consumed', ref)
             /\ obligation'[ref].net = receivable'[ref].net + LagNet(log', consumed', ref)
             /\ obligation'[ref].paid = receivable'[ref].paid + LagPaid(log', consumed', ref)
  <2>1. /\ obligation[ref].revision = receivable[ref].revision + LagRevision(log, consumed, ref)
        /\ obligation[ref].net = receivable[ref].net + LagNet(log, consumed, ref)
        /\ obligation[ref].paid = receivable[ref].paid + LagPaid(log, consumed, ref)
    BY DEF PendingInv
  <2>2. consumed' = consumed /\ receivable' = receivable
    BY DEF Writes
  <2>3. /\ LagRevision(log, consumed, ref) \in Int /\ LagNet(log, consumed, ref) \in Int
        /\ LagPaid(log, consumed, ref) \in Int
    <3>1. log \in Seq(Event)
      BY DEF TypeInv, Keyed
    <3> QED
      BY <3>1, LagTypes
  <2>4. /\ receivable[ref].revision \in Int /\ receivable[ref].net \in Int /\ receivable[ref].paid \in Int
    BY DEF TypeInv, Receivable
  <2>5. Net(e) \in Int /\ Paid(e) \in Int
    BY EventWeights
  <2>6. CASE Affects(e, ref)
    <3>1. /\ LagRevision(log', consumed, ref) = LagRevision(log, consumed, ref) + 1
          /\ LagNet(log', consumed, ref) = LagNet(log, consumed, ref) + Net(e)
          /\ LagPaid(log', consumed, ref) = LagPaid(log, consumed, ref) + Paid(e)
      BY <2>6 DEF Writes, Grown
    <3>2. /\ obligation'[ref].revision = obligation[ref].revision + 1
          /\ obligation'[ref].net = obligation[ref].net + Net(e)
          /\ obligation'[ref].paid = obligation[ref].paid + Paid(e)
      BY <2>6 DEF Writes, Moved
    <3> QED
      BY <2>1, <2>2, <2>3, <2>4, <2>5, <3>1, <3>2
  <2>7. CASE ~Affects(e, ref)
    <3>1. /\ LagRevision(log', consumed, ref) = LagRevision(log, consumed, ref)
          /\ LagNet(log', consumed, ref) = LagNet(log, consumed, ref)
          /\ LagPaid(log', consumed, ref) = LagPaid(log, consumed, ref)
      BY <2>7 DEF Writes, Grown
    <3>2. /\ obligation'[ref].revision = obligation[ref].revision
          /\ obligation'[ref].net = obligation[ref].net
          /\ obligation'[ref].paid = obligation[ref].paid
      BY <2>7 DEF Writes, Moved
    <3> QED
      BY <2>1, <2>2, <3>1, <3>2
  <2> QED
    BY <2>6, <2>7
<1>5. PendingInv'
  BY <1>4, Zenon DEF PendingInv
<1> QED
  BY <1>3, <1>5

LEMMA FreshRecorded ==
    ASSUME TypeInv, LogInv, NEW e \in Event, e.kind \in Recorded,
           e.revision > obligation[e.ref].revision
    PROVE  Fresh(log, e)
<1>1. SUFFICES ASSUME NEW j \in DOMAIN log, EconomicKey(log[j]) = EconomicKey(e)
               PROVE  FALSE
  BY DEF Fresh
<1>2. log[j] \in Event
  BY DEF TypeInv, Keyed
<1>3. log[j].kind = e.kind /\ log[j].kind # "CHECKPOINT" /\ log[j].ref = e.ref /\ log[j].revision = e.revision
  BY <1>1, <1>2, SameKey DEF Recorded
<1>4. e.ref \in Refs /\ e.revision \in Nat
  BY EventTypes
<1>5. log[j].revision \in 1 .. obligation[log[j].ref].revision
  BY <1>1, <1>3 DEF LogInv, Sound
<1>6. obligation[e.ref].revision \in Nat
  BY <1>4 DEF TypeInv, Obligation
<1> QED
  BY <1>3, <1>4, <1>5, <1>6

LEMMA FreshPayout ==
    ASSUME TypeInv, LogInv, NEW e \in Event,
           \/ e.kind = "PAYOUT" /\ e.seq \notin DOMAIN payouts
           \/ e.kind = "PAYOUT_CANCELLED" /\ ~payouts[e.seq].cancelled
    PROVE  Fresh(log, e)
<1>1. SUFFICES ASSUME NEW j \in DOMAIN log, EconomicKey(log[j]) = EconomicKey(e)
               PROVE  FALSE
  BY DEF Fresh
<1>2. log[j] \in Event
  BY DEF TypeInv, Keyed
<1>3. log[j].kind = e.kind /\ log[j].seq = e.seq
  BY <1>1, <1>2, SameKey DEF Recorded, Paying
<1> QED
  BY <1>1, <1>3 DEF LogInv, Sound, Paying

(* What a step never takes back of obligations and payouts. *)
Onward ==
    /\ \A r \in Refs : /\ obligation'[r].revision >= obligation[r].revision
                       /\ obligation[r].assignedTo # NoFacility =>
                             obligation'[r].assignedTo = obligation[r].assignedTo
    /\ \A s \in DOMAIN payouts : /\ s \in DOMAIN payouts'
                                 /\ payouts'[s].ref = payouts[s].ref
                                 /\ payouts'[s].amount = payouts[s].amount
                                 /\ payouts[s].cancelled => payouts'[s].cancelled

LEMMA SoundStays ==
    ASSUME TypeInv, Onward, NEW e \in Event, Sound(e), obligation' \in [Refs -> Obligation]
    PROVE  Sound(e)'
<1>1. e.kind \in Recorded => e.revision \in 1 .. obligation'[e.ref].revision
  <2> HAVE e.kind \in Recorded
  <2>1. e.ref \in Refs /\ e.revision \in 1 .. obligation[e.ref].revision
    BY EventTypes DEF Sound
  <2>2. obligation[e.ref].revision \in Nat /\ obligation'[e.ref].revision \in Nat
        /\ obligation'[e.ref].revision >= obligation[e.ref].revision
    BY <2>1 DEF TypeInv, Obligation, Onward
  <2> QED
    BY <2>1, <2>2
<1>2. e.kind = "ASSIGNED" => e.facility = obligation'[e.ref].assignedTo
  <2> HAVE e.kind = "ASSIGNED"
  <2>1. e.ref \in Refs /\ e.facility \in Facilities /\ e.facility = obligation[e.ref].assignedTo
    BY EventTypes DEF Sound, Recorded
  <2> QED
    BY <2>1, EvidenceConstants, Zenon DEF Onward
<1>3. e.kind \in Paying => /\ e.seq \in DOMAIN payouts'
                           /\ e.ref = payouts'[e.seq].ref
                           /\ e.amount = payouts'[e.seq].amount
  BY Zenon DEF Sound, Onward
<1>4. e.kind = "PAYOUT_CANCELLED" => payouts'[e.seq].cancelled
  BY Zenon DEF Sound, Onward, Paying
<1> QED
  BY <1>1, <1>2, <1>3, <1>4, Zenon DEF Sound

LEMMA LogKeep ==
    ASSUME TypeInv, LogInv, NEW e \in Event, Onward, Sound(e)',
           Grown(log, log', consumed, e), obligation' \in [Refs -> Obligation]
    PROVE  LogInv'
<1>1. ASSUME NEW i \in DOMAIN log', NEW d \in Event, d = log'[i] PROVE Sound(d)'
  <2>1. CASE i \in DOMAIN log
    <3>1. d = log[i]
      BY <1>1, <2>1 DEF Grown
    <3>2. Sound(d)
      BY <2>1, <3>1, Zenon DEF LogInv
    <3> QED
      BY <3>2, SoundStays
  <2>2. CASE d = e
    BY <2>2
  <2>3. CASE e.kind = "RECOGNIZED" /\ Twin(d) /\ d.ref = e.ref
    <3>1. /\ d.kind = "RECOGNIZED" /\ d.revision = 1 /\ e.revision = 1
          /\ e.kind = "RECOGNIZED" /\ d.ref = e.ref
      BY <2>3, EventTypes DEF Twin
    <3>2. e.revision \in 1 .. obligation'[e.ref].revision
      BY <3>1 DEF Sound, Recorded
    <3>3. d.revision \in 1 .. obligation'[d.ref].revision
      BY <3>1, <3>2
    <3> QED
      BY <3>1, <3>3 DEF Sound, Paying
  <2> QED
    BY <1>1, <2>1, <2>2, <2>3, Zenon DEF Grown
<1>2. \A i \in DOMAIN log' : log'[i] \in Event
  BY DEF Grown, Keyed
<1> QED
  BY <1>1, <1>2, Zenon DEF LogInv, Sound

Inv ==
    /\ TypeInv /\ LogInv /\ SourceInv /\ BookInv /\ LockInv
    /\ PendingInv /\ TotalsAgree

Accounts == [latestRevision : Int, openAmount : Int, paidCumulative : Int,
             checkpointSeq : Int, protectedUntil : Int]

Payouts == Seq([ref : Refs \union {NoRef}, amount : Nat, cancelled : BOOLEAN])

(* What every logging step of the escrow does, with the event e it logs. *)
SourceStep(e) ==
    /\ Writes(e) /\ Onward /\ Sound(e)'
    /\ obligation' \in [Refs -> Obligation] /\ account' \in Accounts /\ payouts' \in Payouts
    /\ \A ref \in Refs : Sane(obligation'[ref])
    /\ \A ref \in Refs : obligation'[ref].status = "CANCELLED" =>
                            obligation[ref].status = "CANCELLED" \/ Cancels(e, ref)
    /\ \A s \in DOMAIN payouts' :
          payouts'[s].ref # NoRef => obligation'[payouts'[s].ref].status # "NONE"
    /\ account'.protectedUntil >= account.protectedUntil
    /\ \/ srcNow >= account.protectedUntil
       \/ account'.latestRevision = account.latestRevision
    /\ e.kind = "CHECKPOINT" => /\ e.version = 1 => e.observedAt = 0
                                /\ e.version = 2 => /\ e.protectedUntil <= account'.protectedUntil
                                                    /\ e.latestRevision = account'.latestRevision
    /\ UNCHANGED <<srcNow, dstNow, checkpoint>>

LEMMA LockKeep ==
    ASSUME TypeInv, LockInv, NEW e \in Event, SourceStep(e)
    PROVE  LockInv'
<1>0. Grown(log, log', consumed, e) /\ account' \in Accounts /\ account \in Accounts /\ srcNow \in Int
  BY DEF SourceStep, Writes, TypeInv, Accounts
<1>1. srcNow' = srcNow /\ checkpoint' = checkpoint
  BY DEF SourceStep
<1>2. /\ account'.protectedUntil \in Int /\ account.protectedUntil \in Int
      /\ account'.latestRevision \in Int /\ account.latestRevision \in Int
      /\ account'.protectedUntil >= account.protectedUntil
      /\ \/ srcNow >= account.protectedUntil
         \/ account'.latestRevision = account.latestRevision
  BY <1>0 DEF SourceStep, Accounts
<1>3. ASSUME NEW i \in DOMAIN log', log'[i].kind = "CHECKPOINT", log'[i].version = 2
      PROVE  /\ log'[i].protectedUntil <= account'.protectedUntil
             /\ srcNow' < log'[i].protectedUntil => log'[i].latestRevision = account'.latestRevision
  <2>1. CASE i \in DOMAIN log
    <3>1. log'[i] = log[i] /\ log[i] \in Event
      BY <1>0, <2>1 DEF Grown, TypeInv, Keyed
    <3>2. log[i].protectedUntil \in Int /\ log[i].latestRevision \in Int
      BY <1>3, <3>1, EventTypes
    <3>3. /\ log[i].protectedUntil <= account.protectedUntil
          /\ srcNow < log[i].protectedUntil => log[i].latestRevision = account.latestRevision
      BY <1>3, <2>1, <3>1 DEF LockInv
    <3> QED
      BY <1>0, <1>1, <1>2, <3>1, <3>2, <3>3
  <2>2. CASE log'[i] = e
    BY <1>3, <2>2 DEF SourceStep
  <2>3. CASE Twin(log'[i])
    BY <1>3, <2>3 DEF Twin
  <2> QED
    BY <1>0, <2>1, <2>2, <2>3, Zenon DEF Grown
<1>4. ASSUME NEW i \in DOMAIN log', log'[i].kind = "CHECKPOINT", log'[i].version = 1
      PROVE  log'[i].observedAt = 0
  <2>1. CASE i \in DOMAIN log
    <3>1. log'[i] = log[i]
      BY <1>0, <2>1 DEF Grown
    <3> QED
      BY <1>4, <2>1, <3>1 DEF LockInv
  <2>2. CASE log'[i] = e
    BY <1>4, <2>2 DEF SourceStep
  <2>3. CASE Twin(log'[i])
    BY <1>4, <2>3 DEF Twin
  <2> QED
    BY <1>0, <2>1, <2>2, <2>3, Zenon DEF Grown
<1>5. checkpoint'.observedAt # 0 =>
          \E i \in DOMAIN log' : /\ log'[i].kind = "CHECKPOINT" /\ log'[i].version = 2
                                 /\ log'[i].protectedUntil = checkpoint'.protectedUntil
                                 /\ log'[i].latestRevision = checkpoint'.latestRevision
  <2> HAVE checkpoint'.observedAt # 0
  <2>1. PICK i \in DOMAIN log : /\ log[i].kind = "CHECKPOINT" /\ log[i].version = 2
                                /\ log[i].protectedUntil = checkpoint.protectedUntil
                                /\ log[i].latestRevision = checkpoint.latestRevision
    BY <1>1 DEF LockInv
  <2>2. i \in DOMAIN log' /\ log'[i] = log[i]
    BY <1>0 DEF Grown
  <2> QED
    BY <1>1, <2>1, <2>2
<1> QED
  BY <1>3, <1>4, <1>5, Zenon DEF LockInv

LEMMA SourceKeep ==
    ASSUME Inv, NEW e \in Event, SourceStep(e)
    PROVE  Inv'
<1>0. TypeInv /\ LogInv /\ SourceInv /\ BookInv /\ LockInv /\ PendingInv /\ TotalsAgree
  BY DEF Inv
<1>1. Grown(log, log', consumed, e) /\ consumed' = consumed /\ receivable' = receivable /\ stats' = stats
  BY DEF SourceStep, Writes
<1>2. Writes(e) /\ Onward /\ Sound(e)' /\ obligation' \in [Refs -> Obligation]
  BY DEF SourceStep
<1>3. PendingInv' /\ TotalsAgree'
  BY <1>0, <1>2, WritesKeep
<1>4. LogInv'
  BY <1>0, <1>1, <1>2, LogKeep
<1>5. LockInv'
  BY <1>0, LockKeep
<1>6. SourceInv'
  <2>1. ASSUME NEW ref \in Refs, obligation'[ref].status = "CANCELLED"
        PROVE  \E i \in DOMAIN log' : Cancels(log'[i], ref)
    <3>1. CASE obligation[ref].status = "CANCELLED"
      <4>1. PICK i \in DOMAIN log : Cancels(log[i], ref)
        BY <1>0, <3>1 DEF SourceInv
      <4>2. i \in DOMAIN log' /\ log'[i] = log[i]
        BY <1>1 DEF Grown
      <4> QED
        BY <4>1, <4>2, Zenon
    <3>2. CASE Cancels(e, ref)
      BY <1>1, <3>2, Zenon DEF Grown
    <3> QED
      BY <2>1, <3>1, <3>2, Zenon DEF SourceStep
  <2>2. /\ \A ref \in Refs : Sane(obligation'[ref])
        /\ \A s \in DOMAIN payouts' :
              payouts'[s].ref # NoRef => obligation'[payouts'[s].ref].status # "NONE"
    BY DEF SourceStep
  <2> QED
    BY <2>1, <2>2, Zenon DEF SourceInv, Sane, Cancels
<1>7. BookInv'
  <2>1. ASSUME NEW ref \in Refs
        PROVE  receivable'[ref].facility \in {NoFacility, obligation'[ref].assignedTo}
    <3>1. receivable[ref].facility \in {NoFacility, obligation[ref].assignedTo}
      BY <1>0, Zenon DEF BookInv
    <3>2. obligation[ref].assignedTo # NoFacility => obligation'[ref].assignedTo = obligation[ref].assignedTo
      BY <1>2 DEF Onward
    <3> QED
      BY <1>1, <3>1, <3>2
  <2>2. \A i \in consumed : log'[i] = log[i]
    BY <1>0, <1>1 DEF Grown, TypeInv
  <2> QED
    BY <1>0, <1>1, <2>1, <2>2, Zenon DEF BookInv
<1>8. TypeInv'
  <2>1. srcNow' = srcNow /\ dstNow' = dstNow /\ checkpoint' = checkpoint
    BY DEF SourceStep
  <2>2. Keyed(log') /\ consumed \subseteq DOMAIN log'
    BY <1>0, <1>1, Zenon DEF Grown, TypeInv
  <2>3. Keyed(log)'
    BY <2>2, Zenon DEF Keyed
  <2>4. account' \in Accounts /\ payouts' \in Payouts
    BY DEF SourceStep
  <2> QED
    BY <1>0, <1>1, <1>2, <2>1, <2>2, <2>3, <2>4, Zenon DEF TypeInv, Accounts, Payouts
<1> QED
  BY <1>3, <1>4, <1>5, <1>6, <1>7, <1>8, Zenon DEF Inv

(* The obligation of event e becomes o2. *)
Edits(e, o2) ==
    /\ Moving(e)
    /\ obligation' = [obligation EXCEPT ![e.ref] = o2]
    /\ o2 \in Obligation /\ Sane(o2) /\ o2.status # "NONE"
    /\ o2.revision = obligation[e.ref].revision + 1
    /\ o2.net = obligation[e.ref].net + Net(e)
    /\ o2.paid = obligation[e.ref].paid + Paid(e)
    /\ obligation[e.ref].assignedTo # NoFacility => o2.assignedTo = obligation[e.ref].assignedTo
    /\ o2.status = "CANCELLED" => obligation[e.ref].status = "CANCELLED" \/ Cancels(e, e.ref)

Edited(e) ==
    /\ Moved(obligation, obligation', e)
    /\ obligation' \in [Refs -> Obligation]
    /\ \A r \in Refs :
          /\ Sane(obligation'[r])
          /\ obligation'[r].revision >= obligation[r].revision
          /\ obligation[r].assignedTo # NoFacility =>
                obligation'[r].assignedTo = obligation[r].assignedTo
          /\ obligation'[r].status = "CANCELLED" =>
                obligation[r].status = "CANCELLED" \/ Cancels(e, r)
          /\ obligation[r].status # "NONE" => obligation'[r].status # "NONE"

LEMMA EditsOne ==
    ASSUME TypeInv, SourceInv, NEW e \in Event, NEW o2, Edits(e, o2)
    PROVE  Edited(e) /\ e.ref \in Refs /\ obligation'[e.ref] = o2
<1>1. PICK a \in Refs : a = e.ref
  BY EventTypes DEF Edits, Moving
<1>2. /\ obligation'[a] = o2 /\ obligation[a] \in Obligation /\ o2 \in Obligation
      /\ obligation' \in [Refs -> Obligation]
      /\ \A r \in Refs : r # a => obligation'[r] = obligation[r]
  BY <1>1 DEF Edits, TypeInv
<1>3. \A r \in Refs : obligation[r] \in Obligation /\ obligation'[r] \in Obligation
  BY <1>2 DEF TypeInv
<1>4. \A r \in Refs : Affects(e, r) <=> r = a
  BY <1>1 DEF Edits, Affects
<1>5. /\ o2.revision = obligation[a].revision + 1
      /\ o2.net = obligation[a].net + Net(e)
      /\ o2.paid = obligation[a].paid + Paid(e)
  BY <1>1 DEF Edits
<1>6. Entries(obligation) /\ Entries(obligation')
  BY <1>3 DEF Entries, Obligation
<1>7. Moved(obligation, obligation', e)
  BY <1>2, <1>4, <1>5, <1>6, Zenon DEF Moved
<1>8. ASSUME NEW r \in Refs
      PROVE  /\ Sane(obligation'[r])
             /\ obligation'[r].revision >= obligation[r].revision
             /\ obligation[r].assignedTo # NoFacility =>
                   obligation'[r].assignedTo = obligation[r].assignedTo
             /\ obligation'[r].status = "CANCELLED" =>
                   obligation[r].status = "CANCELLED" \/ Cancels(e, r)
             /\ obligation[r].status # "NONE" => obligation'[r].status # "NONE"
  <2>1. CASE r = a
    <3>1. obligation[a].revision \in Int /\ o2.revision = obligation[a].revision + 1
      BY <1>2, <1>5 DEF Obligation
    <3>2. o2.revision >= obligation[a].revision
      BY <3>1
    <3> QED
      BY <1>1, <1>2, <2>1, <3>2, Zenon DEF Edits
  <2>2. CASE r # a
    <3>1. obligation'[r] = obligation[r] /\ obligation[r].revision \in Int
      BY <1>2, <1>3, <2>2 DEF Obligation
    <3>2. Sane(obligation[r])
      BY DEF SourceInv
    <3> QED
      BY <3>1, <3>2
  <2> QED
    BY <2>1, <2>2
<1> QED
  BY <1>1, <1>2, <1>7, <1>8, Zenon DEF Edited

LEMMA EditsNone ==
    ASSUME TypeInv, SourceInv, NEW e \in Event, ~Moving(e), obligation' = obligation
    PROVE  Edited(e)
<1>1. \A r \in Refs : /\ obligation[r] \in Obligation /\ Sane(obligation[r])
                      /\ obligation[r].revision \in Int /\ obligation[r].net \in Int
                      /\ obligation[r].paid \in Int
  BY DEF TypeInv, SourceInv, Obligation
<1>2. Moved(obligation, obligation', e)
  BY <1>1, Zenon DEF Moved, Entries, Affects
<1>3. obligation' \in [Refs -> Obligation]
  BY DEF TypeInv
<1>4. \A r \in Refs : obligation[r].revision >= obligation[r].revision
  BY <1>1
<1> QED
  BY <1>1, <1>2, <1>3, <1>4, Zenon DEF Edited

(* Payouts are appended or marked cancelled. *)
PayoutsOn ==
    /\ payouts' \in Payouts
    /\ \A s \in DOMAIN payouts : /\ s \in DOMAIN payouts'
                                 /\ payouts'[s].ref = payouts[s].ref
                                 /\ payouts'[s].amount = payouts[s].amount
                                 /\ payouts[s].cancelled => payouts'[s].cancelled
    /\ \A s \in DOMAIN payouts' : s \in DOMAIN payouts \/
          (payouts'[s].ref # NoRef => obligation'[payouts'[s].ref].status # "NONE")

(* The account's totals follow event e; protectedUntil and who may write. *)
Accounted(e) ==
    /\ account' \in Accounts
    /\ Moving(e) => /\ account'.latestRevision = account.latestRevision + 1
                    /\ account'.openAmount = account.openAmount + Net(e) - Paid(e)
    /\ ~Moving(e) => /\ account'.latestRevision = account.latestRevision
                     /\ account'.openAmount = account.openAmount
    /\ account'.paidCumulative = account.paidCumulative + Paid(e)
    /\ account'.protectedUntil >= account.protectedUntil
    /\ \/ srcNow >= account.protectedUntil
       \/ account'.latestRevision = account.latestRevision

LEMMA PayoutTypes ==
    ASSUME TypeInv, NEW s \in DOMAIN payouts
    PROVE  /\ payouts[s].ref \in Refs \union {NoRef} /\ payouts[s].amount \in Nat
           /\ payouts[s].cancelled \in BOOLEAN
           /\ Len(payouts) \in Nat /\ DOMAIN payouts = 1 .. Len(payouts)
<1>1. payouts \in Seq([ref : Refs \union {NoRef}, amount : Nat, cancelled : BOOLEAN])
  BY DEF TypeInv
<1>2. PICK R : R = [ref : Refs \union {NoRef}, amount : Nat, cancelled : BOOLEAN]
  OBVIOUS
<1>3. payouts \in Seq(R)
  BY <1>1, <1>2
<1>4. payouts[s] \in R /\ Len(payouts) \in Nat /\ DOMAIN payouts = 1 .. Len(payouts)
  BY <1>3
<1> QED
  BY <1>2, <1>4

LEMMA LoggedKeep ==
    ASSUME Inv, NEW e \in Event, Grown(log, log', consumed, e), Edited(e), PayoutsOn,
           Accounted(e), Sound(e)',
           e.kind = "CHECKPOINT" => /\ e.version = 1 => e.observedAt = 0
                                    /\ e.version = 2 => /\ e.protectedUntil <= account'.protectedUntil
                                                        /\ e.latestRevision = account'.latestRevision,
           UNCHANGED <<srcNow, dstNow, bookVars>>
    PROVE  Inv'
<1>0. TypeInv /\ SourceInv
  BY DEF Inv
<1>1. consumed' = consumed /\ receivable' = receivable /\ stats' = stats /\ checkpoint' = checkpoint
      /\ srcNow' = srcNow /\ dstNow' = dstNow
  BY DEF bookVars
<1>2. Writes(e)
  BY <1>1, Zenon DEF Writes, Edited, Accounted
<1>3. Onward
  BY Zenon DEF Onward, Edited, PayoutsOn
<1>4. ASSUME NEW s \in DOMAIN payouts', payouts'[s].ref # NoRef
      PROVE  obligation'[payouts'[s].ref].status # "NONE"
  <2>1. CASE s \in DOMAIN payouts
    <3>0. payouts'[s].ref = payouts[s].ref
      BY <2>1, Zenon DEF PayoutsOn
    <3>1. payouts'[s].ref = payouts[s].ref /\ payouts[s].ref \in Refs
      BY <1>0, <1>4, <2>1, <3>0, PayoutTypes
    <3>2. obligation[payouts[s].ref].status # "NONE"
      BY <1>0, <1>4, <2>1, <3>1 DEF SourceInv
    <3> QED
      BY <3>1, <3>2, Zenon DEF Edited
  <2> QED
    BY <1>4, <2>1, Zenon DEF PayoutsOn
<1>5. SourceStep(e)
  BY <1>1, <1>2, <1>3, <1>4, Zenon DEF SourceStep, Edited, Accounted, PayoutsOn
<1> QED
  BY <1>5, SourceKeep

LEMMA PayoutsSame ==
    ASSUME TypeInv, payouts' = payouts
    PROVE  PayoutsOn
  BY Zenon DEF PayoutsOn, TypeInv, Payouts

LEMMA AccountTypes ==
    ASSUME TypeInv
    PROVE  /\ srcNow \in Int /\ account.latestRevision \in Int /\ account.openAmount \in Int
           /\ account.paidCumulative \in Int /\ account.checkpointSeq \in Int
           /\ account.protectedUntil \in Int
  BY DEF TypeInv

LEMMA BumpedIs ==
    ASSUME TypeInv, NEW d \in Int
    PROVE  /\ Bumped(d) \in Accounts
           /\ Bumped(d).latestRevision = account.latestRevision + 1
           /\ Bumped(d).openAmount = account.openAmount + d
           /\ Bumped(d).paidCumulative = account.paidCumulative
           /\ Bumped(d).checkpointSeq = account.checkpointSeq
           /\ Bumped(d).protectedUntil = account.protectedUntil
<1>1. account \in Accounts
  BY DEF TypeInv, Accounts
<1>2. PICK b : b = [account EXCEPT !.latestRevision = @ + 1]
  OBVIOUS
<1>3. b \in Accounts
  BY <1>1, <1>2 DEF Accounts
<1>4. Bumped(d) = [b EXCEPT !.openAmount = @ + d]
  BY <1>1, <1>2 DEF Bumped, Accounts
<1>5. Bumped(d) \in Accounts
  BY <1>3, <1>4 DEF Accounts
<1>6. /\ Bumped(d).latestRevision = account.latestRevision + 1
      /\ Bumped(d).openAmount = account.openAmount + d
  BY <1>1 DEF Bumped, Accounts
<1>7. /\ Bumped(d).paidCumulative = account.paidCumulative
      /\ Bumped(d).checkpointSeq = account.checkpointSeq
      /\ Bumped(d).protectedUntil = account.protectedUntil
  BY <1>1 DEF Bumped, Accounts
<1> QED
  BY <1>5, <1>6, <1>7

LEMMA RecognizeStep ==
    ASSUME Inv, NEW ref \in Refs, NEW a \in Amounts, RecognizeObligation(ref, a)
    PROVE  Inv'
<1>0. TypeInv /\ LogInv /\ SourceInv /\ Keyed(log) /\ log \in Seq(Event) /\ consumed \in SUBSET DOMAIN log /\ a \in Nat
  BY EvidenceConstants DEF Inv, TypeInv, Keyed
<1>1. PICK e, d : e = Recognition(ref, a, 1) /\ d = Recognition(ref, a, 2)
  OBVIOUS
<1>2. /\ e \in Event /\ d \in Event
      /\ e.kind = "RECOGNIZED" /\ e.version = 1 /\ e.ref = ref /\ e.amount = a /\ e.revision = 1
  BY <1>0, <1>1 DEF Recognition, Event
<1>3. PICK o2 : o2 = [NoObligation EXCEPT !.status = "OPEN", !.net = a, !.revision = 1]
  OBVIOUS
<1>4. /\ obligation' = [obligation EXCEPT ![ref] = o2]
      /\ obligation[ref].status = "NONE" /\ Unreserved
      /\ account' = Bumped(a) /\ payouts' = payouts
      /\ Emit(<<e, d>>) /\ UNCHANGED <<srcNow, dstNow, bookVars>>
  BY <1>1, <1>3, Zenon DEF RecognizeObligation
<1>5. /\ obligation[ref].net = 0 /\ obligation[ref].paid = 0 /\ obligation[ref].revision = 0
      /\ obligation[ref] \in Obligation
  BY <1>0, <1>4 DEF SourceInv, Sane, TypeInv
<1>6. Net(e) = a /\ Paid(e) = 0 /\ Moving(e)
  BY <1>2 DEF Net, Paid, Moving, Recorded
<1>7. obligation[ref].assignedTo = NoFacility
  BY <1>0, <1>4 DEF Inv, SourceInv, Sane
<1>8. Edits(e, o2)
  <2>0. o2 = [status |-> "OPEN", net |-> a, paid |-> 0, revision |-> 1, assignedTo |-> NoFacility]
    BY <1>3 DEF NoObligation
  <2>1. o2 \in Obligation /\ o2.status = "OPEN" /\ o2.net = a /\ o2.paid = 0 /\ o2.revision = 1
    BY <1>0, <2>0 DEF Obligation
  <2>2. Sane(o2)
    BY <1>0, <2>1 DEF Sane
  <2> QED
    BY <1>0, <1>2, <1>4, <1>5, <1>6, <1>7, <2>1, <2>2 DEF Edits
<1>9. Edited(e) /\ obligation'[e.ref] = o2
  BY <1>0, <1>2, <1>8, EditsOne
<1>10. Fresh(log, e)
  BY <1>0, <1>2, <1>5, FreshRecorded DEF Recorded
<1>11. log' = Append(Append(log, e), d)
  BY <1>0, <1>2, <1>4, EmitTwo
<1>12. Grown(log, log', consumed, e)
  BY <1>0, <1>1, <1>2, <1>10, <1>11, GrownTwo
<1>13. Accounted(e)
  <2>1. /\ account' \in Accounts /\ account'.latestRevision = account.latestRevision + 1
        /\ account'.openAmount = account.openAmount + a
        /\ account'.paidCumulative = account.paidCumulative
        /\ account'.protectedUntil = account.protectedUntil
    BY <1>0, <1>4, BumpedIs
  <2> QED
    BY <1>0, <1>4, <1>6, <2>1, AccountTypes DEF Accounted, Unreserved
<1>14. Sound(e)'
  BY <1>2, <1>3, <1>9 DEF Sound, Recorded, Paying
<1>15. PayoutsOn
  BY <1>0, <1>4, PayoutsSame
<1> QED
  BY <1>2, <1>4, <1>9, <1>12, <1>13, <1>14, <1>15, LoggedKeep

(* The three edits of an obligation by a numbered event. *)
LEMMA EditTypes ==
    ASSUME NEW o \in Obligation, NEW n \in Int, NEW st \in {"NONE", "OPEN", "PAID", "CANCELLED"},
           NEW f \in Facilities \union {NoFacility}, NEW o2,
           \/ o2 = [o EXCEPT !.assignedTo = f, !.revision = @ + 1]
           \/ o2 = [o EXCEPT !.net = @ + n, !.revision = @ + 1, !.status = st]
           \/ o2 = [o EXCEPT !.paid = @ + n, !.revision = @ + 1, !.status = st]
    PROVE  o2 \in Obligation
<1>1. CASE o2 = [o EXCEPT !.assignedTo = f, !.revision = @ + 1]
  <2>1. PICK q : q = [o EXCEPT !.assignedTo = f]
    OBVIOUS
  <2>2. q \in Obligation
    BY <2>1 DEF Obligation
  <2>3. o2 = [q EXCEPT !.revision = @ + 1]
    BY <1>1, <2>1 DEF Obligation
  <2> QED
    BY <2>2, <2>3 DEF Obligation
<1>2. CASE o2 = [o EXCEPT !.net = @ + n, !.revision = @ + 1, !.status = st]
  <2>1. PICK q : q = [o EXCEPT !.net = @ + n]
    OBVIOUS
  <2>2. q \in Obligation
    BY <2>1 DEF Obligation
  <2>3. PICK q2 : q2 = [q EXCEPT !.revision = @ + 1]
    OBVIOUS
  <2>4. q2 \in Obligation
    BY <2>2, <2>3 DEF Obligation
  <2>5. o2 = [q2 EXCEPT !.status = st]
    BY <1>2, <2>1, <2>3 DEF Obligation
  <2> QED
    BY <2>4, <2>5 DEF Obligation
<1>3. CASE o2 = [o EXCEPT !.paid = @ + n, !.revision = @ + 1, !.status = st]
  <2>1. PICK q : q = [o EXCEPT !.paid = @ + n]
    OBVIOUS
  <2>2. q \in Obligation
    BY <2>1 DEF Obligation
  <2>3. PICK q2 : q2 = [q EXCEPT !.revision = @ + 1]
    OBVIOUS
  <2>4. q2 \in Obligation
    BY <2>2, <2>3 DEF Obligation
  <2>5. o2 = [q2 EXCEPT !.status = st]
    BY <1>3, <2>1, <2>3 DEF Obligation
  <2> QED
    BY <2>4, <2>5 DEF Obligation
<1> QED
  BY <1>1, <1>2, <1>3

LEMMA AssignStep ==
    ASSUME Inv, NEW ref \in Refs, NEW f \in Facilities, AssignObligation(ref, f)
    PROVE  Inv'
<1>0. TypeInv /\ LogInv /\ SourceInv /\ Keyed(log) /\ log \in Seq(Event) /\ consumed \in SUBSET DOMAIN log
  BY DEF Inv, TypeInv, Keyed
<1>1. PICK o : o = obligation[ref]
  OBVIOUS
<1>2. o \in Obligation /\ Sane(o)
  BY <1>0, <1>1 DEF TypeInv, SourceInv
<1>3. PICK e, o2 : /\ e = [kind |-> "ASSIGNED", ref |-> ref, facility |-> f, revision |-> o.revision + 1]
                   /\ o2 = [o EXCEPT !.assignedTo = f, !.revision = @ + 1]
  OBVIOUS
<1>4. /\ e \in Event
      /\ e.kind = "ASSIGNED" /\ e.ref = ref /\ e.facility = f /\ e.revision = o.revision + 1
  BY <1>2, <1>3 DEF Event, Obligation
<1>5. /\ obligation' = [obligation EXCEPT ![ref] = o2]
      /\ o.status = "OPEN" /\ o.assignedTo \in {NoFacility, f} /\ Unreserved
      /\ account' = Bumped(0) /\ payouts' = payouts
      /\ Emit(<<e>>) /\ UNCHANGED <<srcNow, dstNow, bookVars>>
  BY <1>1, <1>3, Zenon DEF AssignObligation
<1>6. Net(e) = 0 /\ Paid(e) = 0 /\ Moving(e) /\ ~Twin(e)
  BY <1>4 DEF Net, Paid, Moving, Recorded, Twin
<1>7. o2 \in Obligation
  <2>1. PICK n \in Int, st \in {"NONE", "OPEN", "PAID", "CANCELLED"} : TRUE
    OBVIOUS
  <2> QED
    BY <1>2, <1>3, <2>1, EditTypes
<1>8. /\ o2.status = "OPEN" /\ o2.net = o.net /\ o2.paid = o.paid /\ o2.revision = o.revision + 1
      /\ o2.assignedTo = f
  BY <1>2, <1>3, <1>5 DEF Obligation
<1>9. o.net \in Int /\ o.paid \in Int /\ o.revision \in Nat
  BY <1>2 DEF Obligation
<1>10. Edits(e, o2)
  <2>1. Sane(o2)
    BY <1>2, <1>8 DEF Sane
  <2> QED
    BY <1>1, <1>4, <1>5, <1>6, <1>7, <1>8, <1>9, <2>1 DEF Edits
<1>11. Edited(e) /\ obligation'[e.ref] = o2
  BY <1>0, <1>4, <1>10, EditsOne
<1>12. Fresh(log, e)
  BY <1>0, <1>1, <1>4, <1>9, FreshRecorded DEF Recorded
<1>13. log' = Append(log, e)
  BY <1>0, <1>4, <1>5, EmitOne
<1>14. Grown(log, log', consumed, e)
  BY <1>0, <1>4, <1>6, <1>12, <1>13, GrownOne
<1>15. Accounted(e)
  <2>1. /\ account' \in Accounts /\ account'.latestRevision = account.latestRevision + 1
        /\ account'.openAmount = account.openAmount + 0
        /\ account'.paidCumulative = account.paidCumulative
        /\ account'.protectedUntil = account.protectedUntil
    BY <1>0, <1>5, BumpedIs
  <2> QED
    BY <1>0, <1>5, <1>6, <2>1, AccountTypes DEF Accounted, Unreserved
<1>16. Sound(e)'
  BY <1>4, <1>8, <1>9, <1>11 DEF Sound, Recorded, Paying
<1>17. PayoutsOn
  BY <1>0, <1>5, PayoutsSame
<1> QED
  BY <1>4, <1>5, <1>11, <1>14, <1>15, <1>16, <1>17, LoggedKeep

LEMMA CorrectStep ==
    ASSUME Inv, NEW ref \in Refs, NEW delta \in Deltas, NEW cancel \in BOOLEAN,
           CorrectObligation(ref, delta, cancel)
    PROVE  Inv'
<1>0. TypeInv /\ LogInv /\ SourceInv /\ Keyed(log) /\ log \in Seq(Event) /\ consumed \in SUBSET DOMAIN log
      /\ delta \in Int
  BY EvidenceConstants DEF Inv, TypeInv, Keyed
<1>1. PICK o : o = obligation[ref]
  OBVIOUS
<1>2. o \in Obligation /\ Sane(o)
  BY <1>0, <1>1 DEF TypeInv, SourceInv
<1>3. PICK e, o2 : /\ e = [kind |-> "CORRECTED", ref |-> ref, amount |-> delta,
                           revision |-> o.revision + 1, cancel |-> cancel]
                   /\ o2 = [o EXCEPT !.net = @ + delta, !.revision = @ + 1,
                                     !.status = IF cancel THEN "CANCELLED" ELSE @]
  OBVIOUS
<1>4. /\ e \in Event
      /\ e.kind = "CORRECTED" /\ e.ref = ref /\ e.amount = delta /\ e.revision = o.revision + 1
      /\ e.cancel = cancel
  BY <1>0, <1>2, <1>3 DEF Event, Obligation
<1>5. /\ obligation' = [obligation EXCEPT ![ref] = o2]
      /\ o.status = "OPEN" /\ Unreserved /\ o.net + delta >= o.paid
      /\ account' = Bumped(delta) /\ payouts' = payouts
      /\ Emit(<<e>>) /\ UNCHANGED <<srcNow, dstNow, bookVars>>
  BY <1>1, <1>3, Zenon DEF CorrectObligation
<1>6. Net(e) = delta /\ Paid(e) = 0 /\ Moving(e) /\ ~Twin(e)
  BY <1>4 DEF Net, Paid, Moving, Recorded, Twin
<1>7. PICK st \in {"OPEN", "CANCELLED"} : /\ st = IF cancel THEN "CANCELLED" ELSE o.status
                                          /\ st = "CANCELLED" => cancel
  BY <1>5
<1>8. o2 = [o EXCEPT !.net = @ + delta, !.revision = @ + 1, !.status = st]
  BY <1>3, <1>7, Zenon
<1>9. o2 \in Obligation
  BY <1>0, <1>2, <1>8, EditTypes
<1>10. /\ o2.status = st /\ o2.net = o.net + delta /\ o2.paid = o.paid /\ o2.revision = o.revision + 1
       /\ o2.assignedTo = o.assignedTo
  BY <1>2, <1>8 DEF Obligation
<1>11. o.net \in Int /\ o.paid \in Int /\ o.revision \in Nat
  BY <1>2 DEF Obligation
<1>12. Edits(e, o2)
  <2>1. Sane(o2)
    BY <1>0, <1>5, <1>7, <1>10, <1>11 DEF Sane
  <2>2. o2.status = "CANCELLED" => Cancels(e, e.ref)
    BY <1>4, <1>7, <1>10 DEF Cancels
  <2>3. o2.paid = o.paid + Paid(e) /\ o2.net = o.net + Net(e) /\ o2.status # "NONE"
    BY <1>6, <1>7, <1>10, <1>11
  <2> QED
    BY <1>1, <1>4, <1>5, <1>6, <1>9, <1>10, <2>1, <2>2, <2>3, Zenon DEF Edits
<1>13. Edited(e) /\ obligation'[e.ref] = o2
  BY <1>0, <1>4, <1>12, EditsOne
<1>14. Fresh(log, e)
  BY <1>0, <1>1, <1>4, <1>11, FreshRecorded DEF Recorded
<1>15. log' = Append(log, e)
  BY <1>0, <1>4, <1>5, EmitOne
<1>16. Grown(log, log', consumed, e)
  BY <1>0, <1>4, <1>6, <1>14, <1>15, GrownOne
<1>17. Accounted(e)
  <2>1. /\ account' \in Accounts /\ account'.latestRevision = account.latestRevision + 1
        /\ account'.openAmount = account.openAmount + delta
        /\ account'.paidCumulative = account.paidCumulative
        /\ account'.protectedUntil = account.protectedUntil
    BY <1>0, <1>5, BumpedIs
  <2> QED
    BY <1>0, <1>5, <1>6, <2>1, AccountTypes DEF Accounted, Unreserved
<1>18. Sound(e)'
  BY <1>4, <1>10, <1>11, <1>13 DEF Sound, Recorded, Paying
<1>19. PayoutsOn
  BY <1>0, <1>5, PayoutsSame
<1> QED
  BY <1>4, <1>5, <1>13, <1>16, <1>17, <1>18, <1>19, LoggedKeep

(* A payout appended, or one marked cancelled. *)
LEMMA PayoutsAppended ==
    ASSUME TypeInv, NEW ref \in Refs \union {NoRef}, NEW amount \in Nat,
           payouts' = Append(payouts, [ref |-> ref, amount |-> amount, cancelled |-> FALSE]),
           ref # NoRef => obligation'[ref].status # "NONE"
    PROVE  /\ PayoutsOn
           /\ Len(payouts) + 1 \in DOMAIN payouts' \ DOMAIN payouts
           /\ payouts'[Len(payouts) + 1].ref = ref
           /\ payouts'[Len(payouts) + 1].amount = amount
           /\ Len(payouts) + 1 \in Nat
<1>1. PICK R : R = [ref : Refs \union {NoRef}, amount : Nat, cancelled : BOOLEAN]
  OBVIOUS
<1>2. PICK p : p = [ref |-> ref, amount |-> amount, cancelled |-> FALSE]
  OBVIOUS
<1>3. payouts \in Seq(R) /\ p \in R /\ payouts' = Append(payouts, p)
  BY <1>1, <1>2 DEF TypeInv
<1>4. PICK n : n = Len(payouts) + 1
  OBVIOUS
<1>5. /\ payouts' \in Seq(R) /\ n \in Nat
      /\ DOMAIN payouts' = DOMAIN payouts \union {n} /\ n \notin DOMAIN payouts
      /\ \A s \in DOMAIN payouts : payouts'[s] = payouts[s]
      /\ payouts'[n] = p
  BY <1>3, <1>4
<1>6. p.ref = ref /\ p.amount = amount
  BY <1>2
<1>7. PayoutsOn
  BY <1>1, <1>5, <1>6, Zenon DEF PayoutsOn, Payouts
<1> QED
  BY <1>4, <1>5, <1>6, <1>7

LEMMA PayoutsCancelled ==
    ASSUME TypeInv, NEW seq \in DOMAIN payouts,
           payouts' = [payouts EXCEPT ![seq].cancelled = TRUE]
    PROVE  /\ PayoutsOn
           /\ seq \in DOMAIN payouts' /\ payouts'[seq].ref = payouts[seq].ref
           /\ payouts'[seq].amount = payouts[seq].amount /\ payouts'[seq].cancelled
<1>1. PICK R : R = [ref : Refs \union {NoRef}, amount : Nat, cancelled : BOOLEAN]
  OBVIOUS
<1>2. payouts \in Seq(R)
  BY <1>1 DEF TypeInv
<1>3. PICK p, p2 : p = payouts[seq] /\ p2 = [p EXCEPT !.cancelled = TRUE]
  OBVIOUS
<1>4. p \in R
  BY <1>2, <1>3
<1>5. p2 \in R /\ p2.ref = p.ref /\ p2.amount = p.amount /\ p2.cancelled
  BY <1>1, <1>3, <1>4
<1>6. payouts' = [payouts EXCEPT ![seq] = p2]
  BY <1>3
<1>7. /\ payouts' \in Seq(R) /\ DOMAIN payouts' = DOMAIN payouts
      /\ \A s \in DOMAIN payouts : s # seq => payouts'[s] = payouts[s]
      /\ payouts'[seq] = p2
  <2>0. seq \in 1 .. Len(payouts)
    BY <1>2
  <2>1. payouts' \in Seq(R)
    <3>1. p2 \in R
      BY <1>5
    <3>2. [payouts EXCEPT ![seq] = p2] \in Seq(R)
      BY <1>2, <2>0, <3>1, ExceptSeq
    <3> QED
      BY <1>6, <3>2, Zenon
  <2>2. /\ DOMAIN payouts' = DOMAIN payouts
        /\ \A s \in DOMAIN payouts : s # seq => payouts'[s] = payouts[s]
        /\ payouts'[seq] = p2
    BY <1>6
  <2> QED
    BY <2>1, <2>2
<1>8. PayoutsOn
  <2>1. ASSUME NEW s \in DOMAIN payouts
        PROVE  /\ s \in DOMAIN payouts' /\ payouts'[s].ref = payouts[s].ref
               /\ payouts'[s].amount = payouts[s].amount
               /\ payouts[s].cancelled => payouts'[s].cancelled
    BY <1>3, <1>5, <1>7
  <2> QED
    BY <1>1, <1>7, <2>1, Zenon DEF PayoutsOn, Payouts
<1> QED
  BY <1>3, <1>5, <1>7, <1>8

LEMMA SettleStep ==
    ASSUME Inv, NEW ref \in Refs \union {NoRef}, NEW amount \in Amounts, NEW id, Settle(ref, amount, id)
    PROVE  Inv'
<1>0. TypeInv /\ LogInv /\ SourceInv /\ Keyed(log) /\ log \in Seq(Event) /\ consumed \in SUBSET DOMAIN log
      /\ amount \in Nat
  BY EvidenceConstants DEF Inv, TypeInv, Keyed
<1>1. PICK e : e = [kind |-> "PAYOUT", ref |-> ref, amount |-> amount, seq |-> Len(payouts) + 1]
  OBVIOUS
<1>2. Len(payouts) + 1 \in Nat
  BY <1>0 DEF TypeInv
<1>3. /\ e \in Event
      /\ e.kind = "PAYOUT" /\ e.ref = ref /\ e.amount = amount /\ e.seq = Len(payouts) + 1
  BY <1>0, <1>1, <1>2 DEF Event, Paying
<1>4. /\ Unreserved
      /\ payouts' = Append(payouts, [ref |-> ref, amount |-> amount, cancelled |-> FALSE])
      /\ Emit(<<e>>) /\ UNCHANGED <<srcNow, dstNow, bookVars>>
  BY <1>1, Zenon DEF Settle
<1>5. Net(e) = 0 /\ Paid(e) = amount /\ ~Twin(e) /\ (Moving(e) <=> ref # NoRef)
  BY <1>3 DEF Net, Paid, Moving, Recorded, Paying, Twin
<1>6. Edited(e) /\ Accounted(e) /\ (ref # NoRef => obligation'[ref].status # "NONE")
  <2>1. CASE ref = NoRef
    <3>1. obligation' = obligation /\ account' = [account EXCEPT !.paidCumulative = @ + amount]
      BY <2>1, Zenon DEF Settle
    <3>2. Edited(e)
      BY <1>0, <1>3, <1>5, <2>1, <3>1, EditsNone
    <3>3. /\ account' \in Accounts /\ account'.latestRevision = account.latestRevision
          /\ account'.openAmount = account.openAmount
          /\ account'.paidCumulative = account.paidCumulative + amount
          /\ account'.protectedUntil = account.protectedUntil
      <4>1. account \in Accounts
        BY <1>0 DEF TypeInv, Accounts
      <4>2. account' \in Accounts /\ account'.paidCumulative = account.paidCumulative + amount
        BY <1>0, <3>1, <4>1 DEF Accounts
      <4>3. account'.latestRevision = account.latestRevision /\ account'.openAmount = account.openAmount
            /\ account'.protectedUntil = account.protectedUntil
        BY <3>1, <4>1 DEF Accounts
      <4> QED
        BY <4>2, <4>3
    <3>4. Accounted(e)
      BY <1>0, <1>4, <1>5, <2>1, <3>3, AccountTypes DEF Accounted, Unreserved
    <3> QED
      BY <2>1, <3>2, <3>4
  <2>2. CASE ref # NoRef
    <3>0. ref \in Refs
      BY <2>2
    <3>1. PICK o : o = obligation[ref]
      OBVIOUS
    <3>2. o \in Obligation /\ Sane(o)
      BY <1>0, <3>0, <3>1 DEF TypeInv, SourceInv
    <3>3. PICK st : st = IF o.paid + amount = o.net THEN "PAID" ELSE o.status
      OBVIOUS
    <3>4. PICK o2 : o2 = [o EXCEPT !.paid = @ + amount, !.revision = @ + 1, !.status = st]
      OBVIOUS
    <3>5. /\ o.status = "OPEN" /\ amount <= o.net - o.paid
          /\ obligation' = [obligation EXCEPT ![ref] = o2]
          /\ account' = [Bumped(-amount) EXCEPT !.paidCumulative = @ + amount]
      BY <2>2, <3>1, <3>3, <3>4, Zenon DEF Settle
    <3>6. st \in {"OPEN", "PAID"} /\ (st = "PAID" => o.paid + amount = o.net)
      BY <3>3, <3>5
    <3>7. o2 \in Obligation
      <4>1. PICK f \in Facilities \union {NoFacility} : TRUE
        OBVIOUS
      <4>2. amount \in Int /\ st \in {"NONE", "OPEN", "PAID", "CANCELLED"}
        BY <1>0, <3>6
      <4> QED
        BY <3>2, <3>4, <4>1, <4>2, EditTypes
    <3>8. /\ o2.status = st /\ o2.net = o.net /\ o2.paid = o.paid + amount /\ o2.revision = o.revision + 1
          /\ o2.assignedTo = o.assignedTo
      BY <3>2, <3>4 DEF Obligation
    <3>9. o.net \in Int /\ o.paid \in Int /\ o.revision \in Nat
      BY <3>2 DEF Obligation
    <3>10. Sane(o2)
      BY <1>0, <3>5, <3>6, <3>8, <3>9 DEF Sane
    <3>11. o2.paid = o.paid + Paid(e) /\ o2.net = o.net + Net(e) /\ o2.status # "NONE" /\ o2.status # "CANCELLED"
      BY <1>5, <3>6, <3>8, <3>9
    <3>12. Edits(e, o2)
      BY <1>3, <1>5, <2>2, <3>1, <3>5, <3>7, <3>8, <3>10, <3>11, Zenon DEF Edits
    <3>13. Edited(e) /\ obligation'[ref] = o2
      BY <1>0, <1>3, <3>12, EditsOne
    <3>14. PICK b : b = Bumped(-amount)
      OBVIOUS
    <3>15. /\ b \in Accounts /\ b.latestRevision = account.latestRevision + 1
           /\ b.openAmount = account.openAmount + (-amount)
           /\ b.paidCumulative = account.paidCumulative
           /\ b.protectedUntil = account.protectedUntil
      BY <1>0, <3>14, BumpedIs
    <3>16. /\ account' \in Accounts /\ account'.latestRevision = account.latestRevision + 1
           /\ account'.openAmount = account.openAmount - amount
           /\ account'.paidCumulative = account.paidCumulative + amount
           /\ account'.protectedUntil = account.protectedUntil
      <4>1. account' = [b EXCEPT !.paidCumulative = @ + amount]
        BY <3>5, <3>14
      <4>2. account' \in Accounts /\ account'.paidCumulative = b.paidCumulative + amount
        BY <1>0, <3>15, <4>1 DEF Accounts
      <4>3. account'.latestRevision = b.latestRevision /\ account'.openAmount = b.openAmount
            /\ account'.protectedUntil = b.protectedUntil
        BY <3>15, <4>1 DEF Accounts
      <4>4. account.openAmount \in Int
        BY <1>0, AccountTypes
      <4> QED
        BY <1>0, <3>15, <4>2, <4>3, <4>4
    <3>17. Accounted(e)
      BY <1>0, <1>4, <1>5, <2>2, <3>16, AccountTypes DEF Accounted, Unreserved
    <3> QED
      BY <3>11, <3>13, <3>17
  <2> QED
    BY <2>1, <2>2
<1>7. /\ PayoutsOn
      /\ Len(payouts) + 1 \in DOMAIN payouts' \ DOMAIN payouts
      /\ payouts'[Len(payouts) + 1].ref = ref
      /\ payouts'[Len(payouts) + 1].amount = amount
  BY <1>0, <1>4, <1>6, PayoutsAppended
<1>8. Fresh(log, e)
  BY <1>0, <1>3, <1>7, FreshPayout
<1>9. log' = Append(log, e)
  BY <1>0, <1>3, <1>4, EmitOne
<1>10. Grown(log, log', consumed, e)
  BY <1>0, <1>3, <1>5, <1>8, <1>9, GrownOne
<1>11. Sound(e)'
  BY <1>3, <1>7 DEF Sound, Recorded, Paying
<1> QED
  BY <1>3, <1>4, <1>6, <1>7, <1>10, <1>11, LoggedKeep

LEMMA CancelStep ==
    ASSUME Inv, NEW seq \in DOMAIN payouts, CancelPayout(seq)
    PROVE  Inv'
<1>0. TypeInv /\ LogInv /\ SourceInv /\ Keyed(log) /\ log \in Seq(Event) /\ consumed \in SUBSET DOMAIN log
  BY DEF Inv, TypeInv, Keyed
<1>1. PICK ref, amount : ref = payouts[seq].ref /\ amount = payouts[seq].amount
  OBVIOUS
<1>2. ref \in Refs \union {NoRef} /\ amount \in Nat /\ seq \in Nat
  BY <1>0, <1>1, PayoutTypes
<1>3. PICK e : e = [kind |-> "PAYOUT_CANCELLED", ref |-> ref, amount |-> amount, seq |-> seq]
  OBVIOUS
<1>4. /\ e \in Event
      /\ e.kind = "PAYOUT_CANCELLED" /\ e.ref = ref /\ e.amount = amount /\ e.seq = seq
  BY <1>2, <1>3 DEF Event, Paying
<1>5. /\ Unreserved /\ ~payouts[seq].cancelled
      /\ payouts' = [payouts EXCEPT ![seq].cancelled = TRUE]
      /\ Emit(<<e>>) /\ UNCHANGED <<srcNow, dstNow, bookVars>>
  BY <1>1, <1>3, Zenon DEF CancelPayout
<1>6. Net(e) = 0 /\ Paid(e) = -amount /\ ~Twin(e) /\ (Moving(e) <=> ref # NoRef)
  BY <1>4 DEF Net, Paid, Moving, Recorded, Paying, Twin
<1>7. Edited(e) /\ Accounted(e)
  <2>1. CASE ref = NoRef
    <3>1. obligation' = obligation /\ account' = [account EXCEPT !.paidCumulative = @ - amount]
      BY <1>1, <2>1, Zenon DEF CancelPayout
    <3>2. Edited(e)
      BY <1>0, <1>4, <1>6, <2>1, <3>1, EditsNone
    <3>3. /\ account' \in Accounts /\ account'.latestRevision = account.latestRevision
          /\ account'.openAmount = account.openAmount
          /\ account'.paidCumulative = account.paidCumulative - amount
          /\ account'.protectedUntil = account.protectedUntil
      <4>1. account \in Accounts
        BY <1>0 DEF TypeInv, Accounts
      <4>2. account' \in Accounts /\ account'.paidCumulative = account.paidCumulative - amount
        BY <1>2, <3>1, <4>1 DEF Accounts
      <4>3. account'.latestRevision = account.latestRevision /\ account'.openAmount = account.openAmount
            /\ account'.protectedUntil = account.protectedUntil
        BY <3>1, <4>1 DEF Accounts
      <4> QED
        BY <4>2, <4>3
    <3>4. Accounted(e)
      BY <1>0, <1>2, <1>5, <1>6, <2>1, <3>3, AccountTypes DEF Accounted, Unreserved
    <3> QED
      BY <3>2, <3>4
  <2>2. CASE ref # NoRef
    <3>0. ref \in Refs
      BY <1>2, <2>2
    <3>1. PICK o : o = obligation[ref]
      OBVIOUS
    <3>2. o \in Obligation /\ Sane(o) /\ o.status # "NONE"
      BY <1>0, <1>1, <2>2, <3>0, <3>1 DEF TypeInv, SourceInv
    <3>3. PICK st : st = IF o.status = "PAID" THEN "OPEN" ELSE o.status
      OBVIOUS
    <3>4. PICK o2, n : n = -amount /\ o2 = [o EXCEPT !.paid = @ + n, !.revision = @ + 1, !.status = st]
      OBVIOUS
    <3>4a. o.paid + n = o.paid - amount
      BY <1>2, <3>2, <3>4 DEF Obligation
    <3>5. /\ obligation' = [obligation EXCEPT ![ref] = [obligation[ref] EXCEPT
                     !.paid = @ - amount, !.revision = @ + 1,
                     !.status = IF @ = "PAID" THEN "OPEN" ELSE @]]
          /\ account' = [Bumped(amount) EXCEPT !.paidCumulative = @ - amount]
      BY <1>1, <2>2, Zenon DEF CancelPayout
    <3>5a. o2 = [obligation[ref] EXCEPT !.paid = @ - amount, !.revision = @ + 1,
                     !.status = IF @ = "PAID" THEN "OPEN" ELSE @]
      BY <3>1, <3>3, <3>4, <3>4a, Zenon
    <3>5b. obligation' = [obligation EXCEPT ![ref] = o2]
      BY <3>5, <3>5a, Zenon
    <3>6. st \in {"OPEN", "CANCELLED"} /\ (st = "CANCELLED" => o.status = "CANCELLED")
      BY <3>2, <3>3 DEF Obligation
    <3>7. o2 \in Obligation
      <4>1. PICK f \in Facilities \union {NoFacility} : TRUE
        OBVIOUS
      <4>2. n \in Int /\ st \in {"NONE", "OPEN", "PAID", "CANCELLED"}
        BY <1>2, <3>4, <3>6
      <4> QED
        BY <3>2, <3>4, <4>1, <4>2, EditTypes
    <3>8. /\ o2.status = st /\ o2.net = o.net /\ o2.paid = o.paid + n /\ o2.revision = o.revision + 1
          /\ o2.assignedTo = o.assignedTo
      BY <3>2, <3>4 DEF Obligation
    <3>9. o.net \in Int /\ o.paid \in Int /\ o.revision \in Nat /\ n \in Int /\ n <= 0
      BY <1>2, <3>2, <3>4 DEF Obligation
    <3>10. Sane(o2)
      BY <3>2, <3>6, <3>8, <3>9 DEF Sane
    <3>11. o2.paid = o.paid + Paid(e) /\ o2.net = o.net + Net(e) /\ o2.status # "NONE"
      BY <1>6, <3>4, <3>6, <3>8, <3>9
    <3>12. Edits(e, o2)
      BY <1>4, <1>6, <2>2, <3>1, <3>5b, <3>6, <3>7, <3>8, <3>10, <3>11, Zenon DEF Edits
    <3>13. Edited(e)
      BY <1>0, <1>4, <3>12, EditsOne
    <3>14. PICK b : b = Bumped(amount)
      OBVIOUS
    <3>15. /\ b \in Accounts /\ b.latestRevision = account.latestRevision + 1
           /\ b.openAmount = account.openAmount + amount
           /\ b.paidCumulative = account.paidCumulative
           /\ b.protectedUntil = account.protectedUntil
      BY <1>0, <1>2, <3>14, BumpedIs
    <3>16. /\ account' \in Accounts /\ account'.latestRevision = account.latestRevision + 1
           /\ account'.openAmount = account.openAmount + amount
           /\ account'.paidCumulative = account.paidCumulative - amount
           /\ account'.protectedUntil = account.protectedUntil
      <4>1. account' = [b EXCEPT !.paidCumulative = @ - amount]
        BY <3>5, <3>14
      <4>2. account' \in Accounts /\ account'.paidCumulative = b.paidCumulative - amount
        BY <1>2, <3>15, <4>1 DEF Accounts
      <4>3. account'.latestRevision = b.latestRevision /\ account'.openAmount = b.openAmount
            /\ account'.protectedUntil = b.protectedUntil
        BY <3>15, <4>1 DEF Accounts
      <4> QED
        BY <3>15, <4>2, <4>3
    <3>17. Accounted(e)
      BY <1>0, <1>2, <1>5, <1>6, <2>2, <3>16, AccountTypes DEF Accounted, Unreserved
    <3> QED
      BY <3>13, <3>17
  <2> QED
    BY <2>1, <2>2
<1>8. /\ PayoutsOn
      /\ seq \in DOMAIN payouts' /\ payouts'[seq].ref = payouts[seq].ref
      /\ payouts'[seq].amount = payouts[seq].amount /\ payouts'[seq].cancelled
  BY <1>0, <1>5, PayoutsCancelled
<1>9. Fresh(log, e)
  BY <1>0, <1>4, <1>5, FreshPayout
<1>10. log' = Append(log, e)
  BY <1>0, <1>4, <1>5, EmitOne
<1>11. Grown(log, log', consumed, e)
  BY <1>0, <1>4, <1>6, <1>9, <1>10, GrownOne
<1>12. Sound(e)'
  BY <1>1, <1>4, <1>8 DEF Sound, Recorded, Paying
<1> QED
  BY <1>4, <1>5, <1>7, <1>8, <1>11, <1>12, LoggedKeep

(* A checkpoint moves no figure. *)
Publishes(version, observedAt, until) ==
    /\ version \in {1, 2} /\ observedAt \in Int /\ until \in Int
    /\ version = 1 => observedAt = 0
    /\ Emit(<<CheckpointEvent(version, observedAt, until)>>)
    /\ obligation' = obligation /\ payouts' = payouts /\ UNCHANGED <<srcNow, dstNow, bookVars>>
    /\ account' \in Accounts /\ account'.latestRevision = account.latestRevision
    /\ account'.openAmount = account.openAmount
    /\ account'.paidCumulative = account.paidCumulative
    /\ account'.protectedUntil >= account.protectedUntil
    /\ version = 2 => until <= account'.protectedUntil

LEMMA CheckpointStep ==
    ASSUME Inv, PublishCheckpoint \/ \E until \in 1 .. MaxTime : ReserveCheckpoint(until)
    PROVE  Inv'
<1>0. TypeInv /\ LogInv /\ SourceInv /\ Keyed(log) /\ log \in Seq(Event) /\ consumed \in SUBSET DOMAIN log
  BY DEF Inv, TypeInv, Keyed
<1>1. PICK version, observedAt, until : Publishes(version, observedAt, until)
  <2>0. account \in Accounts /\ srcNow \in Int
    BY <1>0 DEF TypeInv, Accounts
  <2>1. CASE PublishCheckpoint
    <3>1. PICK version, observedAt, until : version = 1 /\ observedAt = 0 /\ until = 0
      OBVIOUS
    <3>2. /\ account' = [account EXCEPT !.checkpointSeq = @ + 1]
          /\ Emit(<<CheckpointEvent(version, observedAt, until)>>)
          /\ obligation' = obligation /\ payouts' = payouts /\ UNCHANGED <<srcNow, dstNow, bookVars>>
      BY <2>1, <3>1, Zenon DEF PublishCheckpoint
    <3>3. account' \in Accounts /\ account'.latestRevision = account.latestRevision
      BY <2>0, <3>2 DEF Accounts
    <3>4. account'.openAmount = account.openAmount /\ account'.paidCumulative = account.paidCumulative
          /\ account'.protectedUntil = account.protectedUntil /\ account.protectedUntil \in Int
      BY <2>0, <3>2 DEF Accounts
    <3>5. account'.protectedUntil >= account.protectedUntil /\ version \in {1, 2} /\ observedAt \in Int /\ until \in Int
          /\ version # 2
      BY <3>1, <3>4
    <3> QED
      BY <3>1, <3>2, <3>3, <3>4, <3>5, Zenon DEF Publishes
  <2>2. ASSUME NEW u \in 1 .. MaxTime, ReserveCheckpoint(u)
        PROVE  \E version, observedAt, until : Publishes(version, observedAt, until)
    <3>1. PICK version, observedAt : version = 2 /\ observedAt = srcNow
      OBVIOUS
    <3>2. /\ account' = [account EXCEPT !.checkpointSeq = @ + 1, !.protectedUntil = u]
          /\ Unreserved /\ u \in srcNow + 1 .. srcNow + MaxReservation
          /\ Emit(<<CheckpointEvent(version, observedAt, u)>>)
          /\ obligation' = obligation /\ payouts' = payouts /\ UNCHANGED <<srcNow, dstNow, bookVars>>
      BY <2>2, <3>1, Zenon DEF ReserveCheckpoint
    <3>3. PICK b : b = [account EXCEPT !.checkpointSeq = @ + 1]
      OBVIOUS
    <3>4. b \in Accounts
      BY <2>0, <3>3 DEF Accounts
    <3>5. u \in Int /\ MaxReservation \in Nat /\ u > srcNow
      BY <2>0, <3>2, EvidenceConstants
    <3>6. account' = [b EXCEPT !.protectedUntil = u]
      BY <2>0, <3>2, <3>3 DEF Accounts
    <3>7. account' \in Accounts
      BY <3>4, <3>5, <3>6 DEF Accounts
    <3>8. account'.openAmount = account.openAmount /\ account'.paidCumulative = account.paidCumulative
          /\ account'.latestRevision = account.latestRevision
      BY <2>0, <3>2 DEF Accounts
    <3>9. account'.protectedUntil = u /\ account.protectedUntil \in Int
      BY <2>0, <3>2 DEF Accounts
    <3>10. account'.protectedUntil >= account.protectedUntil /\ version \in {1, 2} /\ observedAt \in Int
           /\ version # 1 /\ u <= account'.protectedUntil
      BY <2>0, <3>1, <3>2, <3>5, <3>9 DEF Unreserved
    <3> QED
      BY <3>2, <3>5, <3>7, <3>8, <3>10, Zenon DEF Publishes
  <2> QED
    BY <2>1, <2>2, Zenon
<1>2. PICK e : e = CheckpointEvent(version, observedAt, until)
  OBVIOUS
<1>3. /\ e \in Event /\ e.kind = "CHECKPOINT" /\ e.version = version /\ e.observedAt = observedAt
      /\ e.protectedUntil = until /\ e.latestRevision = account.latestRevision
  BY <1>0, <1>1, <1>2, AccountTypes DEF CheckpointEvent, Event, Publishes
<1>4. ~Moving(e) /\ ~Twin(e) /\ Net(e) = 0 /\ Paid(e) = 0
  BY <1>3 DEF Moving, Recorded, Paying, Twin, Net, Paid
<1>5. log' = Append(log, e)
  BY <1>0, <1>1, <1>2, <1>3, EmitOne DEF Publishes
<1>6. Grown(log, log', consumed, e)
  BY <1>0, <1>3, <1>4, <1>5, GrownOne
<1>7. Edited(e)
  BY <1>0, <1>1, <1>3, <1>4, EditsNone DEF Publishes
<1>8. PayoutsOn
  BY <1>0, <1>1, PayoutsSame DEF Publishes
<1>9. Accounted(e)
  BY <1>0, <1>1, <1>4, AccountTypes DEF Accounted, Publishes
<1>10. Sound(e)'
  BY <1>3 DEF Sound, Recorded, Paying
<1>11. /\ e.version = 1 => e.observedAt = 0
       /\ e.version = 2 => /\ e.protectedUntil <= account'.protectedUntil
                           /\ e.latestRevision = account'.latestRevision
  BY <1>1, <1>3 DEF Publishes
<1> QED
  BY <1>1, <1>3, <1>6, <1>7, <1>8, <1>9, <1>10, <1>11, LoggedKeep DEF Publishes

-----------------------------------------------------------------------------
(* The book's side *)

Stats == [eventsConsumed : Int, openAmount : Int, paidCumulative : Int]

Checkpoints == [seq : Int, latestRevision : Int, openAmount : Int, paidCumulative : Int,
                observedAt : Int, protectedUntil : Int]

(* The book applies event e. *)
Booked(e) ==
    /\ Moved(receivable, receivable', e)
    /\ receivable' \in [Refs -> Receivable] /\ stats' \in Stats
    /\ Moving(e) => /\ stats'.eventsConsumed = stats.eventsConsumed + 1
                    /\ stats'.openAmount = stats.openAmount + Net(e) - Paid(e)
    /\ ~Moving(e) => /\ stats'.eventsConsumed = stats.eventsConsumed
                     /\ stats'.openAmount = stats.openAmount
    /\ stats'.paidCumulative = stats.paidCumulative + Paid(e)
    /\ \A r \in Refs :
          /\ Tidy(receivable'[r])
          /\ receivable'[r].facility \in {NoFacility, obligation[r].assignedTo}
          /\ receivable[r].state # "NONE" => receivable'[r].state # "NONE"
          /\ receivable[r].state = "CANCELLED" => receivable'[r].state = "CANCELLED"
    /\ (e.kind = "PAYOUT" /\ e.ref # NoRef) => receivable'[e.ref].state # "NONE"
    /\ Cancels(e, e.ref) => receivable'[e.ref].state = "CANCELLED"

(* checkpoint' is what it was or what e says. *)
Reported(e) ==
    \/ checkpoint' = checkpoint
    \/ /\ e.kind = "CHECKPOINT" /\ checkpoint' \in Checkpoints
       /\ checkpoint'.observedAt = e.observedAt
       /\ checkpoint'.protectedUntil = e.protectedUntil
       /\ checkpoint'.latestRevision = e.latestRevision

LEMMA ReportedKeep ==
    ASSUME TypeInv, LockInv, NEW i \in DOMAIN log, Reported(log[i]),
           srcNow' = srcNow, account' = account, log' = log
    PROVE  LockInv'
<1>1. checkpoint'.observedAt # 0 =>
          \E j \in DOMAIN log : /\ log[j].kind = "CHECKPOINT" /\ log[j].version = 2
                                /\ log[j].protectedUntil = checkpoint'.protectedUntil
                                /\ log[j].latestRevision = checkpoint'.latestRevision
  <2>1. CASE checkpoint' = checkpoint
    BY <2>1, Zenon DEF LockInv
  <2>2. CASE checkpoint' # checkpoint
    <3> HAVE checkpoint'.observedAt # 0
    <3>1. /\ log[i].kind = "CHECKPOINT" /\ checkpoint'.observedAt = log[i].observedAt
          /\ checkpoint'.protectedUntil = log[i].protectedUntil
          /\ checkpoint'.latestRevision = log[i].latestRevision
      BY <2>2 DEF Reported
    <3>2. log[i].version \in {1, 2}
      BY <3>1, EventTypes DEF TypeInv, Keyed
    <3>3. log[i].version # 1
      BY <3>1 DEF LockInv
    <3> QED
      BY <3>1, <3>2, <3>3
  <2> QED
    BY <2>1, <2>2
<1> QED
  BY <1>1, Zenon DEF LockInv

LEMMA BookedKeep ==
    ASSUME Inv, NEW i \in DOMAIN log, i \notin consumed, ~EconomicSeen(log[i]),
           consumed' = consumed \union {i}, Booked(log[i]), Reported(log[i]),
           UNCHANGED <<srcNow, dstNow, sourceVars>>
    PROVE  Inv'
<1>0. TypeInv /\ LogInv /\ SourceInv /\ BookInv /\ LockInv /\ PendingInv /\ TotalsAgree
  BY DEF Inv
<1>1. /\ srcNow' = srcNow /\ dstNow' = dstNow /\ obligation' = obligation /\ account' = account
      /\ payouts' = payouts /\ log' = log
  BY DEF sourceVars
<1>2. PICK e : e = log[i]
  OBVIOUS
<1>3. /\ e \in Event /\ Keyed(log) /\ log \in Seq(Event) /\ consumed \in SUBSET DOMAIN log
      /\ Net(e) \in Int /\ Paid(e) \in Int
  <2>1. Keyed(log) /\ consumed \in SUBSET DOMAIN log
    BY <1>0 DEF TypeInv
  <2>2. log \in Seq(Event)
    BY <2>1 DEF Keyed
  <2>3. PICK E : E = Event
    OBVIOUS
  <2>4. e \in E
    BY <1>2, <2>2, <2>3
  <2>5. Net(e) \in Int /\ Paid(e) \in Int
    BY <2>3, <2>4, EventWeights
  <2> QED
    BY <2>1, <2>2, <2>3, <2>4, <2>5
<1>4. Booked(e)
  BY <1>2
<1>5. \A j \in consumed : EconomicKey(log[j]) # EconomicKey(log[i])
  BY DEF EconomicSeen
<1>6. LockInv'
  BY <1>0, <1>1, ReportedKeep
<1>7. LogInv' /\ SourceInv'
  BY <1>0, <1>1, Zenon DEF LogInv, SourceInv, Sound, Sane, Cancels
<1>8. TypeInv'
  <2>1. checkpoint' \in Checkpoints
    BY <1>0, <1>2 DEF Reported, TypeInv, Checkpoints
  <2>2. receivable' \in [Refs -> Receivable] /\ stats' \in Stats
    BY <1>4 DEF Booked
  <2>3. consumed' \subseteq DOMAIN log
    BY <1>3
  <2> QED
    BY <1>0, <1>1, <2>1, <2>2, <2>3, Zenon DEF TypeInv, Checkpoints, Stats, Keyed
<1>9. BookInv'
  <2>1. ASSUME NEW r \in Refs
        PROVE  /\ Tidy(receivable'[r])
               /\ receivable'[r].facility \in {NoFacility, obligation[r].assignedTo}
    BY <1>4, Zenon DEF Booked
  <2>2. ASSUME NEW j \in consumed'
        PROVE  /\ (log[j].kind = "PAYOUT" /\ log[j].ref # NoRef) => receivable'[log[j].ref].state # "NONE"
               /\ Cancels(log[j], log[j].ref) => receivable'[log[j].ref].state = "CANCELLED"
    <3>1. CASE j = i
      BY <1>2, <1>4, <3>1, Zenon DEF Booked
    <3>2. CASE j \in consumed
      <4>1. log[j] \in Event
        BY <1>3, <3>2
      <4>2. (log[j].kind = "PAYOUT" /\ log[j].ref # NoRef) \/ Cancels(log[j], log[j].ref) => log[j].ref \in Refs
        BY <4>1, EventTypes DEF Cancels, Recorded, Paying
      <4> QED
        BY <1>0, <1>4, <3>2, <4>2, Zenon DEF BookInv, Booked
    <3> QED
      BY <3>1, <3>2
  <2> QED
    BY <1>1, <2>1, <2>2, Zenon DEF BookInv, Tidy, Cancels
<1>10. TotalsAgree'
  <2>1. /\ account.latestRevision = Revisions(obligation)
        /\ account.openAmount = OpenTotal(obligation)
        /\ account.paidCumulative = PaidIn(log, DOMAIN log)
        /\ stats.eventsConsumed = Revisions(receivable)
        /\ stats.openAmount = OpenTotal(receivable)
        /\ stats.paidCumulative = PaidIn(log, consumed)
    BY <1>0, TotalsForm
  <2>2. /\ Moving(e) => /\ Revisions(receivable') = Revisions(receivable) + 1
                        /\ OpenTotal(receivable') = OpenTotal(receivable) + Net(e) - Paid(e)
        /\ ~Moving(e) => /\ Revisions(receivable') = Revisions(receivable)
                         /\ OpenTotal(receivable') = OpenTotal(receivable)
    BY <1>3, <1>4, MovedTotals DEF Booked
  <2>3. PaidIn(log, consumed') = PaidIn(log, consumed) + Paid(e)
    BY <1>2, <1>3, PaidConsume
  <2>4. /\ stats'.eventsConsumed = Revisions(receivable')
        /\ stats'.openAmount = OpenTotal(receivable')
        /\ stats'.paidCumulative = PaidIn(log, consumed')
    BY <1>4, <2>1, <2>2, <2>3 DEF Booked
  <2> QED
    BY <1>1, <2>1, <2>4, Zenon DEF TotalsAgree, Revisions, OpenTotal, PaidIn, LivePayouts
<1>11. ASSUME NEW ref \in Refs
       PROVE  /\ obligation[ref].revision = receivable'[ref].revision + LagRevision(log, consumed', ref)
              /\ obligation[ref].net = receivable'[ref].net + LagNet(log, consumed', ref)
              /\ obligation[ref].paid = receivable'[ref].paid + LagPaid(log, consumed', ref)
  <2>0. /\ Affects(log[i], ref) =>
              /\ LagRevision(log, consumed, ref) = LagRevision(log, consumed', ref) + 1
              /\ LagNet(log, consumed, ref) = LagNet(log, consumed', ref) + Net(log[i])
              /\ LagPaid(log, consumed, ref) = LagPaid(log, consumed', ref) + Paid(log[i])
        /\ ~Affects(log[i], ref) =>
              /\ LagRevision(log, consumed, ref) = LagRevision(log, consumed', ref)
              /\ LagNet(log, consumed, ref) = LagNet(log, consumed', ref)
              /\ LagPaid(log, consumed, ref) = LagPaid(log, consumed', ref)
    <3>1. PICK l, c, c2 : l = log /\ c = consumed /\ c2 = c \union {i}
      OBVIOUS
    <3>2. /\ Keyed(l) /\ c \in SUBSET DOMAIN l /\ i \in DOMAIN l
          /\ \A j \in c : EconomicKey(l[j]) # EconomicKey(l[i])
      BY <1>3, <1>5, <3>1
    <3>3. /\ Affects(l[i], ref) =>
                /\ LagRevision(l, c, ref) = LagRevision(l, c \union {i}, ref) + 1
                /\ LagNet(l, c, ref) = LagNet(l, c \union {i}, ref) + Net(l[i])
                /\ LagPaid(l, c, ref) = LagPaid(l, c \union {i}, ref) + Paid(l[i])
          /\ ~Affects(l[i], ref) =>
                /\ LagRevision(l, c, ref) = LagRevision(l, c \union {i}, ref)
                /\ LagNet(l, c, ref) = LagNet(l, c \union {i}, ref)
                /\ LagPaid(l, c, ref) = LagPaid(l, c \union {i}, ref)
      BY <3>2, LagConsume
    <3>4. l = log /\ c = consumed /\ c \union {i} = consumed'
      BY <3>1
    <3> QED
      BY <3>3, <3>4, Zenon
  <2>1. /\ obligation[ref].revision = receivable[ref].revision + LagRevision(log, consumed, ref)
        /\ obligation[ref].net = receivable[ref].net + LagNet(log, consumed, ref)
        /\ obligation[ref].paid = receivable[ref].paid + LagPaid(log, consumed, ref)
    BY <1>0 DEF PendingInv
  <2>2. /\ LagRevision(log, consumed', ref) \in Int /\ LagNet(log, consumed', ref) \in Int
        /\ LagPaid(log, consumed', ref) \in Int
    BY <1>3, LagTypes
  <2>3. /\ receivable[ref].revision \in Int /\ receivable[ref].net \in Int /\ receivable[ref].paid \in Int
    BY <1>0 DEF TypeInv, Receivable
  <2>4. CASE Affects(e, ref)
    <3>1. /\ LagRevision(log, consumed, ref) = LagRevision(log, consumed', ref) + 1
          /\ LagNet(log, consumed, ref) = LagNet(log, consumed', ref) + Net(e)
          /\ LagPaid(log, consumed, ref) = LagPaid(log, consumed', ref) + Paid(e)
      BY <1>2, <2>0, <2>4
    <3>2. /\ receivable'[ref].revision = receivable[ref].revision + 1
          /\ receivable'[ref].net = receivable[ref].net + Net(e)
          /\ receivable'[ref].paid = receivable[ref].paid + Paid(e)
      BY <1>4, <2>4 DEF Booked, Moved
    <3>3. PICK d1, d2 : d1 = Net(e) /\ d2 = Paid(e)
      OBVIOUS
    <3>4. d1 \in Int /\ d2 \in Int
      BY <1>3, <3>3
    <3> QED
      BY <2>1, <2>2, <2>3, <3>1, <3>2, <3>3, <3>4
  <2>5. CASE ~Affects(e, ref)
    <3>1. /\ LagRevision(log, consumed, ref) = LagRevision(log, consumed', ref)
          /\ LagNet(log, consumed, ref) = LagNet(log, consumed', ref)
          /\ LagPaid(log, consumed, ref) = LagPaid(log, consumed', ref)
      BY <1>2, <2>0, <2>5
    <3>2. /\ receivable'[ref].revision = receivable[ref].revision
          /\ receivable'[ref].net = receivable[ref].net
          /\ receivable'[ref].paid = receivable[ref].paid
      BY <1>4, <2>5 DEF Booked, Moved
    <3> QED
      BY <2>1, <3>1, <3>2
  <2> QED
    BY <2>4, <2>5
<1>12. PendingInv'
  BY <1>1, <1>11, Zenon DEF PendingInv
<1> QED
  BY <1>6, <1>7, <1>8, <1>9, <1>10, <1>12, Zenon DEF Inv

States == {"NONE", "OPEN", "ASSIGNED", "PAID", "CANCELLED"}

(* The edits of a receivable; the first two end in the same three fields. *)
LEMMA PostTypes ==
    ASSUME NEW r \in Receivable, NEW st \in States, NEW f \in Facilities \union {NoFacility},
           NEW n \in Int, NEW v \in Int, NEW m \in Int, NEW r2,
           \/ r2 = [r EXCEPT !.state = st, !.facility = f, !.revision = n, !.validUntil = v]
           \/ r2 = [r EXCEPT !.state = st, !.net = m, !.revision = n, !.validUntil = v]
           \/ r2 = [r EXCEPT !.paid = m, !.revision = n, !.state = st]
    PROVE  r2 \in Receivable
<1>1. PICK q : q = [r EXCEPT !.state = st]
  OBVIOUS
<1>2. q \in Receivable
  BY <1>1 DEF Receivable, States
<1>3. CASE r2 = [r EXCEPT !.state = st, !.facility = f, !.revision = n, !.validUntil = v]
  <2>1. PICK q2 : q2 = [q EXCEPT !.facility = f]
    OBVIOUS
  <2>2. q2 \in Receivable
    BY <1>2, <2>1 DEF Receivable
  <2>3. PICK q3 : q3 = [q2 EXCEPT !.revision = n]
    OBVIOUS
  <2>4. q3 \in Receivable
    BY <2>2, <2>3 DEF Receivable
  <2>5. r2 = [q3 EXCEPT !.validUntil = v]
    BY <1>1, <1>3, <2>1, <2>3 DEF Receivable
  <2> QED
    BY <2>4, <2>5 DEF Receivable
<1>4. CASE r2 = [r EXCEPT !.state = st, !.net = m, !.revision = n, !.validUntil = v]
  <2>1. PICK q2 : q2 = [q EXCEPT !.net = m]
    OBVIOUS
  <2>2. q2 \in Receivable
    BY <1>2, <2>1 DEF Receivable
  <2>3. PICK q3 : q3 = [q2 EXCEPT !.revision = n]
    OBVIOUS
  <2>4. q3 \in Receivable
    BY <2>2, <2>3 DEF Receivable
  <2>5. r2 = [q3 EXCEPT !.validUntil = v]
    BY <1>1, <1>4, <2>1, <2>3 DEF Receivable
  <2> QED
    BY <2>4, <2>5 DEF Receivable
<1>5. CASE r2 = [r EXCEPT !.paid = m, !.revision = n, !.state = st]
  <2>1. PICK q2 : q2 = [r EXCEPT !.paid = m]
    OBVIOUS
  <2>2. q2 \in Receivable
    BY <2>1 DEF Receivable
  <2>3. PICK q3 : q3 = [q2 EXCEPT !.revision = n]
    OBVIOUS
  <2>4. q3 \in Receivable
    BY <2>2, <2>3 DEF Receivable
  <2>5. r2 = [q3 EXCEPT !.state = st]
    BY <1>5, <2>1, <2>3 DEF Receivable
  <2> QED
    BY <2>4, <2>5 DEF Receivable, States
<1> QED
  BY <1>3, <1>4, <1>5

(* The receivable of event e becomes r2 and the stats count it. *)
Posts(e, r2) ==
    /\ Moving(e)
    /\ receivable' = [receivable EXCEPT ![e.ref] = r2]
    /\ r2 \in Receivable /\ r2.state # "NONE"
    /\ r2.revision = receivable[e.ref].revision + 1
    /\ r2.net = receivable[e.ref].net + Net(e)
    /\ r2.paid = receivable[e.ref].paid + Paid(e)
    /\ r2.facility \in {NoFacility, obligation[e.ref].assignedTo}
    /\ receivable[e.ref].state = "CANCELLED" => r2.state = "CANCELLED"
    /\ Cancels(e, e.ref) => r2.state = "CANCELLED"
    /\ stats' = Counted(Net(e) - Paid(e), Paid(e))

LEMMA PostsOne ==
    ASSUME TypeInv, BookInv, NEW e \in Event, NEW r2, Posts(e, r2)
    PROVE  Booked(e)
<1>1. PICK a \in Refs : a = e.ref
  BY EventTypes DEF Posts, Moving
<1>2. /\ receivable'[a] = r2 /\ receivable[a] \in Receivable /\ r2 \in Receivable
      /\ receivable' \in [Refs -> Receivable]
      /\ \A r \in Refs : r # a => receivable'[r] = receivable[r]
  BY <1>1 DEF Posts, TypeInv
<1>3. \A r \in Refs : receivable[r] \in Receivable /\ receivable'[r] \in Receivable
  BY <1>2 DEF TypeInv
<1>4. \A r \in Refs : Affects(e, r) <=> r = a
  BY <1>1 DEF Posts, Affects
<1>5. /\ r2.revision = receivable[a].revision + 1
      /\ r2.net = receivable[a].net + Net(e)
      /\ r2.paid = receivable[a].paid + Paid(e)
  BY <1>1 DEF Posts
<1>6. Entries(receivable) /\ Entries(receivable')
  BY <1>3 DEF Entries, Receivable
<1>7. Moved(receivable, receivable', e)
  BY <1>2, <1>4, <1>5, <1>6, Zenon DEF Moved
<1>8. ASSUME NEW r \in Refs
      PROVE  /\ Tidy(receivable'[r])
             /\ receivable'[r].facility \in {NoFacility, obligation[r].assignedTo}
             /\ receivable[r].state # "NONE" => receivable'[r].state # "NONE"
             /\ receivable[r].state = "CANCELLED" => receivable'[r].state = "CANCELLED"
  <2>1. CASE r = a
    BY <1>1, <1>2, <2>1, Zenon DEF Posts, Tidy
  <2>2. CASE r # a
    BY <1>2, <2>2, Zenon DEF BookInv
  <2> QED
    BY <2>1, <2>2
<1>9. /\ stats' \in Stats
      /\ stats'.eventsConsumed = stats.eventsConsumed + 1
      /\ stats'.openAmount = stats.openAmount + Net(e) - Paid(e)
      /\ stats'.paidCumulative = stats.paidCumulative + Paid(e)
  <2>1. stats \in Stats /\ Net(e) \in Int /\ Paid(e) \in Int
    BY EventWeights DEF TypeInv, Stats
  <2>2. stats' = [eventsConsumed |-> stats.eventsConsumed + 1,
                  openAmount |-> stats.openAmount + (Net(e) - Paid(e)),
                  paidCumulative |-> stats.paidCumulative + Paid(e)]
    BY DEF Posts, Counted
  <2> QED
    BY <2>1, <2>2 DEF Stats
<1> QED
  BY <1>1, <1>2, <1>7, <1>8, <1>9, Zenon DEF Booked, Posts

LEMMA PostsNone ==
    ASSUME TypeInv, BookInv, NEW e \in Event, ~Moving(e), receivable' = receivable,
           stats' \in Stats, stats'.eventsConsumed = stats.eventsConsumed,
           stats'.openAmount = stats.openAmount,
           stats'.paidCumulative = stats.paidCumulative + Paid(e)
    PROVE  Booked(e)
<1>1. \A r \in Refs : /\ receivable[r].revision \in Int /\ receivable[r].net \in Int
                      /\ receivable[r].paid \in Int
  BY DEF TypeInv, Receivable
<1>2. Moved(receivable, receivable', e)
  BY <1>1, Zenon DEF Moved, Entries, Affects
<1>3. receivable' \in [Refs -> Receivable]
  BY DEF TypeInv
<1>4. ~(e.kind = "PAYOUT" /\ e.ref # NoRef) /\ ~Cancels(e, e.ref)
  BY DEF Moving, Recorded, Paying, Cancels
<1>5. \A r \in Refs : /\ Tidy(receivable[r])
                      /\ receivable[r].facility \in {NoFacility, obligation[r].assignedTo}
  BY DEF BookInv
<1> QED
  BY <1>2, <1>3, <1>4, <1>5, Zenon DEF Booked

LEMMA RecognizeBooked ==
    ASSUME TypeInv, BookInv, NEW e \in Event, NEW v \in Int, e.kind = "RECOGNIZED", Recognize(e, v)
    PROVE  Booked(e)
<1>0. /\ e.ref \in Refs /\ e.amount \in Nat /\ receivable[e.ref] \in Receivable
      /\ Tidy(receivable[e.ref])
  BY EventTypes DEF TypeInv, Recorded, BookInv
<1>1. PICK proven, amount : proven = (e.version = 2) /\ amount = e.amount
  OBVIOUS
<1>2. PICK r2 : r2 = [NoReceivable EXCEPT !.state = "OPEN", !.net = amount, !.revision = 1,
                                          !.validUntil = v, !.denominationProven = proven]
  OBVIOUS
<1>3. /\ receivable[e.ref].state = "NONE"
      /\ receivable' = [receivable EXCEPT ![e.ref] = r2] /\ stats' = Counted(e.amount, 0)
  BY <1>1, <1>2, Zenon DEF Recognize
<1>4. r2 = [state |-> "OPEN", net |-> amount, paid |-> 0, revision |-> 1, facility |-> NoFacility,
            disputed |-> FALSE, validUntil |-> v, denominationProven |-> proven]
  BY <1>2 DEF NoReceivable
<1>5. proven \in BOOLEAN /\ amount \in Int
  BY <1>0, <1>1
<1>6. r2 \in Receivable
  BY <1>4, <1>5 DEF Receivable
<1>7. r2.state = "OPEN" /\ r2.net = amount /\ r2.paid = 0 /\ r2.revision = 1 /\ r2.facility = NoFacility
  BY <1>4
<1>8. receivable[e.ref].net = 0 /\ receivable[e.ref].paid = 0 /\ receivable[e.ref].revision = 0
  BY <1>0, <1>3 DEF Tidy
<1>9. Net(e) = amount /\ Paid(e) = 0 /\ Moving(e) /\ ~Cancels(e, e.ref)
  BY <1>1 DEF Net, Paid, Moving, Recorded, Cancels
<1>10. stats' = Counted(Net(e) - Paid(e), Paid(e))
  <2>1. Net(e) - Paid(e) = e.amount
    BY <1>0, <1>1, <1>9
  <2> QED
    BY <1>3, <1>9, <2>1, Zenon
<1>11. /\ r2.revision = receivable[e.ref].revision + 1
       /\ r2.net = receivable[e.ref].net + Net(e)
       /\ r2.paid = receivable[e.ref].paid + Paid(e)
  BY <1>5, <1>7, <1>8, <1>9
<1>12. r2.state # "NONE" /\ receivable[e.ref].state # "CANCELLED" /\ r2.facility \in {NoFacility, obligation[e.ref].assignedTo}
  BY <1>3, <1>7
<1>13. Posts(e, r2)
  BY <1>3, <1>6, <1>9, <1>10, <1>11, <1>12, Zenon DEF Posts
<1> QED
  BY <1>13, PostsOne

LEMMA AssignBooked ==
    ASSUME TypeInv, BookInv, NEW e \in Event, NEW v \in Int, e.kind = "ASSIGNED", Assign(e, v), Sound(e)
    PROVE  Booked(e)
<1>0. /\ e.ref \in Refs /\ e.facility \in Facilities /\ e.revision \in Nat
      /\ receivable[e.ref] \in Receivable /\ e.facility = obligation[e.ref].assignedTo
  BY EventTypes DEF TypeInv, Recorded, Sound
<1>1. PICK r, f, n : r = receivable[e.ref] /\ f = e.facility /\ n = e.revision
  OBVIOUS
<1>2. PICK st, m, r2 : /\ st = "ASSIGNED" /\ m = 0
                       /\ r2 = [r EXCEPT !.state = st, !.facility = f, !.revision = n, !.validUntil = v]
  OBVIOUS
<1>3. /\ r.state \in {"OPEN", "ASSIGNED"} /\ n = r.revision + 1
      /\ receivable' = [receivable EXCEPT ![e.ref] = r2] /\ stats' = Counted(0, 0)
  BY <1>1, <1>2, Zenon DEF Assign, IsOpen
<1>4. r \in Receivable /\ st \in States /\ f \in Facilities \union {NoFacility} /\ n \in Int /\ m \in Int
  BY <1>0, <1>1, <1>2 DEF States
<1>5. r2 \in Receivable
  BY <1>2, <1>4, PostTypes
<1>6. r2.state = "ASSIGNED" /\ r2.net = r.net /\ r2.paid = r.paid /\ r2.revision = n /\ r2.facility = f
  BY <1>2, <1>4 DEF Receivable
<1>7. Net(e) = 0 /\ Paid(e) = 0 /\ Moving(e) /\ ~Cancels(e, e.ref)
  BY DEF Net, Paid, Moving, Recorded, Cancels
<1>8. stats' = Counted(Net(e) - Paid(e), Paid(e))
  <2>1. Net(e) - Paid(e) = 0
    BY <1>7
  <2> QED
    BY <1>3, <1>7, <2>1, Zenon
<1>9. r.net \in Int /\ r.paid \in Int
  BY <1>4 DEF Receivable
<1>10. /\ r2.revision = r.revision + 1 /\ r2.net = r.net + Net(e) /\ r2.paid = r.paid + Paid(e)
  BY <1>3, <1>6, <1>7, <1>9
<1>11. r2.state # "NONE" /\ r.state # "CANCELLED" /\ r2.facility \in {NoFacility, obligation[e.ref].assignedTo}
  BY <1>0, <1>1, <1>3, <1>6
<1>12. Posts(e, r2)
  BY <1>1, <1>3, <1>5, <1>7, <1>8, <1>10, <1>11, Zenon DEF Posts
<1> QED
  BY <1>12, PostsOne

LEMMA CorrectBooked ==
    ASSUME TypeInv, BookInv, NEW e \in Event, NEW v \in Int, e.kind = "CORRECTED", Correct(e, v)
    PROVE  Booked(e)
<1>0. /\ e.ref \in Refs /\ e.amount \in Int /\ e.revision \in Nat /\ e.cancel \in BOOLEAN
      /\ receivable[e.ref] \in Receivable
      /\ receivable[e.ref].facility \in {NoFacility, obligation[e.ref].assignedTo}
  BY EventTypes DEF TypeInv, Recorded, BookInv
<1>1. PICK r, f, n : r = receivable[e.ref] /\ f = NoFacility /\ n = e.revision
  OBVIOUS
<1>2. PICK st, m : st = (IF e.cancel THEN "CANCELLED" ELSE r.state) /\ m = r.net + e.amount
  OBVIOUS
<1>3. PICK r2 : r2 = [r EXCEPT !.state = st, !.net = m, !.revision = n, !.validUntil = v]
  OBVIOUS
<1>4. /\ r.state \in {"OPEN", "ASSIGNED"} /\ n = r.revision + 1
      /\ receivable' = [receivable EXCEPT ![e.ref] = r2] /\ stats' = Counted(e.amount, 0)
  BY <1>1, <1>2, <1>3, Zenon DEF Correct, IsOpen
<1>5. r \in Receivable /\ st \in States /\ f \in Facilities \union {NoFacility} /\ n \in Int
      /\ st # "NONE" /\ (e.cancel => st = "CANCELLED")
  BY <1>0, <1>1, <1>2, <1>4 DEF States
<1>6. r.net \in Int /\ r.paid \in Int /\ m \in Int
  BY <1>0, <1>2, <1>5 DEF Receivable
<1>7. r2 \in Receivable
  BY <1>3, <1>5, <1>6, PostTypes
<1>8. r2.state = st /\ r2.net = m /\ r2.paid = r.paid /\ r2.revision = n /\ r2.facility = r.facility
  BY <1>3, <1>5 DEF Receivable
<1>9. Net(e) = e.amount /\ Paid(e) = 0 /\ Moving(e) /\ (Cancels(e, e.ref) => e.cancel)
  BY DEF Net, Paid, Moving, Recorded, Cancels
<1>10. stats' = Counted(Net(e) - Paid(e), Paid(e))
  <2>1. Net(e) - Paid(e) = e.amount
    BY <1>0, <1>9
  <2> QED
    BY <1>4, <1>9, <2>1, Zenon
<1>11. /\ r2.revision = r.revision + 1 /\ r2.net = r.net + Net(e) /\ r2.paid = r.paid + Paid(e)
  BY <1>2, <1>4, <1>6, <1>8, <1>9
<1>12. r2.state # "NONE" /\ r.state # "CANCELLED" /\ r2.facility \in {NoFacility, obligation[e.ref].assignedTo}
  BY <1>0, <1>1, <1>4, <1>5, <1>8
<1>13. Posts(e, r2)
  BY <1>1, <1>4, <1>5, <1>7, <1>8, <1>9, <1>10, <1>11, <1>12, Zenon DEF Posts
<1> QED
  BY <1>13, PostsOne

LEMMA PayoutBooked ==
    ASSUME TypeInv, BookInv, NEW e \in Event, e.kind = "PAYOUT", Payout(e)
    PROVE  Booked(e)
<1>0. e.ref \in Refs \union {NoRef} /\ e.amount \in Nat /\ stats \in Stats
  BY EventTypes DEF TypeInv, Paying, Stats
<1>1. Net(e) = 0 /\ Paid(e) = e.amount /\ (Moving(e) <=> e.ref # NoRef) /\ ~Cancels(e, e.ref)
  BY DEF Net, Paid, Moving, Recorded, Paying, Cancels
<1>2. CASE e.ref = NoRef
  <2>1. receivable' = receivable /\ stats' = [stats EXCEPT !.paidCumulative = @ + e.amount]
    BY <1>2, Zenon DEF Payout
  <2>2. stats' \in Stats /\ stats'.paidCumulative = stats.paidCumulative + e.amount
    BY <1>0, <2>1 DEF Stats
  <2>3. stats'.eventsConsumed = stats.eventsConsumed /\ stats'.openAmount = stats.openAmount
    BY <1>0, <2>1 DEF Stats
  <2> QED
    BY <1>1, <1>2, <2>1, <2>2, <2>3, PostsNone
<1>3. CASE e.ref # NoRef
  <2>0. /\ e.ref \in Refs /\ receivable[e.ref] \in Receivable
        /\ receivable[e.ref].facility \in {NoFacility, obligation[e.ref].assignedTo}
    BY <1>0, <1>3 DEF TypeInv, BookInv
  <2>1. PICK r, f : r = receivable[e.ref] /\ f = NoFacility
    OBVIOUS
  <2>2. PICK st, m, n : /\ st = (IF r.paid + e.amount = r.net THEN "PAID" ELSE r.state)
                        /\ m = r.paid + e.amount /\ n = r.revision + 1
    OBVIOUS
  <2>3. PICK r2 : r2 = [r EXCEPT !.paid = m, !.revision = n, !.state = st]
    OBVIOUS
  <2>4. /\ r.state \in {"OPEN", "ASSIGNED"}
        /\ receivable' = [receivable EXCEPT ![e.ref] = r2] /\ stats' = Counted(-e.amount, e.amount)
    BY <1>3, <2>1, <2>2, <2>3, Zenon DEF Payout, IsOpen
  <2>5. r \in Receivable /\ st \in States /\ f \in Facilities \union {NoFacility} /\ st # "NONE"
    BY <2>0, <2>1, <2>2, <2>4 DEF States
  <2>6. r.net \in Int /\ r.paid \in Int /\ m \in Int /\ n \in Int
    BY <1>0, <2>2, <2>5 DEF Receivable
  <2>7. r2 \in Receivable
    <3>1. PICK v \in Int : TRUE
      OBVIOUS
    <3> QED
      BY <2>3, <2>5, <2>6, <3>1, PostTypes
  <2>8. r2.state = st /\ r2.net = r.net /\ r2.paid = m /\ r2.revision = n /\ r2.facility = r.facility
    BY <2>3, <2>5 DEF Receivable
  <2>9. stats' = Counted(Net(e) - Paid(e), Paid(e))
    <3>1. Net(e) - Paid(e) = -e.amount
      BY <1>0, <1>1
    <3> QED
      BY <1>1, <2>4, <3>1, Zenon
  <2>10. /\ r2.revision = r.revision + 1 /\ r2.net = r.net + Net(e) /\ r2.paid = r.paid + Paid(e)
    BY <1>1, <2>2, <2>6, <2>8
  <2>11. r2.state # "NONE" /\ r.state # "CANCELLED" /\ r2.facility \in {NoFacility, obligation[e.ref].assignedTo}
    BY <2>0, <2>1, <2>4, <2>5, <2>8
  <2>12. Posts(e, r2)
    BY <1>1, <1>3, <2>1, <2>4, <2>7, <2>9, <2>10, <2>11, Zenon DEF Posts
  <2> QED
    BY <2>12, PostsOne
<1> QED
  BY <1>2, <1>3

LEMMA CancelBooked ==
    ASSUME TypeInv, BookInv, LogInv, NEW e \in Event, e.kind = "PAYOUT_CANCELLED",
           PayoutCancelled(e), Sound(e)
    PROVE  Booked(e)
<1>0. e.ref \in Refs \union {NoRef} /\ e.amount \in Nat /\ stats \in Stats
  BY EventTypes DEF TypeInv, Paying, Stats
<1>1. Net(e) = 0 /\ Paid(e) = -e.amount /\ (Moving(e) <=> e.ref # NoRef) /\ ~Cancels(e, e.ref)
  BY DEF Net, Paid, Moving, Recorded, Paying, Cancels
<1>2. CASE e.ref = NoRef
  <2>1. receivable' = receivable /\ stats' = [stats EXCEPT !.paidCumulative = @ - e.amount]
    BY <1>2, Zenon DEF PayoutCancelled
  <2>2. stats' \in Stats /\ stats'.paidCumulative = stats.paidCumulative - e.amount /\ stats.paidCumulative \in Int
    BY <1>0, <2>1 DEF Stats
  <2>3. stats'.eventsConsumed = stats.eventsConsumed /\ stats'.openAmount = stats.openAmount
    BY <1>0, <2>1 DEF Stats
  <2>4. stats'.paidCumulative = stats.paidCumulative + Paid(e)
    BY <1>0, <1>1, <2>2
  <2> QED
    BY <1>1, <1>2, <2>1, <2>2, <2>3, <2>4, PostsNone
<1>3. CASE e.ref # NoRef
  <2>0. /\ e.ref \in Refs /\ receivable[e.ref] \in Receivable
        /\ receivable[e.ref].facility \in {NoFacility, obligation[e.ref].assignedTo}
    BY <1>0, <1>3 DEF TypeInv, BookInv
  <2>1. PICK r, f : r = receivable[e.ref] /\ f = NoFacility
    OBVIOUS
  <2>2. PICK st, m, n : /\ st = (IF r.state # "PAID" THEN r.state
                                 ELSE IF receivable[e.ref].facility = NoFacility
                                      THEN "OPEN" ELSE "ASSIGNED")
                        /\ m = r.paid - e.amount /\ n = r.revision + 1
    OBVIOUS
  <2>3. PICK r2 : r2 = [r EXCEPT !.paid = m, !.revision = n, !.state = st]
    OBVIOUS
  <2>4. /\ receivable' = [receivable EXCEPT ![e.ref] = r2] /\ stats' = Counted(e.amount, -e.amount)
        /\ SettlementExists(e.seq)
    BY <1>3, <2>1, <2>2, <2>3, Zenon DEF PayoutCancelled
  <2>5. r.state # "NONE"
    <3>1. PICK i \in consumed : log[i].kind = "PAYOUT" /\ log[i].seq = e.seq
      BY <2>4 DEF SettlementExists
    <3>2. Sound(log[i])
      BY <3>1, Zenon DEF LogInv, TypeInv
    <3>3. log[i].ref = e.ref
      BY <3>1, <3>2 DEF Sound, Paying
    <3> QED
      BY <1>3, <2>1, <3>1, <3>3 DEF BookInv
  <2>6. r \in Receivable /\ st \in States /\ f \in Facilities \union {NoFacility} /\ st # "NONE"
        /\ (r.state = "CANCELLED" => st = "CANCELLED")
    BY <2>0, <2>1, <2>2, <2>5 DEF States, Receivable
  <2>7. r.net \in Int /\ r.paid \in Int /\ m \in Int /\ n \in Int
    BY <1>0, <2>2, <2>6 DEF Receivable
  <2>8. r2 \in Receivable
    <3>1. PICK v \in Int : TRUE
      OBVIOUS
    <3> QED
      BY <2>3, <2>6, <2>7, <3>1, PostTypes
  <2>9. r2.state = st /\ r2.net = r.net /\ r2.paid = m /\ r2.revision = n /\ r2.facility = r.facility
    BY <2>3, <2>6 DEF Receivable
  <2>10. stats' = Counted(Net(e) - Paid(e), Paid(e))
    <3>1. Net(e) - Paid(e) = e.amount
      BY <1>0, <1>1
    <3> QED
      BY <1>1, <2>4, <3>1, Zenon
  <2>11. /\ r2.revision = r.revision + 1 /\ r2.net = r.net + Net(e) /\ r2.paid = r.paid + Paid(e)
    BY <1>0, <1>1, <2>2, <2>7, <2>9
  <2>12. r2.state # "NONE" /\ r2.facility \in {NoFacility, obligation[e.ref].assignedTo}
    BY <2>0, <2>1, <2>6, <2>9
  <2>13. Posts(e, r2)
    BY <1>1, <1>3, <2>1, <2>4, <2>6, <2>8, <2>9, <2>10, <2>11, <2>12, Zenon DEF Posts
  <2> QED
    BY <2>13, PostsOne
<1> QED
  BY <1>2, <1>3

LEMMA IngestStep ==
    ASSUME Inv, NEW i \in DOMAIN log, NEW v \in 1 .. MaxTime + MaxValidity, Ingest(i, v)
    PROVE  Inv'
<1>0. TypeInv /\ LogInv /\ BookInv
  BY DEF Inv
<1>1. PICK e \in Event : e = log[i]
  BY <1>0 DEF TypeInv, Keyed
<1>2. /\ i \notin consumed /\ ~EconomicSeen(log[i]) /\ consumed' = consumed \union {i}
      /\ Apply(e, v) /\ UNCHANGED <<srcNow, dstNow, sourceVars>>
  BY <1>1, Zenon DEF Ingest, Consume
<1>3. v \in Int /\ Sound(e)
  BY <1>0, <1>1, EvidenceConstants DEF LogInv
<1>4. Booked(e) /\ Reported(e)
  <2>1. CASE e.kind = "RECOGNIZED" /\ Recognize(e, v)
    BY <1>0, <1>3, <2>1, RecognizeBooked DEF Recognize, Reported
  <2>2. CASE e.kind = "ASSIGNED" /\ Assign(e, v)
    BY <1>0, <1>3, <2>2, AssignBooked DEF Assign, Reported
  <2>3. CASE e.kind = "CORRECTED" /\ Correct(e, v)
    BY <1>0, <1>3, <2>3, CorrectBooked DEF Correct, Reported
  <2>4. CASE e.kind = "PAYOUT" /\ Payout(e)
    BY <1>0, <2>4, PayoutBooked DEF Payout, Reported
  <2>5. CASE e.kind = "PAYOUT_CANCELLED" /\ PayoutCancelled(e)
    BY <1>0, <1>3, <2>5, CancelBooked DEF PayoutCancelled, Reported
  <2>6. CASE e.kind = "CHECKPOINT" /\ Checkpoint(e)
    <3>1. /\ receivable' = receivable /\ stats' = stats
          /\ checkpoint' = [seq |-> e.seq, latestRevision |-> e.latestRevision,
                            openAmount |-> e.openAmount, paidCumulative |-> e.paidCumulative,
                            observedAt |-> e.observedAt, protectedUntil |-> e.protectedUntil]
      BY <2>6 DEF Checkpoint
    <3>2. ~Moving(e) /\ Paid(e) = 0
      BY <2>6 DEF Moving, Recorded, Paying, Paid
    <3>3. stats \in Stats
      BY <1>0 DEF TypeInv, Stats
    <3>4. stats.paidCumulative = stats.paidCumulative + Paid(e)
      BY <3>2, <3>3 DEF Stats
    <3>5. Booked(e)
      BY <1>0, <3>1, <3>2, <3>3, <3>4, PostsNone
    <3>6. Reported(e)
      BY <2>6, <3>1, EventTypes DEF Reported, Checkpoints
    <3> QED
      BY <3>5, <3>6
  <2> QED
    BY <1>2, <2>1, <2>2, <2>3, <2>4, <2>5, <2>6, Zenon DEF Apply
<1>5. Booked(log[i]) /\ Reported(log[i])
  BY <1>1, <1>4
<1> QED
  BY <1>2, <1>5, BookedKeep

(* Steps that move no figure: time, pauses, disputes, tokens. *)
Quiet ==
    /\ UNCHANGED <<obligation, account, payouts, log, consumed, stats, checkpoint>>
    /\ srcNow' \in Int /\ dstNow' \in Int /\ srcNow' >= srcNow
    /\ receivable' \in [Refs -> Receivable]
    /\ \A r \in Refs : /\ receivable'[r].state = receivable[r].state
                       /\ receivable'[r].net = receivable[r].net
                       /\ receivable'[r].paid = receivable[r].paid
                       /\ receivable'[r].revision = receivable[r].revision
                       /\ receivable'[r].facility = receivable[r].facility

LEMMA QuietKeep ==
    ASSUME Inv, Quiet
    PROVE  Inv'
<1>0. TypeInv /\ LogInv /\ SourceInv /\ BookInv /\ LockInv /\ PendingInv /\ TotalsAgree
  BY DEF Inv
<1>1. /\ obligation' = obligation /\ account' = account /\ payouts' = payouts /\ log' = log
      /\ consumed' = consumed /\ stats' = stats /\ checkpoint' = checkpoint
  BY DEF Quiet
<1>2. TypeInv'
  BY <1>0, <1>1, Zenon DEF TypeInv, Quiet, Keyed
<1>3. LogInv' /\ SourceInv'
  BY <1>0, <1>1, Zenon DEF LogInv, SourceInv, Sound, Sane, Cancels
<1>4. BookInv'
  <2>1. ASSUME NEW r \in Refs
        PROVE  /\ Tidy(receivable'[r])
               /\ receivable'[r].facility \in {NoFacility, obligation[r].assignedTo}
    BY <1>0, Zenon DEF BookInv, Quiet, Tidy
  <2>2. ASSUME NEW j \in consumed
        PROVE  /\ (log[j].kind = "PAYOUT" /\ log[j].ref # NoRef) => receivable'[log[j].ref].state # "NONE"
               /\ Cancels(log[j], log[j].ref) => receivable'[log[j].ref].state = "CANCELLED"
    <3>1. log[j] \in Event
      BY <1>0 DEF TypeInv, Keyed
    <3>2. (log[j].kind = "PAYOUT" /\ log[j].ref # NoRef) \/ Cancels(log[j], log[j].ref) => log[j].ref \in Refs
      BY <3>1, EventTypes DEF Cancels, Recorded, Paying
    <3> QED
      BY <1>0, <3>2, Zenon DEF BookInv, Quiet
  <2> QED
    BY <1>1, <2>1, <2>2, Zenon DEF BookInv, Tidy, Cancels
<1>5. LockInv'
  <2>1. ASSUME NEW i \in DOMAIN log, log[i].kind = "CHECKPOINT", log[i].version = 2
        PROVE  /\ log[i].protectedUntil <= account.protectedUntil
               /\ srcNow' < log[i].protectedUntil => log[i].latestRevision = account.latestRevision
    <3>1. log[i].protectedUntil \in Int
      BY <1>0, <2>1, EventTypes DEF TypeInv, Keyed
    <3>2. srcNow \in Int /\ srcNow' \in Int /\ srcNow' >= srcNow
      BY <1>0 DEF TypeInv, Quiet
    <3>3. /\ log[i].protectedUntil <= account.protectedUntil
          /\ srcNow < log[i].protectedUntil => log[i].latestRevision = account.latestRevision
      BY <1>0, <2>1 DEF LockInv
    <3> QED
      BY <3>1, <3>2, <3>3
  <2> QED
    BY <1>0, <1>1, <2>1, Zenon DEF LockInv
<1>6. PendingInv'
  BY <1>0, <1>1, Zenon DEF PendingInv, Quiet
<1>7. TotalsAgree'
  <2>1. /\ [r \in Refs |-> receivable'[r].revision] = [r \in Refs |-> receivable[r].revision]
        /\ [r \in Refs |-> receivable'[r].net - receivable'[r].paid]
              = [r \in Refs |-> receivable[r].net - receivable[r].paid]
    BY DEF Quiet
  <2> QED
    BY <1>0, <1>1, <2>1, Zenon DEF TotalsAgree, LivePayouts
<1> QED
  BY <1>2, <1>3, <1>4, <1>5, <1>6, <1>7, Zenon DEF Inv

LEMMA QuietSteps ==
    ASSUME Inv,
           \/ \E a \in Amounts : DirectTransfer(a) \/ DepositUnattributed(a) \/ Withdraw(a)
           \/ RecordDirectDeposit
           \/ \E paused \in BOOLEAN : PauseEvidenceIntake(paused)
           \/ \E f \in Facilities : RegisterFacility(f)
           \/ \E ref \in Refs, disputed \in BOOLEAN : SetDisputed(ref, disputed)
           \/ SourceTick \/ DestinationTick
           \/ UNCHANGED vars
    PROVE  Inv'
<1>0. TypeInv /\ srcNow \in Int /\ dstNow \in Int /\ receivable \in [Refs -> Receivable]
  BY DEF Inv, TypeInv
<1>1. CASE \/ \E a \in Amounts : DirectTransfer(a) \/ DepositUnattributed(a) \/ Withdraw(a)
           \/ RecordDirectDeposit
  <2>1. UNCHANGED <<srcNow, dstNow, obligation, account, payouts, log, bookVars>>
    BY <1>1, Zenon DEF DirectTransfer, DepositUnattributed, Withdraw, RecordDirectDeposit, escrowOnly
  <2>2. Quiet
    BY <1>0, <2>1 DEF bookVars, Quiet
  <2> QED
    BY <2>2, QuietKeep
<1>2. CASE \/ \E paused \in BOOLEAN : PauseEvidenceIntake(paused)
           \/ \E f \in Facilities : RegisterFacility(f)
  <2>1. UNCHANGED <<srcNow, dstNow, sourceVars, consumed, receivable, stats, checkpoint>>
    BY <1>2, Zenon DEF PauseEvidenceIntake, RegisterFacility
  <2>2. Quiet
    BY <1>0, <2>1 DEF sourceVars, Quiet
  <2> QED
    BY <2>2, QuietKeep
<1>3. ASSUME NEW ref \in Refs, NEW disputed \in BOOLEAN, SetDisputed(ref, disputed) PROVE Inv'
  <2>1. /\ UNCHANGED <<srcNow, dstNow, sourceVars, consumed, stats, checkpoint>>
        /\ receivable' = [receivable EXCEPT ![ref].disputed = disputed]
    BY <1>3, Zenon DEF SetDisputed
  <2>2. PICK r, r2 : r = receivable[ref] /\ r2 = [r EXCEPT !.disputed = disputed]
    OBVIOUS
  <2>3. r \in Receivable
    BY <1>0, <2>2
  <2>4. r2 \in Receivable
    BY <2>2, <2>3 DEF Receivable
  <2>5. r2.state = r.state /\ r2.net = r.net /\ r2.paid = r.paid /\ r2.revision = r.revision
        /\ r2.facility = r.facility
    BY <2>2, <2>3 DEF Receivable
  <2>6. receivable' = [receivable EXCEPT ![ref] = r2]
    BY <2>1, <2>2
  <2>7. receivable' \in [Refs -> Receivable] /\ receivable'[ref] = r2
        /\ \A q \in Refs : q # ref => receivable'[q] = receivable[q]
    BY <1>0, <2>4, <2>6
  <2>8. ASSUME NEW q \in Refs
        PROVE  /\ receivable'[q].state = receivable[q].state
               /\ receivable'[q].net = receivable[q].net
               /\ receivable'[q].paid = receivable[q].paid
               /\ receivable'[q].revision = receivable[q].revision
               /\ receivable'[q].facility = receivable[q].facility
    BY <2>2, <2>5, <2>7
  <2>9. Quiet
    BY <1>0, <2>1, <2>7, <2>8 DEF sourceVars, Quiet
  <2> QED
    BY <2>9, QuietKeep
<1>4. CASE SourceTick \/ DestinationTick \/ UNCHANGED vars
  <2>1. UNCHANGED <<sourceVars, bookVars>> /\ srcNow' \in {srcNow, srcNow + 1} /\ dstNow' \in {dstNow, dstNow + 1}
    BY <1>4, Zenon DEF SourceTick, DestinationTick, vars
  <2>2. Quiet
    BY <1>0, <2>1 DEF sourceVars, bookVars, Quiet
  <2> QED
    BY <2>2, QuietKeep
<1> QED
  BY <1>1, <1>2, <1>3, <1>4

-----------------------------------------------------------------------------
(* The invariant holds *)

LEMMA InitInv ==
    ASSUME Init
    PROVE  Inv
<1>1. /\ srcNow = 1 /\ dstNow = 1 /\ obligation = [ref \in Refs |-> NoObligation]
      /\ account = [latestRevision |-> 0, openAmount |-> 0, paidCumulative |-> 0,
                    checkpointSeq |-> 0, protectedUntil |-> 0]
      /\ payouts = <<>> /\ log = <<>> /\ consumed = {}
      /\ receivable = [ref \in Refs |-> NoReceivable]
      /\ stats = [eventsConsumed |-> 0, openAmount |-> 0, paidCumulative |-> 0]
      /\ checkpoint = NoCheckpoint
  BY DEF Init
<1>2. DOMAIN log = {} /\ log \in Seq(Event) /\ DOMAIN payouts = {}
      /\ payouts \in Seq([ref : Refs \union {NoRef}, amount : Nat, cancelled : BOOLEAN])
  BY <1>1
<1>3. Keyed(log)
  BY <1>2, Zenon DEF Keyed
<1>4. TypeInv
  <2>1. NoObligation \in Obligation
    BY DEF NoObligation, Obligation
  <2>2. NoReceivable \in Receivable
    BY DEF NoReceivable, Receivable
  <2>3. obligation \in [Refs -> Obligation] /\ receivable \in [Refs -> Receivable]
    BY <1>1, <2>1, <2>2
  <2>4. /\ account \in [latestRevision : Int, openAmount : Int, paidCumulative : Int,
                        checkpointSeq : Int, protectedUntil : Int]
        /\ stats \in [eventsConsumed : Int, openAmount : Int, paidCumulative : Int]
        /\ checkpoint \in [seq : Int, latestRevision : Int, openAmount : Int,
                           paidCumulative : Int, observedAt : Int, protectedUntil : Int]
        /\ srcNow \in Int /\ dstNow \in Int
    BY <1>1 DEF NoCheckpoint
  <2>5. consumed \subseteq DOMAIN log
    BY <1>1
  <2> QED
    BY <1>2, <1>3, <2>3, <2>4, <2>5, Zenon DEF TypeInv
<1>5. LogInv
  BY <1>2 DEF LogInv
<1>6. SourceInv
  <2>1. \A ref \in Refs : Sane(obligation[ref]) /\ obligation[ref].status # "CANCELLED"
    BY <1>1 DEF Sane, NoObligation
  <2> QED
    BY <1>2, <2>1 DEF SourceInv
<1>7. BookInv
  <2>1. \A ref \in Refs : Tidy(receivable[ref]) /\ receivable[ref].facility = NoFacility
    BY <1>1 DEF Tidy, NoReceivable
  <2> QED
    BY <1>1, <2>1 DEF BookInv
<1>8. LockInv
  BY <1>1, <1>2 DEF LockInv, NoCheckpoint
<1>9. PendingInv
  <2>1. SUFFICES ASSUME NEW ref \in Refs
                 PROVE  /\ obligation[ref].revision = receivable[ref].revision + LagRevision(log, consumed, ref)
                        /\ obligation[ref].net = receivable[ref].net + LagNet(log, consumed, ref)
                        /\ obligation[ref].paid = receivable[ref].paid + LagPaid(log, consumed, ref)
    BY DEF PendingInv
  <2>2. Pending(log, consumed, ref) = {}
    BY <1>2 DEF Pending
  <2>3. LagRevision(log, consumed, ref) = 0 /\ LagNet(log, consumed, ref) = 0 /\ LagPaid(log, consumed, ref) = 0
    BY <2>2, SumEmpty, Zenon DEF LagRevision, LagNet, LagPaid
  <2> QED
    BY <1>1, <2>3 DEF NoObligation, NoReceivable
<1>10. TotalsAgree
  <2>1. IsFiniteSet(Refs)
    BY EvidenceConstants
  <2>2. /\ [ref \in Refs |-> obligation[ref].revision] = [ref \in Refs |-> 0]
        /\ [ref \in Refs |-> obligation[ref].net - obligation[ref].paid] = [ref \in Refs |-> 0]
        /\ [ref \in Refs |-> receivable[ref].revision] = [ref \in Refs |-> 0]
        /\ [ref \in Refs |-> receivable[ref].net - receivable[ref].paid] = [ref \in Refs |-> 0]
    BY <1>1 DEF NoObligation, NoReceivable
  <2>3. SumFunctionOnSet([ref \in Refs |-> 0], Refs) = 0
    BY <2>1, SumZero
  <2>4. LivePayouts(DOMAIN log) = 0 /\ LivePayouts(consumed) = 0
    BY <1>1, <1>2, SumEmpty, Zenon DEF LivePayouts
  <2>5. /\ account.latestRevision = 0 /\ account.openAmount = 0 /\ account.paidCumulative = 0
        /\ stats.eventsConsumed = 0 /\ stats.openAmount = 0 /\ stats.paidCumulative = 0
    BY <1>1
  <2> QED
    BY <2>2, <2>3, <2>4, <2>5, Zenon DEF TotalsAgree
<1> QED
  BY <1>4, <1>5, <1>6, <1>7, <1>8, <1>9, <1>10 DEF Inv

LEMMA StepInv ==
    ASSUME Inv, [Next]_vars
    PROVE  Inv'
<1>1. CASE SourceNext
  <2>1. CASE \E ref \in Refs, a \in Amounts : RecognizeObligation(ref, a)
    BY <2>1, RecognizeStep
  <2>2. CASE \E ref \in Refs, f \in Facilities : AssignObligation(ref, f)
    BY <2>2, AssignStep
  <2>3. CASE \E ref \in Refs, d \in Deltas, cancel \in BOOLEAN : CorrectObligation(ref, d, cancel)
    BY <2>3, CorrectStep
  <2>4. CASE PublishCheckpoint \/ \E until \in 1 .. MaxTime : ReserveCheckpoint(until)
    BY <2>4, CheckpointStep
  <2>5. CASE \E ref \in Refs \union {NoRef}, a \in Amounts, id \in SettlementIds : Settle(ref, a, id)
    BY <2>5, SettleStep
  <2>6. CASE \E seq \in DOMAIN payouts : CancelPayout(seq)
    BY <2>6, CancelStep
  <2>7. CASE \/ \E a \in Amounts : DirectTransfer(a) \/ DepositUnattributed(a) \/ Withdraw(a)
             \/ RecordDirectDeposit
    BY <2>7, QuietSteps
  <2> QED
    BY <1>1, <2>1, <2>2, <2>3, <2>4, <2>5, <2>6, <2>7, Zenon DEF SourceNext
<1>2. CASE DestinationNext
  <2>1. CASE \E i \in DOMAIN log, v \in 1 .. MaxTime + MaxValidity : Ingest(i, v)
    BY <2>1, IngestStep
  <2>2. CASE \/ \E paused \in BOOLEAN : PauseEvidenceIntake(paused)
             \/ \E f \in Facilities : RegisterFacility(f)
             \/ \E ref \in Refs, disputed \in BOOLEAN : SetDisputed(ref, disputed)
    BY <2>2, QuietSteps
  <2> QED
    BY <1>2, <2>1, <2>2, Zenon DEF DestinationNext
<1>3. CASE SourceTick \/ DestinationTick \/ UNCHANGED vars
  BY <1>3, QuietSteps
<1> QED
  BY <1>1, <1>2, <1>3, Zenon DEF Next

LEMMA InvHolds == Spec => []Inv
<1>1. Init => Inv
  BY InitInv
<1>2. Inv /\ [Next]_vars => Inv'
  BY StepInv
<1> QED
  BY <1>1, <1>2, PTL DEF Spec

(* On both chains the totals are the sums of their parts, in whatever order *)
(* proofs of the escrow's events arrive: latestRevision and eventsConsumed  *)
(* count the events of the obligations, openAmount is what is open on them, *)
(* and paidCumulative is the payouts not cancelled.                         *)
THEOREM TotalsAlwaysAgree == Spec => []TotalsAgree
<1>1. Inv => TotalsAgree
  BY DEF Inv
<1> QED
  BY <1>1, InvHolds, PTL

-----------------------------------------------------------------------------
(* What a facility may draw against is owed to it *)

(* While a checkpoint is accepted and the source's clock is not ahead of    *)
(* the destination's, no event is pending.                                  *)
LEMMA NothingPending ==
    ASSUME Inv, CheckpointOk, srcNow <= dstNow, NEW ref \in Refs
    PROVE  LagRevision(log, consumed, ref) = 0
<1>0. TypeInv /\ LockInv /\ PendingInv /\ TotalsAgree /\ log \in Seq(Event)
  BY DEF Inv, TypeInv, Keyed
<1>1. /\ checkpoint.observedAt # 0 /\ dstNow \in checkpoint.observedAt .. checkpoint.protectedUntil - 1
      /\ checkpoint.latestRevision = stats.eventsConsumed
  BY Zenon DEF CheckpointOk
<1>2. PICK i \in DOMAIN log : /\ log[i].kind = "CHECKPOINT" /\ log[i].version = 2
                              /\ log[i].protectedUntil = checkpoint.protectedUntil
                              /\ log[i].latestRevision = checkpoint.latestRevision
  BY <1>0, <1>1 DEF LockInv
<1>3. srcNow < log[i].protectedUntil
  <2>1. srcNow \in Int /\ dstNow \in Int /\ checkpoint.protectedUntil \in Int /\ checkpoint.observedAt \in Int
    BY <1>0 DEF TypeInv
  <2> QED
    BY <1>1, <1>2, <2>1
<1>4. account.latestRevision = stats.eventsConsumed
  BY <1>0, <1>1, <1>2, <1>3 DEF LockInv
<1>5. Revisions(obligation) = Revisions(receivable)
  BY <1>0, <1>4, TotalsForm
<1>6. PICK f, g, h : /\ f = [r \in Refs |-> obligation[r].revision]
                     /\ g = [r \in Refs |-> receivable[r].revision]
                     /\ h = [r \in Refs |-> LagRevision(log, consumed, r)]
  OBVIOUS
<1>7. ASSUME NEW r \in Refs
      PROVE  f[r] \in Int /\ g[r] \in Int /\ h[r] \in Nat /\ h[r] = f[r] - g[r]
  <2>0. obligation[r] \in Obligation /\ receivable[r] \in Receivable
    BY <1>0 DEF TypeInv
  <2>1. obligation[r].revision \in Int /\ receivable[r].revision \in Int
    BY <2>0 DEF Obligation, Receivable
  <2>2. LagRevision(log, consumed, r) \in Nat
    BY <1>0, LagTypes
  <2>3. obligation[r].revision = receivable[r].revision + LagRevision(log, consumed, r)
    BY <1>0 DEF PendingInv
  <2> QED
    BY <1>6, <2>1, <2>2, <2>3
<1>8. IsFiniteSet(Refs)
  BY EvidenceConstants
<1>9. SumFunctionOnSet(h, Refs) = SumFunctionOnSet(f, Refs) - SumFunctionOnSet(g, Refs)
  BY <1>7, <1>8, SumMinus
<1>10. SumFunctionOnSet(f, Refs) = SumFunctionOnSet(g, Refs)
  BY <1>5, <1>6, Zenon DEF Revisions
<1>11. SumFunctionOnSet(g, Refs) \in Int
  BY <1>7, <1>8, SumInt
<1>12. SumFunctionOnSet(h, Refs) = 0
  BY <1>9, <1>10, <1>11
<1>13. \A r \in Refs : h[r] <= SumFunctionOnSet(h, Refs)
  BY <1>7, <1>8, SumNat
<1>14. h[ref] <= 0 /\ h[ref] \in Nat
  BY <1>7, <1>12, <1>13
<1> QED
  BY <1>6, <1>14

(* A cut of k parts in b is no more than the whole. *)
LEMMA CutIsLess ==
    ASSUME NEW x \in Nat, NEW b \in Nat \ {0}, NEW k \in 0 .. b
    PROVE  (x * k) \div b \in Int /\ (x * k) \div b <= x
<1>1. PICK q, m : q = (x * k) \div b /\ m = (x * k) % b
  OBVIOUS
<1>2. x * k \in Int
  OBVIOUS
<1>3. x * k = b * q + m /\ m \in 0 .. b - 1 /\ q \in Int
  BY <1>1, <1>2
<1>4. x * k <= b * x
  <2>1. b - k \in Nat /\ x * (b - k) >= 0
    OBVIOUS
  <2>2. x * (b - k) = b * x - x * k
    OBVIOUS
  <2> QED
    BY <1>2, <2>1, <2>2
<1>5. b * q <= b * x
  BY <1>2, <1>3, <1>4
<1>6. q <= x
  <2>1. SUFFICES ASSUME q >= x + 1 PROVE FALSE
    BY <1>3
  <2>2. PICK d \in Nat : q = x + 1 + d
    BY <1>3, <2>1
  <2>3. b * q = b * x + b + b * d /\ b * d >= 0
    BY <2>2
  <2> QED
    BY <1>5, <2>3
<1> QED
  BY <1>1, <1>3, <1>6

LEMMA LagEmpty ==
    ASSUME NEW l \in Seq(Event), NEW c, NEW ref, LagRevision(l, c, ref) = 0
    PROVE  Pending(l, c, ref) = {}
<1>1. PICK P, f : P = Pending(l, c, ref) /\ f = [j \in DOMAIN l |-> 1]
  OBVIOUS
<1>2. IsFiniteSet(P) /\ P \subseteq DOMAIN l
  BY <1>1, PendingSets
<1>3. \A j \in P : f[j] \in Nat /\ f[j] = 1
  BY <1>1, <1>2
<1>4. \A j \in P : f[j] <= SumFunctionOnSet(f, P)
  BY <1>2, <1>3, SumNat
<1>5. SumFunctionOnSet(f, P) = 0
  BY <1>1, Zenon DEF LagRevision
<1> QED
  BY <1>1, <1>3, <1>4, <1>5

(* A receivable counted for facility f is open and assigned to it there, or *)
(* nothing is left to pay on it.                                            *)
LEMMA CountedIsOwed ==
    ASSUME Inv, srcNow <= dstNow, NEW f \in Facilities, NEW ref \in Refs, Counts(ref, f)
    PROVE  /\ Unpaid(ref) \in Int
           /\ Unpaid(ref) <= obligation[ref].net - obligation[ref].paid
           /\ \/ obligation[ref].status = "OPEN" /\ obligation[ref].assignedTo = f
              \/ obligation[ref].net - obligation[ref].paid = 0
<1>0. TypeInv /\ SourceInv /\ BookInv /\ PendingInv /\ Keyed(log) /\ log \in Seq(Event)
  BY DEF Inv, TypeInv, Keyed
<1>1. /\ receivable[ref].state = "ASSIGNED" /\ receivable[ref].facility = f /\ CheckpointOk
  BY Zenon DEF Counts
<1>2. LagRevision(log, consumed, ref) = 0
  BY <1>1, NothingPending
<1>3. LagNet(log, consumed, ref) = 0 /\ LagPaid(log, consumed, ref) = 0
  BY <1>0, <1>2, LagTypes
<1>4. /\ receivable[ref].net \in Int /\ receivable[ref].paid \in Int
      /\ obligation[ref].net = receivable[ref].net /\ obligation[ref].paid = receivable[ref].paid
  <2>1. receivable[ref].net \in Int /\ receivable[ref].paid \in Int
    BY <1>0 DEF TypeInv, Receivable
  <2>2. /\ obligation[ref].net = receivable[ref].net + LagNet(log, consumed, ref)
        /\ obligation[ref].paid = receivable[ref].paid + LagPaid(log, consumed, ref)
    BY <1>0 DEF PendingInv
  <2> QED
    BY <1>3, <2>1, <2>2
<1>5. Sane(obligation[ref])
  BY <1>0 DEF SourceInv
<1>6. PICK x : x = receivable[ref].net - receivable[ref].paid
  OBVIOUS
<1>7. x \in Nat /\ x = obligation[ref].net - obligation[ref].paid
  BY <1>4, <1>5, <1>6 DEF Sane
<1>8. Unpaid(ref) \in Int /\ Unpaid(ref) <= x
  <2>1. Bps \in Nat \ {0} /\ Bps - OverdueHaircut \in 0 .. Bps
    BY EvidenceConstants
  <2>2. PICK k : k = Bps - OverdueHaircut
    OBVIOUS
  <2>3. k \in 0 .. Bps
    BY <2>1, <2>2
  <2>4. (x * k) \div Bps \in Int /\ (x * k) \div Bps <= x
    BY <1>7, <2>1, <2>3, CutIsLess
  <2>5. Unpaid(ref) = x \/ Unpaid(ref) = (x * k) \div Bps
    BY <1>6, <2>2, Zenon DEF Unpaid
  <2> QED
    BY <1>7, <2>4, <2>5
<1>9. obligation[ref].assignedTo = f
  <2>1. receivable[ref].facility \in {NoFacility, obligation[ref].assignedTo}
    BY <1>0 DEF BookInv
  <2> QED
    BY <1>1, <2>1, EvidenceConstants
<1>10. obligation[ref].status # "CANCELLED"
  <2>1. SUFFICES ASSUME obligation[ref].status = "CANCELLED" PROVE FALSE
    OBVIOUS
  <2>2. PICK i \in DOMAIN log : Cancels(log[i], ref)
    BY <1>0, <2>1 DEF SourceInv
  <2>3. log[i].kind = "CORRECTED" /\ log[i].ref = ref /\ log[i].cancel
    BY <2>2 DEF Cancels
  <2>4. Moving(log[i]) /\ ~Twin(log[i])
    BY <2>3 DEF Moving, Recorded, Twin
  <2>5. Pending(log, consumed, ref) = {}
    BY <1>0, <1>2, LagEmpty
  <2>6. PICK j \in consumed : EconomicKey(log[j]) = EconomicKey(log[i])
    BY <2>3, <2>4, <2>5, Zenon DEF Pending
  <2>7. j \in DOMAIN log /\ log[j] \in Event /\ log[i] \in Event
    BY <1>0 DEF TypeInv
  <2>8. log[j].kind = "CORRECTED"
    BY <2>3, <2>6, <2>7, SameKey
  <2>9. Moving(log[j]) /\ ~Twin(log[j])
    BY <2>8 DEF Moving, Recorded, Twin
  <2>10. j = i
    BY <1>0, <2>4, <2>6, <2>7, <2>9, Zenon DEF Keyed
  <2>11. receivable[ref].state = "CANCELLED"
    BY <1>0, <2>2, <2>3, <2>6, <2>10 DEF BookInv
  <2> QED
    BY <1>1, <2>11
<1>11. obligation[ref].status \in {"NONE", "OPEN", "PAID", "CANCELLED"}
  BY <1>0 DEF TypeInv, Obligation
<1>12. obligation[ref].status \in {"NONE", "PAID"} => obligation[ref].net - obligation[ref].paid = 0
  BY <1>4, <1>5 DEF Sane
<1> QED
  BY <1>7, <1>8, <1>9, <1>10, <1>11, <1>12

LEMMA OwedNow ==
    ASSUME Inv, srcNow <= dstNow
    PROVE  EligibleIsOwed
<1>1. SUFFICES ASSUME NEW f \in Facilities PROVE EligibleUnpaid(f) <= SourceUnpaid(f)
  BY DEF EligibleIsOwed
<1>2. PICK C, O, u, w : /\ C = {ref \in Refs : Counts(ref, f)}
                        /\ O = {ref \in Refs : /\ obligation[ref].status = "OPEN"
                                               /\ obligation[ref].assignedTo = f}
                        /\ u = [ref \in Refs |-> Unpaid(ref)]
                        /\ w = [ref \in Refs |-> obligation[ref].net - obligation[ref].paid]
  OBVIOUS
<1>3. IsFiniteSet(Refs) /\ C \subseteq Refs /\ O \subseteq Refs /\ Refs \intersect C = C /\ Refs \intersect O = O
  BY <1>2, EvidenceConstants
<1>4. IsFiniteSet(C) /\ IsFiniteSet(O)
  BY <1>3, FS_Subset
<1>5. ASSUME NEW ref \in Refs PROVE w[ref] \in Nat
  <2>1. obligation[ref] \in Obligation /\ Sane(obligation[ref])
    BY DEF Inv, TypeInv, SourceInv
  <2> QED
    BY <1>2, <2>1 DEF Obligation, Sane
<1>6. ASSUME NEW ref \in C PROVE u[ref] \in Int /\ u[ref] <= w[ref] /\ (ref \in O \/ w[ref] = 0)
  <2>1. ref \in Refs /\ Counts(ref, f)
    BY <1>2
  <2>2. /\ Unpaid(ref) \in Int
        /\ Unpaid(ref) <= obligation[ref].net - obligation[ref].paid
        /\ \/ obligation[ref].status = "OPEN" /\ obligation[ref].assignedTo = f
           \/ obligation[ref].net - obligation[ref].paid = 0
    BY <2>1, CountedIsOwed
  <2> QED
    BY <1>2, <2>1, <2>2
<1>7. PICK g, h : /\ g = [ref \in Refs |-> IF ref \in C THEN u[ref] ELSE 0]
                  /\ h = [ref \in Refs |-> IF ref \in O THEN w[ref] ELSE 0]
  OBVIOUS
<1>8. /\ \A ref \in C : g[ref] = u[ref]
      /\ \A ref \in O : h[ref] = w[ref]
      /\ \A ref \in Refs \ C : g[ref] = 0
      /\ \A ref \in Refs \ O : h[ref] = 0
  BY <1>3, <1>7
<1>9. ASSUME NEW ref \in Refs PROVE g[ref] \in Int /\ h[ref] \in Int /\ g[ref] <= h[ref]
  <2>1. CASE ref \in C /\ ref \in O
    BY <1>5, <1>6, <1>8, <2>1
  <2>2. CASE ref \in C /\ ref \notin O
    BY <1>5, <1>6, <1>8, <2>2
  <2>3. CASE ref \notin C /\ ref \in O
    BY <1>5, <1>8, <2>3
  <2>4. CASE ref \notin C /\ ref \notin O
    BY <1>8, <2>4
  <2> QED
    BY <2>1, <2>2, <2>3, <2>4
<1>10. SumFunctionOnSet(g, Refs) <= SumFunctionOnSet(h, Refs)
  BY <1>3, <1>9, SumLeq
<1>11. SumFunctionOnSet(g, Refs) = SumFunctionOnSet(g, Refs \intersect C)
  BY <1>3, <1>8, <1>9, SumSupport
<1>12. SumFunctionOnSet(h, Refs) = SumFunctionOnSet(h, Refs \intersect O)
  BY <1>3, <1>8, <1>9, SumSupport
<1>13. SumFunctionOnSet(g, C) = SumFunctionOnSet(u, C)
  BY <1>4, <1>8, SumAgree
<1>14. SumFunctionOnSet(h, O) = SumFunctionOnSet(w, O)
  BY <1>4, <1>8, SumAgree
<1>15. SourceUnpaid(f) = SumFunctionOnSet(w, O)
  BY <1>2, Zenon DEF SourceUnpaid
<1>16. SumFunctionOnSet(u, C) <= SourceUnpaid(f)
  BY <1>3, <1>10, <1>11, <1>12, <1>13, <1>14, <1>15
<1>17. SumFunctionOnSet(w, O) \in Nat
  BY <1>3, <1>4, <1>5, SumNat
<1>18. CASE f \in registered
  <2>1. EligibleUnpaid(f) = SumFunctionOnSet(u, C)
    BY <1>2, <1>18, Zenon DEF EligibleUnpaid
  <2> QED
    BY <1>16, <2>1
<1>19. CASE f \notin registered
  <2>1. EligibleUnpaid(f) = 0
    BY <1>19, Zenon DEF EligibleUnpaid
  <2> QED
    BY <1>15, <1>17, <2>1
<1> QED
  BY <1>18, <1>19

(* Whatever order the proofs arrive in and however late, what a facility    *)
(* may draw against is owed to it by open obligations of the source chain   *)
(* at that moment, unless the destination's clock is behind the source's.   *)
THEOREM EligibleIsOwedUnlessBehind == Spec => [](srcNow <= dstNow => EligibleIsOwed)
<1>1. Inv => (srcNow <= dstNow => EligibleIsOwed)
  BY OwedNow
<1> QED
  BY <1>1, InvHolds, PTL

(* How far the destination's clock is behind. *)
ClockInv == srcNow <= dstNow + MaxLag

LEMMA ClockStep ==
    ASSUME TypeInv, ClockInv, [Next]_vars
    PROVE  ClockInv'
<1>0. srcNow \in Int /\ dstNow \in Int /\ MaxLag \in Nat /\ srcNow <= dstNow + MaxLag
  BY EvidenceConstants DEF TypeInv, ClockInv
<1>1. CASE SourceTick
  <2>1. srcNow < dstNow + MaxLag /\ srcNow' = srcNow + 1 /\ dstNow' = dstNow
    BY <1>1 DEF SourceTick
  <2> QED
    BY <1>0, <2>1 DEF ClockInv
<1>2. CASE DestinationTick
  <2>1. srcNow' = srcNow /\ dstNow' = dstNow + 1
    BY <1>2 DEF DestinationTick
  <2> QED
    BY <1>0, <2>1 DEF ClockInv
<1>3. CASE SourceNext
  <2>1. UNCHANGED <<srcNow, dstNow>>
    BY <1>3, Zenon DEF SourceNext, RecognizeObligation, AssignObligation, CorrectObligation,
       PublishCheckpoint, ReserveCheckpoint, Settle, CancelPayout, DirectTransfer,
       DepositUnattributed, Withdraw, RecordDirectDeposit, escrowOnly
  <2> QED
    BY <1>0, <2>1 DEF ClockInv
<1>4. CASE DestinationNext
  <2>1. UNCHANGED <<srcNow, dstNow>>
    BY <1>4, Zenon DEF DestinationNext, Ingest, PauseEvidenceIntake, RegisterFacility, SetDisputed
  <2> QED
    BY <1>0, <2>1 DEF ClockInv
<1>5. CASE UNCHANGED vars
  BY <1>0, <1>5 DEF ClockInv, vars
<1> QED
  BY <1>1, <1>2, <1>3, <1>4, <1>5, Zenon DEF Next

LEMMA ClockHolds == Spec => []ClockInv
<1>1. Init => ClockInv
  BY EvidenceConstants DEF Init, ClockInv
<1>2. Inv /\ ClockInv /\ [Next]_vars => ClockInv'
  BY ClockStep DEF Inv
<1> QED
  BY <1>1, <1>2, InvHolds, PTL DEF Spec

(* With a destination clock that is never behind, what a facility may draw  *)
(* against is always owed to it on the source chain.                        *)
THEOREM EligibleIsAlwaysOwed ==
    ASSUME MaxLag = 0
    PROVE  Spec => []EligibleIsOwed
<1>1. Inv /\ ClockInv => EligibleIsOwed
  <2> SUFFICES ASSUME Inv, ClockInv PROVE EligibleIsOwed
    OBVIOUS
  <2>1. srcNow <= dstNow
    BY DEF Inv, TypeInv, ClockInv
  <2> QED
    BY <2>1, OwedNow
<1> QED
  BY <1>1, InvHolds, ClockHolds, PTL

-----------------------------------------------------------------------------
(* The signing relayer: rows, claims and payouts *)

SigSteps == {"wait", "check", "mark", "submit", "receipt"}

SigState == [pc : SigSteps, todo : SUBSET Outputs, cur : Outputs \union {"none"}, tx : Nat]

Claim == [payout : Outputs, status : {"sent", "ok", "reverted"}, expired : BOOLEAN]

SigType ==
    /\ depth \in [Outputs -> Nat]
    /\ counted \in [Outputs -> Nat]
    /\ claims \in Seq(Claim)
    /\ DOMAIN stored \subseteq Outputs
    /\ signer \in [SigRelayers -> SigState]

(* Deep enough to be claimed: an orphaned block is shallower. *)
Deep(o) == depth[o] >= Confirmations

(* What a process is about to claim is deep; the row it will update exists; *)
(* the claim it waits for is of the payout it names.                        *)
SignerTrue(r) ==
    /\ \A o \in signer[r].todo : Deep(o)
    /\ signer[r].pc \in {"mark", "submit", "receipt"} =>
          signer[r].cur \in Outputs /\ Deep(signer[r].cur)
    /\ signer[r].pc \in {"submit", "receipt"} => signer[r].cur \in DOMAIN stored
    /\ signer[r].pc = "receipt" =>
          /\ signer[r].tx \in DOMAIN claims
          /\ claims[signer[r].tx].payout = signer[r].cur

(* A claim is of a deep payout, and counted when it succeeded. *)
ClaimTrue(i) ==
    /\ Deep(claims[i].payout)
    /\ claims[i].status = "ok" => counted[claims[i].payout] = 1

SigInv ==
    /\ SigType
    /\ \A r \in SigRelayers : SignerTrue(r)
    /\ \A i \in DOMAIN claims : ClaimTrue(i)
    /\ ConfirmedIsCounted

(* The elements of the sequence of claims. *)
LEMMA ClaimsTyped ==
    ASSUME SigInv
    PROVE  /\ DOMAIN claims = 1 .. Len(claims)
           /\ \A i \in DOMAIN claims : claims[i] \in Claim /\ claims[i].payout \in Outputs
  <1>1. PICK C : C = Claim
    OBVIOUS
  <1>2. claims \in Seq(C)
    BY <1>1 DEF SigInv, SigType
  <1>3. DOMAIN claims = 1 .. Len(claims) /\ \A i \in DOMAIN claims : claims[i] \in C
    BY <1>2
  <1> QED
    BY <1>1, <1>3 DEF Claim

LEMMA SigInitInv == SigInit => SigInv
  BY SigConstants DEF SigInit, SigInv, SigType, SignerTrue, ClaimTrue, ConfirmedIsCounted, Deep, SigAtRest, SigAt,
     SigState, SigSteps, Claim

LEMMA BuryStep ==
    ASSUME SigInv, NEW o \in Outputs, Bury(o) \/ Unconfirm(o)
    PROVE  SigInv'
  <1>0. UNCHANGED <<counted, claims, stored, signer>>
    BY DEF Bury, Unconfirm
  <1>1. depth' \in [Outputs -> Nat]
    <2>1. depth \in [Outputs -> Nat] /\ depth[o] + 1 \in Nat
      BY DEF SigInv, SigType
    <2>2. CASE Bury(o)
      BY <2>1, <2>2 DEF Bury
    <2>3. CASE Unconfirm(o)
      BY <2>1, <2>3 DEF Unconfirm
    <2> QED
      BY <2>2, <2>3
  <1>2. \A x \in Outputs : Deep(x) => Deep(x)'
    <2> SUFFICES ASSUME NEW x \in Outputs, Deep(x)
                 PROVE  Deep(x)'
      OBVIOUS
    <2>1. depth \in [Outputs -> Nat]
      BY DEF SigInv, SigType
    <2>2. CASE Bury(o)
      BY <2>1, <2>2, SigConstants DEF Bury, Deep
    <2>3. CASE Unconfirm(o)
      BY <2>1, <2>3, SigConstants DEF Unconfirm, Deep
    <2> QED
      BY <2>2, <2>3
  <1>3. \A i \in DOMAIN claims : claims[i].payout \in Outputs
    BY ClaimsTyped
  <1>4. \A r \in SigRelayers : signer[r].todo \subseteq Outputs
    BY DEF SigInv, SigType, SigState
  <1>5. SigType'
    BY <1>0, <1>1 DEF SigInv, SigType
  <1>6. \A r \in SigRelayers : SignerTrue(r)'
    BY <1>0, <1>2, <1>4 DEF SigInv, SignerTrue
  <1>7. \A i \in DOMAIN claims : ClaimTrue(i)'
    BY <1>0, <1>2, <1>3 DEF SigInv, ClaimTrue
  <1>8. ConfirmedIsCounted'
    BY <1>0, <1>2 DEF SigInv, ConfirmedIsCounted, Deep
  <1> QED
    BY <1>0, <1>5, <1>6, <1>7, <1>8 DEF SigInv

(* A claim that is mined counts its payout, unless it was counted. *)
LEMMA ClaimStep ==
    ASSUME SigInv, NEW i \in DOMAIN claims, Expire(i) \/ MineClaim(i)
    PROVE  SigInv'
  <1>0. claims[i] \in Claim /\ i \in 1 .. Len(claims) /\ UNCHANGED <<depth, stored, signer>>
    BY ClaimsTyped DEF Expire, MineClaim
  <1>1. PICK p : p = claims[i].payout
    OBVIOUS
  <1>2. p \in Outputs /\ Deep(p)
    BY <1>0, <1>1 DEF Claim, SigInv, ClaimTrue
  <1>3. PICK c \in Claim : /\ claims' = [claims EXCEPT ![i] = c] /\ c.payout = p
                           /\ c.status = "ok" => counted'[p] = 1
    <2>1. CASE Expire(i)
      <3>1. PICK c : c = [claims[i] EXCEPT !.expired = TRUE]
        OBVIOUS
      <3>2. c \in Claim /\ c.payout = p /\ c.status # "ok"
        BY <2>1, <1>0, <1>1, <3>1 DEF Claim, Expire
      <3> QED
        BY <2>1, <3>1, <3>2 DEF Expire
    <2>2. CASE MineClaim(i) /\ Countable(claims[i])
      <3>1. counted'[p] = 1
        BY <2>2, <1>1, <1>2 DEF MineClaim, Countable, SigInv, SigType
      <3> QED
        BY <3>1, <2>2, <1>0, <1>1 DEF MineClaim, Claim
    <2>3. CASE MineClaim(i) /\ ~Countable(claims[i])
      <3>1. PICK c : c = [claims[i] EXCEPT !.status = "reverted"]
        OBVIOUS
      <3>2. c \in Claim /\ c.payout = p /\ c.status # "ok"
        BY <1>0, <1>1, <3>1 DEF Claim
      <3> QED
        BY <2>3, <3>1, <3>2 DEF MineClaim
    <2> QED
      BY <2>1, <2>2, <2>3
  <1>4. \/ UNCHANGED counted
        \/ counted[p] = 0 /\ counted' = [counted EXCEPT ![p] = 1]
    BY <1>1, <1>2 DEF Expire, MineClaim, Countable, SigInv, SigType
  <1>5. /\ counted' \in [Outputs -> Nat]
        /\ \A o \in Outputs : counted[o] = 1 => counted'[o] = 1
        /\ \A o \in Outputs : counted'[o] # counted[o] => o = p /\ counted'[o] = 1
    <2>1. counted \in [Outputs -> Nat]
      BY DEF SigInv, SigType
    <2>2. CASE UNCHANGED counted
      BY <2>1, <2>2
    <2>3. CASE counted[p] = 0 /\ counted' = [counted EXCEPT ![p] = 1]
      BY <2>1, <2>3, <1>2
    <2> QED
      BY <1>4, <2>2, <2>3
  <1>6. claims' \in Seq(Claim) /\ Len(claims') = Len(claims) /\ DOMAIN claims' = DOMAIN claims
        /\ \A j \in DOMAIN claims : claims'[j] = IF j = i THEN c ELSE claims[j]
    <2>1. PICK C : C = Claim
      OBVIOUS
    <2>2. claims \in Seq(C) /\ c \in C
      BY <2>1 DEF SigInv, SigType
    <2>3. claims' \in Seq(C) /\ Len(claims') = Len(claims)
          /\ \A j \in 1 .. Len(claims) : claims'[j] = IF j = i THEN c ELSE claims[j]
      BY <2>2, <1>0, <1>3, ExceptSeq
    <2> QED
      BY <2>1, <2>2, <2>3
  <1>7. SigType'
    BY <1>0, <1>5, <1>6 DEF SigInv, SigType
  <1>8. \A r \in SigRelayers : SignerTrue(r)'
    BY <1>0, <1>1, <1>3, <1>6 DEF SigInv, SignerTrue, Deep
  <1>9. \A j \in DOMAIN claims : ClaimTrue(j)'
    <2> SUFFICES ASSUME NEW j \in DOMAIN claims
                 PROVE  ClaimTrue(j)'
      OBVIOUS
    <2>1. CASE j = i
      BY <2>1, <1>0, <1>2, <1>3, <1>6 DEF ClaimTrue, Deep
    <2>2. CASE j # i
      BY <2>2, <1>0, <1>5, <1>6, ClaimsTyped DEF SigInv, ClaimTrue, Deep
    <2> QED
      BY <2>1, <2>2
  <1>10. ConfirmedIsCounted'
    BY <1>0, <1>2, <1>5 DEF SigInv, SigType, ConfirmedIsCounted, Deep
  <1> QED
    BY <1>6, <1>7, <1>8, <1>9, <1>10 DEF SigInv

(* A step of one process that sends nothing keeps the invariant when its    *)
(* new state is true, rows are only added, and a row that is new or changed *)
(* is confirmed for a counted payout only.                                  *)
LEMMA SignerStep ==
    ASSUME SigInv, NEW r \in SigRelayers, NEW s \in SigState,
           signer' = [signer EXCEPT ![r] = s], SignerTrue(r)',
           UNCHANGED <<depth, counted>>,
           claims' \in Seq(Claim), DOMAIN claims \subseteq DOMAIN claims',
           \A i \in DOMAIN claims : claims'[i] = claims[i],
           \A i \in DOMAIN claims' : ClaimTrue(i)',
           DOMAIN stored \subseteq DOMAIN stored', DOMAIN stored' \subseteq Outputs,
           \A o \in DOMAIN stored' : stored'[o] = "confirmed" => counted[o] = 1
    PROVE  SigInv'
  <1>1. SigType'
    BY DEF SigInv, SigType
  <1>2. \A q \in SigRelayers : SignerTrue(q)'
    <2> SUFFICES ASSUME NEW q \in SigRelayers, q # r
                 PROVE  SignerTrue(q)'
      OBVIOUS
    <2>1. signer'[q] = signer[q]
      BY DEF SigInv, SigType
    <2> QED
      BY <2>1 DEF SigInv, SignerTrue, Deep
  <1>3. ConfirmedIsCounted'
    BY DEF SigInv, ConfirmedIsCounted
  <1> QED
    BY <1>1, <1>2, <1>3 DEF SigInv

(* Polling, and looking a payout up. *)
LEMMA PollStep ==
    ASSUME SigInv, NEW r \in SigRelayers, Poll(r) \/ PollDone(r) \/ SignerCrash(r)
    PROVE  SigInv'
  <1>1. FindPayouts \subseteq Outputs /\ \A o \in FindPayouts : Deep(o)
    BY DEF FindPayouts, Deep
  <1>0. PICK s : /\ s \in {SigAt("check", FindPayouts, "none", 0), SigAt("wait", {}, "none", 0)}
                 /\ signer' = [signer EXCEPT ![r] = s]
    BY DEF Poll, PollDone, SignerCrash, SigAtRest
  <1>2. /\ s \in SigState /\ signer' = [signer EXCEPT ![r] = s]
        /\ s.pc \in {"wait", "check"} /\ s.todo \subseteq FindPayouts
    BY <1>0, <1>1 DEF SigAt, SigState, SigSteps
  <1>3. UNCHANGED <<depth, counted, claims, stored>>
    BY DEF Poll, PollDone, SignerCrash
  <1>4. signer'[r] = s
    BY <1>2 DEF SigInv, SigType
  <1>5. SignerTrue(r)'
    BY <1>1, <1>2, <1>3, <1>4 DEF SignerTrue, Deep
  <1>6. /\ claims' \in Seq(Claim) /\ \A i \in DOMAIN claims' : ClaimTrue(i)'
        /\ DOMAIN stored' \subseteq Outputs
        /\ \A o \in DOMAIN stored' : stored'[o] = "confirmed" => counted[o] = 1
    BY <1>3 DEF SigInv, SigType, ClaimTrue, Deep, ConfirmedIsCounted
  <1> QED
    BY <1>2, <1>3, <1>5, <1>6, SignerStep

LEMMA CheckStep ==
    ASSUME SigInv, NEW r \in SigRelayers, NEW o \in Outputs, Check(r, o) \/ Seen(r, o)
    PROVE  SigInv'
  <1>1. signer[r] \in SigState /\ signer[r].todo \subseteq Outputs /\ o \in signer[r].todo
        /\ signer[r].pc = "check"
    BY DEF SigInv, SigType, SigState, Check, Seen
  <1>2. PICK s \in SigState :
           /\ signer' = [signer EXCEPT ![r] = s]
           /\ s.todo = signer[r].todo \ {o}
           /\ s.pc = "check" \/ (s.pc = "mark" /\ s.cur = o)
    <2>1. CASE Check(r, o)
      <3>1. PICK s : s = [signer[r] EXCEPT !.todo = @ \ {o}]
        OBVIOUS
      <3>2. s \in SigState /\ s.todo = signer[r].todo \ {o} /\ s.pc = "check"
        BY <1>1, <3>1 DEF SigState
      <3>3. signer' = [signer EXCEPT ![r] = s]
        BY <2>1, <3>1 DEF Check
      <3> QED
        BY <3>2, <3>3
    <2>2. CASE Seen(r, o)
      <3>1. PICK s : s = SigAt("mark", signer[r].todo \ {o}, o, 0)
        OBVIOUS
      <3>2. s \in SigState /\ s.todo = signer[r].todo \ {o} /\ s.pc = "mark" /\ s.cur = o
        BY <1>1, <3>1 DEF SigState, SigAt, SigSteps
      <3>3. signer' = [signer EXCEPT ![r] = s]
        BY <2>2, <3>1 DEF Seen
      <3> QED
        BY <3>2, <3>3
    <2> QED
      BY <2>1, <2>2
  <1>3. UNCHANGED <<depth, counted, claims>>
    BY DEF Check, Seen
  <1>4. signer'[r] = s
    BY <1>2 DEF SigInv, SigType
  <1>5. SignerTrue(r)'
    BY <1>1, <1>2, <1>3, <1>4 DEF SigInv, SignerTrue, Deep
  <1>6. /\ DOMAIN stored \subseteq DOMAIN stored' /\ DOMAIN stored' \subseteq Outputs
        /\ \A x \in DOMAIN stored' : stored'[x] = "confirmed" => counted[x] = 1
    <2>0. /\ DOMAIN stored \subseteq Outputs /\ counted[o] \in Nat
          /\ \A x \in DOMAIN stored : stored[x] = "confirmed" => counted[x] = 1
          /\ counted[o] <= 1
      BY DEF SigInv, SigType, ConfirmedIsCounted
    <2>1. CASE UNCHANGED stored
      BY <2>0, <2>1
    <2>2. CASE counted[o] > 0 /\ MarkProcessed(o, "confirmed")
      BY <2>0, <2>2 DEF MarkProcessed
    <2> QED
      BY <2>1, <2>2 DEF Check, Seen
  <1>7. claims' \in Seq(Claim) /\ \A i \in DOMAIN claims' : ClaimTrue(i)'
    BY <1>3 DEF SigInv, SigType, ClaimTrue, Deep
  <1> QED
    BY <1>2, <1>3, <1>5, <1>6, <1>7, SignerStep

LEMMA MarkStep ==
    ASSUME SigInv, NEW r \in SigRelayers, MarkPending(r)
    PROVE  SigInv'
  <1>0. PICK o : o = signer[r].cur
    OBVIOUS
  <1>1. signer[r] \in SigState /\ o \in Outputs /\ signer[r].pc = "mark"
    BY <1>0 DEF SigInv, SigType, SignerTrue, MarkPending
  <1> PICK s : s = [signer[r] EXCEPT !.pc = "submit"]
    OBVIOUS
  <1>2. /\ s \in SigState /\ signer' = [signer EXCEPT ![r] = s]
        /\ s.todo = signer[r].todo /\ s.pc = "submit" /\ s.cur = o
    BY <1>0, <1>1 DEF MarkPending, SigState, SigSteps
  <1>3. UNCHANGED <<depth, counted, claims>>
    BY DEF MarkPending
  <1>4. signer'[r] = s
    BY <1>2 DEF SigInv, SigType
  <1>5. /\ DOMAIN stored \subseteq DOMAIN stored' /\ DOMAIN stored' \subseteq Outputs
        /\ o \in DOMAIN stored'
        /\ \A x \in DOMAIN stored' : stored'[x] = "confirmed" => counted[x] = 1
    <2>0. /\ DOMAIN stored \subseteq Outputs
          /\ \A x \in DOMAIN stored : stored[x] = "confirmed" => counted[x] = 1
      BY DEF SigInv, SigType, ConfirmedIsCounted
    <2> QED
      BY <2>0, <1>0, <1>1 DEF MarkPending, MarkProcessed
  <1>6. SignerTrue(r)'
    BY <1>0, <1>1, <1>2, <1>3, <1>4, <1>5 DEF SigInv, SignerTrue, Deep
  <1>7. claims' \in Seq(Claim) /\ \A i \in DOMAIN claims' : ClaimTrue(i)'
    BY <1>3 DEF SigInv, SigType, ClaimTrue, Deep
  <1> QED
    BY <1>2, <1>3, <1>5, <1>6, <1>7, SignerStep

(* The outcome of a claim is written over the row. *)
LEMMA UpdateStep ==
    ASSUME SigInv, NEW r \in SigRelayers, NEW status, UpdateStatus(r, status),
           signer[r].pc \in {"submit", "receipt"},
           status = "confirmed" => counted[signer[r].cur] = 1,
           UNCHANGED <<depth, counted, claims>>
    PROVE  SigInv'
  <1>1. signer[r] \in SigState /\ signer[r].cur \in DOMAIN stored
    BY DEF SigInv, SigType, SignerTrue
  <1> PICK s : s = SigAt("check", signer[r].todo, "none", 0)
    OBVIOUS
  <1>2. /\ s \in SigState /\ signer' = [signer EXCEPT ![r] = s]
        /\ s.todo = signer[r].todo /\ s.pc = "check"
    BY <1>1 DEF UpdateStatus, SigState, SigAt, SigSteps
  <1>4. signer'[r] = s
    BY <1>2 DEF SigInv, SigType
  <1>5. /\ DOMAIN stored' = DOMAIN stored
        /\ \A x \in DOMAIN stored : x # signer[r].cur => stored'[x] = stored[x]
        /\ stored'[signer[r].cur] = status
    BY <1>1 DEF UpdateStatus
  <1>6. SignerTrue(r)'
    BY <1>1, <1>2, <1>4, <1>5 DEF SigInv, SignerTrue, Deep
  <1>7. /\ claims' \in Seq(Claim) /\ \A i \in DOMAIN claims' : ClaimTrue(i)'
        /\ DOMAIN stored' \subseteq Outputs
        /\ \A o \in DOMAIN stored' : stored'[o] = "confirmed" => counted[o] = 1
    BY <1>5 DEF SigInv, SigType, ClaimTrue, Deep, ConfirmedIsCounted
  <1> QED
    BY <1>2, <1>5, <1>6, <1>7, SignerStep

LEMMA SendStep ==
    ASSUME SigInv, NEW r \in SigRelayers, SendClaim(r)
    PROVE  SigInv'
  <1>1. CASE UpdateStatus(r, "failed") /\ UNCHANGED claims
    <2>1. signer[r].pc \in {"submit", "receipt"} /\ UNCHANGED <<depth, counted, claims>>
      BY <1>1 DEF SendClaim
    <2> QED
      BY <1>1, <2>1, UpdateStep
  <1>2. CASE /\ claims' = Append(claims, [payout |-> signer[r].cur, status |-> "sent", expired |-> FALSE])
             /\ signer' = [signer EXCEPT ![r] = SigAt("receipt", @.todo, @.cur, Len(claims) + 1)]
             /\ UNCHANGED stored
    <2>0. PICK o : o = signer[r].cur
      OBVIOUS
    <2>1. /\ signer[r] \in SigState /\ o \in Outputs /\ signer[r].pc = "submit" /\ Deep(o)
          /\ o \in DOMAIN stored
      BY <2>0 DEF SigInv, SigType, SignerTrue, SendClaim
    <2> PICK c : c = [payout |-> o, status |-> "sent", expired |-> FALSE]
      OBVIOUS
    <2>2. c \in Claim /\ claims' = Append(claims, c) /\ c.payout = o /\ c.status = "sent"
      BY <1>2, <2>0, <2>1 DEF Claim
    <2>3. PICK n \in Nat : n = Len(claims) + 1
      BY DEF SigInv, SigType
    <2> PICK s : s = SigAt("receipt", signer[r].todo, o, n)
      OBVIOUS
    <2>4. /\ s \in SigState /\ signer' = [signer EXCEPT ![r] = s]
          /\ s.todo = signer[r].todo /\ s.pc = "receipt" /\ s.cur = o /\ s.tx = n
      BY <1>2, <2>0, <2>1, <2>3 DEF SigState, SigAt, SigSteps
    <2>5. UNCHANGED <<depth, counted, stored>>
      BY <1>2 DEF SendClaim
    <2>6. signer'[r] = s
      BY <2>4 DEF SigInv, SigType
    <2>7. /\ claims' \in Seq(Claim)
          /\ DOMAIN claims' = DOMAIN claims \union {n} /\ claims'[n] = c
          /\ \A i \in DOMAIN claims : i # n /\ claims'[i] = claims[i]
      <3>1. PICK C : C = Claim
        OBVIOUS
      <3>2. claims \in Seq(C) /\ c \in C
        BY <3>1, <2>2 DEF SigInv, SigType
      <3>3. /\ claims' \in Seq(C) /\ DOMAIN claims' = 1 .. n /\ DOMAIN claims = 1 .. (n - 1)
            /\ claims'[n] = c
            /\ \A i \in DOMAIN claims : claims'[i] = claims[i]
        BY <3>2, <2>2, <2>3, AppendProperties
      <3> QED
        BY <3>1, <3>3, <2>3
    <2>8. SignerTrue(r)'
      BY <2>1, <2>2, <2>4, <2>5, <2>6, <2>7 DEF SigInv, SignerTrue, Deep
    <2>9. \A i \in DOMAIN claims' : ClaimTrue(i)'
      BY <2>1, <2>2, <2>5, <2>7 DEF SigInv, ClaimTrue, Deep
    <2>10. /\ DOMAIN stored \subseteq DOMAIN stored' /\ DOMAIN stored' \subseteq Outputs
           /\ \A x \in DOMAIN stored' : stored'[x] = "confirmed" => counted[x] = 1
      BY <2>5 DEF SigInv, SigType, ConfirmedIsCounted
    <2> QED
      BY <2>4, <2>5, <2>7, <2>8, <2>9, <2>10, SignerStep
  <1> QED
    BY <1>1, <1>2 DEF SendClaim

LEMMA ReceiptStep ==
    ASSUME SigInv, NEW r \in SigRelayers, ReadReceipt(r) \/ WaitTimeout(r)
    PROVE  SigInv'
  <1>1. /\ signer[r].pc \in {"submit", "receipt"} /\ UNCHANGED <<depth, counted, claims>>
        /\ signer[r].tx \in DOMAIN claims /\ claims[signer[r].tx].payout = signer[r].cur
    BY DEF ReadReceipt, WaitTimeout, SigInv, SignerTrue
  <1>2. CASE ReadReceipt(r)
    <2>1. PICK status : status = Outcome(claims[signer[r].tx])
      OBVIOUS
    <2>2. UpdateStatus(r, status)
      BY <1>2, <2>1 DEF ReadReceipt
    <2>3. status = "confirmed" => counted[signer[r].cur] = 1
      BY <2>1, <1>1 DEF Outcome, SigInv, ClaimTrue
    <2> QED
      BY <1>1, <2>2, <2>3, UpdateStep
  <1>3. CASE WaitTimeout(r)
    <2>1. UpdateStatus(r, "failed")
      BY <1>3 DEF WaitTimeout
    <2> QED
      BY <1>1, <2>1, UpdateStep
  <1> QED
    BY <1>2, <1>3

LEMMA SigNextInv == SigInv /\ [SigNext]_sigVars => SigInv'
  <1> SUFFICES ASSUME SigInv, [SigNext]_sigVars
               PROVE  SigInv'
    OBVIOUS
  <1>1. ASSUME NEW o \in Outputs, Bury(o) \/ Unconfirm(o)
        PROVE  SigInv'
    BY <1>1, BuryStep
  <1>2. ASSUME NEW i \in DOMAIN claims, Expire(i) \/ MineClaim(i)
        PROVE  SigInv'
    BY <1>2, ClaimStep
  <1>3. ASSUME NEW r \in SigRelayers, Poll(r) \/ PollDone(r) \/ SignerCrash(r)
        PROVE  SigInv'
    BY <1>3, PollStep
  <1>4. ASSUME NEW r \in SigRelayers, NEW o \in Outputs, Check(r, o) \/ Seen(r, o)
        PROVE  SigInv'
    BY <1>4, CheckStep
  <1>5. ASSUME NEW r \in SigRelayers, MarkPending(r)
        PROVE  SigInv'
    BY <1>5, MarkStep
  <1>6. ASSUME NEW r \in SigRelayers, SendClaim(r)
        PROVE  SigInv'
    BY <1>6, SendStep
  <1>7. ASSUME NEW r \in SigRelayers, ReadReceipt(r) \/ WaitTimeout(r)
        PROVE  SigInv'
    BY <1>7, ReceiptStep
  <1>8. CASE UNCHANGED sigVars
    BY <1>8 DEF sigVars, SigInv, SigType, SignerTrue, ClaimTrue, ConfirmedIsCounted, Deep
  <1> QED
    BY <1>1, <1>2, <1>3, <1>4, <1>5, <1>6, <1>7, <1>8 DEF SigNext

(* The signing relayer, for any number of processes, payouts and required  *)
(* confirmations: a row its database calls confirmed was counted by the    *)
(* manager, and no payout is counted twice or before it is buried.         *)
THEOREM SigConfirmedIsCounted ==
    SigInit /\ [][SigNext]_sigVars => []ConfirmedIsCounted
  <1>1. SigInv => ConfirmedIsCounted
    BY DEF SigInv
  <1> QED
    BY SigInitInv, SigNextInv, <1>1, PTL

-----------------------------------------------------------------------------
(* The chain indexer: the journal and the sync that is running *)

(* A chain none of whose branches is newer than the number of the reorganisation. *)
Aged(c, age) == c \in Seq([log : BOOLEAN, branch : Nat]) /\ \A k \in DOMAIN c : c[k].branch <= age

(* Rows 1 .. m are one chain of blocks, of branches that have been seen. *)
Linked(rows, m, age) ==
    /\ DOMAIN rows = 1 .. m
    /\ \A k \in 1 .. m : Aged(rows[k].hash, age) /\ Len(rows[k].hash) = k
    /\ \A k \in 1 .. m : \A j \in 1 .. k : rows[j].hash = Hash(rows[k].hash, j)

(* A log belongs to the block of its height. *)
Owned(rows, set) == \A r \in set : r.number \in DOMAIN rows /\ r.hash = rows[r.number].hash

(* Up to m every event of the rows has its log, and no other. *)
Complete(rows, set, m) ==
    {r.number : r \in set} = {k \in 1 .. m : k \in EventsOf(rows[k].hash)}

(* A block of the chain c that is too deep to be reorganised. *)
Canonical(n, hash, c) == n \in Nat /\ n + FinalityDepth <= Len(c) /\ hash = Hash(c, n)

(* What is FINALIZED is such a block. *)
Stamped(rows, set, c) ==
    /\ \A n \in DOMAIN rows : rows[n].tier = "FINALIZED" => Canonical(n, rows[n].hash, c)
    /\ \A r \in set : r.tier = "FINALIZED" => Canonical(r.number, r.hash, c)

(* Rows at the finality depth of the head that was read are canonical. *)
Settled(rows, head, c) ==
    /\ head <= Len(c)
    /\ \A k \in DOMAIN rows : k + FinalityDepth <= head => rows[k].hash = Hash(c, k)

ChainInv == Aged(chain, reorgs) /\ reorgs \in Nat /\ Len(chain) <= MaxBlocks

CursorInv ==
    /\ cursor \in [exists : BOOLEAN, last : Nat, finalized : Nat]
    /\ cursor.finalized <= cursor.last
    /\ cursor.exists => cursor.last > 0
    /\ cursor.finalized > 0 => Canonical(cursor.finalized, blocks[cursor.finalized].hash, chain)

JournalInv ==
    \E m \in Nat :
       /\ Linked(blocks, m, reorgs) /\ Owned(blocks, logs)
       /\ Complete(blocks, logs, m) /\ Stamped(blocks, logs, chain)
       /\ cursor.last <= m
       /\ cursor.exists \/ m = 0

TxFields == {"pc", "lag", "head", "last", "end", "next", "blocks", "logs"}

TxType ==
    /\ DOMAIN tx = TxFields
    /\ tx.pc \in {"idle", "walk", "read", "commit", "reconcile"}
    /\ tx.lag \in 0 .. NodeLag
    /\ tx.head \in Nat /\ tx.last \in Nat /\ tx.end \in Nat /\ tx.next \in Nat

(* The walk looks at the journal as it was committed. *)
WalkInv ==
    /\ cursor.exists
    /\ tx.head <= Len(chain)
    /\ tx.last = cursor.last /\ tx.next <= cursor.last
    /\ tx.blocks = UpTo(blocks, cursor.last) /\ tx.logs = LogsUpTo(logs, cursor.last)

(* Once an ancestor is found, rows are read behind it. *)
RowsInv ==
    /\ tx.end <= tx.head
    /\ tx.last < tx.next
    /\ Linked(tx.blocks, tx.next - 1, reorgs) /\ Owned(tx.blocks, tx.logs)
    /\ Stamped(tx.blocks, tx.logs, chain) /\ Settled(tx.blocks, tx.head, chain)

ReadInv == Complete(tx.blocks, tx.logs, tx.last) /\ (tx.next = tx.last + 1 \/ tx.next <= tx.end + 1)

(* Between the logs and the commit: if the block at the end of the chunk is *)
(* still canonical, then it was when the logs were read.                    *)
CommitInv ==
    IF tx.end > tx.last
    THEN /\ tx.next = tx.end + 1
         /\ tx.blocks[tx.end].hash = Hash(chain, tx.end) => Complete(tx.blocks, tx.logs, tx.end)
    ELSE tx.next = tx.last + 1 /\ Complete(tx.blocks, tx.logs, tx.last)

SyncInv ==
    /\ tx.pc = "walk" => WalkInv
    /\ tx.pc \in {"read", "commit"} => RowsInv
    /\ tx.pc = "read" => ReadInv
    /\ tx.pc = "commit" => CommitInv

IndexerInv == ChainInv /\ CursorInv /\ JournalInv /\ TxType /\ SyncInv

-----------------------------------------------------------------------------
(* Hashes *)

LEMMA HashIs ==
    ASSUME NEW c, NEW age, Aged(c, age), NEW n \in 0 .. Len(c)
    PROVE  /\ Hash(c, n) \in Seq([log : BOOLEAN, branch : Nat]) /\ Len(Hash(c, n)) = n
           /\ \A k \in 1 .. n : k \in DOMAIN c /\ Hash(c, n)[k] = c[k]
           /\ Aged(Hash(c, n), age)
  <1>1. PICK B : B = [log : BOOLEAN, branch : Nat]
    OBVIOUS
  <1>2. c \in Seq(B) /\ DOMAIN c = 1 .. Len(c) /\ Len(c) \in Nat
    BY <1>1 DEF Aged
  <1>3. /\ SubSeq(c, 1, n) \in Seq(B) /\ Len(SubSeq(c, 1, n)) = n
        /\ \A k \in 1 .. n : SubSeq(c, 1, n)[k] = c[k]
    BY <1>2, SubSeqProperties
  <1>4. DOMAIN SubSeq(c, 1, n) = 1 .. n
    BY <1>3
  <1> QED
    BY <1>1, <1>2, <1>3, <1>4 DEF Hash, Aged

(* Two chains of the same blocks are the same. *)
LEMMA SameBlocks ==
    ASSUME NEW c, NEW d, NEW age, NEW age2, Aged(c, age), Aged(d, age2), Len(c) = Len(d),
           \A k \in 1 .. Len(c) : c[k] = d[k]
    PROVE  c = d
  <1>1. PICK B : B = [log : BOOLEAN, branch : Nat]
    OBVIOUS
  <1>2. c \in Seq(B) /\ d \in Seq(B)
    BY <1>1 DEF Aged
  <1> QED
    BY <1>2, SeqEqual

LEMMA HashOfHash ==
    ASSUME NEW c, NEW age, Aged(c, age), NEW n \in 0 .. Len(c), NEW j \in 0 .. n
    PROVE  Hash(Hash(c, n), j) = Hash(c, j)
  <1>0. Len(c) \in Nat /\ j \in 0 .. Len(c)
    BY DEF Aged
  <1>1. PICK h : h = Hash(c, n)
    OBVIOUS
  <1>2. Aged(h, age) /\ Len(h) = n /\ \A k \in 1 .. n : h[k] = c[k]
    BY <1>1, HashIs
  <1>3. Aged(Hash(h, j), age) /\ Len(Hash(h, j)) = j /\ \A k \in 1 .. j : Hash(h, j)[k] = h[k]
    BY <1>2, HashIs
  <1>4. Aged(Hash(c, j), age) /\ Len(Hash(c, j)) = j /\ \A k \in 1 .. j : Hash(c, j)[k] = c[k]
    BY <1>0, HashIs
  <1>5. \A k \in 1 .. j : Hash(h, j)[k] = Hash(c, j)[k]
    BY <1>2, <1>3, <1>4
  <1>6. Hash(h, j) = Hash(c, j)
    BY <1>3, <1>4, <1>5, SameBlocks
  <1> QED
    BY <1>1, <1>6

LEMMA HashAll ==
    ASSUME NEW c, NEW age, Aged(c, age)
    PROVE  Hash(c, Len(c)) = c
  <1>1. Len(c) \in 0 .. Len(c)
    BY DEF Aged
  <1>2. Aged(Hash(c, Len(c)), age) /\ Len(Hash(c, Len(c))) = Len(c)
        /\ \A k \in 1 .. Len(c) : Hash(c, Len(c))[k] = c[k]
    BY <1>1, HashIs
  <1> QED
    BY <1>2, SameBlocks

LEMMA HashEvents ==
    ASSUME NEW c, NEW age, Aged(c, age), NEW n \in 0 .. Len(c), NEW k \in 1 .. n
    PROVE  k \in EventsOf(Hash(c, n)) <=> k \in EventsOf(c)
  <1>1. PICK h : h = Hash(c, n)
    OBVIOUS
  <1>2. Aged(h, age) /\ Len(h) = n /\ k \in DOMAIN c /\ h[k] = c[k]
    BY <1>1, HashIs
  <1>3. k \in DOMAIN h
    BY <1>2 DEF Aged
  <1>4. k \in EventsOf(h) <=> k \in EventsOf(c)
    BY <1>2, <1>3 DEF EventsOf
  <1> QED
    BY <1>1, <1>4

LEMMA EventsWithin ==
    ASSUME NEW c, NEW age, Aged(c, age)
    PROVE  EventsOf(c) \subseteq 1 .. Len(c)
  BY DEF EventsOf, Aged

-----------------------------------------------------------------------------
(* How the chain moves *)

(* d follows c: blocks at the finality depth stay, and a block of c that    *)
(* was left does not come back.                                             *)
Follows(c, d, age, age2) ==
    /\ age \in Nat /\ age2 \in Nat /\ age <= age2
    /\ Aged(c, age) /\ Aged(d, age2) /\ Len(c) <= Len(d)
    /\ \A n \in Nat : n + FinalityDepth <= Len(c) => Hash(d, n) = Hash(c, n)
    /\ \A n \in 1 .. Len(c) : Aged(Hash(d, n), age) => Hash(d, n) = Hash(c, n)

LEMMA AgedOlder ==
    ASSUME NEW c, NEW age \in Nat, NEW age2 \in Nat, age <= age2, Aged(c, age)
    PROVE  Aged(c, age2)
  <1> SUFFICES ASSUME NEW k \in DOMAIN c
               PROVE  c[k].branch <= age2
    BY DEF Aged
  <1>1. PICK B : B = [log : BOOLEAN, branch : Nat]
    OBVIOUS
  <1>2. c \in Seq(B)
    BY <1>1 DEF Aged
  <1>3. c[k] \in B
    BY <1>2
  <1>4. c[k].branch \in Nat /\ c[k].branch <= age
    BY <1>1, <1>3 DEF Aged
  <1> QED
    BY <1>4

LEMMA GrowFollows ==
    ASSUME ChainInv, NEW carries \in BOOLEAN, Grow(carries)
    PROVE  Follows(chain, chain', reorgs, reorgs')
  <1>1. PICK B : B = [log : BOOLEAN, branch : Nat]
    OBVIOUS
  <1>2. PICK b : b = Block(carries)
    OBVIOUS
  <1>3. b \in B /\ b.branch = reorgs
    BY <1>1, <1>2 DEF Block, ChainInv
  <1>4. chain \in Seq(B) /\ reorgs \in Nat /\ Aged(chain, reorgs) /\ UNCHANGED reorgs
        /\ chain' = Append(chain, b) /\ Len(chain) \in Nat
    BY <1>1, <1>2 DEF ChainInv, Aged, Grow
  <1>5. /\ chain' \in Seq(B) /\ Len(chain') = Len(chain) + 1 /\ DOMAIN chain' = 1 .. Len(chain) + 1
        /\ \A k \in 1 .. Len(chain) : chain'[k] = chain[k]
        /\ chain'[Len(chain) + 1] = b
    BY <1>3, <1>4, AppendProperties
  <1>6. Aged(chain', reorgs)
    BY <1>1, <1>3, <1>4, <1>5 DEF Aged
  <1>7. ASSUME NEW n \in 0 .. Len(chain)
        PROVE  Hash(chain', n) = Hash(chain, n)
    <2>1. n \in 0 .. Len(chain') /\ \A k \in 1 .. n : k \in 1 .. Len(chain)
      BY <1>4, <1>5
    <2>2. Aged(Hash(chain, n), reorgs) /\ Len(Hash(chain, n)) = n /\ \A k \in 1 .. n : Hash(chain, n)[k] = chain[k]
      BY <1>4, HashIs
    <2>3. Aged(Hash(chain', n), reorgs) /\ Len(Hash(chain', n)) = n /\ \A k \in 1 .. n : Hash(chain', n)[k] = chain'[k]
      BY <1>6, <2>1, HashIs
    <2>4. \A k \in 1 .. n : Hash(chain', n)[k] = Hash(chain, n)[k]
      BY <2>1, <2>2, <2>3, <1>5
    <2> QED
      BY <2>2, <2>3, <2>4, SameBlocks
  <1>8. \A n \in Nat : n + FinalityDepth <= Len(chain) => n \in 0 .. Len(chain)
    BY <1>4, IndexerConstants
  <1> QED
    BY <1>4, <1>5, <1>6, <1>7, <1>8 DEF Follows

LEMMA ReorgFollows ==
    ASSUME ChainInv, NEW fork \in Nat, NEW suffix \in [1 .. MaxBlocks -> BOOLEAN],
           Reorg(fork, suffix)
    PROVE  Follows(chain, chain', reorgs, reorgs') /\ Len(chain') = Len(chain)
  <1>1. PICK B : B = [log : BOOLEAN, branch : Nat]
    OBVIOUS
  <1>2. PICK L \in Nat : L = Len(chain)
    BY DEF ChainInv, Aged
  <1>3. PICK t : t = [k \in 1 .. L - fork |-> [log |-> suffix[fork + k], branch |-> reorgs + 1]]
    OBVIOUS
  <1>4. PICK age \in Nat : age = reorgs
    BY DEF ChainInv
  <1>5. PICK h : h = Hash(chain, fork)
    OBVIOUS
  <1>6. /\ fork < L /\ fork + FinalityDepth >= L /\ reorgs' = age + 1 /\ chain' = h \o t
        /\ Aged(chain, age) /\ L <= MaxBlocks /\ L - fork \in Nat
    BY <1>2, <1>3, <1>4, <1>5 DEF Reorg, ChainInv
  <1>7. /\ h \in Seq(B) /\ Len(h) = fork /\ \A k \in 1 .. fork : h[k] = chain[k]
        /\ Aged(h, age)
    BY <1>1, <1>2, <1>5, <1>6, HashIs
  <1>8. \A k \in 1 .. L - fork : t[k] \in B /\ t[k].branch = age + 1
    <2> SUFFICES ASSUME NEW k \in 1 .. L - fork
                 PROVE  t[k] \in B /\ t[k].branch = age + 1
      OBVIOUS
    <2>1. fork + k \in 1 .. MaxBlocks
      BY <1>2, <1>6, IndexerConstants
    <2>2. suffix[fork + k] \in BOOLEAN
      BY <2>1
    <2>3. t[k] = [log |-> suffix[fork + k], branch |-> age + 1]
      BY <1>3, <1>4
    <2> QED
      BY <2>2, <2>3, <1>1
  <1> PICK M \in Nat : M = L - fork
    BY <1>6
  <1>9. t \in Seq(B) /\ Len(t) = M
    <2>1. t \in [1 .. M -> B]
      BY <1>3, <1>8
    <2> QED
      BY <2>1
  <1>10. /\ chain' \in Seq(B) /\ Len(chain') = L
         /\ \A k \in 1 .. fork : chain'[k] = chain[k]
         /\ \A k \in fork + 1 .. L : chain'[k].branch = age + 1
    <2>1. /\ h \o t \in Seq(B) /\ Len(h \o t) = fork + M
          /\ \A k \in 1 .. fork + M : (h \o t)[k] = IF k <= fork THEN h[k] ELSE t[k - fork]
      BY <1>7, <1>9, ConcatProperties
    <2>2. \A k \in fork + 1 .. L : k - fork \in 1 .. M /\ ~(k <= fork) /\ k \in 1 .. fork + M
      BY <1>6
    <2>3. \A k \in 1 .. fork : k <= fork /\ k \in 1 .. fork + M
      BY <1>6
    <2>4. fork + M = L
      BY <1>6
    <2>5. \A k \in fork + 1 .. L : chain'[k] = t[k - fork]
      BY <2>1, <2>2, <1>6
    <2>6. \A k \in 1 .. fork : chain'[k] = chain[k]
      BY <2>1, <2>3, <1>6, <1>7
    <2>7. \A k \in fork + 1 .. L : chain'[k].branch = age + 1
      BY <2>2, <2>5, <1>8
    <2> QED
      BY <2>1, <2>4, <2>6, <2>7, <1>6
  <1>11. Aged(chain', age + 1)
    <2> SUFFICES ASSUME NEW k \in 1 .. L
                 PROVE  chain'[k].branch <= age + 1
      BY <1>1, <1>10 DEF Aged
    <2>1. CASE k > fork
      BY <2>1, <1>10
    <2>2. CASE k <= fork
      <3>0. k \in 1 .. fork
        BY <2>2
      <3>1. chain'[k] = chain[k] /\ chain \in Seq(B) /\ k \in 1 .. Len(chain)
        BY <3>0, <1>1, <1>2, <1>10, <1>6 DEF Aged
      <3>2. chain[k] \in B /\ chain[k].branch <= age
        BY <3>1, <1>6 DEF Aged
      <3> QED
        BY <3>1, <3>2, <1>1
    <2> QED
      BY <2>1, <2>2
  <1>12. ASSUME NEW n \in 0 .. fork
         PROVE  Hash(chain', n) = Hash(chain, n)
    <2>1. n \in 0 .. Len(chain') /\ n \in 0 .. Len(chain) /\ \A k \in 1 .. n : k \in 1 .. fork
      BY <1>2, <1>6, <1>10
    <2>2. Aged(Hash(chain, n), age) /\ Len(Hash(chain, n)) = n /\ \A k \in 1 .. n : Hash(chain, n)[k] = chain[k]
      BY <1>6, <2>1, HashIs
    <2>3. Aged(Hash(chain', n), age + 1) /\ Len(Hash(chain', n)) = n /\ \A k \in 1 .. n : Hash(chain', n)[k] = chain'[k]
      BY <1>11, <2>1, HashIs
    <2>4. \A k \in 1 .. n : Hash(chain', n)[k] = Hash(chain, n)[k]
      BY <2>1, <2>2, <2>3, <1>10
    <2> QED
      BY <2>2, <2>3, <2>4, SameBlocks
  <1>13. \A n \in Nat : n + FinalityDepth <= L => n \in 0 .. fork
    BY <1>6, IndexerConstants
  <1>14. ASSUME NEW n \in 1 .. L, Aged(Hash(chain', n), age)
         PROVE  Hash(chain', n) = Hash(chain, n)
    <2>1. CASE n <= fork
      BY <2>1, <1>12
    <2>2. CASE n > fork
      <3>1. n \in 0 .. Len(chain') /\ n \in fork + 1 .. L /\ n \in 1 .. n
        BY <2>2, <1>6, <1>10
      <3>2. Len(Hash(chain', n)) = n /\ Hash(chain', n)[n] = chain'[n]
        BY <3>1, <1>11, HashIs
      <3>3. n \in DOMAIN Hash(chain', n)
        BY <3>1, <3>2, <1>14 DEF Aged
      <3>4. chain'[n].branch <= age
        BY <3>2, <3>3, <1>14 DEF Aged
      <3> QED
        BY <3>1, <3>4, <1>10
    <2> QED
      BY <2>1, <2>2
  <1> QED
    BY <1>2, <1>4, <1>6, <1>10, <1>11, <1>12, <1>13, <1>14 DEF Follows

-----------------------------------------------------------------------------
(* Rows *)

LEMMA LinkedOlder ==
    ASSUME NEW rows, NEW m \in Nat, NEW age \in Nat, NEW age2 \in Nat, age <= age2, Linked(rows, m, age)
    PROVE  Linked(rows, m, age2)
  BY AgedOlder DEF Linked

(* A row that is canonical makes those below it so. *)
LEMMA LinkedBelow ==
    ASSUME NEW rows, NEW m \in Nat, NEW age, Linked(rows, m, age), NEW k \in 1 .. m,
           NEW c, NEW age2, Aged(c, age2), k <= Len(c), rows[k].hash = Hash(c, k)
    PROVE  \A j \in 1 .. k : rows[j].hash = Hash(c, j)
  <1> SUFFICES ASSUME NEW j \in 1 .. k
               PROVE  rows[j].hash = Hash(c, j)
    OBVIOUS
  <1>1. k \in 0 .. Len(c) /\ j \in 0 .. k
    BY DEF Aged
  <1>2. rows[j].hash = Hash(Hash(c, k), j)
    BY DEF Linked
  <1> QED
    BY <1>1, <1>2, HashOfHash

LEMMA UpToIs ==
    ASSUME NEW rows, NEW m \in Nat, DOMAIN rows = 1 .. m, NEW n \in 0 .. m
    PROVE  DOMAIN UpTo(rows, n) = 1 .. n /\ \A k \in 1 .. n : UpTo(rows, n)[k] = rows[k]
  BY DEF UpTo

LEMMA LinkedUpTo ==
    ASSUME NEW rows, NEW m \in Nat, NEW age, Linked(rows, m, age), NEW n \in 0 .. m
    PROVE  Linked(UpTo(rows, n), n, age)
  <1>1. PICK r : r = UpTo(rows, n)
    OBVIOUS
  <1>2. DOMAIN r = 1 .. n /\ \A k \in 1 .. n : r[k] = rows[k]
    BY <1>1, UpToIs DEF Linked
  <1>3. Linked(r, n, age)
    BY <1>2 DEF Linked
  <1> QED
    BY <1>1, <1>3

LEMMA LogsBelow ==
    ASSUME NEW rows, NEW m \in Nat, NEW age, Linked(rows, m, age), NEW set,
           Owned(rows, set), Complete(rows, set, m), NEW n \in 0 .. m
    PROVE  /\ Owned(UpTo(rows, n), LogsUpTo(set, n))
           /\ Complete(UpTo(rows, n), LogsUpTo(set, n), n)
  <1>1. PICK r : r = UpTo(rows, n)
    OBVIOUS
  <1>2. DOMAIN rows = 1 .. m /\ DOMAIN r = 1 .. n /\ \A k \in 1 .. n : r[k] = rows[k]
    BY <1>1, UpToIs DEF Linked
  <1>3. \A l \in LogsUpTo(set, n) : l \in set /\ l.number \in 1 .. n
    BY <1>2 DEF LogsUpTo, Owned
  <1>4. Owned(r, LogsUpTo(set, n))
    BY <1>2, <1>3 DEF Owned
  <1>5. Complete(r, LogsUpTo(set, n), n)
    <2>1. ASSUME NEW k
          PROVE  (\E l \in LogsUpTo(set, n) : l.number = k) <=> (k \in 1 .. n /\ k \in EventsOf(r[k].hash))
      <3>1. (\E l \in set : l.number = k) <=> (k \in 1 .. m /\ k \in EventsOf(rows[k].hash))
        BY DEF Complete
      <3>2. (\E l \in LogsUpTo(set, n) : l.number = k) <=> ((\E l \in set : l.number = k) /\ k \in 1 .. n)
        BY <1>3 DEF LogsUpTo
      <3>3. k \in 1 .. n => k \in 1 .. m /\ r[k] = rows[k]
        BY <1>2
      <3> QED
        BY <3>1, <3>2, <3>3
    <2> QED
      BY <2>1 DEF Complete
  <1> QED
    BY <1>1, <1>4, <1>5

LEMMA StampedUpTo ==
    ASSUME NEW rows, NEW m \in Nat, DOMAIN rows = 1 .. m, NEW set, NEW c, Stamped(rows, set, c), NEW n \in 0 .. m
    PROVE  Stamped(UpTo(rows, n), LogsUpTo(set, n), c)
  <1>1. PICK r : r = UpTo(rows, n)
    OBVIOUS
  <1>2. DOMAIN r = 1 .. n /\ \A k \in 1 .. n : r[k] = rows[k] /\ k \in 1 .. m
    BY <1>1, UpToIs
  <1>3. LogsUpTo(set, n) \subseteq set
    BY DEF LogsUpTo
  <1>4. Stamped(r, LogsUpTo(set, n), c)
    BY <1>2, <1>3 DEF Stamped
  <1> QED
    BY <1>1, <1>4

(* The rows up to the newest is the rows. *)
LEMMA UpToAll ==
    ASSUME NEW rows, NEW m \in Nat, NEW age, Linked(rows, m, age), NEW n \in Nat, NEW k \in 0 .. n, n <= m
    PROVE  UpTo(UpTo(rows, n), k) = UpTo(rows, k)
  <1>1. DOMAIN rows = 1 .. m
    BY DEF Linked
  <1> QED
    BY <1>1 DEF UpTo

(* A block read behind the newest row. *)
LEMMA LinkedBlock ==
    ASSUME NEW rows, NEW n \in Nat \ {0}, NEW age, Linked(rows, n - 1, age), NEW block, Aged(block, age),
           Len(block) = n, n - 1 \in DOMAIN rows => Hash(block, n - 1) = rows[n - 1].hash
    PROVE  Linked(WithRow(rows, n, block), n, age)
  <1>1. PICK r : r = WithRow(rows, n, block)
    OBVIOUS
  <1>2. DOMAIN rows = 1 .. n - 1 /\ DOMAIN r = 1 .. n /\ r[n].hash = block
        /\ \A k \in 1 .. n - 1 : r[k] = rows[k]
    BY <1>1 DEF WithRow, Linked
  <1>3. \A k \in 1 .. n : Aged(r[k].hash, age) /\ Len(r[k].hash) = k
    <2> SUFFICES ASSUME NEW k \in 1 .. n
                 PROVE  Aged(r[k].hash, age) /\ Len(r[k].hash) = k
      OBVIOUS
    <2>1. CASE k = n
      BY <2>1, <1>2
    <2>2. CASE k # n
      <3>1. k \in 1 .. n - 1
        BY <2>2
      <3> QED
        BY <3>1, <1>2 DEF Linked
    <2> QED
      BY <2>1, <2>2
  <1>4. ASSUME NEW k \in 1 .. n, NEW j \in 1 .. k
        PROVE  r[j].hash = Hash(r[k].hash, j)
    <2>1. CASE k # n
      <3>1. k \in 1 .. n - 1 /\ j \in 1 .. n - 1
        BY <2>1
      <3>2. r[k] = rows[k] /\ r[j] = rows[j] /\ rows[j].hash = Hash(rows[k].hash, j)
        BY <3>1, <1>2 DEF Linked
      <3> QED
        BY <3>2
    <2>2. CASE k = n /\ j = n
      BY <2>2, <1>2, HashAll
    <2>3. CASE k = n /\ j # n
      <3>1. n - 1 \in 1 .. n - 1 /\ j \in 1 .. n - 1 /\ n - 1 \in 0 .. Len(block) /\ j \in 0 .. n - 1
        BY <2>3
      <3>2. rows[j].hash = Hash(rows[n - 1].hash, j) /\ rows[n - 1].hash = Hash(block, n - 1)
        BY <3>1, <1>2 DEF Linked
      <3>3. Hash(Hash(block, n - 1), j) = Hash(block, j)
        BY <3>1, HashOfHash
      <3> QED
        BY <2>3, <3>1, <3>2, <3>3, <1>2
    <2> QED
      BY <2>1, <2>2, <2>3
  <1>5. Linked(r, n, age)
    BY <1>2, <1>3, <1>4 DEF Linked
  <1> QED
    BY <1>1, <1>5

-----------------------------------------------------------------------------
(* The chain moves under the indexer. *)

LEMMA StampedFollows ==
    ASSUME NEW rows, NEW set, NEW c, NEW d, NEW age, NEW age2, Follows(c, d, age, age2), Stamped(rows, set, c)
    PROVE  Stamped(rows, set, d)
  <1>0. Len(c) \in Nat /\ Len(d) \in Nat /\ Len(c) <= Len(d)
    BY DEF Follows, Aged
  <1>1. ASSUME NEW n, NEW hash, Canonical(n, hash, c)
        PROVE  Canonical(n, hash, d)
    <2>1. n \in Nat /\ n + FinalityDepth <= Len(c) /\ hash = Hash(c, n)
      BY <1>1 DEF Canonical
    <2>2. Hash(d, n) = Hash(c, n)
      BY <2>1 DEF Follows
    <2>3. n + FinalityDepth <= Len(d)
      BY <2>1, <1>0, IndexerConstants
    <2> QED
      BY <2>1, <2>2, <2>3 DEF Canonical
  <1> QED
    BY <1>1 DEF Stamped

LEMMA SettledFollows ==
    ASSUME NEW rows, NEW m \in Nat, DOMAIN rows = 1 .. m, NEW head \in Nat,
           NEW c, NEW d, NEW age, NEW age2, Follows(c, d, age, age2), Settled(rows, head, c)
    PROVE  Settled(rows, head, d)
  <1>0. Len(c) \in Nat /\ Len(d) \in Nat /\ Len(c) <= Len(d) /\ head <= Len(c)
    BY DEF Follows, Aged, Settled
  <1>1. ASSUME NEW k \in 1 .. m, k + FinalityDepth <= head
        PROVE  rows[k].hash = Hash(d, k)
    <2>1. k \in Nat /\ k + FinalityDepth <= Len(c)
      BY <1>0, <1>1, IndexerConstants
    <2> QED
      BY <2>1, <1>1 DEF Follows, Settled
  <1>2. head <= Len(d)
    BY <1>0
  <1> QED
    BY <1>1, <1>2 DEF Settled

LEMMA ChainMoves ==
    ASSUME IndexerInv, Follows(chain, chain', reorgs, reorgs'), Len(chain') <= MaxBlocks,
           UNCHANGED <<db, tx>>
    PROVE  IndexerInv'
  <1>0. PICK c, d, a, b : c = chain /\ d = chain' /\ a = reorgs /\ b = reorgs'
    OBVIOUS
  <1>1. Follows(c, d, a, b) /\ a \in Nat /\ b \in Nat /\ a <= b
    BY <1>0 DEF Follows
  <1>2. UNCHANGED <<blocks, logs, cursor, tx>>
    BY DEF db
  <1>3. ChainInv'
    BY <1>1, <1>0 DEF ChainInv, Follows
  <1>4. CursorInv'
    <2>1. ASSUME cursor.finalized > 0
          PROVE  Canonical(cursor.finalized, blocks[cursor.finalized].hash, d)
      <3>1. PICK n, h : n = cursor.finalized /\ h = blocks[cursor.finalized].hash
        OBVIOUS
      <3>2. n \in Nat /\ n + FinalityDepth <= Len(c) /\ h = Hash(c, n)
        BY <2>1, <3>1, <1>0 DEF IndexerInv, CursorInv, Canonical
      <3>3. Hash(d, n) = Hash(c, n) /\ Len(c) \in Nat /\ Len(d) \in Nat /\ Len(c) <= Len(d)
        BY <3>2, <1>1 DEF Follows, Aged
      <3>4. n + FinalityDepth <= Len(d)
        BY <3>2, <3>3, IndexerConstants
      <3> QED
        BY <3>1, <3>2, <3>3, <3>4 DEF Canonical
    <2> QED
      BY <2>1, <1>0, <1>2 DEF IndexerInv, CursorInv
  <1>5. JournalInv'
    <2>1. PICK m \in Nat :
             /\ Linked(blocks, m, a) /\ Owned(blocks, logs)
             /\ Complete(blocks, logs, m) /\ Stamped(blocks, logs, c)
             /\ cursor.last <= m
             /\ cursor.exists \/ m = 0
      BY <1>0 DEF IndexerInv, JournalInv
    <2>2. Linked(blocks, m, b) /\ Stamped(blocks, logs, d)
      BY <1>1, <2>1, LinkedOlder, StampedFollows
    <2> QED
      BY <2>1, <2>2, <1>0, <1>2 DEF JournalInv
  <1>6. TxType'
    BY <1>2 DEF IndexerInv, TxType
  <1>7. tx.pc = "walk" => WalkInv'
    <2>1. Len(c) \in Nat /\ Len(d) \in Nat /\ Len(c) <= Len(d) /\ tx.head \in Nat
      BY <1>1 DEF Follows, Aged, IndexerInv, TxType
    <2> QED
      BY <2>1, <1>0, <1>2 DEF WalkInv, IndexerInv, SyncInv
  <1>8. tx.pc \in {"read", "commit"} => RowsInv'
    <2> SUFFICES ASSUME tx.pc \in {"read", "commit"}
                 PROVE  RowsInv'
      OBVIOUS
    <2>1. RowsInv /\ tx.head \in Nat
      BY DEF IndexerInv, SyncInv, TxType
    <2>2. PICK m \in Nat : m = tx.next - 1
      BY <2>1 DEF RowsInv, IndexerInv, TxType
    <2>3. Linked(tx.blocks, m, a) /\ DOMAIN tx.blocks = 1 .. m /\ Stamped(tx.blocks, tx.logs, c)
          /\ Settled(tx.blocks, tx.head, c)
      BY <2>1, <2>2, <1>0 DEF RowsInv, Linked
    <2>4. Linked(tx.blocks, m, b) /\ Stamped(tx.blocks, tx.logs, d) /\ Settled(tx.blocks, tx.head, d)
      BY <1>1, <2>1, <2>3, LinkedOlder, StampedFollows, SettledFollows
    <2> QED
      BY <2>1, <2>2, <2>4, <1>0, <1>2 DEF RowsInv
  <1>9. tx.pc = "read" => ReadInv'
    BY <1>2 DEF IndexerInv, SyncInv, ReadInv
  <1>10. tx.pc = "commit" => CommitInv'
    <2> SUFFICES ASSUME tx.pc = "commit"
                 PROVE  CommitInv'
      OBVIOUS
    <2>1. CommitInv /\ RowsInv /\ TxType
      BY DEF IndexerInv, SyncInv
    <2>2. ASSUME tx.end > tx.last, tx.blocks[tx.end].hash = Hash(d, tx.end)
          PROVE  tx.blocks[tx.end].hash = Hash(c, tx.end)
      <3>1. PICK n \in Nat \ {0} : n = tx.end
        BY <2>1, <2>2 DEF TxType
      <3>2. n \in 1 .. tx.next - 1 /\ n <= tx.head
        BY <3>1, <2>1, <2>2 DEF CommitInv, RowsInv, TxType
      <3>3. Aged(tx.blocks[n].hash, a)
        BY <3>2, <2>1, <1>0 DEF RowsInv, Linked
      <3>4. n \in 1 .. Len(c)
        BY <3>2, <2>1, <1>0, <1>1 DEF RowsInv, Settled, TxType, Follows, Aged
      <3> QED
        BY <3>1, <3>3, <3>4, <2>2, <1>1 DEF Follows
    <2> QED
      BY <2>1, <2>2, <1>0, <1>2 DEF CommitInv
  <1> QED
    BY <1>2, <1>3, <1>4, <1>5, <1>6, <1>7, <1>8, <1>9, <1>10 DEF IndexerInv, SyncInv


LEMMA IndexerInitInv == IndexerInit => IndexerInv
  <1> SUFFICES ASSUME IndexerInit
               PROVE  IndexerInv
    OBVIOUS
  <1>1. ChainInv
    <2>1. PICK B, b : B = [log : BOOLEAN, branch : Nat] /\ b = [log |-> TRUE, branch |-> 0]
      OBVIOUS
    <2>2. b \in B /\ b.branch = 0 /\ chain = <<b>> /\ reorgs = 0
      BY <2>1 DEF IndexerInit
    <2>3. chain \in Seq(B) /\ DOMAIN chain = {1} /\ chain[1] = b /\ Len(chain) = 1
      BY <2>2
    <2> QED
      BY <2>1, <2>2, <2>3, IndexerConstants DEF ChainInv, Aged
  <1>2. DOMAIN blocks = 1 .. 0 /\ logs = {}
    BY DEF IndexerInit
  <1>3. CursorInv
    BY DEF IndexerInit, NoCursor, CursorInv
  <1>4. JournalInv
    <2>1. Linked(blocks, 0, reorgs) /\ Owned(blocks, logs) /\ Complete(blocks, logs, 0)
          /\ Stamped(blocks, logs, chain)
      BY <1>2 DEF Linked, Owned, Complete, Stamped
    <2>2. cursor.last <= 0 /\ 0 \in Nat
      BY DEF IndexerInit, NoCursor
    <2> QED
      BY <2>1, <2>2 DEF JournalInv
  <1>5. TxType /\ SyncInv
    BY IndexerConstants DEF IndexerInit, NoTx, TxType, TxFields, SyncInv
  <1> QED
    BY <1>1, <1>3, <1>4, <1>5 DEF IndexerInv

(* A sync that ends without a commit leaves the journal as it was. *)
LEMMA SyncEnds ==
    ASSUME IndexerInv, tx' = NoTx, UNCHANGED <<chain, reorgs, db>>
    PROVE  IndexerInv'
  <1>1. UNCHANGED <<chain, reorgs, blocks, logs, cursor>>
    BY DEF db
  <1>2. ChainInv' /\ CursorInv' /\ JournalInv'
    BY <1>1 DEF IndexerInv, ChainInv, CursorInv, JournalInv
  <1>3. TxType' /\ SyncInv'
    BY IndexerConstants DEF NoTx, TxType, TxFields, SyncInv
  <1> QED
    BY <1>2, <1>3 DEF IndexerInv

LEMMA BeginStep ==
    ASSUME IndexerInv, NEW lag \in 0 .. NodeLag, Begin(lag)
    PROVE  IndexerInv'
  <1>0. UNCHANGED <<chain, reorgs, blocks, logs, cursor>> /\ Len(chain) \in Nat
    BY DEF Begin, db, IndexerInv, ChainInv, Aged
  <1>1. ChainInv' /\ CursorInv' /\ JournalInv'
    BY <1>0 DEF IndexerInv, ChainInv, CursorInv, JournalInv
  <1>2. PICK head \in Nat : head = (IF Len(chain) > lag THEN Len(chain) - lag ELSE 0) /\ head <= Len(chain)
    BY <1>0
  <1>3. PICK end \in Nat : end = LesserOf(head, cursor.last + ChunkSize) /\ end <= head
    BY IndexerConstants DEF LesserOf, IndexerInv, CursorInv
  <1>4. CASE cursor.exists
    <2>1. /\ DOMAIN tx' = TxFields /\ tx'.pc = "walk" /\ tx'.lag = lag /\ tx'.head = head
          /\ tx'.last = cursor.last /\ tx'.end = end /\ tx'.next = cursor.last
          /\ tx'.blocks = UpTo(blocks, cursor.last) /\ tx'.logs = LogsUpTo(logs, cursor.last)
      BY <1>2, <1>3, <1>4 DEF Begin, TxFields
    <2>2. TxType'
      BY <2>1 DEF TxType, IndexerInv, CursorInv
    <2>3. WalkInv'
      BY <2>1, <1>0, <1>2, <1>4 DEF WalkInv, IndexerInv, CursorInv
    <2> QED
      BY <1>1, <2>1, <2>2, <2>3 DEF IndexerInv, SyncInv
  <1>5. CASE ~cursor.exists
    <2>1. /\ DOMAIN tx' = TxFields /\ tx'.pc = "read" /\ tx'.lag = lag /\ tx'.head = head
          /\ tx'.last = cursor.last /\ tx'.end = end /\ tx'.next = 1
          /\ tx'.blocks = blocks /\ tx'.logs = logs
      BY <1>2, <1>3, <1>5 DEF Begin, TxFields
    <2>2. TxType'
      BY <2>1 DEF TxType, IndexerInv, CursorInv
    <2>3. /\ Linked(blocks, 0, reorgs) /\ Owned(blocks, logs) /\ Complete(blocks, logs, 0)
          /\ Stamped(blocks, logs, chain) /\ cursor.last = 0
      BY <1>5 DEF IndexerInv, JournalInv, CursorInv
    <2>4. Settled(blocks, head, chain)
      BY <2>3, <1>2 DEF Settled, Linked
    <2>5. RowsInv' /\ ReadInv'
      BY <2>1, <2>3, <2>4, <1>0, <1>2, <1>3 DEF RowsInv, ReadInv
    <2> QED
      BY <1>1, <2>1, <2>2, <2>5 DEF IndexerInv, SyncInv
  <1> QED
    BY <1>4, <1>5

(* A block the node gave is one of the chain. *)
LEMMA GetBlockIs ==
    ASSUME IndexerInv, NEW n \in Nat, GetBlock(n) # NoBlock
    PROVE  /\ n \in 1 .. Len(chain) /\ GetBlock(n) = Hash(chain, n)
           /\ Aged(GetBlock(n), reorgs) /\ Len(GetBlock(n)) = n
  <1>1. Len(chain) \in Nat /\ Aged(chain, reorgs) /\ tx.lag \in Nat
    BY IndexerConstants DEF IndexerInv, ChainInv, Aged, TxType
  <1>2. n \in 1 .. NodeHead /\ GetBlock(n) = Hash(chain, n)
    BY DEF GetBlock
  <1>3. n \in 1 .. Len(chain)
    BY <1>1, <1>2 DEF NodeHead
  <1>4. n \in 0 .. Len(chain)
    BY <1>1, <1>3
  <1> QED
    BY <1>1, <1>2, <1>3, <1>4, HashIs

(* The rows under a row that the chain still has are canonical. *)
LEMMA AncestorSettles ==
    ASSUME IndexerInv, NEW rows, NEW n \in Nat, Linked(rows, n, reorgs),
           n = 0 \/ (n <= Len(chain) /\ rows[n].hash = Hash(chain, n)),
           NEW head, head <= Len(chain)
    PROVE  Settled(rows, head, chain)
  <1>1. \A k \in 1 .. n : rows[k].hash = Hash(chain, k)
    <2>1. CASE n = 0
      BY <2>1
    <2>2. CASE n # 0
      <3>1. n \in 1 .. n /\ Aged(chain, reorgs)
        BY <2>2 DEF IndexerInv, ChainInv
      <3> QED
        BY <2>2, <3>1, LinkedBelow
    <2> QED
      BY <2>1, <2>2
  <1> QED
    BY <1>1 DEF Settled, Linked

LEMMA WalkStep ==
    ASSUME IndexerInv, Walk
    PROVE  IndexerInv'
  <1> PICK n : n = tx.next
    OBVIOUS
  <1>0. /\ tx.pc = "walk" /\ WalkInv /\ TxType /\ n \in Nat /\ UNCHANGED <<chain, reorgs>>
        /\ n <= cursor.last /\ cursor.last \in Nat
    BY DEF Walk, Step, IndexerInv, SyncInv, WalkInv, TxType, CursorInv
  <1>1. PICK m \in Nat :
           /\ Linked(blocks, m, reorgs) /\ Owned(blocks, logs)
           /\ Complete(blocks, logs, m) /\ Stamped(blocks, logs, chain)
           /\ cursor.last <= m
    BY DEF IndexerInv, JournalInv
  <1>2. n \in 0 .. m /\ n \in 0 .. cursor.last /\ DOMAIN blocks = 1 .. m
    BY <1>0, <1>1 DEF Linked
  <1>3. CASE Exit
    BY <1>0, <1>3, SyncEnds DEF Exit
  <1>4. CASE tx' = [tx EXCEPT !.next = n - 1] /\ n # 0 /\ UNCHANGED <<db, loop, discrepancy>>
    <2>1. UNCHANGED <<blocks, logs, cursor>>
      BY <1>4 DEF db
    <2>2. ChainInv' /\ CursorInv' /\ JournalInv'
      BY <1>0, <2>1 DEF IndexerInv, ChainInv, CursorInv, JournalInv
    <2>3. /\ DOMAIN tx' = TxFields /\ tx'.pc = "walk" /\ tx'.lag = tx.lag /\ tx'.head = tx.head
          /\ tx'.last = tx.last /\ tx'.end = tx.end /\ tx'.next = n - 1
          /\ tx'.blocks = tx.blocks /\ tx'.logs = tx.logs
      BY <1>0, <1>4 DEF TxType, TxFields
    <2>4. n - 1 \in Nat /\ n - 1 <= cursor.last
      BY <1>0, <1>4
    <2>5. TxType'
      BY <1>0, <2>3, <2>4 DEF TxType
    <2>6. WalkInv'
      BY <1>0, <2>1, <2>3, <2>4 DEF WalkInv
    <2> QED
      BY <2>2, <2>3, <2>5, <2>6 DEF IndexerInv, SyncInv
  <1>5. CASE /\ n = 0 \/ (n \in DOMAIN tx.blocks /\ GetBlock(n) = tx.blocks[n].hash)
             /\ tx' = [tx EXCEPT !.pc = "read", !.last = n, !.next = n + 1,
                                 !.end = LesserOf(tx.head, n + ChunkSize),
                                 !.blocks = IF n < tx.last THEN UpTo(@, n) ELSE @,
                                 !.logs = IF n < tx.last THEN LogsUpTo(@, n) ELSE @]
             /\ UNCHANGED <<db, loop, discrepancy>>
    <2>1. UNCHANGED <<blocks, logs, cursor>>
      BY <1>5 DEF db
    <2>2. ChainInv' /\ CursorInv' /\ JournalInv'
      BY <1>0, <2>1 DEF IndexerInv, ChainInv, CursorInv, JournalInv
    <2>3. PICK rows, set : rows = UpTo(blocks, n) /\ set = LogsUpTo(logs, n)
      OBVIOUS
    <2>4. rows = (IF n < tx.last THEN UpTo(tx.blocks, n) ELSE tx.blocks)
      <3>1. CASE n < tx.last
        BY <3>1, <1>0, <1>1, <1>2, <2>3, UpToAll DEF WalkInv
      <3>2. CASE ~(n < tx.last)
        <4>1. n = cursor.last
          BY <3>2, <1>0 DEF WalkInv
        <4> QED
          BY <3>2, <4>1, <2>3, <1>0 DEF WalkInv
      <3> QED
        BY <3>1, <3>2
    <2>5. set = (IF n < tx.last THEN LogsUpTo(tx.logs, n) ELSE tx.logs)
      <3>1. CASE n < tx.last
        <4>1. \A r \in logs : r.number \in Nat
          BY <1>1, <1>2 DEF Owned
        <4>2. LogsUpTo(LogsUpTo(logs, cursor.last), n) = LogsUpTo(logs, n)
          BY <4>1, <1>0 DEF LogsUpTo
        <4> QED
          BY <3>1, <4>2, <2>3, <1>0 DEF WalkInv
      <3>2. CASE ~(n < tx.last)
        <4>1. n = cursor.last
          BY <3>2, <1>0 DEF WalkInv
        <4> QED
          BY <3>2, <4>1, <2>3, <1>0 DEF WalkInv
      <3> QED
        BY <3>1, <3>2
    <2>6. PICK end \in Nat : end = LesserOf(tx.head, n + ChunkSize) /\ end <= tx.head
      BY <1>0, IndexerConstants DEF LesserOf, TxType
    <2>7. /\ DOMAIN tx' = TxFields /\ tx'.pc = "read" /\ tx'.lag = tx.lag /\ tx'.head = tx.head
          /\ tx'.last = n /\ tx'.end = end /\ tx'.next = n + 1
          /\ tx'.blocks = rows /\ tx'.logs = set
      BY <1>0, <1>5, <2>4, <2>5, <2>6 DEF TxType, TxFields
    <2>8. TxType'
      BY <1>0, <2>6, <2>7 DEF TxType
    <2>9. Linked(rows, n, reorgs) /\ Owned(rows, set) /\ Complete(rows, set, n) /\ Stamped(rows, set, chain)
      BY <1>1, <1>2, <2>3, LinkedUpTo, LogsBelow, StampedUpTo
    <2>10. n = 0 \/ (n <= Len(chain) /\ rows[n].hash = Hash(chain, n))
      <3> SUFFICES ASSUME n # 0
                   PROVE  n <= Len(chain) /\ rows[n].hash = Hash(chain, n)
        OBVIOUS
      <3>1. n \in 1 .. n /\ n \in 1 .. m /\ n \in 1 .. cursor.last /\ cursor.last \in 0 .. m
        BY <1>0, <1>1, <1>2
      <3>2. rows[n] = blocks[n] /\ tx.blocks[n] = blocks[n]
        BY <1>0, <1>2, <2>3, <3>1, UpToIs DEF WalkInv
      <3>3. Len(blocks[n].hash) = n /\ GetBlock(n) = blocks[n].hash
        BY <1>1, <1>5, <3>1, <3>2 DEF Linked
      <3>4. GetBlock(n) # NoBlock
        <4>1. Len(NoBlock) = 0
          BY DEF NoBlock
        <4> QED
          BY <4>1, <3>3
      <3>5. n \in 1 .. Len(chain) /\ GetBlock(n) = Hash(chain, n)
        BY <3>4, <1>0, GetBlockIs
      <3>6. Len(chain) \in Nat
        BY DEF IndexerInv, ChainInv, Aged
      <3> QED
        BY <3>2, <3>3, <3>5, <3>6
    <2>11. Settled(rows, tx.head, chain)
      BY <1>0, <2>9, <2>10, AncestorSettles DEF WalkInv
    <2>12. RowsInv' /\ ReadInv'
      <3>1. n + 1 - 1 = n /\ n < n + 1
        BY <1>0
      <3> QED
        BY <3>1, <1>0, <2>6, <2>7, <2>9, <2>11 DEF RowsInv, ReadInv
    <2> QED
      BY <2>2, <2>7, <2>8, <2>12 DEF IndexerInv, SyncInv
  <1> QED
    BY <1>3, <1>4, <1>5 DEF Walk


(* The tables, in a step that changes neither them nor the chain. *)
LEMMA TablesKept ==
    ASSUME IndexerInv, UNCHANGED <<chain, reorgs, db>>
    PROVE  ChainInv' /\ CursorInv' /\ JournalInv' /\ UNCHANGED <<blocks, logs, cursor>>
  <1>1. UNCHANGED <<chain, reorgs, blocks, logs, cursor>>
    BY DEF db
  <1> QED
    BY <1>1 DEF IndexerInv, ChainInv, CursorInv, JournalInv

LEMMA ReadBlockStep ==
    ASSUME IndexerInv, ReadBlock
    PROVE  IndexerInv'
  <1> PICK n : n = tx.next
    OBVIOUS
  <1> PICK block : block = GetBlock(n)
    OBVIOUS
  <1>0. /\ tx.pc = "read" /\ RowsInv /\ ReadInv /\ TxType /\ UNCHANGED <<chain, reorgs>>
        /\ n \in Nat \ {0} /\ n <= tx.end /\ tx.last < n /\ tx.last \in Nat /\ tx.end \in Nat
    BY DEF ReadBlock, Step, IndexerInv, SyncInv, RowsInv, TxType
  <1>1. CASE Retry \/ Exit
    BY <1>0, <1>1, SyncEnds DEF Retry, Exit
  <1>2. CASE /\ block # NoBlock
             /\ n - 1 \in DOMAIN tx.blocks => Hash(block, n - 1) = tx.blocks[n - 1].hash
             /\ tx' = [tx EXCEPT !.next = n + 1, !.blocks = WithRow(@, n, block)]
             /\ UNCHANGED <<db, loop, discrepancy>>
    <2>1. ChainInv' /\ CursorInv' /\ JournalInv'
      BY <1>0, <1>2, TablesKept
    <2>2. PICK old, set : old = tx.blocks /\ set = tx.logs
      OBVIOUS
    <2>3. PICK rows : rows = WithRow(old, n, block)
      OBVIOUS
    <2>4. /\ DOMAIN tx' = TxFields /\ tx'.pc = "read" /\ tx'.lag = tx.lag /\ tx'.head = tx.head
          /\ tx'.last = tx.last /\ tx'.end = tx.end /\ tx'.next = n + 1
          /\ tx'.blocks = rows /\ tx'.logs = set
      BY <1>0, <1>2, <2>2, <2>3 DEF TxType, TxFields
    <2>5. /\ Linked(old, n - 1, reorgs) /\ Owned(old, set) /\ Complete(old, set, tx.last)
          /\ Stamped(old, set, chain) /\ Settled(old, tx.head, chain) /\ DOMAIN old = 1 .. n - 1
      BY <1>0, <2>2 DEF RowsInv, ReadInv, Linked
    <2>6. /\ DOMAIN rows = 1 .. n /\ rows[n].hash = block /\ rows[n].tier = "PENDING"
          /\ \A k \in 1 .. n - 1 : rows[k] = old[k]
      BY <1>0, <2>3, <2>5 DEF WithRow
    <2>7. n \in 1 .. Len(chain) /\ block = Hash(chain, n) /\ Aged(block, reorgs) /\ Len(block) = n
      BY <1>0, <1>2, GetBlockIs
    <2>8. Linked(rows, n, reorgs)
      BY <1>0, <1>2, <2>2, <2>3, <2>5, <2>7, LinkedBlock
    <2>9. Owned(rows, set)
      BY <1>0, <2>5, <2>6 DEF Owned
    <2>10. Complete(rows, set, tx.last)
      <3>1. \A k \in 1 .. tx.last : rows[k] = old[k]
        BY <1>0, <2>6
      <3> QED
        BY <3>1, <2>5 DEF Complete
    <2>11. Stamped(rows, set, chain)
      <3>1. ASSUME NEW k \in 1 .. n, rows[k].tier = "FINALIZED"
            PROVE  Canonical(k, rows[k].hash, chain)
        <4>1. k \in 1 .. n - 1
          BY <1>0, <2>6, <3>1
        <4> QED
          BY <4>1, <2>5, <2>6, <3>1 DEF Stamped
      <3> QED
        BY <3>1, <2>5, <2>6 DEF Stamped
    <2>12. Settled(rows, tx.head, chain)
      <3>1. ASSUME NEW k \in 1 .. n, k + FinalityDepth <= tx.head
            PROVE  rows[k].hash = Hash(chain, k)
        <4>1. CASE k = n
          BY <4>1, <2>6, <2>7
        <4>2. CASE k # n
          <5>1. k \in 1 .. n - 1
            BY <1>0, <4>2
          <5> QED
            BY <5>1, <3>1, <2>5, <2>6 DEF Settled
        <4> QED
          BY <4>1, <4>2
      <3> QED
        BY <3>1, <2>5, <2>6 DEF Settled
    <2>13. n + 1 \in Nat /\ n + 1 - 1 = n /\ tx.last < n + 1 /\ n + 1 <= tx.end + 1
      BY <1>0
    <2>14. TxType'
      BY <1>0, <2>4, <2>13 DEF TxType
    <2>15. RowsInv' /\ ReadInv'
      BY <1>0, <2>4, <2>8, <2>9, <2>10, <2>11, <2>12, <2>13 DEF RowsInv, ReadInv
    <2> QED
      BY <2>1, <2>4, <2>14, <2>15 DEF IndexerInv, SyncInv
  <1> QED
    BY <1>1, <1>2 DEF ReadBlock

(* Logs that were read, row by row, complete a chunk that is still canonical. *)
LEMMA LogsComplete ==
    ASSUME IndexerInv, NEW rows, NEW set, NEW last \in Nat, NEW end \in Nat, last < end, end <= Len(chain),
           Linked(rows, end, reorgs), Complete(rows, set, last), rows[end].hash = Hash(chain, end),
           NEW new, {r.number : r \in new} = EventsOf(Hash(chain, end)) \cap (last + 1 .. end)
    PROVE  Complete(rows, set \union new, end)
  <1>1. Aged(chain, reorgs) /\ end \in 1 .. end /\ end \in 0 .. Len(chain)
    BY DEF IndexerInv, ChainInv, Aged
  <1>2. \A k \in 1 .. end : rows[k].hash = Hash(chain, k)
    BY <1>1, LinkedBelow
  <1>3. ASSUME NEW k \in 1 .. end
        PROVE  k \in EventsOf(rows[k].hash) <=> k \in EventsOf(Hash(chain, end))
    <2>1. k \in 0 .. Len(chain) /\ k \in 1 .. k
      BY <1>1
    <2>2. k \in EventsOf(Hash(chain, k)) <=> k \in EventsOf(chain)
      BY <2>1, <1>1, HashEvents
    <2>3. k \in EventsOf(Hash(chain, end)) <=> k \in EventsOf(chain)
      BY <1>1, HashEvents
    <2> QED
      BY <1>2, <2>2, <2>3
  <1>4. ASSUME NEW k
        PROVE  (\E r \in set \union new : r.number = k) <=> (k \in 1 .. end /\ k \in EventsOf(rows[k].hash))
    <2>1. (\E r \in set : r.number = k) <=> (k \in 1 .. last /\ k \in EventsOf(rows[k].hash))
      BY DEF Complete
    <2>2. (\E r \in new : r.number = k) <=> (k \in EventsOf(Hash(chain, end)) /\ k \in last + 1 .. end)
      <3>1. (\E r \in new : r.number = k) <=> k \in {r.number : r \in new}
        OBVIOUS
      <3> QED
        BY <3>1
    <2>3. k \in 1 .. end <=> (k \in 1 .. last \/ k \in last + 1 .. end)
      OBVIOUS
    <2> QED
      BY <2>1, <2>2, <2>3, <1>3
  <1> QED
    BY <1>4 DEF Complete

LEMMA ReadLogsStep ==
    ASSUME IndexerInv, ReadLogs
    PROVE  IndexerInv'
  <1> PICK found : found = EventsOf(Hash(chain, tx.end)) \cap (tx.last + 1 .. tx.end)
    OBVIOUS
  <1>0. /\ tx.pc = "read" /\ RowsInv /\ ReadInv /\ TxType /\ UNCHANGED <<chain, reorgs>>
        /\ tx.next \in Nat /\ tx.last \in Nat /\ tx.end \in Nat /\ tx.head \in Nat
        /\ tx.next > tx.end /\ tx.last < tx.next
        /\ tx.next = tx.last + 1 \/ tx.next <= tx.end + 1
        /\ tx.end <= tx.head
    BY DEF ReadLogs, Step, IndexerInv, SyncInv, RowsInv, ReadInv, TxType
  <1>1. CASE Retry
    BY <1>0, <1>1, SyncEnds DEF Retry
  <1>2. CASE /\ \A n \in found : Hash(chain, n) = tx.blocks[n].hash
             /\ tx' = [tx EXCEPT !.pc = "commit",
                          !.logs = @ \cup {[number |-> n, hash |-> tx.blocks[n].hash, tier |-> "PENDING"] : n \in found}]
             /\ UNCHANGED <<db, loop, discrepancy>>
    <2>1. ChainInv' /\ CursorInv' /\ JournalInv'
      BY <1>0, <1>2, TablesKept
    <2>2. PICK rows, set : rows = tx.blocks /\ set = tx.logs
      OBVIOUS
    <2>3. PICK new : new = {[number |-> n, hash |-> rows[n].hash, tier |-> "PENDING"] : n \in found}
      OBVIOUS
    <2>4. /\ DOMAIN tx' = TxFields /\ tx'.pc = "commit" /\ tx'.lag = tx.lag /\ tx'.head = tx.head
          /\ tx'.last = tx.last /\ tx'.end = tx.end /\ tx'.next = tx.next
          /\ tx'.blocks = rows /\ tx'.logs = set \union new
      BY <1>0, <1>2, <2>2, <2>3 DEF TxType, TxFields
    <2>5. /\ Linked(rows, tx.next - 1, reorgs) /\ Owned(rows, set) /\ Complete(rows, set, tx.last)
          /\ Stamped(rows, set, chain) /\ Settled(rows, tx.head, chain)
          /\ DOMAIN rows = 1 .. tx.next - 1
      BY <1>0, <2>2 DEF RowsInv, ReadInv, Linked
    <2>6. \A r \in new : r.number \in found /\ r.hash = rows[r.number].hash /\ r.tier = "PENDING"
      BY <2>3
    <2>7. {r.number : r \in new} = found
      <3>1. ASSUME NEW n \in found
            PROVE  \E r \in new : r.number = n
        <4>1. PICK r : r = [number |-> n, hash |-> rows[n].hash, tier |-> "PENDING"]
          OBVIOUS
        <4>2. r \in new /\ r.number = n
          BY <4>1, <2>3
        <4> QED
          BY <4>2
      <3> QED
        BY <2>6, <3>1
    <2>8. found \subseteq 1 .. tx.next - 1
      BY <1>0
    <2>9. Owned(rows, set \union new)
      BY <2>5, <2>6, <2>8 DEF Owned
    <2>10. Stamped(rows, set \union new, chain)
      BY <2>5, <2>6 DEF Stamped
    <2>11. TxType' /\ RowsInv'
      BY <1>0, <2>4, <2>5, <2>9, <2>10 DEF TxType, RowsInv
    <2>12. CommitInv'
      <3>1. CASE tx.end > tx.last
        <4>1. tx.next = tx.end + 1 /\ tx.end = tx.next - 1
          BY <1>0, <3>1
        <4>2. tx.end <= Len(chain)
          BY <1>0, <2>5 DEF Settled, IndexerInv, ChainInv, Aged
        <4>3. ASSUME rows[tx.end].hash = Hash(chain, tx.end)
              PROVE  Complete(rows, set \union new, tx.end)
          <5>1. PICK last \in Nat, end \in Nat : last = tx.last /\ end = tx.end
            BY <1>0
          <5>2. last < end /\ end <= Len(chain) /\ Linked(rows, end, reorgs) /\ Complete(rows, set, last)
                /\ rows[end].hash = Hash(chain, end)
                /\ {r.number : r \in new} = EventsOf(Hash(chain, end)) \cap (last + 1 .. end)
            BY <5>1, <3>1, <4>1, <4>2, <4>3, <2>5, <2>7
          <5> QED
            BY <5>1, <5>2, LogsComplete
        <4> QED
          BY <3>1, <4>1, <4>3, <2>4, <1>0 DEF CommitInv
      <3>2. CASE ~(tx.end > tx.last)
        <4>1. tx.next = tx.last + 1 /\ found = {}
          BY <1>0, <3>2
        <4>2. set \union new = set
          BY <4>1, <2>6
        <4> QED
          BY <3>2, <4>1, <4>2, <2>4, <2>5 DEF CommitInv
      <3> QED
        BY <3>1, <3>2
    <2> QED
      BY <2>1, <2>4, <2>11, <2>12 DEF IndexerInv, SyncInv
  <1> QED
    BY <1>1, <1>2 DEF ReadLogs


-----------------------------------------------------------------------------
(* The commit *)

LEMMA TargetIs ==
    ASSUME NEW end \in Nat, NEW head \in Nat
    PROVE  /\ TargetFinal(end, head) \in Nat /\ TargetFinal(end, head) <= end
           /\ TargetFinal(end, head) > 0 => TargetFinal(end, head) + FinalityDepth <= head
  BY IndexerConstants DEF TargetFinal, LesserOf

(* Raising tiers changes nothing else of the journal, and is right for rows *)
(* that are settled.                                                        *)
LEMMA Tiering ==
    ASSUME IndexerInv, NEW rows, NEW set, NEW m \in Nat, NEW head \in Nat, NEW final \in Nat, NEW new, NEW newSet,
           Linked(rows, m, reorgs), Owned(rows, set), Complete(rows, set, m), Stamped(rows, set, chain),
           Settled(rows, head, chain), final > 0 => final + FinalityDepth <= head,
           new = Tiered(rows, final), newSet = TieredLogs(set, final)
    PROVE  /\ Linked(new, m, reorgs) /\ Owned(new, newSet)
           /\ Complete(new, newSet, m) /\ Stamped(new, newSet, chain)
           /\ \A n \in 1 .. m : new[n].hash = rows[n].hash
  <1>0. DOMAIN rows = 1 .. m /\ head <= Len(chain) /\ Len(chain) \in Nat /\ FinalityDepth \in Nat
    BY IndexerConstants DEF Linked, Settled, IndexerInv, ChainInv, Aged
  <1>1. DOMAIN new = 1 .. m
    BY <1>0 DEF Tiered
  <1>2. ASSUME NEW n \in 1 .. m
        PROVE  /\ new[n].hash = rows[n].hash
               /\ new[n].tier = (IF n <= final THEN "FINALIZED" ELSE rows[n].tier)
    BY <1>0 DEF Tiered
  <1>3. ASSUME NEW r \in newSet
        PROVE  \E l \in set : /\ r.number = l.number /\ r.hash = l.hash
                              /\ r.tier = (IF l.number <= final THEN "FINALIZED" ELSE l.tier)
    <2>1. PICK l \in set : r = [number |-> l.number, hash |-> l.hash,
                               tier |-> IF l.number <= final THEN "FINALIZED" ELSE l.tier]
      BY <1>3 DEF TieredLogs
    <2> QED
      BY <2>1
  <1>4. ASSUME NEW l \in set
        PROVE  \E r \in newSet : r.number = l.number
    <2>1. PICK r : r = [number |-> l.number, hash |-> l.hash,
                       tier |-> IF l.number <= final THEN "FINALIZED" ELSE l.tier]
      OBVIOUS
    <2>2. r \in newSet
      BY <2>1 DEF TieredLogs
    <2>3. r.number = l.number
      BY <2>1
    <2> QED
      BY <2>2, <2>3
  <1>5. Linked(new, m, reorgs)
    BY <1>1, <1>2 DEF Linked
  <1>6. Owned(new, newSet)
    <2> SUFFICES ASSUME NEW r \in newSet
                 PROVE  r.number \in 1 .. m /\ r.hash = new[r.number].hash
      BY <1>1 DEF Owned
    <2>1. PICK l \in set : r.number = l.number /\ r.hash = l.hash
      BY <1>3
    <2>2. l.number \in 1 .. m /\ l.hash = rows[l.number].hash
      BY <1>0 DEF Owned
    <2> QED
      BY <2>1, <2>2, <1>2
  <1>7. Complete(new, newSet, m)
    <2>1. {r.number : r \in newSet} = {r.number : r \in set}
      BY <1>3, <1>4
    <2>2. {k \in 1 .. m : k \in EventsOf(new[k].hash)} = {k \in 1 .. m : k \in EventsOf(rows[k].hash)}
      BY <1>2
    <2> QED
      BY <2>1, <2>2 DEF Complete
  <1>8. ASSUME NEW n \in 1 .. m, n <= final
        PROVE  Canonical(n, rows[n].hash, chain)
    <2>1. n + FinalityDepth <= head /\ n + FinalityDepth <= Len(chain)
      BY <1>0, <1>8
    <2> QED
      BY <2>1, <1>0 DEF Settled, Canonical
  <1>9. Stamped(new, newSet, chain)
    <2>1. ASSUME NEW n \in 1 .. m, new[n].tier = "FINALIZED"
          PROVE  Canonical(n, new[n].hash, chain)
      <3>1. CASE n <= final
        BY <3>1, <1>2, <1>8
      <3>2. CASE ~(n <= final)
        BY <3>2, <2>1, <1>0, <1>2 DEF Stamped
      <3> QED
        BY <3>1, <3>2
    <2>2. ASSUME NEW r \in newSet, r.tier = "FINALIZED"
          PROVE  Canonical(r.number, r.hash, chain)
      <3>1. PICK l \in set : /\ r.number = l.number /\ r.hash = l.hash
                             /\ r.tier = (IF l.number <= final THEN "FINALIZED" ELSE l.tier)
        BY <1>3
      <3>2. l.number \in 1 .. m /\ l.hash = rows[l.number].hash
        BY <1>0 DEF Owned
      <3>3. CASE l.number <= final
        BY <3>1, <3>2, <3>3, <1>8
      <3>4. CASE ~(l.number <= final)
        BY <3>1, <3>4, <2>2 DEF Stamped
      <3> QED
        BY <3>3, <3>4
    <2> QED
      BY <2>1, <2>2, <1>1 DEF Stamped
  <1> QED
    BY <1>1, <1>2, <1>3, <1>5, <1>6, <1>7, <1>9

LEMMA CommitStep ==
    ASSUME IndexerInv, Commit
    PROVE  IndexerInv'
  <1>0. /\ tx.pc = "commit" /\ RowsInv /\ CommitInv /\ TxType /\ UNCHANGED <<chain, reorgs>>
        /\ tx.next \in Nat /\ tx.last \in Nat /\ tx.end \in Nat /\ tx.head \in Nat /\ tx.lag \in 0 .. NodeLag
        /\ tx.last < tx.next
    BY DEF Commit, Step, IndexerInv, SyncInv, RowsInv, TxType
  <1>1. CASE Retry
    BY <1>0, <1>1, SyncEnds DEF Retry
  <1>2. CASE tx' = NoTx /\ UNCHANGED <<db, discrepancy>>
    BY <1>0, <1>2, SyncEnds
  <1>3. CASE /\ tx.end > tx.last => GetBlock(tx.end) = tx.blocks[tx.end].hash
             /\ tx.end >= 1
             /\ blocks' = Tiered(tx.blocks, TargetFinal(tx.end, tx.head))
             /\ logs' = TieredLogs(tx.logs, TargetFinal(tx.end, tx.head))
             /\ cursor' = [exists |-> TRUE, last |-> tx.end, finalized |-> TargetFinal(tx.end, tx.head)]
             /\ tx' = IF tx.end = tx.head THEN [NoTx EXCEPT !.pc = "reconcile", !.lag = tx.lag] ELSE NoTx
    <2>1. PICK rows, set, new, newSet : rows = tx.blocks /\ set = tx.logs /\ new = blocks' /\ newSet = logs'
      OBVIOUS
    <2>2. PICK final \in Nat : /\ final = TargetFinal(tx.end, tx.head) /\ final <= tx.end
                               /\ final > 0 => final + FinalityDepth <= tx.head
      BY <1>0, TargetIs
    <2>3. PICK m \in Nat : m = tx.next - 1
      BY <1>0
    <2>4. /\ Linked(rows, m, reorgs) /\ Owned(rows, set) /\ Stamped(rows, set, chain)
          /\ Settled(rows, tx.head, chain)
      BY <1>0, <2>1, <2>3 DEF RowsInv
    <2>5. Complete(rows, set, m) /\ tx.end <= m
      <3>1. CASE tx.end > tx.last
        <4>1. m = tx.end /\ tx.end \in 1 .. m
          BY <1>0, <1>3, <2>3, <3>1 DEF CommitInv
        <4>2. Len(rows[m].hash) = m
          BY <2>4, <4>1 DEF Linked
        <4>3. GetBlock(m) = rows[m].hash
          BY <1>3, <2>1, <3>1, <4>1
        <4>4. GetBlock(m) # NoBlock
          <5>1. Len(NoBlock) = 0
            BY DEF NoBlock
          <5> QED
            BY <5>1, <4>1, <4>2, <4>3
        <4>5. rows[m].hash = Hash(chain, m)
          BY <4>3, <4>4, GetBlockIs
        <4> QED
          BY <1>0, <2>1, <3>1, <4>1, <4>5 DEF CommitInv
      <3>2. CASE ~(tx.end > tx.last)
        <4>1. m = tx.last /\ Complete(rows, set, m)
          BY <1>0, <2>1, <2>3, <3>2 DEF CommitInv
        <4> QED
          BY <1>0, <3>2, <4>1
      <3> QED
        BY <3>1, <3>2
    <2>6. new = Tiered(rows, final) /\ newSet = TieredLogs(set, final)
      BY <1>3, <2>1, <2>2
    <2>7. /\ Linked(new, m, reorgs) /\ Owned(new, newSet)
          /\ Complete(new, newSet, m) /\ Stamped(new, newSet, chain)
          /\ \A n \in 1 .. m : new[n].hash = rows[n].hash
      <3>1. tx.head \in Nat
        BY <1>0
      <3> QED
        BY <2>2, <2>4, <2>5, <2>6, <3>1, Tiering
    <2>8. /\ cursor'.exists = TRUE /\ cursor'.last = tx.end /\ cursor'.finalized = final
          /\ cursor' \in [exists : BOOLEAN, last : Nat, finalized : Nat]
      BY <1>0, <1>3, <2>2
    <2>9. ChainInv'
      BY <1>0 DEF IndexerInv, ChainInv
    <2>10. final > 0 => Canonical(final, new[final].hash, chain)
      <3> SUFFICES ASSUME final > 0
                   PROVE  Canonical(final, new[final].hash, chain)
        OBVIOUS
      <3>1. final \in 1 .. m /\ final + FinalityDepth <= tx.head
        BY <2>2, <2>5, <1>0
      <3>2. tx.head <= Len(chain) /\ Len(chain) \in Nat /\ final + FinalityDepth \in Nat
        BY <2>4, IndexerConstants DEF Settled, IndexerInv, ChainInv, Aged
      <3>3. final + FinalityDepth <= Len(chain)
        BY <1>0, <3>1, <3>2
      <3>4. new[final].hash = Hash(chain, final)
        BY <3>1, <2>4, <2>7 DEF Settled, Linked
      <3> QED
        BY <3>3, <3>4 DEF Canonical
    <2>11. CursorInv'
      BY <1>0, <1>3, <2>1, <2>2, <2>8, <2>10 DEF CursorInv
    <2>12. JournalInv'
      BY <1>0, <2>1, <2>5, <2>7, <2>8 DEF JournalInv
    <2>13. TxType' /\ SyncInv'
      <3>1. /\ DOMAIN tx' = TxFields /\ tx'.pc \in {"idle", "reconcile"} /\ tx'.lag \in 0 .. NodeLag
            /\ tx'.head = 0 /\ tx'.last = 0 /\ tx'.end = 0 /\ tx'.next = 0
        BY <1>0, <1>3, IndexerConstants DEF NoTx, TxFields
      <3> QED
        BY <3>1 DEF TxType, SyncInv
    <2> QED
      BY <2>9, <2>11, <2>12, <2>13 DEF IndexerInv
  <1> QED
    BY <1>1, <1>2, <1>3 DEF Commit

LEMMA IndexerNextInv == IndexerInv /\ [IndexerNext]_indexerVars => IndexerInv'
  <1> SUFFICES ASSUME IndexerInv, [IndexerNext]_indexerVars
               PROVE  IndexerInv'
    OBVIOUS
  <1>1. ASSUME NEW carries \in BOOLEAN, Grow(carries)
        PROVE  IndexerInv'
    <2>1. ChainInv /\ UNCHANGED <<db, tx>>
      BY <1>1 DEF IndexerInv, Grow
    <2>2. Follows(chain, chain', reorgs, reorgs')
      BY <1>1, <2>1, GrowFollows
    <2>3. Len(chain') <= MaxBlocks
      <3>1. PICK B, b : B = [log : BOOLEAN, branch : Nat] /\ b = Block(carries)
        OBVIOUS
      <3>2. chain \in Seq(B) /\ chain' = Append(chain, b) /\ Len(chain) < MaxBlocks
        BY <1>1, <2>1, <3>1 DEF ChainInv, Aged, Grow
      <3>3. Len(chain') = Len(chain) + 1 /\ Len(chain) \in Nat
        BY <3>2
      <3> QED
        BY <3>2, <3>3, IndexerConstants
    <2> QED
      BY <2>1, <2>2, <2>3, ChainMoves
  <1>2. ASSUME NEW fork \in 0 .. MaxBlocks, NEW suffix \in [1 .. MaxBlocks -> BOOLEAN], Reorg(fork, suffix)
        PROVE  IndexerInv'
    <2>1. ChainInv /\ UNCHANGED <<db, tx>> /\ fork \in Nat
      BY <1>2, IndexerConstants DEF IndexerInv, Reorg
    <2>2. Follows(chain, chain', reorgs, reorgs') /\ Len(chain') = Len(chain)
      BY <1>2, <2>1, ReorgFollows
    <2>3. Len(chain') <= MaxBlocks
      BY <2>1, <2>2 DEF ChainInv
    <2> QED
      BY <2>1, <2>2, <2>3, ChainMoves
  <1>3. ASSUME NEW lag \in 0 .. NodeLag, Begin(lag)
        PROVE  IndexerInv'
    BY <1>3, BeginStep
  <1>4. CASE Walk
    BY <1>4, WalkStep
  <1>5. CASE ReadBlock
    BY <1>5, ReadBlockStep
  <1>6. CASE ReadLogs
    BY <1>6, ReadLogsStep
  <1>7. CASE Commit
    BY <1>7, CommitStep
  <1>8. CASE Reconcile \/ RpcFault \/ Restart
    <2>1. tx' = NoTx /\ UNCHANGED <<chain, reorgs, db>>
      BY <1>8 DEF Reconcile, RpcFault, Restart, Step, Exit, Retry
    <2> QED
      BY <2>1, SyncEnds
  <1>9. CASE UNCHANGED indexerVars
    BY <1>9 DEF indexerVars, db, IndexerInv, ChainInv, CursorInv, JournalInv, TxType, SyncInv, WalkInv, RowsInv,
       ReadInv, CommitInv
  <1>10. 0 \in 0 .. NodeLag /\ 1 .. NodeLag \subseteq 0 .. NodeLag
    BY IndexerConstants
  <1> QED
    BY <1>1, <1>2, <1>3, <1>4, <1>5, <1>6, <1>7, <1>8, <1>9, <1>10 DEF IndexerNext, Indexer

-----------------------------------------------------------------------------
LEMMA JournalIsSound == IndexerInv => JournalSound
  <1> SUFFICES ASSUME IndexerInv, cursor.exists
               PROVE  LET tip == blocks[cursor.last].hash
                      IN  /\ \A n \in 1 .. cursor.last : blocks[n].hash = Hash(tip, n)
                          /\ {r.number : r \in LogsUpTo(logs, cursor.last)} = EventsOf(tip)
                          /\ \A r \in LogsUpTo(logs, cursor.last) : r.hash = blocks[r.number].hash
    BY DEF JournalSound
  <1>1. PICK m \in Nat :
           /\ Linked(blocks, m, reorgs) /\ Owned(blocks, logs) /\ Complete(blocks, logs, m)
           /\ cursor.last <= m
    BY DEF IndexerInv, JournalInv
  <1>2. PICK n \in Nat : n = cursor.last /\ n > 0 /\ n <= m /\ n \in 1 .. m /\ n \in 0 .. m
    BY <1>1 DEF IndexerInv, CursorInv
  <1>3. PICK tip : tip = blocks[n].hash
    OBVIOUS
  <1>4. /\ Aged(tip, reorgs) /\ Len(tip) = n /\ DOMAIN blocks = 1 .. m
        /\ \A k \in 1 .. n : blocks[k].hash = Hash(tip, k)
    BY <1>1, <1>2, <1>3 DEF Linked
  <1>5. {r.number : r \in LogsUpTo(logs, n)} = EventsOf(tip)
    <2>1. PICK rows : rows = UpTo(blocks, n)
      OBVIOUS
    <2>2. \A k \in 1 .. n : rows[k] = blocks[k]
      BY <1>2, <1>4, <2>1, UpToIs
    <2>3. Complete(rows, LogsUpTo(logs, n), n)
      BY <1>1, <1>2, <2>1, LogsBelow
    <2>4. ASSUME NEW k \in 1 .. n
          PROVE  k \in EventsOf(rows[k].hash) <=> k \in EventsOf(tip)
      <3>1. k \in 0 .. Len(tip) /\ k \in 1 .. k
        BY <1>4
      <3>2. k \in EventsOf(Hash(tip, k)) <=> k \in EventsOf(tip)
        BY <3>1, <1>4, HashEvents
      <3> QED
        BY <3>2, <1>4, <2>2
    <2>5. EventsOf(tip) \subseteq 1 .. n
      BY <1>4, EventsWithin
    <2>6. {k \in 1 .. n : k \in EventsOf(rows[k].hash)} = EventsOf(tip)
      BY <2>4, <2>5
    <2> QED
      BY <2>3, <2>6 DEF Complete
  <1>6. \A r \in LogsUpTo(logs, n) : r.hash = blocks[r.number].hash
    BY <1>1 DEF LogsUpTo, Owned
  <1> QED
    BY <1>2, <1>3, <1>4, <1>5, <1>6

LEMMA AlwaysIndexerInv == IndexerSpec => []IndexerInv
  BY IndexerInitInv, IndexerNextInv, PTL DEF IndexerSpec

(* The journal (ChainIndexer.sync), for any finality depth, chunk size and *)
(* node lag, and for every way the chain moves between the calls of a sync:*)
(* up to the cursor it is one chain of blocks and holds exactly the logs   *)
(* of those blocks.                                                        *)
THEOREM JournalAlwaysSound == IndexerSpec => []JournalSound
  BY AlwaysIndexerInv, JournalIsSound, PTL

(* A node that trails by no more than the finality depth still has every   *)
(* block that was finalized.                                               *)
LEMMA FinalStillThere ==
    ASSUME IndexerInv, NodeLag <= FinalityDepth, NEW n \in 1 .. cursor.finalized
    PROVE  n \in 1 .. cursor.last /\ n \in DOMAIN blocks /\ GetBlock(n) = blocks[n].hash
  <1>1. PICK m \in Nat : Linked(blocks, m, reorgs) /\ cursor.last <= m
    BY DEF IndexerInv, JournalInv
  <1>2. PICK f \in Nat : f = cursor.finalized /\ f > 0 /\ f <= cursor.last /\ cursor.last \in Nat
    BY DEF IndexerInv, CursorInv
  <1>3. f + FinalityDepth <= Len(chain) /\ blocks[f].hash = Hash(chain, f) /\ Len(chain) \in Nat
        /\ Aged(chain, reorgs) /\ FinalityDepth \in Nat
    BY <1>2, IndexerConstants DEF IndexerInv, CursorInv, Canonical, ChainInv, Aged
  <1>4. f \in 1 .. m /\ f <= Len(chain) /\ n \in 1 .. f /\ n \in 1 .. m
    BY <1>1, <1>2, <1>3
  <1>5. blocks[n].hash = Hash(chain, n)
    BY <1>1, <1>3, <1>4, LinkedBelow
  <1>6. n \in 1 .. NodeHead
    <2>1. tx.lag \in Nat /\ tx.lag <= FinalityDepth
      BY <1>3, IndexerConstants DEF IndexerInv, TxType
    <2>2. n <= Len(chain) - tx.lag /\ Len(chain) > tx.lag
      BY <2>1, <1>3, <1>4
    <2> QED
      BY <2>1, <2>2, <1>3, <1>4 DEF NodeHead
  <1> QED
    BY <1>1, <1>2, <1>4, <1>5, <1>6 DEF GetBlock, Linked

(* No step of a sync ends the process. *)
LEMMA NeverCritical ==
    ASSUME NodeLag <= FinalityDepth, IndexerInv, ~loop.critical, [IndexerNext]_indexerVars
    PROVE  ~loop'.critical
  <1>1. CASE UNCHANGED loop
    BY <1>1
  <1>2. CASE Retry \/ loop' = Healthy
    BY <1>2 DEF Retry, Healthy
  <1>3. CASE Walk
    <2>0. PICK n : n = tx.next
      OBVIOUS
    <2>1. \/ UNCHANGED loop
          \/ n # 0 /\ n <= cursor.finalized /\ ~(n \in DOMAIN tx.blocks /\ GetBlock(n) = tx.blocks[n].hash)
      BY <1>3, <2>0 DEF Walk
    <2>2. ASSUME n # 0, n <= cursor.finalized
          PROVE  n \in DOMAIN tx.blocks /\ GetBlock(n) = tx.blocks[n].hash
      <3>1. tx.blocks = UpTo(blocks, cursor.last) /\ n \in Nat /\ cursor.finalized \in Nat /\ cursor.last \in Nat
        BY <1>3, <2>0 DEF Walk, Step, IndexerInv, SyncInv, WalkInv, TxType, CursorInv
      <3>2. n \in 1 .. cursor.finalized
        BY <2>2, <3>1
      <3>3. n \in 1 .. cursor.last /\ n \in DOMAIN blocks /\ GetBlock(n) = blocks[n].hash
        BY <3>2, FinalStillThere
      <3>4. PICK m \in Nat : Linked(blocks, m, reorgs) /\ cursor.last <= m
        BY DEF IndexerInv, JournalInv
      <3>5. DOMAIN blocks = 1 .. m /\ cursor.last \in 0 .. m
        BY <3>1, <3>4 DEF Linked
      <3>6. DOMAIN tx.blocks = 1 .. cursor.last /\ tx.blocks[n] = blocks[n]
        <4>1. PICK l : l = cursor.last
          OBVIOUS
        <4>2. l \in 0 .. m /\ n \in 1 .. l /\ tx.blocks = UpTo(blocks, l)
          BY <3>1, <3>3, <3>5, <4>1
        <4>3. DOMAIN UpTo(blocks, l) = 1 .. l /\ \A k \in 1 .. l : UpTo(blocks, l)[k] = blocks[k]
          BY <3>5, <4>2, UpToIs
        <4> QED
          BY <4>1, <4>2, <4>3
      <3> QED
        BY <3>3, <3>6
    <2> QED
      BY <2>1, <2>2, <1>1
  <1>4. CASE ReadBlock
    <2>0. PICK n : n = tx.next
      OBVIOUS
    <2>1. UNCHANGED loop \/ Retry \/ n \in DOMAIN tx.blocks
      BY <1>4, <2>0 DEF ReadBlock
    <2>2. n \notin DOMAIN tx.blocks
      <3>1. n \in Nat /\ RowsInv
        BY <1>4, <2>0 DEF ReadBlock, Step, IndexerInv, SyncInv, TxType
      <3>2. DOMAIN tx.blocks = 1 .. n - 1
        BY <3>1, <2>0 DEF RowsInv, Linked
      <3> QED
        BY <3>1, <3>2
    <2> QED
      BY <2>1, <2>2, <1>1, <1>2
  <1>5. CASE Reconcile
    <2>1. \/ UNCHANGED loop
          \/ /\ cursor.finalized \in DOMAIN blocks
             /\ GetBlock(cursor.finalized) # blocks[cursor.finalized].hash
      BY <1>5 DEF Reconcile
    <2>2. cursor.finalized \in DOMAIN blocks => GetBlock(cursor.finalized) = blocks[cursor.finalized].hash
      <3> SUFFICES ASSUME cursor.finalized \in DOMAIN blocks
                   PROVE  GetBlock(cursor.finalized) = blocks[cursor.finalized].hash
        OBVIOUS
      <3>1. \E m \in Nat : DOMAIN blocks = 1 .. m
        BY DEF IndexerInv, JournalInv, Linked
      <3>2. cursor.finalized \in 1 .. cursor.finalized
        BY <3>1
      <3> QED
        BY <3>2, FinalStillThere
    <2> QED
      BY <2>1, <2>2, <1>1
  <1>6. CASE \/ \E carries \in BOOLEAN : Grow(carries)
             \/ \E fork \in 0 .. MaxBlocks, suffix \in [1 .. MaxBlocks -> BOOLEAN] : Reorg(fork, suffix)
             \/ \E lag \in 0 .. NodeLag : Begin(lag)
             \/ UNCHANGED indexerVars
    BY <1>6, <1>1 DEF Grow, Reorg, Begin, indexerVars
  <1>7. CASE ReadLogs \/ Commit \/ RpcFault \/ Restart
    BY <1>7, <1>1, <1>2 DEF ReadLogs, Commit, RpcFault, Restart
  <1>8. 0 \in 0 .. NodeLag /\ 1 .. NodeLag \subseteq 0 .. NodeLag
    BY IndexerConstants
  <1> QED
    BY <1>3, <1>4, <1>5, <1>6, <1>7, <1>8 DEF IndexerNext, Indexer

LEMMA StampedIsCanonical ==
    ASSUME IndexerInv, ~loop.critical
    PROVE  FinalizedCanonical
  BY DEF IndexerInv, JournalInv, Stamped, Canonical, FinalizedCanonical

(* Finality (ChainIndexer.sync, reconcile_views): while no reorganisation  *)
(* reaches the finality depth and no node trails by more than it, what is  *)
(* FINALIZED in the journal stays canonical, and no sync meets a finalized *)
(* block that changed, a row that is already there or a finalized block    *)
(* the node has lost.                                                      *)
THEOREM FinalizedAlwaysCanonical ==
    ASSUME NodeLag <= FinalityDepth
    PROVE  IndexerSpec => []FinalizedCanonical
  <1>1. IndexerInit => ~loop.critical
    BY DEF IndexerInit, Healthy
  <1>2. IndexerInv /\ ~loop.critical /\ [IndexerNext]_indexerVars => (~loop.critical)'
    BY NeverCritical
  <1>3. IndexerInv /\ ~loop.critical => FinalizedCanonical
    BY StampedIsCanonical
  <1> QED
    BY AlwaysIndexerInv, <1>1, <1>2, <1>3, PTL DEF IndexerSpec

=============================================================================
