------------------------ MODULE DurableRepositoryProofs ------------------------
(***************************************************************************)
(* What holds of DurableRepository for every payment, every history and    *)
(* every set of inputs, not only for those of the TLC runs.                *)
(*                                                                         *)
(* The argument follows the code: the engine of fsm.py changes a payment   *)
(* only in ways that Builds describes; a claim is a sequence of such       *)
(* changes; a planner applies claims and replaces records; and an action   *)
(* commits the plan of one planner.                                        *)
(*                                                                         *)
(* The second half is about the operations: one mutation at a time, frozen *)
(* reservations, confirmed effects that stand and disputes that are not    *)
(* lost.  OutcomeEvolves says what one outcome may do to each record of    *)
(* the history; observations and decisions are outcomes on facts or        *)
(* records changed before, so the rest follows from it.                    *)
(***************************************************************************)
EXTENDS DurableRepository, TLAPS, FiniteSetTheorems, WellFoundedInduction

(* A nonempty set of naturals with an upper bound has a greatest element.  *)
LEMMA GreatestExists ==
  ASSUME NEW S \in SUBSET Nat, NEW s \in S,
         NEW n \in Nat, \A x \in S : x <= n
  PROVE  /\ Max(S) \in S
         /\ \A x \in S : x <= Max(S)
<1> DEFINE T == {m \in Nat : \A x \in S : x <= m}
<1>1. T \subseteq Nat /\ n \in T
  OBVIOUS
<1>2. PICK m \in T : \A k \in T : ~ (<<k, m>> \in OpToRel(<, Nat))
  <2>1. T # {}
    BY <1>1
  <2>2. IsWellFoundedOn(OpToRel(<, Nat), Nat)
    BY NatLessThanWellFounded
  <2> QED
    BY <1>1, <2>1, <2>2, WFMin
<1>3. \A k \in T : m <= k
  <2>1. \A j, k \in Nat : j < k => <<j, k>> \in OpToRel(<, Nat)
    BY Zenon DEF OpToRel
  <2>2. \A k \in T : ~(k < m)
    BY <1>2, <2>1
  <2> QED
    BY <2>2
<1>4. m \in S
  <2>1. SUFFICES ASSUME m \notin S
                 PROVE  m - 1 \in T
    BY <1>3, <2>1
  <2>2. \A x \in S : x <= m /\ x # m
    BY <2>1
  <2> QED
    BY <2>2
<1>5. \A x \in S : m >= x
  OBVIOUS
<1>6. \E y \in S : \A x \in S : y >= x
  BY <1>4, <1>5
<1>7. Max(S) \in S /\ \A x \in S : Max(S) >= x
  BY <1>6 DEF Max
<1> QED
  BY <1>7

-----------------------------------------------------------------------------
(* What every change of a payment keeps. *)
Builds(p, q) ==
  /\ q \in PaymentFacts
  /\ ValidAmounts(q)
  /\ q.required = p.required
  /\ q.captured >= p.captured
  /\ q.refunded >= p.refunded
  /\ p.conflicts \subseteq q.conflicts
  /\ p.reconcile => q.reconcile
  /\ Funded(p) => Funded(q) /\ (p.captured > 0 => q.hold <= p.hold)

(* Changes of a payment compose. *)
LEMMA BuildsTransitive ==
  ASSUME NEW p \in PaymentFacts, NEW q, NEW r, Builds(p, q), Builds(q, r)
  PROVE  Builds(p, r)
<1>1. p.captured \in Int /\ q.captured \in Int /\ r.captured \in Int
      /\ p.refunded \in Int /\ q.refunded \in Int /\ r.refunded \in Int
      /\ p.hold \in Int /\ q.hold \in Int /\ r.hold \in Int
  BY DEF Builds, PaymentFacts
<1> QED
  BY <1>1 DEF Builds

(* project_payment_status returns one of the declared statuses. *)
LEMMA StatusTyped ==
  ASSUME NEW p \in PaymentFacts, NEW a \in BOOLEAN, NEW b \in BOOLEAN
  PROVE  ProjectedStatus(p, a, b) \in PaymentStatus
<1>1. p.status \in PaymentStatus /\ p.refunded \in Int /\ p.captured \in Int
  BY DEF PaymentFacts
<1> QED
  BY <1>1 DEF ProjectedStatus, PaymentStatus

(* A new status leaves the balances alone. *)
LEMMA StatusChanged ==
  ASSUME NEW p \in PaymentFacts, ValidAmounts(p), NEW s \in PaymentStatus,
         p.captured > 0 /\ Funded(p) => s \notin {"new", "prepared", "pre-auth"}
  PROVE  Builds(p, [p EXCEPT !.status = s])
BY DEF Builds, PaymentFacts, ValidAmounts, Funded

(* A projection shows what was captured. *)
LEMMA ProjectionShowsFunds ==
  ASSUME NEW p \in PaymentFacts, NEW a \in BOOLEAN, NEW b \in BOOLEAN
  PROVE  p.captured > 0 => ProjectedStatus(p, a, b) \notin {"new", "prepared", "pre-auth"}
BY DEF ProjectedStatus, PaymentFacts

(* A projection changes the status and nothing else. *)
LEMMA ProjectionBuilds ==
  ASSUME NEW p \in PaymentFacts, ValidAmounts(p), NEW a \in BOOLEAN, NEW b \in BOOLEAN
  PROVE  Builds(p, Projected(p, a, b))
BY StatusTyped, ProjectionShowsFunds, StatusChanged DEF Projected

(* A captured total within the required amount consumes the hold and       *)
(* keeps the balances possible.  The projection is part of the change: it  *)
(* moves a payment that had captured nothing out of the statuses that      *)
(* accept a lock.                                                          *)
LEMMA CaptureBuilds ==
  ASSUME NEW p \in PaymentFacts, ValidAmounts(p), NEW paid \in 0 .. p.required,
         NEW a \in BOOLEAN
  PROVE  Builds(p, Projected(WithPaid(p, paid), a, FALSE))
<1> DEFINE c == Larger(p.captured, paid)
           h == Larger(0, p.hold - (c - p.captured))
<1>1. p.required \in Int /\ p.captured \in Int /\ p.hold \in Int /\ p.refunded \in Int
  BY DEF PaymentFacts
<1>2. c \in Int /\ p.captured <= c /\ c <= p.required
  BY <1>1 DEF ValidAmounts, Larger
<1>3. h \in Int /\ 0 <= h /\ h <= p.required - c /\ h <= p.hold
  BY <1>1, <1>2 DEF ValidAmounts, Larger
<1>4. WithPaid(p, paid) = [p EXCEPT !.captured = c, !.hold = h]
  BY DEF WithPaid
<1> HIDE DEF c, h
<1> DEFINE q == [p EXCEPT !.captured = c, !.hold = h]
           s == ProjectedStatus(q, a, FALSE)
           r == [q EXCEPT !.status = s]
<1>5. q \in PaymentFacts
  BY <1>2, <1>3 DEF PaymentFacts
<1>6. s \in PaymentStatus /\ (q.captured > 0 => s \notin {"new", "prepared", "pre-auth"})
  BY <1>5, StatusTyped, ProjectionShowsFunds
<1> HIDE DEF s
<1>7. r \in PaymentFacts
  BY <1>5, <1>6 DEF PaymentFacts
<1>8. /\ r.required = p.required /\ r.captured = c /\ r.hold = h
      /\ r.refunded = p.refunded /\ r.conflicts = p.conflicts
      /\ r.reconcile = p.reconcile /\ r.status = s /\ q.captured = c
  BY DEF PaymentFacts
<1> HIDE DEF q, r
<1>9. Builds(p, r)
  BY <1>1, <1>2, <1>3, <1>6, <1>7, <1>8 DEF Builds, ValidAmounts, Funded
<1> QED
  BY <1>4, <1>9 DEF Projected, r, s, q

(* A refunded total within the captured one keeps the balances possible. *)
LEMMA RefundBuilds ==
  ASSUME NEW p \in PaymentFacts, ValidAmounts(p), NEW refunded \in 0 .. p.captured
  PROVE  Builds(p, WithRefunded(p, refunded))
BY DEF Builds, PaymentFacts, ValidAmounts, WithRefunded, Larger, Funded

(* An authorization within what is left to capture keeps the balances *)
(* possible; the statuses it is accepted from have nothing captured. *)
LEMMA LockBuilds ==
  ASSUME NEW p \in PaymentFacts, ValidAmounts(p),
         p.status \in {"new", "prepared", "pre-auth"},
         NEW locked \in 1 .. (p.required - p.captured)
  PROVE  Builds(p, WithLocked(p, locked))
BY DEF Builds, PaymentFacts, ValidAmounts, WithLocked, Larger, Funded

(* A released hold keeps the balances possible. *)
LEMMA ReleaseBuilds ==
  ASSUME NEW p \in PaymentFacts, ValidAmounts(p)
  PROVE  Builds(p, [p EXCEPT !.hold = 0])
BY DEF Builds, PaymentFacts, ValidAmounts, Funded

(* Whatever event of an update the engine accepts. *)
LEMMA EventBuilds ==
  ASSUME NEW p \in PaymentFacts, NEW u \in Observation,
         ValidUpdateAmounts(p, u), CanApplyEvent(p, u)
  PROVE  Builds(p, AfterEvent(p, u))
<1>0. None \notin {"prepared", "locked", "payment_captured", "refund_confirmed"}
  BY NoneIsNoValue DEF PaymentEvent
<1>1. ValidAmounts(p) /\ u.event \in Optional(PaymentEvent)
  BY DEF ValidUpdateAmounts, Observation
<1>2. Builds(p, p)
  BY <1>1 DEF Builds, PaymentFacts
<1>3. HasUnresolvedRefund(p) \in BOOLEAN
  BY DEF HasUnresolvedRefund
<1>4. CASE u.event = "prepared"
  <2>1. "prepared" \in PaymentStatus
    BY DEF PaymentStatus
  <2> QED
    BY <1>0, <1>1, <1>4, <2>1, StatusChanged DEF AfterEvent, CanApplyEvent, Funded
<1>5. CASE u.event = "locked"
  <2> DEFINE q == WithLocked(p, u.locked)
  <2>1. Builds(p, q)
    BY <1>0, <1>1, <1>5, LockBuilds DEF ValidUpdateAmounts, CanApplyEvent
  <2>2. "pre-auth" \in PaymentStatus
    BY DEF PaymentStatus
  <2> HIDE DEF q
  <2>3. Builds(q, [q EXCEPT !.status = "pre-auth"])
    <3>1. p.status \in {"new", "prepared", "pre-auth"} /\ q.status = p.status
      BY <1>0, <1>5 DEF CanApplyEvent, q, WithLocked, PaymentFacts
    <3>2. q \in PaymentFacts /\ ValidAmounts(q) /\ ~(q.captured > 0 /\ Funded(q))
      BY <2>1, <3>1 DEF Builds, Funded
    <3> QED
      BY <2>2, <3>2, StatusChanged
  <2>4. AfterEvent(p, u) = [q EXCEPT !.status = "pre-auth"]
    BY <1>5 DEF AfterEvent, q
  <2> QED
    BY <2>1, <2>3, <2>4, BuildsTransitive
<1>6. CASE u.event = "charge_requested"
  <2>1. "charge_started" \in PaymentStatus
    BY DEF PaymentStatus
  <2> QED
    BY <1>1, <1>2, <1>6, <2>1, StatusChanged DEF AfterEvent
<1>7. CASE u.event = "payment_captured"
  <2>1. u.paid \in 0 .. p.required
    BY <1>0, <1>7 DEF ValidUpdateAmounts, CanApplyEvent
  <2>2. AfterEvent(p, u) = Projected(WithPaid(p, u.paid), HasUnresolvedRefund(p), FALSE)
    BY <1>7 DEF AfterEvent
  <2> QED
    BY <1>1, <1>3, <2>1, <2>2, CaptureBuilds
<1>8. CASE u.event = "failed"
  <2>1. "failed" \in PaymentStatus
    BY DEF PaymentStatus
  <2> QED
    BY <1>1, <1>8, <2>1, StatusChanged DEF AfterEvent
<1>9. CASE u.event = "refund_requested"
  <2>1. "refund_started" \in PaymentStatus
    BY DEF PaymentStatus
  <2> QED
    BY <1>1, <1>9, <2>1, StatusChanged DEF AfterEvent
<1>10. CASE u.event = "refund_confirmed"
  <2> DEFINE q == WithRefunded(p, u.refunded)
  <2>1. Builds(p, q)
    BY <1>0, <1>1, <1>10, RefundBuilds DEF ValidUpdateAmounts, CanApplyEvent
  <2> HIDE DEF q
  <2>2. Builds(q, Projected(q, FALSE, FALSE))
    BY <2>1, ProjectionBuilds DEF Builds
  <2>3. AfterEvent(p, u) = Projected(q, FALSE, FALSE)
    BY <1>10 DEF AfterEvent, q
  <2> QED
    BY <2>1, <2>2, <2>3, BuildsTransitive
<1>11. CASE u.event = "refund_cancelled"
  BY <1>1, <1>11, ProjectionBuilds DEF AfterEvent
<1>12. CASE u.event = "lock_released"
  <2> DEFINE q == [p EXCEPT !.hold = 0]
  <2>1. Builds(p, q)
    BY <1>1, ReleaseBuilds
  <2> HIDE DEF q
  <2>2. Builds(q, Projected(q, HasUnresolvedRefund(p), TRUE))
    BY <1>3, <2>1, ProjectionBuilds DEF Builds
  <2>3. AfterEvent(p, u) = Projected(q, HasUnresolvedRefund(p), TRUE)
    BY <1>12 DEF AfterEvent, q
  <2> QED
    BY <2>1, <2>2, <2>3, BuildsTransitive
<1>13. CASE u.event \notin PaymentEvent
  BY <1>2, <1>13 DEF AfterEvent, PaymentEvent
<1> QED
  BY <1>1, <1>4, <1>5, <1>6, <1>7, <1>8, <1>9, <1>10, <1>11, <1>12, <1>13
  DEF Optional, PaymentEvent

(* An update that apply_payment_update accepts, external handle, event *)
(* and fraud verdict together. *)
LEMMA UpdateBuilds ==
  ASSUME NEW p \in PaymentFacts, NEW u \in Observation, CanApplyUpdate(p, u)
  PROVE  Builds(p, AfterUpdate(p, u))
<1> DEFINE q == WithExternal(p, u.external)
           r == AfterEvent(q, u)
<1>1. u.external \in Optional(ExternalIds) /\ u.fraud_event \in Optional(FraudEvent)
  BY DEF Observation
<1>2. /\ q \in PaymentFacts
      /\ q.required = p.required /\ q.captured = p.captured /\ q.hold = p.hold
      /\ q.refunded = p.refunded /\ q.status = p.status /\ q.conflicts = p.conflicts
      /\ q.reconcile = p.reconcile
  BY <1>1 DEF WithExternal, PaymentFacts, Optional
<1>3. ValidUpdateAmounts(q, u) /\ CanApplyEvent(q, u)
  BY <1>2 DEF CanApplyUpdate, ValidUpdateAmounts, ValidAmounts, CanApplyEvent,
              CaptureRecordable, HasUnresolvedRefund, RefundableAmount
<1>4. Builds(p, q)
  BY <1>2, <1>3 DEF Builds, PaymentFacts, ValidUpdateAmounts, Funded
<1> HIDE DEF q
<1>5. Builds(q, r)
  BY <1>2, <1>3, EventBuilds
<1> HIDE DEF r
<1>6. Builds(r, AfterFraud(r, u))
  <2>1. r \in PaymentFacts /\ ValidAmounts(r)
    BY <1>5 DEF Builds
  <2>2. u.fraud_event # None => FraudOutcome(u.fraud_event) \in FraudStatus
    BY <1>1 DEF Optional, FraudEvent, FraudStatus, FraudOutcome
  <2>3. Builds(r, r)
    BY <2>1 DEF Builds, PaymentFacts
  <2>4. CASE u.fraud_event = None
    BY <2>3, <2>4 DEF AfterFraud
  <2>5. CASE u.fraud_event # None
    BY <2>1, <2>2, <2>5 DEF AfterFraud, Builds, PaymentFacts, ValidAmounts, Funded
  <2> QED
    BY <2>4, <2>5
<1>7. AfterUpdate(p, u) = AfterFraud(r, u)
  BY DEF AfterUpdate, q, r
<1> QED
  BY <1>2, <1>4, <1>5, <1>6, <1>7, BuildsTransitive DEF Builds

-----------------------------------------------------------------------------
(* One provider claim. *)
LEMMA ClaimsTyped ==
  ASSUME NEW f \in PaymentFacts
  PROVE  /\ NoClaim \in Observation
         /\ \A n \in Int : CaptureClaim(n) \in Observation /\ RefundClaim(n) \in Observation
         /\ \A u \in Observation : /\ WithoutStaleHold(f, u) \in Observation
                                   /\ Remainder(f, u) \in Observation
<1>1. NoClaim \in Observation
  BY DEF NoClaim, Observation, Optional
<1>2. ASSUME NEW n \in Int
      PROVE  CaptureClaim(n) \in Observation /\ RefundClaim(n) \in Observation
  <2>1. /\ "payment_captured" \in Optional(PaymentEvent)
        /\ "refund_confirmed" \in Optional(PaymentEvent) /\ n \in Optional(Int)
    BY DEF PaymentEvent, Optional
  <2>2. [NoClaim EXCEPT !.event = "payment_captured", !.paid = n] \in Observation
    BY <1>1, <2>1 DEF Observation
  <2>3. [NoClaim EXCEPT !.event = "refund_confirmed", !.refunded = n] \in Observation
    BY <1>1, <2>1 DEF Observation
  <2> QED
    BY <2>2, <2>3 DEF CaptureClaim, RefundClaim
<1>3. ASSUME NEW u \in Observation
      PROVE  WithoutStaleHold(f, u) \in Observation
  <2> DEFINE e == IF u.event = "locked" THEN None ELSE u.event
  <2>1. e \in Optional(PaymentEvent)
    BY DEF Observation, Optional
  <2> HIDE DEF e
  <2>2. None \in Optional(Int)
    BY DEF Optional
  <2>3. [u EXCEPT !.locked = None, !.event = e] \in Observation
    BY <2>1, <2>2 DEF Observation
  <2> QED
    BY <2>3 DEF WithoutStaleHold, e
<1>4. ASSUME NEW u \in Observation
      PROVE  Remainder(f, u) \in Observation
  <2> DEFINE e == IF EventConsumed(f, u) THEN None ELSE u.event
  <2>1. e \in Optional(PaymentEvent)
    BY DEF Observation, Optional
  <2> HIDE DEF e
  <2>2. [u EXCEPT !.event = e, !.paid = None, !.refunded = None] \in Observation
    BY <2>1 DEF Observation, Optional
  <2> QED
    BY <2>2 DEF Remainder, e
<1> QED
  BY <1>1, <1>2, <1>3, <1>4

(* _apply_to_facts runs up to three updates one after the other; each *)
(* starts from what the one before it left. *)
LEMMA ClaimBuilds ==
  ASSUME NEW f \in PaymentFacts, ValidAmounts(f), NEW c \in Observation,
         CanApplyToFacts(f, c)
  PROVE  Builds(f, AppliedToFacts(f, c))
<1> DEFINE u == WithoutStaleHold(f, c)
           g == AfterCapture(f, u)
           h == AfterFunds(f, u)
           k == AfterUpdate(h, Remainder(h, u))
<1>1. u \in Observation
  BY ClaimsTyped
<1>2. u.paid \in Optional(Int) /\ u.refunded \in Optional(Int)
  BY <1>1 DEF Observation
<1>3. /\ CanApplyCapture(f, u)
      /\ CanApplyRefund(g, u)
      /\ CanApplyUpdate(h, Remainder(h, u))
  BY DEF CanApplyToFacts
<1> HIDE DEF u
<1>4. Builds(f, f)
  BY DEF Builds, PaymentFacts
<1>5. Builds(f, g)
  BY <1>2, <1>3, <1>4, ClaimsTyped, UpdateBuilds
  DEF AfterCapture, CanApplyCapture, Optional
<1>6. h = AfterRefund(g, u)
  BY DEF AfterFunds
<1> HIDE DEF g, h
<1>7. g \in PaymentFacts /\ ValidAmounts(g) /\ Builds(g, g)
  BY <1>5 DEF Builds, PaymentFacts
<1>8. Builds(g, h)
  BY <1>2, <1>3, <1>6, <1>7, ClaimsTyped, UpdateBuilds
  DEF AfterRefund, CanApplyRefund, ConfirmsRefund, Optional
<1>9. h \in PaymentFacts
  BY <1>8 DEF Builds
<1>10. Builds(h, k)
  BY <1>1, <1>3, <1>9, ClaimsTyped, UpdateBuilds
<1> HIDE DEF k
<1>11. Builds(f, k)
  BY <1>5, <1>7, <1>8, <1>9, <1>10, BuildsTransitive
<1> DEFINE s == IF /\ HasUnresolvedRefund(f)
                   /\ u.event \notin {"refund_confirmed", "refund_cancelled"}
                THEN "refund_started" ELSE k.status
           b == \/ k.reconcile
                \/ /\ k.captured > f.captured
                   /\ f.refunded > 0 \/ HasUnresolvedRefund(f)
<1>12. AppliedToFacts(f, c) = [k EXCEPT !.status = s, !.reconcile = b]
  BY DEF AppliedToFacts, k, h, u
<1>13. /\ s \in PaymentStatus /\ s \in {k.status, "refund_started"}
       /\ b \in BOOLEAN /\ (f.reconcile => b)
  BY <1>11 DEF Builds, PaymentFacts, PaymentStatus
<1> HIDE DEF s, b
<1>14. Builds(f, [k EXCEPT !.status = s, !.reconcile = b])
  BY <1>11, <1>13 DEF Builds, PaymentFacts, ValidAmounts, Funded
<1> QED
  BY <1>12, <1>14

(* Refused evidence is added to what was refused before. *)
LEMMA RetainedBuilds ==
  ASSUME NEW f \in PaymentFacts, ValidAmounts(f), NEW u \in Observation,
         NEW reasons \in SUBSET RetentionReason
  PROVE  Builds(f, Retained(f, u, reasons))
<1> DEFINE b == f.reconcile \/ reasons # {}
           c == f.conflicts \cup {[claim |-> u, reason |-> r] : r \in reasons}
<1>1. b \in BOOLEAN /\ (f.reconcile => b)
  BY DEF PaymentFacts
<1>2. f.conflicts \subseteq c
  OBVIOUS
<1>3. f.conflicts \in SUBSET [claim : Observation, reason : RetentionReason]
  BY DEF PaymentFacts
<1>4. c \in SUBSET [claim : Observation, reason : RetentionReason]
  BY <1>3
<1>5. Retained(f, u, reasons) = [f EXCEPT !.reconcile = b, !.conflicts = c]
  BY DEF Retained
<1> HIDE DEF b, c
<1> DEFINE q == [f EXCEPT !.reconcile = b, !.conflicts = c]
<1>6. q \in PaymentFacts
  BY <1>1, <1>4 DEF PaymentFacts
<1>7. /\ q.required = f.required /\ q.captured = f.captured /\ q.hold = f.hold
      /\ q.refunded = f.refunded /\ q.reconcile = b /\ q.conflicts = c
      /\ q.status = f.status
      /\ f.captured \in Int /\ f.refunded \in Int /\ f.hold \in Int
  BY DEF PaymentFacts
<1> HIDE DEF q
<1>8. Builds(f, q)
  BY <1>1, <1>2, <1>6, <1>7 DEF Builds, ValidAmounts, Funded
<1> QED
  BY <1>5, <1>8 DEF q

-----------------------------------------------------------------------------
(* One outcome of one operation. *)

(* Later versions of an operation keep its place among the intents. *)
Follows(all, next) ==
  /\ next \in [OpId -> OperationRecord]
  /\ \A id \in OpId : next[id].sequence = all[id].sequence

(* Replacing one record by a typed one with its sequence keeps the *)
(* history typed. *)
LEMMA RecordReplaced ==
  ASSUME NEW all \in [OpId -> OperationRecord], NEW id \in OpId,
         NEW op \in OperationRecord, op.sequence = all[id].sequence
  PROVE  Follows(all, [all EXCEPT ![id] = op])
BY DEF Follows

(* What an outcome leaves on a record does not change its state. *)
LEMMA NotedTyped ==
  ASSUME NEW f, NEW op \in OperationRecord, NEW o \in Outcome
  PROVE  /\ Noted(f, op, o) \in OperationRecord
         /\ Noted(f, op, o).sequence = op.sequence
         /\ Noted(f, op, o).state = op.state
<1> DEFINE c == IF op.correlation = None THEN o.correlation ELSE op.correlation
           b == op.reconcile \/ o.reconcile \/ Contradicts(f, op, o)
           d == IF Contradicts(f, op, o) THEN op.disputes \cup {o} ELSE op.disputes
<1>1. c \in Optional(Correlations)
  BY DEF OperationRecord, Outcome
<1>2. b \in BOOLEAN
  BY DEF OperationRecord, Outcome, Contradicts
<1>3. d \in SUBSET Outcome
  BY DEF OperationRecord
<1>4. Noted(f, op, o) = [op EXCEPT !.correlation = c, !.reconcile = b, !.disputes = d]
  BY DEF Noted
<1> HIDE DEF b, c, d
<1> DEFINE q == [op EXCEPT !.correlation = c, !.reconcile = b, !.disputes = d]
<1>5. q \in OperationRecord
  BY <1>1, <1>2, <1>3 DEF OperationRecord
<1>6. q.sequence = op.sequence /\ q.state = op.state
  BY DEF OperationRecord
<1> QED
  BY <1>4, <1>5, <1>6

(* A disputed outcome is added to the record, and the payment needs a *)
(* human. *)
LEMMA DisputedTyped ==
  ASSUME NEW f \in PaymentFacts, ValidAmounts(f), NEW op \in OperationRecord, NEW o \in Outcome
  PROVE  /\ Builds(f, Disputed(f, op, o).facts)
         /\ Disputed(f, op, o).op \in OperationRecord
         /\ Disputed(f, op, o).op.sequence = op.sequence
<1> DEFINE q == [f EXCEPT !.reconcile = TRUE]
<1>1. Builds(f, q)
  <2>1. q \in PaymentFacts
    BY DEF PaymentFacts
  <2>2. /\ q.required = f.required /\ q.captured = f.captured /\ q.hold = f.hold
        /\ q.refunded = f.refunded /\ q.reconcile = TRUE /\ q.conflicts = f.conflicts
        /\ q.status = f.status
        /\ f.captured \in Int /\ f.refunded \in Int /\ f.hold \in Int
    BY DEF PaymentFacts
  <2> HIDE DEF q
  <2> QED
    BY <2>1, <2>2 DEF Builds, ValidAmounts, Funded
<1>2. op.disputes \cup {o} \in SUBSET Outcome
  BY DEF OperationRecord
<1>3. /\ [op EXCEPT !.reconcile = TRUE, !.disputes = op.disputes \cup {o}] \in OperationRecord
      /\ [op EXCEPT !.reconcile = TRUE, !.disputes = op.disputes \cup {o}].sequence = op.sequence
  BY <1>2 DEF OperationRecord
<1> QED
  BY <1>1, <1>3 DEF Disputed

(* The facts an outcome is settled on differ in the flag and the provider *)
(* handle only. *)
LEMMA IdentifiedBuilds ==
  ASSUME NEW f \in PaymentFacts, ValidAmounts(f), NEW op \in OperationRecord, NEW o \in Outcome
  PROVE  Builds(f, NotedFacts(f, op, o)) /\ Builds(f, IdentifiedFacts(f, op, o))
<1> DEFINE b == f.reconcile \/ Noted(f, op, o).reconcile
<1>1. b \in BOOLEAN /\ (f.reconcile => b)
  BY NotedTyped DEF PaymentFacts, OperationRecord
<1>2. NotedFacts(f, op, o) = [f EXCEPT !.reconcile = b]
  BY DEF NotedFacts
<1> HIDE DEF b
<1>3. Builds(f, NotedFacts(f, op, o))
  BY <1>1, <1>2 DEF Builds, PaymentFacts, ValidAmounts, Funded
<1> DEFINE g == NotedFacts(f, op, o)
<1>4. o.external \in Optional(ExternalIds)
  BY DEF Outcome
<1> HIDE DEF g
<1>5. Builds(f, WithExternal(g, o.external))
  <2>1. Builds(f, g)
    BY <1>3 DEF g
  <2> QED
    BY <2>1, <1>4 DEF Builds, PaymentFacts, ValidAmounts, WithExternal, Funded
<1> QED
  BY <1>3, <1>5 DEF IdentifiedFacts, g

(* A settlement that is possible for the payment is a well-formed claim. *)
(* The refunded total is a sum over the history; that it is possible *)
(* bounds it, so no property of the sum is needed. *)
LEMMA SettlementTyped ==
  ASSUME NEW f \in PaymentFacts, NEW all \in [OpId -> OperationRecord], NEW id \in OpId,
         NEW o \in Outcome, WellFormedOutcome(all[id], o), o.state = "succeeded",
         Possible(f, SettlementClaim(f, all, id, o))
  PROVE  SettlementClaim(f, all, id, o) \in Observation
<1> DEFINE op == all[id]
           claim == SettlementClaim(f, all, id, o)
<1>1. op \in OperationRecord
  OBVIOUS
<1>2. /\ op.type \in Optional(OperationType) /\ op.base_captured \in Int
      /\ SettledAmount(op, o) \in Optional(Int)
  BY <1>1 DEF OperationRecord, Outcome, SettledAmount
<1>3. NoClaim \in Observation
  BY ClaimsTyped
<1>4. CASE op.type = "charge"
  <2>1. SettledAmount(op, o) \in Int
    BY <1>2, <1>4 DEF WellFormedOutcome, MonetaryTypes, Optional
  <2>2. claim = CaptureClaim(op.base_captured + SettledAmount(op, o))
    BY <1>4 DEF SettlementClaim
  <2> QED
    BY <1>2, <2>1, <2>2, ClaimsTyped
<1>5. CASE op.type = "start_refund"
  <2> DEFINE t == ConfirmedRefundTotal(all, id, SettledAmount(op, o))
  <2>1. claim = RefundClaim(t)
    BY <1>5 DEF SettlementClaim
  <2> HIDE DEF t
  <2>2. claim.refunded = t /\ claim.paid = None
    BY <2>1 DEF RefundClaim, NoClaim
  <2>3. t = None \/ t \in 0 .. f.captured
    BY <2>2 DEF Possible, ClaimedCapture
  <2>4. t \in Optional(Int)
    BY <2>3 DEF PaymentFacts, Optional
  <2>5. "refund_confirmed" \in Optional(PaymentEvent)
    BY DEF PaymentEvent, Optional
  <2>6. [NoClaim EXCEPT !.event = "refund_confirmed", !.refunded = t] \in Observation
    BY <1>3, <2>4, <2>5 DEF Observation
  <2> QED
    BY <2>1, <2>6 DEF RefundClaim
<1>6. CASE op.type = "release_lock"
  <2> DEFINE e == IF f.hold = 0 THEN None ELSE "lock_released"
  <2>1. e \in Optional(PaymentEvent)
    BY DEF Optional, PaymentEvent
  <2>2. claim = [NoClaim EXCEPT !.event = e]
    BY <1>6 DEF SettlementClaim
  <2> HIDE DEF e
  <2> QED
    BY <1>3, <2>1, <2>2 DEF Observation
<1>7. CASE op.type = "prepare"
  <2> DEFINE e == IF f.status = "new" THEN "prepared" ELSE None
  <2>1. e \in Optional(PaymentEvent) /\ o.external \in Optional(ExternalIds)
    BY DEF Optional, PaymentEvent, Outcome
  <2>2. claim = [NoClaim EXCEPT !.event = e, !.external = o.external]
    BY <1>7 DEF SettlementClaim
  <2> HIDE DEF e
  <2> QED
    BY <1>3, <2>1, <2>2 DEF Observation
<1>8. CASE op.type \notin {"charge", "start_refund", "release_lock", "prepare"}
  BY <1>3, <1>8 DEF SettlementClaim
<1> QED
  BY <1>4, <1>5, <1>6, <1>7, <1>8

(* An outcome moves its operation, and a cancellation its target. *)
LEMMA SettledOpsTyped ==
  ASSUME NEW f, NEW all \in [OpId -> OperationRecord], NEW id \in OpId, NEW o \in Outcome
  PROVE  Follows(all, SettledOps(f, all, id, o))
<1> DEFINE op == all[id]
           n  == Noted(f, op, o)
           s  == NextState(op, o)
           a  == IF o.state = "succeeded" THEN SettledAmount(op, o) ELSE n.settled
           moved == [n EXCEPT !.state = s, !.settled = a]
<1>1. op \in OperationRecord /\ n \in OperationRecord /\ n.sequence = op.sequence
  BY NotedTyped
<1>2. s \in ActiveStates \cup TerminalStates \cup {"absent"}
  BY <1>1 DEF NextState, Outcome, OperationRecord, EvidenceStates, ActiveStates, TerminalStates
<1>3. a \in Optional(Int)
  BY <1>1 DEF SettledAmount, Outcome, OperationRecord
<1> HIDE DEF n, s, a
<1>4. moved \in OperationRecord /\ moved.sequence = op.sequence
  BY <1>1, <1>2, <1>3 DEF OperationRecord
<1>5. ASSUME NEW other \in OpId
      PROVE  /\ [all[other] EXCEPT !.state = "rejected"] \in OperationRecord
             /\ [all[other] EXCEPT !.state = "rejected"].sequence = all[other].sequence
  <2>1. all[other] \in OperationRecord
    OBVIOUS
  <2> QED
    BY <2>1 DEF OperationRecord, TerminalStates
<1>6. SettledOps(f, all, id, o) =
        [other \in OpId |->
          IF other = id THEN moved
          ELSE IF StopsTarget(all, id, o) /\ other = op.target
               THEN [all[other] EXCEPT !.state = "rejected"]
          ELSE all[other]]
  BY DEF SettledOps, n, s, a
<1> HIDE DEF moved
<1> QED
  BY <1>4, <1>5, <1>6 DEF Follows

(* plan_outcome, on each of its paths: overstated, only noted, not *)
(* succeeded, impossible and settled. *)
LEMMA OutcomeBuilds ==
  ASSUME NEW f \in PaymentFacts, ValidAmounts(f),
         NEW all \in [OpId -> OperationRecord], NEW id \in OpId, NEW o \in Outcome,
         CanPlanOutcome(f, all, id, o)
  PROVE  /\ Builds(f, OutcomePlan(f, all, id, o).facts)
         /\ Follows(all, OutcomePlan(f, all, id, o).ops)
<1> DEFINE op    == all[id]
           n     == Noted(f, op, o)
           g     == IdentifiedFacts(f, op, o)
           claim == SettlementClaim(g, all, id, o)
           next  == SettledOps(f, all, id, o)
           plan  == OutcomePlan(f, all, id, o)
           Dispute(x, record) ==
             [facts |-> Disputed(x, record, o).facts,
              ops   |-> [all EXCEPT ![id] = Disputed(x, record, o).op]]
<1>1. op \in OperationRecord /\ n \in OperationRecord /\ n.sequence = op.sequence
  BY NotedTyped
<1>2. Builds(f, NotedFacts(f, op, o)) /\ Builds(f, g)
  BY <1>1, IdentifiedBuilds
<1>3. Follows(all, next)
  BY SettledOpsTyped
<1>4. \A x \in PaymentFacts : \A t : ValidAmounts(x) => Builds(x, Reprojected(x, next, t))
  <2> TAKE x \in PaymentFacts
  <2> TAKE t
  <2> HAVE ValidAmounts(x)
  <2>1. Builds(x, x)
    BY DEF Builds, PaymentFacts
  <2>2. ActiveRefund(next) \in BOOLEAN
    BY DEF ActiveRefund
  <2> QED
    BY <2>1, <2>2, ProjectionBuilds DEF Reprojected
<1>5. CASE Overstated(op, o)
  <2>1. plan = Dispute(f, op)
    BY <1>5 DEF OutcomePlan
  <2> DEFINE d == Disputed(f, op, o)
  <2>2. plan.facts = d.facts /\ plan.ops = [all EXCEPT ![id] = d.op]
    BY <2>1
  <2>3. Builds(f, d.facts) /\ d.op \in OperationRecord /\ d.op.sequence = op.sequence
    BY <1>1, DisputedTyped
  <2> HIDE DEF d, plan
  <2>4. Follows(all, [all EXCEPT ![id] = d.op])
    BY <2>3, RecordReplaced
  <2> QED
    BY <2>2, <2>3, <2>4 DEF plan
<1>6. CASE ~Overstated(op, o) /\ OnlyNoted(f, all, id, o)
  <2> DEFINE h == IF ConflictingCorrelation(op, o) \/ ConflictingExternalId(f, o)
                  THEN NotedFacts(f, op, o) ELSE g
  <2>1. plan = [facts |-> h, ops |-> [all EXCEPT ![id] = n]]
    BY <1>6 DEF OutcomePlan
  <2>2. Builds(f, h)
    BY <1>2
  <2>3. plan.facts = h /\ plan.ops = [all EXCEPT ![id] = n]
    BY <2>1
  <2> HIDE DEF h, n, plan
  <2>4. Follows(all, [all EXCEPT ![id] = n])
    BY <1>1, RecordReplaced
  <2> QED
    BY <2>2, <2>3, <2>4 DEF plan
<1>7. CASE ~Overstated(op, o) /\ ~OnlyNoted(f, all, id, o)
  <2>1. g \in PaymentFacts /\ ValidAmounts(g)
    BY <1>2 DEF Builds
  <2>2. CASE o.state # "succeeded"
    <3>1. plan = [facts |-> Reprojected(g, next, op.type), ops |-> next]
      BY <1>7, <2>2 DEF OutcomePlan
    <3> HIDE DEF g, next
    <3> QED
      BY <1>2, <1>3, <1>4, <2>1, <3>1, BuildsTransitive
  <2>3. CASE o.state = "succeeded" /\ ~Possible(g, claim)
    <3>1. plan = Dispute(g, n)
      BY <1>7, <2>3 DEF OutcomePlan
    <3> DEFINE d == Disputed(g, n, o)
    <3>2. plan.facts = d.facts /\ plan.ops = [all EXCEPT ![id] = d.op]
      BY <3>1
    <3> HIDE DEF g, n
    <3>3. Builds(g, d.facts) /\ d.op \in OperationRecord /\ d.op.sequence = n.sequence
      BY <1>1, <2>1, DisputedTyped
    <3> HIDE DEF d, plan
    <3>4. Builds(f, plan.facts)
      BY <1>2, <3>2, <3>3, BuildsTransitive
    <3>5. Follows(all, [all EXCEPT ![id] = d.op])
      BY <1>1, <3>3, RecordReplaced
    <3> QED
      BY <3>2, <3>4, <3>5 DEF plan
  <2>4. CASE o.state = "succeeded" /\ Possible(g, claim)
    <3>1. plan = [facts |-> Reprojected(AppliedToFacts(g, claim), next, op.type), ops |-> next]
      BY <1>7, <2>4 DEF OutcomePlan
    <3>2. WellFormedOutcome(op, o) /\ CanApplyToFacts(g, claim)
      BY <1>7, <2>4 DEF CanPlanOutcome
    <3> HIDE DEF g, next
    <3>3. claim \in Observation
      BY <2>1, <2>4, <3>2, SettlementTyped
    <3> HIDE DEF claim
    <3>4. Builds(g, AppliedToFacts(g, claim))
      BY <2>1, <3>2, <3>3, ClaimBuilds
    <3> DEFINE h == AppliedToFacts(g, claim)
    <3>5. Builds(h, Reprojected(h, next, op.type))
      BY <1>4, <3>4 DEF Builds
    <3> HIDE DEF h
    <3>6. Builds(f, h)
      BY <1>2, <3>4, BuildsTransitive DEF h
    <3>7. Builds(f, Reprojected(h, next, op.type))
      BY <3>5, <3>6, BuildsTransitive
    <3> QED
      BY <1>3, <3>1, <3>7 DEF h
  <2> QED
    BY <2>2, <2>3, <2>4
<1> QED
  BY <1>5, <1>6, <1>7

-----------------------------------------------------------------------------
(* One observation. *)
LEMMA AggregateTyped ==
  ASSUME NEW f, NEW u \in Observation
  PROVE  Aggregate(f, u) \in Observation
<1> DEFINE e == IF KeepsEvent(u) THEN u.event ELSE None
           a == IF u.delta THEN None ELSE u.paid
           b == IF u.delta THEN None ELSE u.refunded
           c == IF u.delta THEN None ELSE u.locked
           x == IF ConflictingExternalId(f, u) THEN None ELSE u.external
<1>1. /\ e \in Optional(PaymentEvent) /\ x \in Optional(ExternalIds)
      /\ a \in Optional(Int) /\ b \in Optional(Int) /\ c \in Optional(Int)
  BY DEF Observation, Optional
<1>2. Aggregate(f, u) = [u EXCEPT !.event = e, !.paid = a, !.refunded = b,
                                  !.locked = c, !.external = x]
  BY DEF Aggregate
<1> HIDE DEF e, a, b, c, x
<1> QED
  BY <1>1, <1>2 DEF Observation

(* A correlated outcome has exactly one operation to settle. *)
LEMMA OneCandidate ==
  ASSUME NEW all, NEW u \in Observation, Correlated(all, u)
  PROVE  /\ (CHOOSE id \in Candidates(all, u) : TRUE) \in Candidates(all, u)
         /\ Candidates(all, u) \subseteq OpId
         /\ u.outcome \in Outcome
<1>1. Cardinality(Candidates(all, u)) = 1
  BY DEF Correlated, CorrelationFailure
<1>2. Candidates(all, u) # {}
  BY <1>1, FS_EmptySet
<1>3. Candidates(all, u) \subseteq OpId
  BY DEF Candidates, Reserved
<1>4. u.outcome \in Outcome
  BY DEF Correlated, Observation, Optional
<1> QED
  BY <1>2, <1>3, <1>4

(* plan_observation: screening, the aggregate part, then the correlated *)
(* outcome on top of it. *)
LEMMA ObservationBuilds ==
  ASSUME NEW f \in PaymentFacts, ValidAmounts(f),
         NEW all \in [OpId -> OperationRecord], NEW u \in Observation,
         CanPlanObservation(f, all, u)
  PROVE  /\ Builds(f, ObservationPlan(f, all, u).facts)
         /\ Follows(all, ObservationPlan(f, all, u).ops)
<1> DEFINE screened   == ScreenedFacts(f, u)
           aggregated == AggregatedFacts(f, u)
           plan       == CorrelatedPlan(f, all, u)
<1>1. Builds(f, screened)
  <2>1. ScreeningReasons(f, u) \in SUBSET RetentionReason
    BY DEF ScreeningReasons, RetentionReason
  <2> QED
    BY <2>1, RetainedBuilds DEF ScreenedFacts
<1>2. Builds(screened, aggregated)
  <2>1. CanApplyToFacts(screened, Aggregate(f, u))
    BY DEF CanPlanObservation
  <2>2. aggregated = AppliedToFacts(screened, Aggregate(f, u))
    BY DEF AggregatedFacts
  <2>3. screened \in PaymentFacts /\ ValidAmounts(screened)
    BY <1>1 DEF Builds
  <2> HIDE DEF screened, aggregated
  <2> QED
    BY <2>1, <2>2, <2>3, AggregateTyped, ClaimBuilds
<1> HIDE DEF screened
<1>3. Builds(f, aggregated)
  BY <1>1, <1>2, BuildsTransitive
<1>4. aggregated \in PaymentFacts /\ ValidAmounts(aggregated)
  BY <1>3 DEF Builds
<1>5. Follows(all, all)
  BY DEF Follows
<1>6. Builds(f, plan.facts) /\ Follows(all, plan.ops)
  <2>1. CASE u.outcome = None
    <3>1. plan.facts = aggregated /\ plan.ops = all
      BY <2>1 DEF CorrelatedPlan
    <3> QED
      BY <1>3, <1>5, <3>1
  <2>2. CASE Correlated(all, u)
    <3> DEFINE id == CHOOSE x \in Candidates(all, u) : TRUE
    <3>1. id \in Candidates(all, u) /\ id \in OpId /\ u.outcome \in Outcome
      BY <2>2, OneCandidate
    <3>2. CanPlanOutcome(aggregated, all, id, u.outcome)
      BY <2>2, <3>1 DEF CanPlanObservation
    <3>3. plan = OutcomePlan(aggregated, all, id, u.outcome)
      BY <2>2 DEF CorrelatedPlan, Correlated
    <3> HIDE DEF aggregated, id, plan
    <3>4. Builds(aggregated, plan.facts) /\ Follows(all, plan.ops)
      BY <1>4, <3>1, <3>2, <3>3, OutcomeBuilds
    <3> QED
      BY <1>3, <3>4, BuildsTransitive DEF plan
  <2>3. CASE u.outcome # None /\ ~Correlated(all, u)
    <3> DEFINE reasons == CorrelationFailure(all, u)
    <3>1. plan.facts = Retained(aggregated, u, reasons) /\ plan.ops = all
      BY <2>3 DEF CorrelatedPlan
    <3>2. reasons \in SUBSET RetentionReason
      BY DEF CorrelationFailure, RetentionReason
    <3> HIDE DEF aggregated, reasons, plan
    <3>3. Builds(aggregated, plan.facts)
      BY <1>4, <3>1, <3>2, RetainedBuilds
    <3> QED
      BY <1>3, <1>5, <3>1, <3>3, BuildsTransitive DEF plan
  <2> QED
    BY <2>1, <2>2, <2>3
<1> DEFINE g == plan.facts
           s == IF ActiveRefund(plan.ops) THEN "refund_started" ELSE g.status
<1>7. s \in PaymentStatus
  BY <1>6 DEF Builds, PaymentFacts, PaymentStatus
<1>8. ObservationPlan(f, all, u) = [facts |-> [g EXCEPT !.status = s], ops |-> plan.ops]
  BY DEF ObservationPlan
<1> HIDE DEF g, s, plan
<1>9. Builds(g, [g EXCEPT !.status = s])
  <2>1. g \in PaymentFacts /\ ValidAmounts(g)
    BY <1>6 DEF g, Builds
  <2>2. g.captured > 0 /\ Funded(g) => s \notin {"new", "prepared", "pre-auth"}
    BY DEF Funded, s
  <2> QED
    BY <1>7, <2>1, <2>2, StatusChanged
<1>10. Builds(f, [g EXCEPT !.status = s])
  BY <1>6, <1>9, BuildsTransitive DEF g
<1> QED
  BY <1>6, <1>8, <1>10

-----------------------------------------------------------------------------
(* One decision. *)
LEMMA ReopenedTyped ==
  ASSUME NEW op \in OperationRecord, NEW r \in Resolution
  PROVE  Reopened(op, r) \in OperationRecord /\ Reopened(op, r).sequence = op.sequence
<1> DEFINE d == IF Corrects(op, r) THEN op.disputes \cup {Superseded(op)} ELSE op.disputes
           s == IF op.state = "rejected" \/ Corrects(op, r) THEN "unknown" ELSE op.state
<1>1. Superseded(op) \in Outcome
  BY DEF Superseded, OperationRecord, Outcome, Optional, EvidenceStates, TerminalStates
<1>2. d \in SUBSET Outcome
  BY <1>1 DEF OperationRecord
<1>3. s \in ActiveStates \cup TerminalStates \cup {"absent"}
  BY DEF OperationRecord, ActiveStates
<1>4. Reopened(op, r) = [op EXCEPT !.reconcile = FALSE, !.disputes = d, !.state = s]
  BY DEF Reopened
<1> HIDE DEF d, s
<1> DEFINE q == [op EXCEPT !.reconcile = FALSE, !.disputes = d, !.state = s]
<1>5. q \in OperationRecord
  BY <1>2, <1>3 DEF OperationRecord
<1>6. q.sequence = op.sequence
  BY DEF OperationRecord
<1> QED
  BY <1>4, <1>5, <1>6

(* plan_resolution is plan_outcome on the reopened record; it may end the *)
(* need for a human, and moves the balances no further. *)
LEMMA ResolutionBuilds ==
  ASSUME NEW f \in PaymentFacts, NEW all \in [OpId -> OperationRecord],
         NEW id \in OpId, NEW r \in Resolution, CanResolve(f, all, id, r)
  PROVE  /\ Builds([f EXCEPT !.reconcile = FALSE], ResolutionPlan(f, all, id, r).facts)
         /\ Follows(all, ResolutionPlan(f, all, id, r).ops)
<1> DEFINE reopened == [all EXCEPT ![id] = Reopened(all[id], r)]
           plan     == ResolvedPlan(f, all, id, r)
           final    == ResolutionPlan(f, all, id, r)
<1>1. all[id] \in OperationRecord /\ r.outcome \in Outcome
  BY DEF Resolution
<1>2. Follows(all, reopened)
  BY <1>1, ReopenedTyped, RecordReplaced
<1>3. ValidAmounts(f) /\ CanPlanOutcome(f, reopened, id, r.outcome)
  BY DEF CanResolve
<1>4. plan = OutcomePlan(f, reopened, id, r.outcome)
  BY DEF ResolvedPlan
<1> HIDE DEF reopened, plan
<1>5. Builds(f, plan.facts) /\ Follows(reopened, plan.ops)
  BY <1>1, <1>2, <1>3, <1>4, OutcomeBuilds DEF Follows
<1> DEFINE keeps_marker == /\ all[id].state \in TerminalStates
                           /\ HasUnresolvedRefund(f)
                           /\ \A other \in OpId \ {id} : plan.ops[other] = all[other]
           s  == IF keeps_marker THEN "refund_started" ELSE plan.facts.status
           b  == IF r.clear THEN FALSE ELSE plan.facts.reconcile
           g  == [plan.facts EXCEPT !.status = s, !.reconcile = b]
           op == plan.ops[id]
           q  == [op EXCEPT !.resolutions = op.resolutions \cup {r}, !.pending = {}]
<1>6. final.facts = g
  BY DEF ResolutionPlan, plan
<1>7. final.ops = [plan.ops EXCEPT ![id].resolutions = @ \cup {r}, ![id].pending = {}]
  BY DEF ResolutionPlan, plan
<1>8. final.ops = [plan.ops EXCEPT ![id] = q]
  BY <1>5, <1>7 DEF Follows
<1>9. Builds([f EXCEPT !.reconcile = FALSE], g)
  <2> DEFINE e == [f EXCEPT !.reconcile = FALSE]
             h == plan.facts
  <2>1. s \in PaymentStatus /\ s \in {h.status, "refund_started"} /\ b \in BOOLEAN
    BY <1>5 DEF Builds, PaymentFacts, PaymentStatus
  <2> HIDE DEF s, b
  <2>2. h \in PaymentFacts /\ ValidAmounts(h)
    BY <1>5 DEF Builds
  <2>3. g \in PaymentFacts
    BY <2>1, <2>2 DEF PaymentFacts
  <2>4. /\ g.required = h.required /\ g.captured = h.captured /\ g.hold = h.hold
        /\ g.refunded = h.refunded /\ g.conflicts = h.conflicts /\ g.status = s
    BY <2>2 DEF PaymentFacts
  <2>5. /\ e.required = f.required /\ e.captured = f.captured
        /\ e.refunded = f.refunded /\ e.conflicts = f.conflicts /\ ~e.reconcile
        /\ e.status = f.status /\ e.hold = f.hold
    BY DEF PaymentFacts
  <2> HIDE DEF e, h, g
  <2> QED
    BY <1>5, <2>1, <2>2, <2>3, <2>4, <2>5 DEF Builds, ValidAmounts, Funded, e, h
<1>10. Follows(plan.ops, final.ops)
  <2>1. op \in OperationRecord /\ r \in Resolution
    BY <1>5 DEF Follows
  <2> HIDE DEF op
  <2>2. q \in OperationRecord /\ q.sequence = op.sequence
    BY <2>1 DEF OperationRecord
  <2> QED
    BY <1>5, <1>8, <2>2, RecordReplaced DEF Follows, op
<1> QED
  BY <1>2, <1>5, <1>6, <1>9, <1>10 DEF Follows

-----------------------------------------------------------------------------
(* One reservation, one claim of its submission. *)
SequencesBounded(all) == \E n \in Nat : \A id \in OpId : all[id].sequence <= n

(* The next sequence is above every one in use. *)
LEMMA NextSequenceAbove ==
  ASSUME NEW all \in [OpId -> OperationRecord], SequencesBounded(all)
  PROVE  /\ NextSequence(all) \in Nat
         /\ \A id \in OpId : all[id].sequence < NextSequence(all)
<1> DEFINE S == {all[id].sequence : id \in OpId} \cup {0}
<1>1. \A id \in OpId : all[id].sequence \in Nat
  BY DEF OperationRecord
<1>2. S \in SUBSET Nat /\ 0 \in S
  BY <1>1
<1>3. PICK n \in Nat : \A id \in OpId : all[id].sequence <= n
  BY DEF SequencesBounded
<1>4. \A x \in S : x <= n
  BY <1>3
<1>5. \A id \in OpId : all[id].sequence \in S
  OBVIOUS
<1>6. NextSequence(all) = Max(S) + 1
  BY DEF NextSequence
<1> HIDE DEF S
<1>7. Max(S) \in Nat /\ \A x \in S : x <= Max(S)
  BY <1>2, <1>4, GreatestExists
<1> QED
  BY <1>1, <1>5, <1>6, <1>7

(* plan_reservation adds one record on top of the history. *)
LEMMA ReservationTyped ==
  ASSUME NEW f \in PaymentFacts, NEW all \in [OpId -> OperationRecord], SequencesBounded(all),
         NEW i \in Intent, CanReserve(f, all, i)
  PROVE  /\ Builds(f, Reservation(f, all, i).facts)
         /\ Reservation(f, all, i).ops \in [OpId -> OperationRecord]
         /\ SequencesBounded(Reservation(f, all, i).ops)
<1> DEFINE a == ResolvedAmount(f, i)
           n == NextSequence(all)
           t == IF i.type = "cancel_refund" THEN all[i.target].correlation ELSE None
           op == [Absent EXCEPT
                   !.type = i.type, !.state = "reserved", !.asked = i.amount,
                   !.target = i.target, !.target_correlation = t, !.amount = a,
                   !.base_captured = f.captured, !.base_refunded = f.refunded,
                   !.base_hold = f.hold, !.sequence = n]
           g == IF i.type = "start_refund" THEN [f EXCEPT !.status = "refund_started"] ELSE f
<1>1. /\ i.id \in OpId /\ i.type \in OperationType /\ i.amount \in Optional(Int)
      /\ i.target \in Optional(OpId)
  BY DEF Intent
<1>2. f.captured \in Int /\ f.refunded \in Int /\ f.hold \in Int /\ f.required \in Int
  BY DEF PaymentFacts
<1>3. a \in Optional(Int)
  BY <1>1, <1>2 DEF ResolvedAmount, AvailableAmount, CapturableAmount, RefundableAmount,
                    Smaller, Optional
<1>4. t \in Optional(Correlations)
  BY DEF CanReserve, CancellableRefund, OperationRecord, Optional
<1>5. n \in Nat /\ \A id \in OpId : all[id].sequence < n
  BY NextSequenceAbove
<1>6. ValidAmounts(f)
  BY DEF CanReserve, CanResolveAmount
<1>7. Reservation(f, all, i) = [facts |-> g, ops |-> [all EXCEPT ![i.id] = op]]
  BY DEF Reservation
<1>8. Absent \in OperationRecord
  BY DEF Absent, OperationRecord, Optional
<1> HIDE DEF a, n, t
<1>9. op \in OperationRecord /\ op.sequence = n
  <2>1. /\ i.type \in Optional(OperationType)
        /\ "reserved" \in ActiveStates \cup TerminalStates \cup {"absent"}
    BY <1>1 DEF Optional, ActiveStates
  <2>2. op \in OperationRecord
    BY <1>1, <1>2, <1>3, <1>4, <1>5, <1>8, <2>1 DEF OperationRecord
  <2>3. op.sequence = n
    BY <1>8 DEF OperationRecord
  <2> QED
    BY <2>2, <2>3
<1>10. Builds(f, g)
  <2>1. "refund_started" \in PaymentStatus
    BY DEF PaymentStatus
  <2>2. Builds(f, f)
    BY <1>6 DEF Builds, PaymentFacts
  <2> QED
    BY <1>6, <2>1, <2>2, StatusChanged
<1> HIDE DEF op, g
<1>11. \A id \in OpId : [all EXCEPT ![i.id] = op][id].sequence <= n
  <2>1. \A id \in OpId : all[id].sequence \in Nat
    BY DEF OperationRecord
  <2> QED
    BY <1>1, <1>5, <1>9, <2>1
<1> QED
  BY <1>1, <1>5, <1>7, <1>9, <1>10, <1>11 DEF SequencesBounded

(* plan_submission changes the attempt and the window of one record. *)
LEMMA SubmissionTyped ==
  ASSUME NEW op \in OperationRecord, NEW now \in Int,
         NEW retry_until \in Optional(Int), NEW scope \in Optional(Scopes)
  PROVE  /\ Submission(op, now, retry_until, scope) \in OperationRecord
         /\ Submission(op, now, retry_until, scope).sequence = op.sequence
<1> DEFINE t == IF op.attempts = 0 THEN now ELSE op.submitted_at
           r == IF op.attempts = 0 THEN retry_until ELSE op.retry_until
           s == IF op.attempts = 0 THEN scope ELSE op.scope
           p == op.pending \cup {op.attempts + 1}
           n == op.attempts + 1
<1>1. /\ t \in Optional(Int) /\ r \in Optional(Int) /\ s \in Optional(Scopes)
      /\ p \in SUBSET Nat /\ n \in Nat
  BY DEF OperationRecord, Optional
<1>2. Submission(op, now, retry_until, scope) =
        [op EXCEPT !.state = "submitting", !.attempts = n, !.pending = p,
                   !.submitted_at = t, !.retry_until = r, !.scope = s]
  BY DEF Submission
<1>3. "submitting" \in ActiveStates \cup TerminalStates \cup {"absent"}
  BY DEF ActiveStates
<1> HIDE DEF t, r, s, p, n
<1> DEFINE q == [op EXCEPT !.state = "submitting", !.attempts = n, !.pending = p,
                           !.submitted_at = t, !.retry_until = r, !.scope = s]
<1>4. q \in OperationRecord
  BY <1>1, <1>3 DEF OperationRecord
<1>5. q.sequence = op.sequence
  BY DEF OperationRecord
<1> QED
  BY <1>2, <1>4, <1>5

-----------------------------------------------------------------------------
(* The inductive invariant.  SequencesBounded is what makes the next       *)
(* sequence a number: it is one more than the greatest in use, and only a  *)
(* bounded set of numbers has a greatest.                                  *)
IndInv == TypeOK /\ FundsBounded /\ SequencesBounded(ops)

(* A commit that a planner lemma covers keeps the invariant. *)
LEMMA FollowsBounded ==
  ASSUME NEW all, NEW next, SequencesBounded(all), Follows(all, next)
  PROVE  SequencesBounded(next)
BY DEF SequencesBounded, Follows

(* A payment is opened without operations. *)
LEMMA InitIndInv == Init => IndInv
<1> SUFFICES ASSUME Init PROVE IndInv
  OBVIOUS
<1>1. facts \in PaymentFacts /\ FundsBounded
  BY PaymentsOpenValid DEF Init, FundsBounded
<1>2. Absent \in OperationRecord /\ Absent.sequence = 0
  BY DEF Absent, OperationRecord, Optional
<1>3. ops \in [OpId -> OperationRecord] /\ \A id \in OpId : ops[id].sequence <= 0
  BY <1>2 DEF Init
<1>4. replay \in [EventId -> Optional(Observation)]
  BY DEF Init, Optional
<1>5. review \in [Reviewers -> Review]
  BY DEF Init, Review, Optional
<1> QED
  BY <1>1, <1>3, <1>4, <1>5 DEF IndInv, TypeOK, SequencesBounded

(* reserve_operation keeps the invariant. *)
LEMMA ReserveInd ==
  ASSUME IndInv, NEW i \in Intents, Reserve(i)
  PROVE  IndInv'
<1>1. i \in Intent
  BY InputsTyped
<1>2. /\ facts \in PaymentFacts /\ ops \in [OpId -> OperationRecord]
      /\ SequencesBounded(ops) /\ CanReserve(facts, ops, i)
  BY DEF IndInv, TypeOK, Reserve
<1>3. /\ Builds(facts, Reservation(facts, ops, i).facts)
      /\ Reservation(facts, ops, i).ops \in [OpId -> OperationRecord]
      /\ SequencesBounded(Reservation(facts, ops, i).ops)
  BY <1>1, <1>2, ReservationTyped
<1>4. /\ facts' = Reservation(facts, ops, i).facts
      /\ ops' = Reservation(facts, ops, i).ops
      /\ replay' = replay /\ review' = review
  BY DEF Reserve, Commit
<1> QED
  BY <1>3, <1>4 DEF IndInv, TypeOK, FundsBounded, Builds

(* claim_submission keeps the invariant. *)
LEMMA ClaimInd ==
  ASSUME IndInv, NEW id \in OpId, NEW expected, NEW now \in Times,
         NEW retry_until \in Optional(Deadlines), NEW scope \in Optional(Scopes),
         Claim(id, expected, now, retry_until, scope)
  PROVE  IndInv'
<1> DEFINE op == Submission(ops[id], now, retry_until, scope)
<1>1. now \in Int /\ retry_until \in Optional(Int)
  BY InputsTyped DEF Optional
<1>2. ops \in [OpId -> OperationRecord] /\ SequencesBounded(ops)
  BY DEF IndInv, TypeOK
<1>3. op \in OperationRecord /\ op.sequence = ops[id].sequence
  BY <1>1, <1>2, SubmissionTyped
<1>4. ops' = [ops EXCEPT ![id] = op] /\ UNCHANGED <<facts, replay, review>>
  BY DEF Claim
<1> HIDE DEF op
<1>5. Follows(ops, ops')
  BY <1>2, <1>3, <1>4, RecordReplaced
<1> QED
  BY <1>2, <1>4, <1>5, FollowsBounded DEF IndInv, TypeOK, FundsBounded, Follows

(* record_operation_outcome keeps the invariant, whichever attempt it *)
(* retires. *)
LEMMA RecordOutcomeInd ==
  ASSUME IndInv, NEW id \in OpId, NEW o \in Outcomes, NEW attempt,
         RecordOutcome(id, o, attempt)
  PROVE  IndInv'
<1> DEFINE plan == OutcomePlan(facts, ops, id, o)
           op   == plan.ops[id]
           q    == [op EXCEPT !.pending = @ \ {attempt}]
<1>1. o \in Outcome
  BY InputsTyped
<1>2. /\ facts \in PaymentFacts /\ ValidAmounts(facts)
      /\ ops \in [OpId -> OperationRecord] /\ SequencesBounded(ops)
      /\ CanPlanOutcome(facts, ops, id, o)
  BY DEF IndInv, TypeOK, FundsBounded, RecordOutcome
<1>3. Builds(facts, plan.facts) /\ Follows(ops, plan.ops)
  BY <1>1, <1>2, OutcomeBuilds
<1>4. /\ facts' = plan.facts
      /\ ops' = WithoutAttempt(plan.ops, id, attempt)
      /\ replay' = replay /\ review' = review
  BY DEF RecordOutcome
<1> HIDE DEF plan
<1>5. Follows(plan.ops, ops')
  <2>1. op \in OperationRecord
    BY <1>3 DEF Follows
  <2> HIDE DEF op
  <2>2. q \in OperationRecord /\ q.sequence = op.sequence
    BY <2>1 DEF OperationRecord
  <2> HIDE DEF q
  <2>3. Follows(plan.ops, [plan.ops EXCEPT ![id] = q])
    BY <1>3, <2>1, <2>2, RecordReplaced DEF Follows, op
  <2>4. CASE attempt = None
    BY <1>3, <1>4, <2>4 DEF WithoutAttempt, Follows
  <2>5. CASE attempt # None
    BY <1>3, <1>4, <2>3, <2>5 DEF WithoutAttempt, q, op
  <2> QED
    BY <2>4, <2>5
<1>6. SequencesBounded(ops')
  BY <1>2, <1>3, <1>5, FollowsBounded
<1> QED
  BY <1>3, <1>4, <1>5, <1>6 DEF IndInv, TypeOK, FundsBounded, Builds, Follows

(* record_operation_failure keeps the invariant. *)
LEMMA RecordFailureInd ==
  ASSUME IndInv, NEW id \in OpId, NEW evidence \in Evidence, RecordFailure(id, evidence)
  PROVE  IndInv'
<1> DEFINE op == FailureNoted(ops[id], evidence)
<1>1. ops \in [OpId -> OperationRecord] /\ SequencesBounded(ops)
  BY DEF IndInv, TypeOK
<1>2. op \in OperationRecord /\ op.sequence = ops[id].sequence
  <2>1. ops[id] \in OperationRecord
    BY <1>1
  <2>2. ops[id].recovery \cup {evidence} \in SUBSET Evidence
    BY <2>1 DEF OperationRecord
  <2>3. op = [ops[id] EXCEPT !.reconcile = TRUE, !.recovery = ops[id].recovery \cup {evidence}]
    BY DEF FailureNoted
  <2> DEFINE q == [ops[id] EXCEPT !.reconcile = TRUE,
                                  !.recovery = ops[id].recovery \cup {evidence}]
  <2>4. q \in OperationRecord
    BY <2>1, <2>2 DEF OperationRecord
  <2>5. q.sequence = ops[id].sequence
    BY <2>1 DEF OperationRecord
  <2> QED
    BY <2>3, <2>4, <2>5
<1>3. ops' = [ops EXCEPT ![id] = op] /\ UNCHANGED <<facts, replay, review>>
  BY DEF RecordFailure
<1> HIDE DEF op
<1>4. Follows(ops, ops')
  BY <1>1, <1>2, <1>3, RecordReplaced
<1> QED
  BY <1>1, <1>3, <1>4, FollowsBounded DEF IndInv, TypeOK, FundsBounded, Follows

(* apply_observation keeps the invariant: repeated, impossible and new *)
(* evidence. *)
LEMMA NoticeInd ==
  ASSUME IndInv, Notice
  PROVE  IndInv'
<1>1. PICK u \in Observations : ObserveAgain(u) \/ ObserveImpossible(u) \/ Observe(u)
  BY DEF Notice
<1>2. u \in Observation
  BY InputsTyped
<1>3. /\ facts \in PaymentFacts /\ ValidAmounts(facts)
      /\ ops \in [OpId -> OperationRecord] /\ SequencesBounded(ops)
      /\ replay \in [EventId -> Optional(Observation)] /\ review \in [Reviewers -> Review]
  BY DEF IndInv, TypeOK, FundsBounded
<1>4. /\ {"conflicting_identity"} \in SUBSET RetentionReason
      /\ {"financial_constraints"} \in SUBSET RetentionReason
  BY DEF RetentionReason
<1>5. CASE ObserveAgain(u)
  <2>1. facts' = facts \/ Builds(facts, facts')
    BY <1>2, <1>3, <1>4, <1>5, RetainedBuilds DEF ObserveAgain
  <2>2. UNCHANGED <<ops, replay, review>>
    BY <1>5 DEF ObserveAgain
  <2> QED
    BY <1>3, <2>1, <2>2 DEF IndInv, TypeOK, FundsBounded, Builds
<1>6. CASE ObserveImpossible(u)
  <2>1. Builds(facts, facts')
    BY <1>2, <1>3, <1>4, <1>6, RetainedBuilds DEF ObserveImpossible
  <2>2. UNCHANGED <<ops, replay, review>>
    BY <1>6 DEF ObserveImpossible
  <2> QED
    BY <1>3, <2>1, <2>2 DEF IndInv, TypeOK, FundsBounded, Builds
<1>7. CASE Observe(u)
  <2>1. Builds(facts, facts') /\ Follows(ops, ops')
    BY <1>2, <1>3, <1>7, ObservationBuilds DEF Observe, Commit
  <2>2. SequencesBounded(ops')
    BY <1>3, <2>1, FollowsBounded
  <2>3. replay' \in [EventId -> Optional(Observation)] /\ review' = review
    BY <1>2, <1>3, <1>7 DEF Observe, Optional
  <2> QED
    BY <1>3, <2>1, <2>2, <2>3 DEF IndInv, TypeOK, FundsBounded, Builds, Follows
<1> QED
  BY <1>1, <1>5, <1>6, <1>7

(* Reading keeps the invariant, and so does a decision on what was read. *)
LEMMA DecideInd ==
  ASSUME IndInv, Decide
  PROVE  IndInv'
<1>1. /\ facts \in PaymentFacts /\ ValidAmounts(facts)
      /\ ops \in [OpId -> OperationRecord] /\ SequencesBounded(ops)
      /\ replay \in [EventId -> Optional(Observation)] /\ review \in [Reviewers -> Review]
  BY DEF IndInv, TypeOK, FundsBounded
<1>2. PICK w \in Reviewers :
        \/ \E id \in OpId : ReviewOperation(w, id)
        \/ ReviewFacts(w)
        \/ \E r \in Resolutions : Resolve(w, r)
  BY DEF Decide
<1>3. CASE \E id \in OpId : ReviewOperation(w, id)
  <2>1. PICK id \in OpId : ReviewOperation(w, id)
    BY <1>3
  <2>2. [facts |-> None, id |-> id, op |-> ops[id]] \in Review
    BY <1>1 DEF Review, Optional
  <2>3. review' \in [Reviewers -> Review] /\ UNCHANGED <<facts, ops, replay>>
    BY <1>1, <2>1, <2>2 DEF ReviewOperation
  <2> QED
    BY <1>1, <2>3 DEF IndInv, TypeOK, FundsBounded
<1>4. CASE ReviewFacts(w)
  <2>1. [review[w] EXCEPT !.facts = facts] \in Review
    BY <1>1 DEF Review, Optional
  <2>2. review' \in [Reviewers -> Review] /\ UNCHANGED <<facts, ops, replay>>
    BY <1>1, <1>4, <2>1 DEF ReviewFacts
  <2> QED
    BY <1>1, <2>2 DEF IndInv, TypeOK, FundsBounded
<1>5. CASE \E r \in Resolutions : Resolve(w, r)
  <2>1. PICK r \in Resolutions : Resolve(w, r)
    BY <1>5
  <2> DEFINE id == review[w].id
  <2>2. r \in Resolution
    BY InputsTyped
  <2>3. id \in OpId
    BY <1>1, <2>1 DEF Resolve, Review, Optional
  <2>4. CanResolve(facts, ops, id, r)
    BY <2>1 DEF Resolve
  <2>5. /\ facts' = ResolutionPlan(facts, ops, id, r).facts
        /\ ops' = ResolutionPlan(facts, ops, id, r).ops
    BY <2>1 DEF Resolve, Commit
  <2> HIDE DEF id
  <2>6. Builds([facts EXCEPT !.reconcile = FALSE], facts') /\ Follows(ops, ops')
    BY <1>1, <2>2, <2>3, <2>4, <2>5, ResolutionBuilds
  <2>7. SequencesBounded(ops')
    BY <1>1, <2>6, FollowsBounded
  <2>8. [facts |-> None, id |-> None, op |-> None] \in Review
    BY DEF Review, Optional
  <2>9. review' \in [Reviewers -> Review] /\ replay' = replay
    BY <1>1, <2>1, <2>8 DEF Resolve
  <2> QED
    BY <1>1, <2>6, <2>7, <2>9 DEF IndInv, TypeOK, FundsBounded, Builds, Follows
<1> QED
  BY <1>2, <1>3, <1>4, <1>5

(* Every step of the repository keeps the invariant. *)
LEMMA NextIndInv == IndInv /\ [Next]_vars => IndInv'
<1> SUFFICES ASSUME IndInv, [Next]_vars PROVE IndInv'
  OBVIOUS
<1>1. CASE Operate
  <2>1. ASSUME NEW i \in Intents, Reserve(i) PROVE IndInv'
    BY <2>1, ReserveInd
  <2>2. ASSUME NEW i \in Intents, Resume(i) PROVE IndInv'
    BY <2>2 DEF Resume, vars, IndInv, TypeOK, FundsBounded, SequencesBounded
  <2>3. ASSUME NEW id \in OpId, NEW expected \in 0 .. MaxAttempts, NEW now \in Times,
               NEW retry_until \in Optional(Deadlines), NEW scope \in Optional(Scopes),
               Claim(id, expected, now, retry_until, scope)
        PROVE  IndInv'
    BY <2>3, ClaimInd
  <2>4. ASSUME NEW id \in OpId, NEW o \in Outcomes, NEW attempt \in Optional(1 .. MaxAttempts),
               RecordOutcome(id, o, attempt)
        PROVE  IndInv'
    BY <2>4, RecordOutcomeInd
  <2>5. ASSUME NEW id \in OpId, NEW evidence \in Evidence, RecordFailure(id, evidence)
        PROVE  IndInv'
    BY <2>5, RecordFailureInd
  <2> QED
    BY <1>1, <2>1, <2>2, <2>3, <2>4, <2>5 DEF Operate
<1>2. CASE Notice
  BY <1>2, NoticeInd
<1>3. CASE Decide
  BY <1>3, DecideInd
<1>4. CASE UNCHANGED vars
  BY <1>4 DEF vars, IndInv, TypeOK, FundsBounded, SequencesBounded
<1> QED
  BY <1>1, <1>2, <1>3, <1>4 DEF Next

(* The invariant holds in every reachable state of the repository in *)
(* durable/memory.py. *)
THEOREM InductiveInvariant == Spec => []IndInv
<1>1. Init => IndInv
  BY InitIndInv
<1>2. IndInv /\ [Next]_vars => IndInv'
  BY NextIndInv
<1> QED
  BY <1>1, <1>2, PTL DEF Spec

(* Whatever the application, the providers and the operators do, every     *)
(* committed record has the shape records.py declares.                     *)
THEOREM TypeCorrect == Spec => []TypeOK
<1>1. IndInv => TypeOK
  BY DEF IndInv
<1> QED
  BY <1>1, InductiveInvariant, PTL

(* The committed balances stay possible after any number of responses,     *)
(* callbacks, increments, cancellations and decisions, in any order and    *)
(* for payments of any size: rules.py never commits a total that           *)
(* validate_payment_amounts would refuse.                                  *)
THEOREM BalancesStayPossible == Spec => []FundsBounded
<1>1. IndInv => FundsBounded
  BY DEF IndInv
<1> QED
  BY <1>1, InductiveInvariant, PTL

(* Every commit builds on the facts before it, but for the reconciliation  *)
(* requirement that a decision may end.                                    *)
LEMMA StepBuilds ==
  ASSUME IndInv, [Next]_vars
  PROVE  Builds(facts, facts') \/ Builds([facts EXCEPT !.reconcile = FALSE], facts')
<1>1. facts \in PaymentFacts /\ ValidAmounts(facts) /\ Builds(facts, facts)
  BY DEF IndInv, TypeOK, FundsBounded, Builds, PaymentFacts
<1>2. ops \in [OpId -> OperationRecord] /\ SequencesBounded(ops) /\ review \in [Reviewers -> Review]
  BY DEF IndInv, TypeOK
<1>3. ASSUME NEW i \in Intents, Reserve(i)
      PROVE  Builds(facts, facts')
  BY <1>1, <1>2, <1>3, ReservationTyped, InputsTyped DEF Reserve, Commit
<1>4. ASSUME NEW id \in OpId, NEW o \in Outcomes, NEW attempt, RecordOutcome(id, o, attempt)
      PROVE  Builds(facts, facts')
  BY <1>1, <1>2, <1>4, OutcomeBuilds, InputsTyped DEF RecordOutcome
<1>5. ASSUME NEW u \in Observations, ObserveAgain(u) \/ ObserveImpossible(u)
      PROVE  Builds(facts, facts')
  <2>1. /\ {"conflicting_identity"} \in SUBSET RetentionReason
        /\ {"financial_constraints"} \in SUBSET RetentionReason
    BY DEF RetentionReason
  <2>2. u \in Observation
    BY InputsTyped
  <2> QED
    BY <1>1, <1>5, <2>1, <2>2, RetainedBuilds DEF ObserveAgain, ObserveImpossible
<1>6. ASSUME NEW u \in Observations, Observe(u)
      PROVE  Builds(facts, facts')
  BY <1>1, <1>2, <1>6, ObservationBuilds, InputsTyped DEF Observe, Commit
<1>7. ASSUME NEW w \in Reviewers, NEW r \in Resolutions, Resolve(w, r)
      PROVE  Builds([facts EXCEPT !.reconcile = FALSE], facts')
  <2> DEFINE id == review[w].id
  <2>1. r \in Resolution /\ id \in OpId
    BY <1>2, <1>7, InputsTyped DEF Resolve, Review, Optional
  <2>2. CanResolve(facts, ops, id, r) /\ facts' = ResolutionPlan(facts, ops, id, r).facts
    BY <1>7 DEF Resolve, Commit
  <2> HIDE DEF id
  <2> QED
    BY <1>1, <1>2, <2>1, <2>2, ResolutionBuilds
<1>8. CASE facts' = facts
  BY <1>1, <1>8
<1> QED
  <2>1. CASE Operate
    BY <1>3, <1>4, <1>8, <2>1 DEF Operate, Resume, Claim, RecordFailure, vars
  <2>2. CASE Notice
    BY <1>5, <1>6, <2>2 DEF Notice
  <2>3. CASE Decide
    BY <1>7, <1>8, <2>3 DEF Decide, ReviewOperation, ReviewFacts
  <2> QED
    BY <1>8, <2>1, <2>2, <2>3 DEF Next, vars

(* However many responses, callbacks and decisions arrive, in any order,   *)
(* committed totals only grow and, once something was captured, the hold   *)
(* only shrinks: no old snapshot brings back what a capture consumed.      *)
THEOREM FundsAccumulate ==
  ASSUME FundsShownAtOpening
  PROVE  Spec => FundsNeverRegress
<1> DEFINE Accumulates ==
             /\ facts'.required = facts.required
             /\ facts'.captured >= facts.captured
             /\ facts'.refunded >= facts.refunded
             /\ facts.captured > 0 => facts'.hold <= facts.hold
<1>1. Init => Funded(facts)
  BY DEF Init, FundsShownAtOpening
<1>2. IndInv /\ Funded(facts) /\ [Next]_vars => Funded(facts)' /\ Accumulates
  <2> SUFFICES ASSUME IndInv, Funded(facts), [Next]_vars
               PROVE  Funded(facts)' /\ Accumulates
    OBVIOUS
  <2> DEFINE f == [facts EXCEPT !.reconcile = FALSE]
  <2>1. Builds(facts, facts') \/ Builds(f, facts')
    BY StepBuilds
  <2>2. /\ f.required = facts.required /\ f.captured = facts.captured
        /\ f.refunded = facts.refunded /\ f.hold = facts.hold /\ f.status = facts.status
    BY DEF IndInv, TypeOK, PaymentFacts
  <2> HIDE DEF f
  <2> QED
    BY <2>1, <2>2 DEF Builds, Funded
<1>3. Accumulates => [Accumulates]_vars
  OBVIOUS
<1> QED
  BY <1>1, <1>2, InductiveInvariant, PTL DEF Spec, FundsNeverRegress

-----------------------------------------------------------------------------
(* What a reservation resolved, and what its first claim promised. *)
Promised(op, q) ==
  /\ \A field \in {"type", "asked", "target", "target_correlation", "amount",
                   "base_captured", "base_refunded", "base_hold", "sequence"} :
       q[field] = op[field]
  /\ q.attempts = op.attempts
  /\ q.submitted_at = op.submitted_at
  /\ q.retry_until  = op.retry_until
  /\ q.scope        = op.scope

(* What neither answers nor failures nor decisions take from a record. *)
Kept(op, q) ==
  /\ Promised(op, q)
  /\ op.disputes \subseteq q.disputes
  /\ op.recovery \subseteq q.recovery
  /\ op.resolutions \subseteq q.resolutions
  /\ op.correlation # None => q.correlation = op.correlation

(* What an outcome, of this or of another operation, does to a record. *)
Evolves(op, q) ==
  /\ Kept(op, q)
  /\ op.reconcile => q.reconcile
  /\ q.pending \subseteq op.pending
  /\ Active(q) => Active(op)
  /\ op.state = "absent" => q = op
  /\ op.state # "absent" => q.state # "absent"
  /\ op.state = "succeeded" => q.state = "succeeded" /\ q.settled = op.settled
  /\ op.state = "rejected"  => q.state \in {"rejected", "succeeded"}
  /\ q.settled # op.settled => q.state = "succeeded"

(* Records differ in the fields an outcome replaces, and in no other. *)
LEMMA NotedEvolves ==
  ASSUME NEW f, NEW op \in OperationRecord, NEW o \in Outcome, op.state # "absent"
  PROVE  /\ Evolves(op, Noted(f, op, o))
         /\ Noted(f, op, o).settled = op.settled
<1> DEFINE c == IF op.correlation = None THEN o.correlation ELSE op.correlation
           b == op.reconcile \/ o.reconcile \/ Contradicts(f, op, o)
           d == IF Contradicts(f, op, o) THEN op.disputes \cup {o} ELSE op.disputes
           q == [op EXCEPT !.correlation = c, !.reconcile = b, !.disputes = d]
<1>1. Noted(f, op, o) = q
  BY DEF Noted
<1>2. (op.correlation # None => c = op.correlation) /\ (op.reconcile => b) /\ op.disputes \subseteq d
  OBVIOUS
<1> HIDE DEF b, c, d
<1>3. /\ q.correlation = c /\ q.reconcile = b /\ q.disputes = d
      /\ q.state = op.state /\ q.settled = op.settled /\ q.pending = op.pending
      /\ q.recovery = op.recovery /\ q.resolutions = op.resolutions
  BY DEF OperationRecord
<1>4. Promised(op, q)
  BY DEF OperationRecord, Promised
<1> HIDE DEF q
<1>5. Evolves(op, q)
  BY <1>2, <1>3, <1>4 DEF Evolves, Kept, Active
<1> QED
  BY <1>1, <1>3, <1>5

(* So do those of a disputed outcome. *)
LEMMA DisputedEvolves ==
  ASSUME NEW f, NEW op \in OperationRecord, NEW o \in Outcome, op.state # "absent"
  PROVE  /\ Evolves(op, Disputed(f, op, o).op)
         /\ Disputed(f, op, o).op.state = op.state
         /\ Disputed(f, op, o).op.reconcile
         /\ Disputed(f, op, o).op.settled = op.settled
<1> DEFINE d == op.disputes \cup {o}
           q == [op EXCEPT !.reconcile = TRUE, !.disputes = d]
<1>1. Disputed(f, op, o).op = q
  BY DEF Disputed
<1>2. op.disputes \subseteq d
  OBVIOUS
<1> HIDE DEF d
<1>3. /\ q.correlation = op.correlation /\ q.reconcile = TRUE /\ q.disputes = d
      /\ q.state = op.state /\ q.settled = op.settled /\ q.pending = op.pending
      /\ q.recovery = op.recovery /\ q.resolutions = op.resolutions
  BY DEF OperationRecord
<1>4. Promised(op, q)
  BY DEF OperationRecord, Promised
<1> HIDE DEF q
<1>5. Evolves(op, q)
  BY <1>2, <1>3, <1>4 DEF Evolves, Kept, Active
<1> QED
  BY <1>1, <1>3, <1>5

(* The records after an outcome that establishes an effect: the operation  *)
(* moves, and a cancellation stops the refund it names.                    *)
LEMMA SettledOpsEvolve ==
  ASSUME NEW f, NEW all \in [OpId -> OperationRecord], NEW id \in OpId, NEW o \in Outcome,
         all[id].state # "absent",
         Active(all[id]) \/ CancelledRefundSettled(all, id, o)
  PROVE  LET next == SettledOps(f, all, id, o)
         IN  /\ \A x \in OpId : Evolves(all[x], next[x])
             /\ next[id].state = NextState(all[id], o)
             /\ next[id].reconcile = Noted(f, all[id], o).reconcile
             /\ o.state = "succeeded" => next[id].settled = SettledAmount(all[id], o)
             /\ \A x \in OpId \ {id} : next[x].state = "rejected" \/ next[x] = all[x]
             /\ \A x \in OpId \ {id} : next[x].settled = all[x].settled
             /\ \A x \in OpId : all[x].state = "rejected" /\ next[x].state # "rejected" => x = id
<1> DEFINE op == all[id]
           n  == Noted(f, op, o)
           s  == NextState(op, o)
           a  == IF o.state = "succeeded" THEN SettledAmount(op, o) ELSE n.settled
           q  == [n EXCEPT !.state = s, !.settled = a]
           next == SettledOps(f, all, id, o)
<1>1. op \in OperationRecord /\ n \in OperationRecord
  BY NotedTyped
<1>2. Evolves(op, n) /\ n.state = op.state
  BY <1>1, NotedEvolves, NotedTyped
<1>3. s \in EvidenceStates
  BY <1>1 DEF NextState, Outcome, EvidenceStates
<1>4. s = "succeeded" \/ Active(op)
  BY DEF CancelledRefundSettled, NextState, TerminalStates
<1>5. op.state # "succeeded"
  BY DEF Active, ActiveStates, CancelledRefundSettled
<1>6. a # op.settled => s = "succeeded"
  BY <1>1, NotedEvolves DEF NextState
<1>7. next = [x \in OpId |->
                IF x = id THEN q
                ELSE IF StopsTarget(all, id, o) /\ x = op.target
                     THEN [all[x] EXCEPT !.state = "rejected"]
                ELSE all[x]]
  BY DEF SettledOps
<1> HIDE DEF n, s, a, next
<1>8. Evolves(op, q) /\ q.state = s /\ q.reconcile = n.reconcile /\ q.settled = a
  <2>1. /\ q.correlation = n.correlation /\ q.reconcile = n.reconcile /\ q.disputes = n.disputes
        /\ q.state = s /\ q.pending = n.pending /\ q.settled = a
        /\ q.recovery = n.recovery /\ q.resolutions = n.resolutions
    BY <1>1 DEF OperationRecord
  <2>2. Promised(n, q)
    BY <1>1 DEF OperationRecord, Promised
  <2> HIDE DEF q
  <2>3. Promised(op, q)
    BY <1>2, <2>2 DEF Promised, Evolves, Kept
  <2>4. s # "absent" /\ s \in ActiveStates \cup TerminalStates
    BY <1>3 DEF EvidenceStates, TerminalStates, ActiveStates
  <2> QED
    BY <1>2, <1>3, <1>4, <1>5, <1>6, <2>1, <2>3, <2>4
    DEF Evolves, Kept, Active, ActiveStates, EvidenceStates, TerminalStates
<1>9. ASSUME NEW x \in OpId
      PROVE  Evolves(all[x], all[x])
  BY DEF Evolves, Kept, Promised, OperationRecord
<1>10. ASSUME NEW x \in OpId, StopsTarget(all, id, o), x = op.target
      PROVE  /\ Evolves(all[x], [all[x] EXCEPT !.state = "rejected"])
             /\ [all[x] EXCEPT !.state = "rejected"].state = "rejected"
             /\ [all[x] EXCEPT !.state = "rejected"].settled = all[x].settled
  <2> DEFINE p == all[x]
             r == [p EXCEPT !.state = "rejected"]
  <2>1. p \in OperationRecord /\ Active(p)
    BY <1>10 DEF StopsTarget
  <2> HIDE DEF p
  <2>2. Promised(p, r)
    BY <2>1 DEF OperationRecord, Promised
  <2>3. /\ r.correlation = p.correlation /\ r.reconcile = p.reconcile /\ r.disputes = p.disputes
        /\ r.state = "rejected" /\ r.pending = p.pending /\ r.settled = p.settled
        /\ r.recovery = p.recovery /\ r.resolutions = p.resolutions
    BY <2>1 DEF OperationRecord
  <2> HIDE DEF r
  <2>4. Evolves(p, r) /\ r.state = "rejected" /\ r.settled = p.settled
    BY <2>1, <2>2, <2>3 DEF Evolves, Kept, Active, ActiveStates
  <2> QED
    BY <2>4 DEF p, r
<1> HIDE DEF q
<1>11. /\ \A x \in OpId : Evolves(all[x], next[x])
       /\ \A x \in OpId \ {id} : next[x].state = "rejected" \/ next[x] = all[x]
       /\ \A x \in OpId \ {id} : next[x].settled = all[x].settled
  BY <1>7, <1>8, <1>9, <1>10
<1>12. next[id] = q
  BY <1>7
<1>13. o.state = "succeeded" => q.settled = SettledAmount(op, o)
  BY <1>8 DEF a
<1> QED
  BY <1>8, <1>11, <1>12, <1>13 DEF next, n, s

(* plan_outcome: what it may do to each record, and the one way in which a *)
(* rejected operation succeeds after all.                                  *)
LEMMA OutcomeEvolves ==
  ASSUME NEW f \in PaymentFacts, ValidAmounts(f),
         NEW all \in [OpId -> OperationRecord], NEW id \in OpId, NEW o \in Outcome,
         CanPlanOutcome(f, all, id, o)
  PROVE  LET plan == OutcomePlan(f, all, id, o)
         IN  /\ \A x \in OpId : Evolves(all[x], plan.ops[x])
             /\ \A x \in OpId : all[x].state = "rejected" /\ plan.ops[x].state # "rejected" =>
                  /\ x = id /\ CancelledRefundSettled(all, id, o)
                  /\ plan.ops[x].state = "succeeded"
                  /\ plan.ops[x].reconcile /\ plan.facts.reconcile
<1> DEFINE op    == all[id]
           n     == Noted(f, op, o)
           g     == IdentifiedFacts(f, op, o)
           claim == SettlementClaim(g, all, id, o)
           next  == SettledOps(f, all, id, o)
           plan  == OutcomePlan(f, all, id, o)
<1>1. op \in OperationRecord /\ n \in OperationRecord /\ op.state # "absent"
  BY NotedTyped DEF CanPlanOutcome
<1>2. Evolves(op, n) /\ n.state = op.state /\ n.state # "absent"
  BY <1>1, NotedEvolves, NotedTyped
<1>3. \A x \in OpId : Evolves(all[x], all[x])
  BY DEF Evolves, Kept, Promised, OperationRecord
<1>4. \A q : Evolves(op, q) => \A x \in OpId : Evolves(all[x], [all EXCEPT ![id] = q][x])
  BY <1>3
<1>5. \A q : q.state = op.state => \A x \in OpId : [all EXCEPT ![id] = q][x].state = all[x].state
  OBVIOUS
<1>6. CASE Overstated(op, o)
  <2>1. plan.ops = [all EXCEPT ![id] = Disputed(f, op, o).op]
    BY <1>6 DEF OutcomePlan
  <2> HIDE DEF plan
  <2>2. Evolves(op, Disputed(f, op, o).op) /\ Disputed(f, op, o).op.state = op.state
    BY <1>1, DisputedEvolves
  <2> QED
    BY <1>4, <1>5, <2>1, <2>2 DEF plan
<1>7. CASE ~Overstated(op, o) /\ OnlyNoted(f, all, id, o)
  <2>1. plan.ops = [all EXCEPT ![id] = n]
    BY <1>7 DEF OutcomePlan
  <2> HIDE DEF plan, n
  <2> QED
    BY <1>2, <1>4, <1>5, <2>1 DEF plan
<1>8. CASE ~Overstated(op, o) /\ ~OnlyNoted(f, all, id, o)
  <2>1. op.state \notin TerminalStates \/ CancelledRefundSettled(all, id, o)
    BY <1>8 DEF OnlyNoted
  <2>2. Active(op) \/ CancelledRefundSettled(all, id, o)
    BY <1>1, <2>1 DEF OperationRecord, Active
  <2>3. CASE o.state = "succeeded" /\ ~Possible(g, claim)
    <3>1. plan.ops = [all EXCEPT ![id] = Disputed(g, n, o).op]
      BY <1>8, <2>3 DEF OutcomePlan
    <3> HIDE DEF plan, n
    <3>2. Evolves(n, Disputed(g, n, o).op) /\ Disputed(g, n, o).op.state = op.state
      BY <1>1, <1>2, DisputedEvolves
    <3>3. Evolves(op, Disputed(g, n, o).op)
      BY <1>2, <3>2 DEF Evolves, Kept, Promised
    <3> QED
      BY <1>4, <1>5, <3>1, <3>2, <3>3 DEF plan
  <2>4. CASE ~(o.state = "succeeded" /\ ~Possible(g, claim))
    <3>1. plan.ops = next
      BY <1>8, <2>4 DEF OutcomePlan
    <3>2. /\ \A x \in OpId : Evolves(all[x], next[x])
          /\ next[id].state = NextState(op, o) /\ next[id].reconcile = n.reconcile
          /\ \A x \in OpId : all[x].state = "rejected" /\ next[x].state # "rejected" => x = id
      BY <1>1, <2>2, SettledOpsEvolve
    <3>3. CASE op.state # "rejected"
      BY <3>1, <3>2, <3>3
    <3>4. CASE op.state = "rejected"
      <4>1. CancelledRefundSettled(all, id, o) /\ o.state = "succeeded"
        BY <2>2, <3>4 DEF Active, ActiveStates, CancelledRefundSettled
      <4>2. n.reconcile
        BY <1>1, <3>4, <4>1 DEF Noted, Contradicts, ContradictoryTerminal, TerminalStates, OperationRecord
      <4>3. g.reconcile /\ g \in PaymentFacts /\ ValidAmounts(g)
        <5>1. NotedFacts(f, op, o).reconcile
          BY <4>2 DEF NotedFacts, PaymentFacts
        <5>2. NotedFacts(f, op, o) \in PaymentFacts
          BY <1>1, IdentifiedBuilds DEF Builds
        <5> QED
          BY <1>1, <5>1, <5>2, IdentifiedBuilds DEF IdentifiedFacts, WithExternal, PaymentFacts, Builds
      <4>4. plan.facts = Reprojected(AppliedToFacts(g, claim), next, op.type)
        BY <1>8, <2>4, <4>1 DEF OutcomePlan
      <4>5. WellFormedOutcome(op, o) /\ Possible(g, claim) /\ CanApplyToFacts(g, claim)
        BY <1>8, <2>4, <4>1 DEF CanPlanOutcome
      <4> HIDE DEF g, next, n, plan
      <4>6. claim \in Observation
        BY <4>1, <4>3, <4>5, SettlementTyped
      <4> HIDE DEF claim
      <4>7. AppliedToFacts(g, claim).reconcile /\ AppliedToFacts(g, claim) \in PaymentFacts
        BY <4>3, <4>5, <4>6, ClaimBuilds DEF Builds
      <4>8. plan.facts.reconcile
        BY <4>4, <4>7 DEF Reprojected, Projected, PaymentFacts
      <4>9. next[id].state = "succeeded"
        BY <3>2, <3>4, <4>1 DEF NextState
      <4> QED
        BY <3>1, <3>2, <4>1, <4>2, <4>8, <4>9 DEF plan
    <3> QED
      BY <3>3, <3>4
  <2> QED
    BY <2>3, <2>4
<1> QED
  BY <1>6, <1>7, <1>8

(* A terminal outcome of an open operation that leaves no dispute decides  *)
(* it: neither its amount nor an identity was in the way.                  *)
LEMMA OutcomeDecides ==
  ASSUME NEW f \in PaymentFacts, NEW all \in [OpId -> OperationRecord],
         NEW id \in OpId, NEW o \in Outcome,
         Active(all[id]), o.state \in TerminalStates,
         ~OutcomePlan(f, all, id, o).ops[id].reconcile
  PROVE  LET plan == OutcomePlan(f, all, id, o)
             g    == IdentifiedFacts(f, all[id], o)
         IN  /\ plan.ops = SettledOps(f, all, id, o)
             /\ plan.ops[id].state = o.state
             /\ o.state = "succeeded" => plan.ops[id].settled = SettledAmount(all[id], o)
             /\ plan.facts =
                  Reprojected(IF o.state = "succeeded"
                              THEN AppliedToFacts(g, SettlementClaim(g, all, id, o)) ELSE g,
                              plan.ops, all[id].type)
             /\ ~Overstated(all[id], o) /\ ~OnlyNoted(f, all, id, o)
             /\ o.state = "succeeded" => Possible(g, SettlementClaim(g, all, id, o))
<1> DEFINE op    == all[id]
           n     == Noted(f, op, o)
           g     == IdentifiedFacts(f, op, o)
           claim == SettlementClaim(g, all, id, o)
           next  == SettledOps(f, all, id, o)
           plan  == OutcomePlan(f, all, id, o)
<1>1. /\ op \in OperationRecord /\ n \in OperationRecord /\ op.state # "absent"
      /\ n.state # "absent"
  BY NotedTyped DEF Active, ActiveStates
<1>2. ~Overstated(op, o)
  <2>1. SUFFICES ASSUME Overstated(op, o) PROVE FALSE
    OBVIOUS
  <2>2. plan.ops = [all EXCEPT ![id] = Disputed(f, op, o).op]
    BY <2>1 DEF OutcomePlan
  <2>3. Disputed(f, op, o).op.reconcile
    BY <1>1, DisputedEvolves
  <2> QED
    BY <2>2, <2>3
<1>3. ~OnlyNoted(f, all, id, o)
  <2>1. SUFFICES ASSUME OnlyNoted(f, all, id, o) PROVE FALSE
    OBVIOUS
  <2>2. ConflictingCorrelation(op, o) \/ ConflictingExternalId(f, o)
    BY <2>1 DEF OnlyNoted, Active, ActiveStates, TerminalStates
  <2>3. n.reconcile
    BY <1>1, <2>2 DEF Noted, Contradicts, OperationRecord
  <2>4. plan.ops = [all EXCEPT ![id] = n]
    BY <1>2, <2>1 DEF OutcomePlan
  <2> HIDE DEF n
  <2> QED
    BY <2>3, <2>4
<1>4. ~(o.state = "succeeded" /\ ~Possible(g, claim))
  <2>1. SUFFICES ASSUME o.state = "succeeded", ~Possible(g, claim) PROVE FALSE
    OBVIOUS
  <2>2. plan.ops = [all EXCEPT ![id] = Disputed(g, n, o).op]
    BY <1>2, <1>3, <2>1 DEF OutcomePlan
  <2>3. Disputed(g, n, o).op.reconcile
    BY <1>1, DisputedEvolves
  <2> HIDE DEF n, g
  <2> QED
    BY <2>2, <2>3
<1>5. /\ plan.ops = next
      /\ plan.facts = Reprojected(IF o.state = "succeeded" THEN AppliedToFacts(g, claim) ELSE g,
                                  next, op.type)
  BY <1>2, <1>3, <1>4 DEF OutcomePlan
<1>6. /\ next[id].state = NextState(op, o)
      /\ o.state = "succeeded" => next[id].settled = SettledAmount(op, o)
  BY <1>1, SettledOpsEvolve
<1>7. NextState(op, o) = o.state
  BY DEF NextState, TerminalStates
<1> HIDE DEF plan, g, claim, next
<1> QED
  BY <1>2, <1>3, <1>4, <1>5, <1>6, <1>7 DEF plan, g, claim, next

(* What one commit may do to a record, other than claiming it. *)
HistoryEvolves(all, g, next) ==
  \A x \in OpId :
    /\ Evolves(all[x], next[x])
    /\ all[x].state = "rejected" /\ next[x].state # "rejected" =>
         /\ next[x].state = "succeeded" /\ next[x].reconcile /\ g.reconcile
         /\ \E c \in OpId : all[c].type = "cancel_refund" /\ all[c].target = x /\ all[c].state = "succeeded"

(* plan_outcome, as seen from the whole history. *)
LEMMA OutcomeHistory ==
  ASSUME NEW f \in PaymentFacts, ValidAmounts(f),
         NEW all \in [OpId -> OperationRecord], NEW id \in OpId, NEW o \in Outcome,
         CanPlanOutcome(f, all, id, o)
  PROVE  HistoryEvolves(all, OutcomePlan(f, all, id, o).facts, OutcomePlan(f, all, id, o).ops)
BY OutcomeEvolves DEF HistoryEvolves, CancelledRefundSettled

(* plan_observation changes records by correlated outcomes only. *)
LEMMA ObservationHistory ==
  ASSUME NEW f \in PaymentFacts, ValidAmounts(f),
         NEW all \in [OpId -> OperationRecord], NEW u \in Observation,
         CanPlanObservation(f, all, u)
  PROVE  HistoryEvolves(all, ObservationPlan(f, all, u).facts, ObservationPlan(f, all, u).ops)
<1> DEFINE aggregated == AggregatedFacts(f, u)
           plan       == CorrelatedPlan(f, all, u)
           s          == IF ActiveRefund(plan.ops) THEN "refund_started" ELSE plan.facts.status
<1>1. aggregated \in PaymentFacts /\ ValidAmounts(aggregated)
  <2>1. ScreeningReasons(f, u) \in SUBSET RetentionReason
    BY DEF ScreeningReasons, RetentionReason
  <2>2. ScreenedFacts(f, u) \in PaymentFacts /\ ValidAmounts(ScreenedFacts(f, u))
    BY <2>1, RetainedBuilds DEF ScreenedFacts, Builds
  <2> QED
    BY <2>2, AggregateTyped, ClaimBuilds DEF CanPlanObservation, AggregatedFacts, Builds
<1>2. HistoryEvolves(all, plan.facts, plan.ops) /\ plan.facts \in PaymentFacts
  <2>1. CASE ~Correlated(all, u)
    <3>1. plan.ops = all
      BY <2>1 DEF CorrelatedPlan, Correlated
    <3>2. plan.facts = aggregated \/ plan.facts = Retained(aggregated, u, CorrelationFailure(all, u))
      BY <2>1 DEF CorrelatedPlan, Correlated
    <3>3. CorrelationFailure(all, u) \in SUBSET RetentionReason
      BY DEF CorrelationFailure, RetentionReason
    <3> HIDE DEF plan, aggregated
    <3>4. plan.facts \in PaymentFacts
      BY <1>1, <3>2, <3>3, RetainedBuilds DEF Builds
    <3> QED
      BY <3>1, <3>4 DEF HistoryEvolves, Evolves, Kept, Promised, OperationRecord
  <2>2. CASE Correlated(all, u)
    <3> DEFINE id == CHOOSE x \in Candidates(all, u) : TRUE
    <3>1. id \in Candidates(all, u) /\ id \in OpId /\ u.outcome \in Outcome
      BY <2>2, OneCandidate
    <3>2. CanPlanOutcome(aggregated, all, id, u.outcome)
      BY <2>2, <3>1 DEF CanPlanObservation
    <3>3. plan = OutcomePlan(aggregated, all, id, u.outcome)
      BY <2>2 DEF CorrelatedPlan, Correlated
    <3> HIDE DEF aggregated, id, plan
    <3> QED
      BY <1>1, <3>1, <3>2, <3>3, OutcomeHistory, OutcomeBuilds DEF Builds
  <2> QED
    BY <2>1, <2>2
<1>3. ObservationPlan(f, all, u) = [facts |-> [plan.facts EXCEPT !.status = s], ops |-> plan.ops]
  BY DEF ObservationPlan
<1> HIDE DEF plan, s
<1> DEFINE g == plan.facts
           h == [g EXCEPT !.status = s]
<1>4. h.reconcile = g.reconcile
  BY <1>2 DEF PaymentFacts
<1>5. ObservationPlan(f, all, u) = [facts |-> h, ops |-> plan.ops]
  BY <1>3
<1> HIDE DEF g, h
<1>6. /\ ObservationPlan(f, all, u).ops = plan.ops
      /\ ObservationPlan(f, all, u).facts.reconcile = plan.facts.reconcile
  BY <1>4, <1>5 DEF g
<1> QED
  BY <1>2, <1>6 DEF HistoryEvolves

(* What a decision leaves of the record it is about. *)
LEMMA ReopenedKept ==
  ASSUME NEW op \in OperationRecord, NEW r \in Resolution
  PROVE  LET q == Reopened(op, r)
         IN  /\ Kept(op, q) /\ ~q.reconcile
             /\ q.settled = op.settled /\ q.pending = op.pending /\ q.resolutions = op.resolutions
             /\ q.state = IF op.state = "rejected" \/ Corrects(op, r) THEN "unknown" ELSE op.state
<1> DEFINE d == IF Corrects(op, r) THEN op.disputes \cup {Superseded(op)} ELSE op.disputes
           s == IF op.state = "rejected" \/ Corrects(op, r) THEN "unknown" ELSE op.state
           q == [op EXCEPT !.reconcile = FALSE, !.disputes = d, !.state = s]
<1>1. Reopened(op, r) = q
  BY DEF Reopened
<1>2. op.disputes \subseteq d
  OBVIOUS
<1> HIDE DEF d, s
<1>3. /\ q.correlation = op.correlation /\ q.reconcile = FALSE /\ q.disputes = d
      /\ q.state = s /\ q.settled = op.settled /\ q.pending = op.pending
      /\ q.recovery = op.recovery /\ q.resolutions = op.resolutions
  BY DEF OperationRecord
<1>4. Promised(op, q)
  BY DEF OperationRecord, Promised
<1> HIDE DEF q
<1>5. Kept(op, q)
  BY <1>2, <1>3, <1>4 DEF Kept
<1> QED
  BY <1>1, <1>3, <1>5 DEF s

(* A decision ends the operation it is about, and changes another one only *)
(* as the outcome it establishes does.                                     *)
Decided(all, g, next, id, r) ==
  /\ \A x \in OpId \ {id} : /\ Evolves(all[x], next[x])
                            /\ all[x].state = "rejected" => next[x].state = "rejected"
  /\ all[id].state # "absent" /\ Kept(all[id], next[id])
  /\ next[id].state = r.outcome.state /\ next[id].state \in TerminalStates
  /\ next[id].pending = {} /\ ~next[id].reconcile
  /\ r \in next[id].resolutions /\ r \notin all[id].resolutions
  /\ all[id].state = "succeeded" =>
       /\ next[id].state = "succeeded"
       /\ all[id].settled # None => next[id].settled >= all[id].settled
  /\ next[id].settled # all[id].settled => next[id].state = "succeeded"
  /\ r.clear => \A x \in OpId : ~next[x].reconcile

(* plan_resolution *)
LEMMA DecisionHistory ==
  ASSUME NEW f \in PaymentFacts, NEW all \in [OpId -> OperationRecord],
         NEW id \in OpId, NEW r \in Resolution, r.outcome.state \in TerminalStates,
         CanResolve(f, all, id, r)
  PROVE  LET plan == ResolutionPlan(f, all, id, r)
         IN  /\ Decided(all, plan.facts, plan.ops, id, r)
             /\ f.reconcile /\ ~plan.facts.reconcile => r.clear
<1> DEFINE op       == all[id]
           re       == Reopened(op, r)
           reopened == [all EXCEPT ![id] = re]
           o        == r.outcome
           plan     == ResolvedPlan(f, all, id, r)
           final    == ResolutionPlan(f, all, id, r)
           p        == plan.ops[id]
           q        == [p EXCEPT !.resolutions = p.resolutions \cup {r}, !.pending = {}]
<1>1. op \in OperationRecord /\ o \in Outcome /\ re \in OperationRecord
  BY ReopenedTyped DEF Resolution
<1>2. reopened \in [OpId -> OperationRecord] /\ reopened[id] = re
  BY <1>1
<1>3. /\ ValidAmounts(f) /\ CanPlanOutcome(f, reopened, id, o) /\ MayDecide(all, id, r)
      /\ op.state # "absent" /\ ~final.ops[id].reconcile
      /\ r.clear => \A x \in OpId : ~final.ops[x].reconcile
      /\ r \notin op.resolutions
  BY DEF CanResolve
<1>4. plan = OutcomePlan(f, reopened, id, o)
  BY DEF ResolvedPlan
<1>5. /\ Kept(op, re) /\ ~re.reconcile /\ re.settled = op.settled
      /\ re.state = IF op.state = "rejected" \/ Corrects(op, r) THEN "unknown" ELSE op.state
  BY <1>1, ReopenedKept
<1> HIDE DEF re, plan, reopened
<1>6. /\ \A x \in OpId : Evolves(reopened[x], plan.ops[x])
      /\ \A x \in OpId : reopened[x].state = "rejected" /\ plan.ops[x].state # "rejected" => x = id
      /\ Builds(f, plan.facts) /\ Follows(reopened, plan.ops)
  <2>1. Builds(f, plan.facts) /\ Follows(reopened, plan.ops)
    BY <1>1, <1>2, <1>3, <1>4, OutcomeBuilds
  <2>2. \A x \in OpId : Evolves(reopened[x], plan.ops[x])
    BY <1>1, <1>2, <1>3, <1>4, OutcomeEvolves
  <2>3. \A x \in OpId : reopened[x].state = "rejected" /\ plan.ops[x].state # "rejected" => x = id
    BY <1>1, <1>2, <1>3, <1>4, OutcomeEvolves
  <2> QED
    BY <2>1, <2>2, <2>3
<1>7. p \in OperationRecord
  BY <1>6 DEF Follows
<1>8. final.ops = [plan.ops EXCEPT ![id] = q]
  <2>1. final.ops = [plan.ops EXCEPT ![id].resolutions = @ \cup {r}, ![id].pending = {}]
    BY DEF ResolutionPlan, plan
  <2> QED
    BY <1>6, <2>1 DEF Follows
<1>9. \A x \in OpId : final.ops[x] = IF x = id THEN q ELSE plan.ops[x]
  BY <1>6, <1>8 DEF Follows
<1>10. Evolves(re, p)
  BY <1>2, <1>6
<1> HIDE DEF p
<1>11. /\ q.correlation = p.correlation /\ q.reconcile = p.reconcile /\ q.disputes = p.disputes
       /\ q.state = p.state /\ q.settled = p.settled /\ q.pending = {}
       /\ q.recovery = p.recovery /\ q.resolutions = p.resolutions \cup {r}
  BY <1>7 DEF OperationRecord
<1>12. Promised(p, q)
  BY <1>7 DEF OperationRecord, Promised
<1> HIDE DEF q
<1>13. Kept(op, q)
  BY <1>5, <1>10, <1>11, <1>12 DEF Kept, Promised, Evolves
<1>14. ~p.reconcile
  BY <1>3, <1>9, <1>11
<1>15. ASSUME Active(re)
      PROVE  /\ p.state = o.state
             /\ op.state = "succeeded" => /\ p.state = "succeeded"
                                          /\ op.settled # None => p.settled >= op.settled
  <2>1. /\ p.state = o.state
        /\ o.state = "succeeded" => p.settled = SettledAmount(re, o)
    BY <1>1, <1>2, <1>4, <1>14, <1>15, OutcomeDecides DEF p
  <2>2. SettledAmount(re, o) = SettledAmount(op, o)
    BY <1>5 DEF SettledAmount, Kept, Promised
  <2>3. op.state = "succeeded" => Corrects(op, r)
    BY <1>5, <1>15 DEF Active, ActiveStates
  <2>4. ASSUME op.state = "succeeded", op.settled # None PROVE p.settled >= op.settled
    BY <1>1, <1>3, <2>1, <2>2, <2>3, <2>4 DEF MayDecide, OperationRecord, Optional
  <2>5. op.state = "succeeded" => p.state = "succeeded"
    BY <1>3, <2>1 DEF MayDecide
  <2> QED
    BY <2>1, <2>4, <2>5
<1>16. ASSUME ~Active(re)
      PROVE  /\ p.state = o.state
             /\ op.state = "succeeded" => /\ p.state = "succeeded"
                                          /\ op.settled # None => p.settled >= op.settled
  <2>1. op.state = "succeeded" /\ re.state = "succeeded"
    BY <1>1, <1>3, <1>5, <1>16 DEF Active, ActiveStates, TerminalStates, OperationRecord
  <2>2. p.state = "succeeded" /\ p.settled = op.settled
    BY <1>5, <1>10, <2>1 DEF Evolves
  <2> QED
    BY <1>1, <1>3, <2>1, <2>2 DEF MayDecide, OperationRecord, Optional
<1>17. /\ p.state = o.state
       /\ op.state = "succeeded" => /\ p.state = "succeeded"
                                    /\ op.settled # None => p.settled >= op.settled
  BY <1>15, <1>16
<1>18. \A x \in OpId \ {id} : /\ Evolves(all[x], final.ops[x])
                              /\ all[x].state = "rejected" => final.ops[x].state = "rejected"
  BY <1>6, <1>9 DEF reopened
<1>19. f.reconcile /\ ~final.facts.reconcile => r.clear
  <2> DEFINE g == plan.facts
             keeps_marker == /\ all[id].state \in TerminalStates
                             /\ HasUnresolvedRefund(f)
                             /\ \A other \in OpId \ {id} : plan.ops[other] = all[other]
             s == IF keeps_marker THEN "refund_started" ELSE g.status
             b == IF r.clear THEN FALSE ELSE g.reconcile
             h == [g EXCEPT !.status = s, !.reconcile = b]
  <2>1. final.facts = h
    BY DEF ResolutionPlan, plan
  <2>2. g \in PaymentFacts /\ (f.reconcile => g.reconcile)
    BY <1>6 DEF Builds
  <2> HIDE DEF g, s
  <2>3. h.reconcile = b
    BY <2>2 DEF PaymentFacts
  <2> HIDE DEF h, final
  <2> QED
    BY <2>1, <2>2, <2>3
<1> HIDE DEF final
<1>20. Decided(all, final.facts, final.ops, id, r)
  <2>1. r \in final.ops[id].resolutions /\ final.ops[id].pending = {}
    BY <1>9, <1>11
  <2>2. Kept(op, final.ops[id]) /\ ~final.ops[id].reconcile /\ final.ops[id].state = o.state
    BY <1>3, <1>9, <1>11, <1>13, <1>17
  <2>3. op.state = "succeeded" => /\ final.ops[id].state = "succeeded"
                                  /\ op.settled # None => final.ops[id].settled >= op.settled
    BY <1>9, <1>11, <1>17
  <2>4. final.ops[id].settled # op.settled => final.ops[id].state = "succeeded"
    BY <1>5, <1>9, <1>10, <1>11 DEF Evolves
  <2> HIDE DEF final
  <2> QED
    BY <1>3, <1>18, <2>1, <2>2, <2>3, <2>4 DEF Decided
<1> QED
  BY <1>19, <1>20 DEF final

-----------------------------------------------------------------------------
(* Retiring an attempt leaves the rest of a record alone. *)
LEMMA RetiredEvolves ==
  ASSUME NEW op, NEW p \in OperationRecord, Evolves(op, p), op.state # "absent", NEW attempt
  PROVE  LET q == [p EXCEPT !.pending = p.pending \ {attempt}]
         IN  Evolves(op, q) /\ q.state = p.state /\ q.reconcile = p.reconcile
<1> DEFINE q == [p EXCEPT !.pending = p.pending \ {attempt}]
<1>1. /\ q.correlation = p.correlation /\ q.reconcile = p.reconcile /\ q.disputes = p.disputes
      /\ q.state = p.state /\ q.settled = p.settled /\ q.pending \subseteq p.pending
      /\ q.recovery = p.recovery /\ q.resolutions = p.resolutions
  BY DEF OperationRecord
<1>2. Promised(p, q)
  BY DEF OperationRecord, Promised
<1> HIDE DEF q
<1>3. Evolves(op, q)
  BY <1>1, <1>2 DEF Evolves, Kept, Promised, Active
<1> QED
  BY <1>1, <1>3 DEF q

(* Evidence of an effect that was not recorded only adds to the record. *)
LEMMA FailureEvolves ==
  ASSUME NEW op \in OperationRecord, NEW evidence, op.state # "absent"
  PROVE  Evolves(op, FailureNoted(op, evidence)) /\ FailureNoted(op, evidence).state = op.state
<1> DEFINE e == op.recovery \cup {evidence}
           q == [op EXCEPT !.reconcile = TRUE, !.recovery = e]
<1>1. FailureNoted(op, evidence) = q /\ op.recovery \subseteq e
  BY DEF FailureNoted
<1> HIDE DEF e
<1>2. /\ q.correlation = op.correlation /\ q.reconcile = TRUE /\ q.disputes = op.disputes
      /\ q.state = op.state /\ q.settled = op.settled /\ q.pending = op.pending
      /\ q.recovery = e /\ q.resolutions = op.resolutions
  BY DEF OperationRecord
<1>3. Promised(op, q)
  BY DEF OperationRecord, Promised
<1> HIDE DEF q
<1>4. Evolves(op, q)
  BY <1>1, <1>2, <1>3 DEF Evolves, Kept, Active
<1> QED
  BY <1>1, <1>2, <1>4

(* A history that does not change evolves. *)
LEMMA UnchangedEvolves ==
  ASSUME NEW all \in [OpId -> OperationRecord], NEW g
  PROVE  HistoryEvolves(all, g, all)
BY DEF HistoryEvolves, Evolves, Kept, Promised, OperationRecord

(* What answers, callbacks, failures, readings and repeated requests do. *)
Answered ==
  /\ facts.reconcile => facts'.reconcile
  /\ HistoryEvolves(ops, facts', ops')

(* What decisions do. *)
DecidedBy(id, r) ==
  /\ Decided(ops, facts', ops', id, r)
  /\ facts.reconcile /\ ~facts'.reconcile => r.clear

ClaimedNow ==
  \E id \in OpId, expected \in 0 .. MaxAttempts, now \in Times :
    \E retry_until \in Optional(Deadlines), scope \in Optional(Scopes) :
      Claim(id, expected, now, retry_until, scope)

(* record_operation_outcome *)
LEMMA RecordOutcomeHistory ==
  ASSUME IndInv, NEW id \in OpId, NEW o \in Outcomes, NEW attempt, RecordOutcome(id, o, attempt)
  PROVE  Answered
<1> DEFINE plan == OutcomePlan(facts, ops, id, o)
           p    == plan.ops[id]
           q    == [p EXCEPT !.pending = p.pending \ {attempt}]
<1>1. /\ facts \in PaymentFacts /\ ValidAmounts(facts) /\ o \in Outcome
      /\ ops \in [OpId -> OperationRecord] /\ CanPlanOutcome(facts, ops, id, o)
      /\ ops[id].state # "absent"
  BY InputsTyped DEF IndInv, TypeOK, FundsBounded, RecordOutcome, CanPlanOutcome
<1>2. Builds(facts, plan.facts) /\ Follows(ops, plan.ops)
  BY <1>1, OutcomeBuilds
<1>3. HistoryEvolves(ops, plan.facts, plan.ops)
  BY <1>1, OutcomeHistory
<1>4. facts' = plan.facts /\ ops' = WithoutAttempt(plan.ops, id, attempt)
  BY DEF RecordOutcome
<1> HIDE DEF plan
<1>5. CASE attempt = None
  BY <1>2, <1>3, <1>4, <1>5 DEF Answered, WithoutAttempt, Builds
<1>6. CASE attempt # None
  <2>1. ops' = [plan.ops EXCEPT ![id] = q]
    BY <1>2, <1>4, <1>6 DEF WithoutAttempt, Follows
  <2>2. p \in OperationRecord /\ Evolves(ops[id], p)
    BY <1>2, <1>3 DEF Follows, HistoryEvolves
  <2>3. Evolves(ops[id], q) /\ q.state = p.state /\ q.reconcile = p.reconcile
    BY <1>1, <2>2, RetiredEvolves
  <2>4. \A x \in OpId : ops'[x] = IF x = id THEN q ELSE plan.ops[x]
    BY <1>2, <2>1 DEF Follows
  <2> HIDE DEF q
  <2>5. HistoryEvolves(ops, facts', ops')
    BY <1>3, <1>4, <2>3, <2>4 DEF HistoryEvolves
  <2> QED
    BY <1>2, <1>4, <2>5 DEF Answered, Builds
<1> QED
  BY <1>5, <1>6

(* Every step reserves, claims, answers or decides. *)
LEMMA StepHistory ==
  ASSUME IndInv, [Next]_vars
  PROVE  \/ \E i \in Intents : Reserve(i)
         \/ ClaimedNow
         \/ Answered
         \/ \E id \in OpId, r \in Resolutions : DecidedBy(id, r)
<1>1. /\ facts \in PaymentFacts /\ ValidAmounts(facts)
      /\ ops \in [OpId -> OperationRecord] /\ review \in [Reviewers -> Review]
  BY DEF IndInv, TypeOK, FundsBounded
<1>2. ASSUME ops' = ops, facts.reconcile => facts'.reconcile
      PROVE  Answered
  BY <1>1, <1>2, UnchangedEvolves DEF Answered
<1>3. ASSUME NEW id \in OpId, NEW evidence \in Evidence, RecordFailure(id, evidence)
      PROVE  Answered
  <2> DEFINE q == FailureNoted(ops[id], evidence)
  <2>1. facts' = facts /\ ops' = [ops EXCEPT ![id] = q] /\ ops[id].state # "absent"
    BY <1>3 DEF RecordFailure
  <2>2. Evolves(ops[id], q) /\ q.state = ops[id].state
    BY <1>1, <2>1, FailureEvolves
  <2> HIDE DEF q
  <2>3. HistoryEvolves(ops, facts', ops)
    BY <1>1, UnchangedEvolves
  <2> QED
    BY <1>1, <2>1, <2>2, <2>3 DEF Answered, HistoryEvolves
<1>4. ASSUME NEW u \in Observations, ObserveAgain(u) \/ ObserveImpossible(u)
      PROVE  Answered
  <2>1. /\ {"conflicting_identity"} \in SUBSET RetentionReason
        /\ {"financial_constraints"} \in SUBSET RetentionReason
    BY DEF RetentionReason
  <2>2. u \in Observation
    BY InputsTyped
  <2>3. facts' = facts \/ Builds(facts, facts')
    BY <1>1, <1>4, <2>1, <2>2, RetainedBuilds DEF ObserveAgain, ObserveImpossible
  <2>4. ops' = ops
    BY <1>4 DEF ObserveAgain, ObserveImpossible
  <2> QED
    BY <1>2, <2>3, <2>4 DEF Builds
<1>5. ASSUME NEW u \in Observations, Observe(u)
      PROVE  Answered
  <2>1. u \in Observation
    BY InputsTyped
  <2>2. /\ CanPlanObservation(facts, ops, u) /\ facts' = ObservationPlan(facts, ops, u).facts
        /\ ops' = ObservationPlan(facts, ops, u).ops
    BY <1>5 DEF Observe, Commit
  <2>3. HistoryEvolves(ops, facts', ops')
    BY <1>1, <2>1, <2>2, ObservationHistory
  <2>4. Builds(facts, facts')
    BY <1>1, <2>1, <2>2, ObservationBuilds
  <2> QED
    BY <2>3, <2>4 DEF Answered, Builds
<1>6. ASSUME NEW w \in Reviewers, NEW r \in Resolutions, Resolve(w, r)
      PROVE  \E id \in OpId : DecidedBy(id, r)
  <2> DEFINE id == review[w].id
  <2>1. r \in Resolution /\ r.outcome.state \in TerminalStates
    BY InputsTyped, ResolutionsAreTerminal
  <2>2. id \in OpId
    BY <1>1, <1>6 DEF Resolve, Review, Optional
  <2>3. /\ CanResolve(facts, ops, id, r) /\ facts' = ResolutionPlan(facts, ops, id, r).facts
        /\ ops' = ResolutionPlan(facts, ops, id, r).ops
    BY <1>6 DEF Resolve, Commit
  <2> HIDE DEF id
  <2>4. DecidedBy(id, r)
    BY <1>1, <2>1, <2>2, <2>3, DecisionHistory DEF DecidedBy
  <2> QED
    BY <2>2, <2>4
<1>7. CASE Operate
  BY <1>2, <1>3, <1>7, RecordOutcomeHistory DEF Operate, Resume, ClaimedNow, vars
<1>8. CASE Notice
  BY <1>4, <1>5, <1>8 DEF Notice
<1>9. CASE Decide
  BY <1>2, <1>6, <1>9 DEF Decide, ReviewOperation, ReviewFacts
<1>10. CASE UNCHANGED vars
  BY <1>2, <1>10 DEF vars
<1> QED
  BY <1>7, <1>8, <1>9, <1>10 DEF Next

(* A claim submits once more, and promises nothing anew but the first time. *)
LEMMA ClaimHistory ==
  ASSUME NEW op \in OperationRecord, NEW now, NEW retry_until, NEW scope,
         NEW f, NEW expected, CanSubmit(f, op, expected, now)
  PROVE  LET q == Submission(op, now, retry_until, scope)
         IN  /\ q.attempts = op.attempts + 1
             /\ op.attempts > 0 => /\ q.submitted_at = op.submitted_at
                                   /\ q.retry_until = op.retry_until
                                   /\ q.scope = op.scope
             /\ op.attempts = 0 => q.submitted_at = now /\ q.retry_until = retry_until
             /\ \A field \in {"type", "asked", "target", "target_correlation", "amount",
                              "base_captured", "base_refunded", "base_hold", "sequence"} :
                  q[field] = op[field]
             /\ q.disputes = op.disputes /\ q.recovery = op.recovery
             /\ q.resolutions = op.resolutions /\ q.correlation = op.correlation
             /\ q.settled = op.settled
             /\ q.reconcile = op.reconcile /\ ~q.reconcile
             /\ q.state = "submitting" /\ q.pending = op.pending \cup {op.attempts + 1}
             /\ Active(op)
<1> DEFINE m  == IF op.attempts = 0 THEN now ELSE op.submitted_at
           r  == IF op.attempts = 0 THEN retry_until ELSE op.retry_until
           s  == IF op.attempts = 0 THEN scope ELSE op.scope
           p  == op.pending \cup {op.attempts + 1}
           n  == op.attempts + 1
           q  == [op EXCEPT !.state = "submitting", !.attempts = n, !.pending = p,
                            !.submitted_at = m, !.retry_until = r, !.scope = s]
<1>1. Submission(op, now, retry_until, scope) = q
  BY DEF Submission
<1>2. op \in OperationRecord /\ ~op.reconcile /\ Active(op)
  BY DEF CanSubmit, Active, ActiveStates
<1> HIDE DEF m, r, s, p, n
<1>3. /\ q.attempts = n /\ q.submitted_at = m /\ q.retry_until = r /\ q.scope = s
      /\ q.pending = p /\ q.state = "submitting"
      /\ q.disputes = op.disputes /\ q.recovery = op.recovery
      /\ q.resolutions = op.resolutions /\ q.correlation = op.correlation
      /\ q.settled = op.settled /\ q.reconcile = op.reconcile
  BY <1>2 DEF OperationRecord
<1>4. \A field \in {"type", "asked", "target", "target_correlation", "amount",
                    "base_captured", "base_refunded", "base_hold", "sequence"} :
        q[field] = op[field]
  BY <1>2 DEF OperationRecord
<1>5. op.attempts \in Nat
  BY <1>2 DEF OperationRecord
<1> HIDE DEF q
<1>6. op.attempts > 0 => m = op.submitted_at /\ r = op.retry_until /\ s = op.scope
  BY <1>5 DEF m, r, s
<1>7. op.attempts = 0 => m = now /\ r = retry_until
  BY DEF m, r
<1> QED
  BY <1>1, <1>2, <1>3, <1>4, <1>6, <1>7 DEF n, p

(* A reservation opens the record of a free identity and no other. *)
LEMMA ReservationHistory ==
  ASSUME IndInv, NEW i \in Intents, Reserve(i)
  PROVE  /\ i \in Intent /\ CanReserve(facts, ops, i)
         /\ ops[i.id].state = "absent" /\ i.id \in OpId
         /\ \A x \in OpId \ {i.id} : ops'[x] = ops[x]
         /\ LET q == ops'[i.id]
            IN  /\ q.type = i.type /\ q.target = i.target /\ q.state = "reserved"
                /\ q.amount = ResolvedAmount(facts, i) /\ q.base_captured = facts.captured
                /\ q.base_refunded = facts.refunded /\ q.sequence = NextSequence(ops)
                /\ q.pending = {} /\ q.reconcile = FALSE /\ q.attempts = 0
                /\ q.disputes = {} /\ q.recovery = {} /\ q.resolutions = {}
                /\ q.settled = None /\ q.correlation = None
                /\ q.submitted_at = None /\ q.retry_until = None /\ q.scope = None
         /\ facts' = IF i.type = "start_refund" THEN [facts EXCEPT !.status = "refund_started"] ELSE facts
<1> DEFINE t  == IF i.type = "cancel_refund" THEN ops[i.target].correlation ELSE None
           op == [Absent EXCEPT
                   !.type = i.type, !.state = "reserved", !.asked = i.amount,
                   !.target = i.target, !.target_correlation = t,
                   !.amount = ResolvedAmount(facts, i),
                   !.base_captured = facts.captured, !.base_refunded = facts.refunded,
                   !.base_hold = facts.hold, !.sequence = NextSequence(ops)]
<1>1. i \in Intent /\ i.id \in OpId
  BY InputsTyped DEF Intent
<1>2. CanReserve(facts, ops, i) /\ ops \in [OpId -> OperationRecord]
  BY DEF Reserve, IndInv, TypeOK
<1>3. Reservation(facts, ops, i) =
        [facts |-> IF i.type = "start_refund" THEN [facts EXCEPT !.status = "refund_started"] ELSE facts,
         ops   |-> [ops EXCEPT ![i.id] = op]]
  BY DEF Reservation
<1> HIDE DEF t
<1>4. /\ op.type = i.type /\ op.target = i.target /\ op.state = "reserved"
      /\ op.amount = ResolvedAmount(facts, i) /\ op.base_captured = facts.captured
      /\ op.base_refunded = facts.refunded /\ op.sequence = NextSequence(ops)
      /\ op.pending = {} /\ op.reconcile = FALSE /\ op.attempts = 0
      /\ op.disputes = {} /\ op.recovery = {} /\ op.resolutions = {}
      /\ op.settled = None /\ op.correlation = None
      /\ op.submitted_at = None /\ op.retry_until = None /\ op.scope = None
  BY DEF Absent
<1> HIDE DEF op
<1>5. ops' = [ops EXCEPT ![i.id] = op]
  BY <1>3 DEF Reserve, Commit
<1>6. facts' = IF i.type = "start_refund" THEN [facts EXCEPT !.status = "refund_started"] ELSE facts
  BY <1>3 DEF Reserve, Commit
<1>7. ops'[i.id] = op /\ \A x \in OpId \ {i.id} : ops'[x] = ops[x]
  BY <1>1, <1>2, <1>5
<1> QED
  BY <1>1, <1>2, <1>4, <1>6, <1>7 DEF CanReserve

(* What a step may do to a record that is reserved already. *)
Grows(op, q) ==
  /\ \A field \in {"type", "asked", "target", "target_correlation", "amount",
                   "base_captured", "base_refunded", "base_hold", "sequence"} :
       q[field] = op[field]
  /\ op.attempts <= q.attempts
  /\ op.attempts > 0 => /\ q.submitted_at = op.submitted_at
                        /\ q.retry_until = op.retry_until
                        /\ q.scope = op.scope
  /\ op.disputes \subseteq q.disputes /\ op.recovery \subseteq q.recovery
  /\ op.resolutions \subseteq q.resolutions
  /\ op.correlation # None => q.correlation = op.correlation
  /\ op.state = "succeeded" =>
       q.state = "succeeded" /\ (op.settled # None => q.settled >= op.settled)
  /\ q.state # "absent"
  /\ op.reconcile /\ ~q.reconcile => op.resolutions # q.resolutions

(* Answers and claims and decisions leave a record grown. *)
LEMMA EvolvesGrows ==
  ASSUME NEW op \in OperationRecord, NEW q, Evolves(op, q), op.state # "absent"
  PROVE  Grows(op, q)
BY DEF Evolves, Kept, Promised, Grows, OperationRecord, Optional

(* So does every step, for a record that was reserved before it. *)
LEMMA StepGrows ==
  ASSUME IndInv, [Next]_vars, NEW x \in OpId, ops[x].state # "absent"
  PROVE  Grows(ops[x], ops'[x])
<1>1. ops \in [OpId -> OperationRecord]
  BY DEF IndInv, TypeOK
<1>2. Grows(ops[x], ops[x])
  BY <1>1 DEF Grows, OperationRecord, Optional
<1>3. ASSUME NEW i \in Intents, Reserve(i) PROVE Grows(ops[x], ops'[x])
  BY <1>2, <1>3, ReservationHistory
<1>4. ASSUME ClaimedNow PROVE Grows(ops[x], ops'[x])
  <2>1. PICK id \in OpId, expected \in 0 .. MaxAttempts, now \in Times :
          \E retry_until \in Optional(Deadlines), scope \in Optional(Scopes) :
            Claim(id, expected, now, retry_until, scope)
    BY <1>4 DEF ClaimedNow
  <2>2. PICK retry_until \in Optional(Deadlines), scope \in Optional(Scopes) :
          Claim(id, expected, now, retry_until, scope)
    BY <2>1
  <2> DEFINE q == Submission(ops[id], now, retry_until, scope)
  <2>3. CanSubmit(facts, ops[id], expected, now) /\ ops' = [ops EXCEPT ![id] = q]
    BY <2>2 DEF Claim
  <2>4. Grows(ops[id], q)
    <3>0. ops[id] \in OperationRecord /\ CanSubmit(facts, ops[id], expected, now)
      BY <1>1, <2>3
    <3>1. ops[id].state \in ActiveStates /\ ~ops[id].reconcile
      BY <2>3 DEF CanSubmit, ActiveStates
    <3>4. q.attempts = ops[id].attempts + 1
      BY <3>0, ClaimHistory
    <3>5. ops[id].attempts \in Nat
      BY <3>0 DEF OperationRecord
    <3>2. /\ q.state = "submitting" /\ q.disputes = ops[id].disputes
          /\ q.recovery = ops[id].recovery /\ q.resolutions = ops[id].resolutions
          /\ q.correlation = ops[id].correlation
          /\ ops[id].attempts > 0 => /\ q.submitted_at = ops[id].submitted_at
                                     /\ q.retry_until = ops[id].retry_until
                                     /\ q.scope = ops[id].scope
      BY <3>0, ClaimHistory
    <3>3. \A field \in {"type", "asked", "target", "target_correlation", "amount",
                        "base_captured", "base_refunded", "base_hold", "sequence"} :
            q[field] = ops[id][field]
      BY <3>0, ClaimHistory
    <3> HIDE DEF q
    <3> QED
      BY <3>1, <3>2, <3>3, <3>4, <3>5 DEF Grows, ActiveStates
  <2> HIDE DEF q
  <2> QED
    BY <1>1, <1>2, <2>3, <2>4
<1>5. ASSUME Answered PROVE Grows(ops[x], ops'[x])
  BY <1>1, <1>5, EvolvesGrows DEF Answered, HistoryEvolves
<1>6. ASSUME NEW id \in OpId, NEW r \in Resolutions, DecidedBy(id, r)
      PROVE  Grows(ops[x], ops'[x])
  <2>1. CASE x = id
    BY <1>1, <1>6, <2>1 DEF DecidedBy, Decided, Kept, Promised, Grows, TerminalStates, OperationRecord
  <2>2. CASE x # id
    BY <1>1, <1>6, <2>2, EvolvesGrows DEF DecidedBy, Decided
  <2> QED
    BY <2>1, <2>2
<1> QED
  BY <1>3, <1>4, <1>5, <1>6, StepHistory

(* Whatever is retried, answered late or decided, the amount, the baseline *)
(* and the deadline a reservation and its first claim fixed stay as they   *)
(* are: a retry repeats the request it retries.                            *)
THEOREM ReservationsStayFrozen == Spec => ReservationIsFrozen
<1> DEFINE Frozen == \A id \in Reserved(ops) :
             /\ \A field \in {"type", "asked", "target", "target_correlation", "amount",
                              "base_captured", "base_refunded", "base_hold", "sequence"} :
                  ops'[id][field] = ops[id][field]
             /\ ops[id].attempts > 0 => /\ ops'[id].submitted_at = ops[id].submitted_at
                                        /\ ops'[id].retry_until  = ops[id].retry_until
                                        /\ ops'[id].scope        = ops[id].scope
<1>1. IndInv /\ [Next]_vars => [Frozen]_vars
  BY StepGrows DEF Grows, Reserved
<1> QED
  BY <1>1, InductiveInvariant, PTL DEF Spec, ReservationIsFrozen

-----------------------------------------------------------------------------
(* An identity that was never reserved has no history. *)
FreeIsEmpty == \A id \in OpId : ops[id].state = "absent" => ops[id] = Absent

(* Only a reservation fills a free record. *)
LEMMA FreeStaysEmpty == IndInv /\ FreeIsEmpty /\ [Next]_vars => FreeIsEmpty'
<1> SUFFICES ASSUME IndInv, FreeIsEmpty, [Next]_vars, NEW x \in OpId, ops'[x].state = "absent"
             PROVE  ops'[x] = Absent
  BY DEF FreeIsEmpty
<1>1. ops \in [OpId -> OperationRecord]
  BY DEF IndInv, TypeOK
<1>2. ops[x].state = "absent" /\ ops[x] = Absent
  BY StepGrows DEF Grows, FreeIsEmpty
<1>3. ASSUME NEW i \in Intents, Reserve(i) PROVE ops'[x] = Absent
  BY <1>2, <1>3, ReservationHistory
<1>4. ASSUME ClaimedNow PROVE ops'[x] = Absent
  <2>1. PICK id \in OpId : id # x /\ \E q : ops' = [ops EXCEPT ![id] = q]
    BY <1>2, <1>4 DEF ClaimedNow, Claim
  <2> QED
    BY <1>1, <1>2, <2>1
<1>5. ASSUME Answered PROVE ops'[x] = Absent
  BY <1>2, <1>5 DEF Answered, HistoryEvolves, Evolves
<1>6. ASSUME NEW id \in OpId, NEW r \in Resolutions, DecidedBy(id, r) PROVE ops'[x] = Absent
  BY <1>2, <1>6 DEF DecidedBy, Decided, Evolves
<1> QED
  BY <1>3, <1>4, <1>5, <1>6, StepHistory

(* Together with the first invariant it holds throughout. *)
LEMMA FreeRecords == Spec => []FreeIsEmpty
<1>1. Init => FreeIsEmpty
  BY DEF Init, FreeIsEmpty
<1> QED
  BY <1>1, FreeStaysEmpty, InductiveInvariant, PTL DEF Spec

-----------------------------------------------------------------------------
(* A rejected operation can succeed in two ways: by a decision on it, and  *)
(* when its cancellation is found not to have stopped it.                  *)
LEMMA StepConfirms ==
  ASSUME IndInv, [Next]_vars, NEW x \in OpId, ops[x].state = "rejected", ops'[x].state # "rejected"
  PROVE  /\ ops'[x].state = "succeeded"
         /\ \/ ops'[x].resolutions # ops[x].resolutions
            \/ /\ ops'[x].reconcile /\ facts'.reconcile
               /\ \E c \in OpId : ops[c].target = x /\ ops[c].state = "succeeded"
<1>1. ops \in [OpId -> OperationRecord]
  BY DEF IndInv, TypeOK
<1>2. ASSUME NEW i \in Intents, Reserve(i) PROVE FALSE
  BY <1>2, ReservationHistory
<1>3. ASSUME ClaimedNow PROVE FALSE
  <2>1. PICK id \in OpId : id # x /\ \E q : ops' = [ops EXCEPT ![id] = q]
    BY <1>3 DEF ClaimedNow, Claim, CanSubmit
  <2> QED
    BY <1>1, <2>1
<1>4. ASSUME Answered
      PROVE  /\ ops'[x].state = "succeeded" /\ ops'[x].reconcile /\ facts'.reconcile
             /\ \E c \in OpId : ops[c].target = x /\ ops[c].state = "succeeded"
  BY <1>4 DEF Answered, HistoryEvolves
<1>5. ASSUME NEW id \in OpId, NEW r \in Resolutions, DecidedBy(id, r)
      PROVE  ops'[x].state = "succeeded" /\ ops'[x].resolutions # ops[x].resolutions
  BY <1>5 DEF DecidedBy, Decided, TerminalStates
<1> QED
  BY <1>2, <1>3, <1>4, <1>5, StepHistory

(* What a provider confirmed is never taken back, by no later answer, no   *)
(* callback and no decision, and what it refused does not come true        *)
(* unnoticed.                                                              *)
THEOREM ConfirmationsStand == Spec => ConfirmedEffectsStand
<1> DEFINE Stands == \A id \in OpId :
       /\ ops[id].state = "succeeded" =>
            ops'[id].state = "succeeded" /\ (ops[id].settled # None => ops'[id].settled >= ops[id].settled)
       /\ ops[id].state = "rejected" /\ ops'[id].state # "rejected" =>
            /\ ops'[id].state = "succeeded"
            /\ \/ ops'[id].resolutions # ops[id].resolutions
               \/ /\ ops'[id].reconcile /\ facts'.reconcile
                  /\ \E c \in OpId : ops[c].target = id /\ ops[c].state = "succeeded"
<1>1. ASSUME IndInv, [Next]_vars PROVE Stands
  <2>1. ASSUME NEW id \in OpId, ops[id].state = "succeeded"
        PROVE  ops'[id].state = "succeeded" /\ (ops[id].settled # None => ops'[id].settled >= ops[id].settled)
    BY <1>1, <2>1, StepGrows DEF Grows
  <2> QED
    BY <1>1, <2>1, StepConfirms
<1>2. IndInv /\ [Next]_vars => [Stands]_vars
  BY <1>1
<1> QED
  BY <1>2, InductiveInvariant, PTL DEF Spec, ConfirmedEffectsStand

(* The payment's own requirement for a human ends by a decision that left  *)
(* no operation disputed.                                                  *)
LEMMA StepReconciles ==
  ASSUME IndInv, [Next]_vars, facts.reconcile, ~facts'.reconcile
  PROVE  /\ \E id \in OpId : ops'[id].resolutions # ops[id].resolutions
         /\ \A id \in OpId : ~ops'[id].reconcile
<1>1. ASSUME NEW i \in Intents, Reserve(i) PROVE FALSE
  BY <1>1, ReservationHistory DEF CanReserve
<1>2. ASSUME ClaimedNow PROVE FALSE
  BY <1>2 DEF ClaimedNow, Claim
<1>3. ASSUME Answered PROVE FALSE
  BY <1>3 DEF Answered
<1> QED
  BY <1>1, <1>2, <1>3, StepHistory DEF DecidedBy, Decided

(* Evidence that did not fit is kept for good, and a need for a human ends *)
(* only by a human's recorded decision.                                    *)
THEOREM DisputesOutlive == Spec => DisputesOutliveEverything
<1> DEFINE Outlives ==
     /\ facts.conflicts \subseteq facts'.conflicts
     /\ \A id \in OpId : /\ ops[id].disputes \subseteq ops'[id].disputes
                         /\ ops[id].recovery \subseteq ops'[id].recovery
                         /\ ops[id].reconcile /\ ~ops'[id].reconcile =>
                              ops'[id].resolutions # ops[id].resolutions
     /\ facts.reconcile /\ ~facts'.reconcile =>
          /\ \E id \in OpId : ops'[id].resolutions # ops[id].resolutions
          /\ \A id \in OpId : ~ops'[id].reconcile
<1>1. ASSUME IndInv, FreeIsEmpty, [Next]_vars PROVE Outlives
  <2>1. facts.conflicts \subseteq facts'.conflicts
    <3> DEFINE f == [facts EXCEPT !.reconcile = FALSE]
    <3>1. f.conflicts = facts.conflicts
      BY <1>1 DEF IndInv, TypeOK, PaymentFacts
    <3>2. Builds(facts, facts') \/ Builds(f, facts')
      BY <1>1, StepBuilds
    <3> HIDE DEF f
    <3> QED
      BY <3>1, <3>2 DEF Builds
  <2>2. ASSUME NEW id \in OpId
        PROVE  /\ ops[id].disputes \subseteq ops'[id].disputes
               /\ ops[id].recovery \subseteq ops'[id].recovery
               /\ ops[id].reconcile /\ ~ops'[id].reconcile =>
                    ops'[id].resolutions # ops[id].resolutions
    <3>1. CASE ops[id].state # "absent"
      BY <1>1, <3>1, StepGrows DEF Grows
    <3>2. CASE ops[id].state = "absent"
      BY <1>1, <3>2 DEF FreeIsEmpty, Absent
    <3> QED
      BY <3>1, <3>2
  <2>3. facts.reconcile /\ ~facts'.reconcile =>
          /\ \E id \in OpId : ops'[id].resolutions # ops[id].resolutions
          /\ \A id \in OpId : ~ops'[id].reconcile
    BY <1>1, StepReconciles
  <2> QED
    BY <2>1, <2>2, <2>3
<1>2. IndInv /\ FreeIsEmpty /\ [Next]_vars => [Outlives]_vars
  BY <1>1
<1> QED
  BY <1>2, InductiveInvariant, FreeRecords, PTL DEF Spec, DisputesOutliveEverything

-----------------------------------------------------------------------------
StillHolds(op, q) ==
  /\ Holding(op) /\ (Active(q) => Active(op))
  /\ q.type = op.type /\ q.target = op.target /\ q.sequence = op.sequence

(* Nothing but a reservation makes an operation hold the payment, or makes *)
(* it active, that was not before: a claim submits what is active already. *)
LEMMA StepHolds ==
  ASSUME IndInv, [Next]_vars, NEW x \in OpId, Holding(ops'[x]), ~\E i \in Intents : Reserve(i)
  PROVE  StillHolds(ops[x], ops'[x])
<1>1. ops \in [OpId -> OperationRecord]
  BY DEF IndInv, TypeOK
<1>2. ASSUME NEW q, Evolves(ops[x], q), Holding(q)
      PROVE  StillHolds(ops[x], q)
  BY <1>2 DEF Evolves, Kept, Promised, Holding, ResponsePending, StillHolds
<1>3. ASSUME ClaimedNow
      PROVE  StillHolds(ops[x], ops'[x])
  <2>1. PICK id \in OpId, expected \in 0 .. MaxAttempts, now \in Times :
          \E retry_until \in Optional(Deadlines), scope \in Optional(Scopes) :
            Claim(id, expected, now, retry_until, scope)
    BY <1>3 DEF ClaimedNow
  <2>2. PICK retry_until \in Optional(Deadlines), scope \in Optional(Scopes) :
          Claim(id, expected, now, retry_until, scope)
    BY <2>1
  <2>3. /\ CanSubmit(facts, ops[id], expected, now)
        /\ ops' = [ops EXCEPT ![id] = Submission(ops[id], now, retry_until, scope)]
    BY <2>2 DEF Claim
  <2>4. CASE x = id
    BY <1>1, <2>3, <2>4, ClaimHistory DEF Holding, StillHolds
  <2>5. CASE x # id
    BY <1>1, <2>3, <2>5 DEF StillHolds
  <2> QED
    BY <2>4, <2>5
<1>4. ASSUME Answered
      PROVE  StillHolds(ops[x], ops'[x])
  BY <1>2, <1>4 DEF Answered, HistoryEvolves
<1>5. ASSUME NEW id \in OpId, NEW r \in Resolutions, DecidedBy(id, r)
      PROVE  StillHolds(ops[x], ops'[x])
  <2>1. x # id
    BY <1>5 DEF DecidedBy, Decided, Holding, Active, ActiveStates, TerminalStates, ResponsePending
  <2> QED
    BY <1>2, <1>5, <2>1 DEF DecidedBy, Decided
<1> QED
  BY <1>3, <1>4, <1>5, StepHistory

(* No two intents of an application ever run on the same funds, but for a  *)
(* cancellation and its refund: plan_reservation refuses them while one is *)
(* open or still owes a response, and nothing reopens a closed one.        *)
THEOREM MutationsExclude == Spec => []OneMutationAtATime
<1>1. Init => OneMutationAtATime
  BY DEF Init, OneMutationAtATime, Absent, Holding, Active, ActiveStates, ResponsePending
<1>2. IndInv /\ OneMutationAtATime /\ [Next]_vars => OneMutationAtATime'
  <2> SUFFICES ASSUME IndInv, OneMutationAtATime, [Next]_vars
               PROVE  OneMutationAtATime'
    OBVIOUS
  <2>1. CASE \E i \in Intents : Reserve(i)
    <3>1. PICK i \in Intents : Reserve(i)
      BY <2>1
    <3>2. /\ i.id \in OpId /\ CanReserve(facts, ops, i)
          /\ \A x \in OpId \ {i.id} : ops'[x] = ops[x]
          /\ ops'[i.id].type = i.type /\ ops'[i.id].target = i.target
      BY <3>1, ReservationHistory
    <3>3. \A x \in OpId : Holding(ops[x]) => i.type = "cancel_refund" /\ x = i.target
      BY <3>2 DEF CanReserve, Blocks
    <3> QED
      BY <3>2, <3>3 DEF OneMutationAtATime
  <2>2. CASE ~\E i \in Intents : Reserve(i)
    BY <2>2, StepHolds DEF OneMutationAtATime, StillHolds
  <2> QED
    BY <2>1, <2>2
<1> QED
  BY <1>1, <1>2, InductiveInvariant, PTL DEF Spec

=============================================================================
