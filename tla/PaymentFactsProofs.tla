-------------------------- MODULE PaymentFactsProofs --------------------------
(***************************************************************************)
(* What DurableRepository shows of a payment: a status that is true of the *)
(* totals, an open refund that stays visible, captures and refunds that    *)
(* stay counted, each once, and provider handles that stay the same.       *)
(*                                                                         *)
(* The facts change in three ways: what has no effect on the totals only   *)
(* restates them, a claim runs updates through the state engine, and a     *)
(* refund's own outcome projects the status again.                         *)
(***************************************************************************)
EXTENDS DurableRepositoryProofs, SumTheorems

-----------------------------------------------------------------------------
(* The status *)

(* The same totals under the same status. *)
SameTotals(p, q) ==
  /\ q.required = p.required /\ q.captured = p.captured
  /\ q.refunded = p.refunded /\ q.hold = p.hold /\ q.status = p.status

(* What a status shows depends on nothing else. *)
LEMMA SameTotalsShown ==
  ASSUME NEW p, NEW q, SameTotals(p, q), ShowsTotals(p)
  PROVE  ShowsTotals(q)
<1>1. ProjectedStatus(q, FALSE, FALSE) = ProjectedStatus(p, FALSE, FALSE)
  BY DEF SameTotals, ProjectedStatus
<1> QED
  BY <1>1 DEF SameTotals, ShowsTotals

(* An unresolved refund is only ever shown of captured money. *)
LEMMA RefundMeansFunds ==
  ASSUME NEW p \in PaymentFacts, ShowsTotals(p), HasUnresolvedRefund(p)
  PROVE  p.captured > 0
BY DEF ShowsTotals, HasUnresolvedRefund, SettlementStatus, PaymentFacts

(* A payment with captured money accepts neither a preparation nor a lock. *)
LEMMA FundsMeanSettled ==
  ASSUME NEW p \in PaymentFacts, ShowsTotals(p), p.captured > 0
  PROVE  p.status \in {"refund_started", "refunded", "partially_refunded", "paid", "partially_paid"}
BY DEF ShowsTotals, ProjectedStatus, PaymentFacts

(* A projection shows the totals it was made from. *)
LEMMA ProjectionShows ==
  ASSUME NEW p \in PaymentFacts, ValidAmounts(p), NEW a \in BOOLEAN, NEW b \in BOOLEAN,
         a => p.captured > 0
  PROVE  ShowsTotals(Projected(p, a, b))
<1> DEFINE s == ProjectedStatus(p, a, b)
           q == [p EXCEPT !.status = s]
<1>1. /\ q.required = p.required /\ q.captured = p.captured /\ q.refunded = p.refunded
      /\ q.hold = p.hold /\ q.status = s
  BY DEF PaymentFacts
<1>2. /\ p.required \in Int /\ p.captured \in Int /\ p.refunded \in Int /\ p.hold \in Int
      /\ 0 <= p.captured /\ 0 <= p.hold /\ 0 <= p.refunded /\ p.refunded <= p.captured
  BY DEF PaymentFacts, ValidAmounts
<1>3. Projected(p, a, b) = q
  BY DEF Projected
<1> HIDE DEF s, q
<1>4. ASSUME p.captured > 0
      PROVE  s \in {"refund_started", ProjectedStatus(q, FALSE, FALSE)} /\ s \notin {"pre-auth", "cancelled"}
  BY <1>1, <1>2, <1>4 DEF ProjectedStatus, s
<1>5. ASSUME ~(p.captured > 0)
      PROVE  /\ s \notin SettlementStatus \ {"pre-auth"}
             /\ s = "pre-auth" => p.hold > 0
             /\ s = "cancelled" => p.hold = 0
  BY <1>2, <1>5 DEF ProjectedStatus, s, SettlementStatus
<1> QED
  BY <1>1, <1>2, <1>3, <1>4, <1>5 DEF ShowsTotals

(* Whatever event of an update the engine accepts. *)
LEMMA EventShows ==
  ASSUME NEW p \in PaymentFacts, NEW u \in Observation, ShowsTotals(p),
         ValidUpdateAmounts(p, u), CanApplyEvent(p, u)
  PROVE  ShowsTotals(AfterEvent(p, u))
<1>0. /\ None \notin {"prepared", "locked", "payment_captured", "failed", "refund_requested",
                    "refund_confirmed"}
      /\ p.required \in Int /\ p.captured \in Int /\ p.refunded \in Int /\ p.hold \in Int
      /\ 0 <= p.captured /\ 0 <= p.hold /\ 0 <= p.refunded /\ p.refunded <= p.captured
  BY NoneIsNoValue DEF PaymentEvent, PaymentFacts, ValidUpdateAmounts, ValidAmounts
<1>1. ValidAmounts(p) /\ u.event \in Optional(PaymentEvent)
  BY DEF ValidUpdateAmounts, Observation
<1>2. /\ HasUnresolvedRefund(p) => p.captured > 0
      /\ p.captured > 0 => p.status \notin {"new", "prepared", "pre-auth", "failed", "charge_started"}
  BY RefundMeansFunds, FundsMeanSettled
<1>3. HasUnresolvedRefund(p) \in BOOLEAN
  BY DEF HasUnresolvedRefund
<1>4. ASSUME NEW s \in {"prepared", "charge_started", "failed"}, ~(p.captured > 0)
      PROVE  ShowsTotals([p EXCEPT !.status = s])
  BY <1>0, <1>4 DEF ShowsTotals, SettlementStatus, PaymentFacts
<1>5. CASE u.event = "prepared"
  BY <1>0, <1>2, <1>4, <1>5 DEF AfterEvent, CanApplyEvent
<1>6. CASE u.event = "locked"
  <2> DEFINE h == Larger(p.hold, u.locked)
             q == [p EXCEPT !.hold = h]
             r == [q EXCEPT !.status = "pre-auth"]
  <2>1. u.locked \in 1 .. (p.required - p.captured) /\ ~(p.captured > 0)
    BY <1>0, <1>2, <1>6 DEF ValidUpdateAmounts, CanApplyEvent
  <2>2. h > 0
    BY <1>0, <2>1 DEF Larger
  <2>3. AfterEvent(p, u) = r
    BY <1>6 DEF AfterEvent, WithLocked
  <2> HIDE DEF h
  <2>4. r.captured = p.captured /\ r.hold = h /\ r.status = "pre-auth"
    BY DEF PaymentFacts
  <2> HIDE DEF r
  <2> QED
    BY <2>1, <2>2, <2>3, <2>4 DEF ShowsTotals, SettlementStatus
<1>7. CASE u.event = "charge_requested"
  BY <1>0, <1>4, <1>7 DEF AfterEvent
<1>8. CASE u.event = "payment_captured"
  <2> DEFINE c == Larger(p.captured, u.paid)
             h == Larger(0, p.hold - (c - p.captured))
             q == [p EXCEPT !.captured = c, !.hold = h]
  <2>1. u.paid \in 0 .. p.required
    BY <1>0, <1>8 DEF ValidUpdateAmounts, CanApplyEvent
  <2>2. AfterEvent(p, u) = Projected(q, HasUnresolvedRefund(p), FALSE)
    BY <1>8 DEF AfterEvent, WithPaid
  <2>3. p.hold <= p.required - p.captured
    BY <1>1 DEF ValidAmounts
  <2>4. c \in Int /\ p.captured <= c /\ c <= p.required
    BY <1>0, <1>1, <2>1 DEF ValidAmounts, Larger
  <2>5. h \in Int /\ 0 <= h /\ h <= p.required - c
    BY <1>0, <2>3, <2>4 DEF Larger
  <2> HIDE DEF c, h
  <2>6. q \in PaymentFacts
    BY <2>4, <2>5 DEF PaymentFacts
  <2>7. q.captured = c /\ q.hold = h /\ q.required = p.required /\ q.refunded = p.refunded
    BY DEF PaymentFacts
  <2> HIDE DEF q
  <2>8. ValidAmounts(q) /\ (HasUnresolvedRefund(p) => q.captured > 0)
    BY <1>0, <1>2, <2>4, <2>5, <2>7 DEF ValidAmounts
  <2> QED
    BY <1>3, <2>2, <2>6, <2>8, ProjectionShows
<1>9. CASE u.event = "failed"
  <2>1. ~(p.captured > 0)
    BY <1>0, <1>2, <1>9 DEF CanApplyEvent
  <2> QED
    BY <1>4, <1>9, <2>1 DEF AfterEvent
<1>10. CASE u.event = "refund_requested"
  <2> DEFINE r == [p EXCEPT !.status = "refund_started"]
  <2>1. p.captured > 0
    BY <1>0, <1>10 DEF CanApplyEvent, RefundableAmount
  <2>2. r.captured = p.captured /\ r.status = "refund_started"
    BY DEF PaymentFacts
  <2>3. AfterEvent(p, u) = r
    BY <1>10 DEF AfterEvent
  <2> HIDE DEF r
  <2> QED
    BY <2>1, <2>2, <2>3 DEF ShowsTotals
<1>11. CASE u.event = "refund_confirmed"
  <2> DEFINE q == WithRefunded(p, u.refunded)
  <2>1. u.refunded \in 0 .. p.captured
    BY <1>0, <1>11 DEF ValidUpdateAmounts, CanApplyEvent
  <2>2. q \in PaymentFacts /\ ValidAmounts(q)
    BY <1>1, <2>1, RefundBuilds DEF Builds
  <2>3. AfterEvent(p, u) = Projected(q, FALSE, FALSE)
    BY <1>11 DEF AfterEvent
  <2> HIDE DEF q
  <2> QED
    BY <2>2, <2>3, ProjectionShows
<1>12. CASE u.event = "refund_cancelled"
  BY <1>1, <1>12, ProjectionShows DEF AfterEvent
<1>13. CASE u.event = "lock_released"
  <2> DEFINE q == [p EXCEPT !.hold = 0]
  <2>1. q \in PaymentFacts /\ ValidAmounts(q)
    BY <1>1, ReleaseBuilds DEF Builds
  <2>2. q.captured = p.captured
    BY DEF PaymentFacts
  <2>3. AfterEvent(p, u) = Projected(q, HasUnresolvedRefund(p), TRUE)
    BY <1>13 DEF AfterEvent
  <2> HIDE DEF q
  <2> QED
    BY <1>2, <1>3, <2>1, <2>2, <2>3, ProjectionShows
<1>14. CASE u.event \notin PaymentEvent
  BY <1>14 DEF AfterEvent, PaymentEvent
<1> QED
  BY <1>1, <1>5, <1>6, <1>7, <1>8, <1>9, <1>10, <1>11, <1>12, <1>13, <1>14
  DEF Optional, PaymentEvent

(* An update that apply_payment_update accepts shows its totals and names  *)
(* the payment as before, or as the update does.                           *)
LEMMA EventKeepsHandle ==
  ASSUME NEW p \in PaymentFacts, NEW u \in Observation
  PROVE  AfterEvent(p, u).external = p.external
<1>1. \A s : [p EXCEPT !.status = s].external = p.external
  BY DEF PaymentFacts
<1>2. \A c, h, s : [[p EXCEPT !.captured = c, !.hold = h] EXCEPT !.status = s].external = p.external
  BY DEF PaymentFacts
<1>3. \A h, s : [[p EXCEPT !.hold = h] EXCEPT !.status = s].external = p.external
  BY DEF PaymentFacts
<1>4. \A r, s : [[p EXCEPT !.refunded = r] EXCEPT !.status = s].external = p.external
  BY DEF PaymentFacts
<1> QED
  BY <1>1, <1>2, <1>3, <1>4 DEF AfterEvent, Projected, WithLocked, WithPaid, WithRefunded

LEMMA UpdateShows ==
  ASSUME NEW p \in PaymentFacts, NEW u \in Observation, CanApplyUpdate(p, u)
  PROVE  /\ ShowsTotals(p) => ShowsTotals(AfterUpdate(p, u))
         /\ AfterUpdate(p, u).external = IF u.external = None THEN p.external ELSE u.external
<1> DEFINE q == WithExternal(p, u.external)
           r == AfterEvent(q, u)
           v == FraudOutcome(u.fraud_event)
           t == [r EXCEPT !.fraud = v]
<1>1. u.external \in Optional(ExternalIds)
  BY DEF Observation
<1>2. /\ q \in PaymentFacts /\ SameTotals(p, q)
      /\ q.external = IF u.external = None THEN p.external ELSE u.external
  BY <1>1 DEF WithExternal, PaymentFacts, Optional, SameTotals
<1>3. ValidUpdateAmounts(q, u) /\ CanApplyEvent(q, u)
  BY <1>2 DEF SameTotals, CanApplyUpdate, ValidUpdateAmounts, ValidAmounts, CanApplyEvent,
              CaptureRecordable, HasUnresolvedRefund, RefundableAmount
<1> HIDE DEF q
<1>4. /\ r \in PaymentFacts /\ r.external = q.external
      /\ ShowsTotals(p) => ShowsTotals(r)
  BY <1>2, <1>3, EventBuilds, EventShows, EventKeepsHandle, SameTotalsShown DEF Builds
<1>5. AfterUpdate(p, u) = IF u.fraud_event = None THEN r ELSE t
  BY DEF AfterUpdate, AfterFraud, q
<1> HIDE DEF r, v
<1>6. SameTotals(r, t) /\ t.external = r.external
  BY <1>4 DEF PaymentFacts, SameTotals
<1> HIDE DEF t
<1>7. ShowsTotals(r) => ShowsTotals(t)
  BY <1>6, SameTotalsShown
<1> QED
  BY <1>2, <1>4, <1>5, <1>6, <1>7

-----------------------------------------------------------------------------
(* One provider claim *)

(* The claims of settled operations name totals only. *)
LEMMA TotalsNameNobody ==
  ASSUME NEW n \in Int
  PROVE  /\ CaptureClaim(n).external = None /\ CaptureClaim(n).event = "payment_captured"
         /\ CaptureClaim(n).paid = n /\ CaptureClaim(n).refunded = None
         /\ RefundClaim(n).external = None
BY DEF CaptureClaim, RefundClaim, NoClaim

(* What _apply_to_facts leaves of a claim to the last update. *)
LEMMA ClaimShares ==
  ASSUME NEW f \in PaymentFacts, NEW c \in Observation
  PROVE  LET u == WithoutStaleHold(f, c)
         IN  /\ u \in Observation /\ u.external = c.external /\ u.paid = c.paid
             /\ u.refunded = c.refunded
             /\ c.event # "locked" => u.event = c.event
             /\ \A g \in PaymentFacts : Remainder(g, u) \in Observation
                                        /\ Remainder(g, u).external = c.external
<1> DEFINE e == IF c.event = "locked" THEN None ELSE c.event
           v == [c EXCEPT !.locked = None, !.event = e]
           u == WithoutStaleHold(f, c)
<1>1. u \in Observation
  BY ClaimsTyped
<1>2. u = c \/ u = v
  BY DEF WithoutStaleHold
<1> HIDE DEF u, e
<1>3. v.external = c.external /\ v.paid = c.paid /\ v.refunded = c.refunded /\ v.event = e
  BY DEF Observation
<1> HIDE DEF v
<1>4. c.event # "locked" => e = c.event
  BY DEF e
<1>5. ASSUME NEW g \in PaymentFacts
      PROVE  Remainder(g, u) \in Observation /\ Remainder(g, u).external = u.external
  <2> DEFINE d == IF EventConsumed(g, u) THEN None ELSE u.event
  <2>1. Remainder(g, u) = [u EXCEPT !.event = d, !.paid = None, !.refunded = None]
    BY DEF Remainder
  <2> HIDE DEF d
  <2> QED
    BY <1>1, <2>1, ClaimsTyped DEF Observation
<1> QED
  BY <1>1, <1>2, <1>3, <1>4, <1>5 DEF u

(* A claim that _apply_to_facts accepts leaves a payment that shows its    *)
(* totals, keeps an unresolved refund visible unless it is about its end,  *)
(* and renames nothing.                                                    *)
LEMMA ClaimShows ==
  ASSUME NEW f \in PaymentFacts, ValidAmounts(f), NEW c \in Observation, CanApplyToFacts(f, c)
  PROVE  LET q == AppliedToFacts(f, c)
         IN  /\ ShowsTotals(f) => ShowsTotals(q)
             /\ HasUnresolvedRefund(f) /\ c.event \notin {"refund_confirmed", "refund_cancelled"}
                  => HasUnresolvedRefund(q)
             /\ q.external = IF c.external = None THEN f.external ELSE c.external
             /\ c.event = "payment_captured" /\ c.paid # None /\ c.refunded = None
                  => q.captured >= c.paid
<1> DEFINE u == WithoutStaleHold(f, c)
           a == CaptureClaim(u.paid)
           b == RefundClaim(u.refunded)
           g == AfterCapture(f, u)
           h == AfterFunds(f, u)
           k == AfterUpdate(h, Remainder(h, u))
           s == IF /\ HasUnresolvedRefund(f)
                   /\ u.event \notin {"refund_confirmed", "refund_cancelled"}
                THEN "refund_started" ELSE k.status
           m == \/ k.reconcile
                \/ /\ k.captured > f.captured
                   /\ f.refunded > 0 \/ HasUnresolvedRefund(f)
           q == [k EXCEPT !.status = s, !.reconcile = m]
<1>1. /\ u \in Observation /\ u.external = c.external /\ u.paid = c.paid
      /\ u.refunded = c.refunded /\ (c.event # "locked" => u.event = c.event)
      /\ u.event \in {c.event, None}
      /\ \A x \in PaymentFacts : Remainder(x, u) \in Observation
                                 /\ Remainder(x, u).external = c.external
  <2>1. u.event \in {c.event, None}
    BY DEF WithoutStaleHold, Observation
  <2> QED
    BY <2>1, ClaimShares
<1>2. u.paid \in Optional(Int) /\ u.refunded \in Optional(Int)
  BY <1>1 DEF Observation
<1>3. CanApplyCapture(f, u) /\ CanApplyRefund(g, u) /\ CanApplyUpdate(h, Remainder(h, u))
  BY DEF CanApplyToFacts
<1>4. AppliedToFacts(f, c) = q
  BY DEF AppliedToFacts
<1> HIDE DEF u
<1>5. g = IF u.paid = None THEN f ELSE AfterUpdate(f, a)
  BY DEF AfterCapture
<1>6. h = IF ConfirmsRefund(g, u) THEN AfterUpdate(g, b) ELSE g
  BY DEF AfterFunds, AfterRefund
<1>7. u.paid # None => /\ u.paid \in Int /\ a \in Observation /\ CanApplyUpdate(f, a)
                       /\ a.external = None
  BY <1>2, <1>3, ClaimsTyped, TotalsNameNobody DEF CanApplyCapture, Optional
<1>8. ConfirmsRefund(g, u) => /\ u.refunded # None /\ b \in Observation /\ CanApplyUpdate(g, b)
                              /\ b.external = None
  BY <1>2, <1>3, ClaimsTyped, TotalsNameNobody DEF CanApplyRefund, ConfirmsRefund, Optional
<1> HIDE DEF a, b, g, h
<1>9. /\ g \in PaymentFacts /\ (ShowsTotals(f) => ShowsTotals(g)) /\ g.external = f.external
      /\ g.captured >= f.captured
  BY <1>5, <1>7, UpdateBuilds, UpdateShows DEF Builds, PaymentFacts
<1>10. /\ h \in PaymentFacts /\ (ShowsTotals(g) => ShowsTotals(h)) /\ h.external = g.external
       /\ h.captured >= g.captured
  BY <1>6, <1>8, <1>9, UpdateBuilds, UpdateShows DEF Builds, PaymentFacts
<1>11. /\ k \in PaymentFacts /\ (ShowsTotals(h) => ShowsTotals(k)) /\ k.captured >= h.captured
       /\ k.external = IF c.external = None THEN f.external ELSE c.external
  BY <1>1, <1>3, <1>9, <1>10, UpdateBuilds, UpdateShows DEF Builds
<1> HIDE DEF k, s, m
<1>12. /\ q.required = k.required /\ q.captured = k.captured /\ q.refunded = k.refunded
       /\ q.hold = k.hold /\ q.external = k.external /\ q.status = s
  BY <1>11 DEF PaymentFacts
<1> HIDE DEF q
<1>13. f.captured \in Int /\ g.captured \in Int /\ h.captured \in Int /\ k.captured \in Int
  BY <1>9, <1>10, <1>11 DEF PaymentFacts
<1>14. ASSUME ShowsTotals(f) PROVE ShowsTotals(q)
  <2>1. ShowsTotals(k)
    BY <1>9, <1>10, <1>11, <1>14
  <2>2. CASE s = k.status
    BY <1>12, <2>1, <2>2, SameTotalsShown DEF SameTotals
  <2>3. CASE s # k.status
    <3>1. HasUnresolvedRefund(f) /\ s = "refund_started"
      BY <2>3 DEF s
    <3>2. f.captured > 0
      BY <1>14, <3>1, RefundMeansFunds
    <3>3. q.captured > 0 /\ q.status = "refund_started"
      BY <1>9, <1>10, <1>11, <1>12, <1>13, <3>1, <3>2
    <3> QED
      BY <3>3 DEF ShowsTotals
  <2> QED
    BY <2>2, <2>3
<1>15. ASSUME HasUnresolvedRefund(f), c.event \notin {"refund_confirmed", "refund_cancelled"}
       PROVE  HasUnresolvedRefund(q)
  <2>1. u.event \notin {"refund_confirmed", "refund_cancelled"}
    BY <1>1, <1>15, NoneIsNoValue DEF PaymentEvent
  <2> QED
    BY <1>12, <1>15, <2>1 DEF s, HasUnresolvedRefund
<1>16. ASSUME c.event = "payment_captured", c.paid # None, c.refunded = None
       PROVE  q.captured >= c.paid
  <2>1. u.paid \in Int /\ u.paid = c.paid /\ g = AfterUpdate(f, a)
    BY <1>1, <1>5, <1>7, <1>16
  <2>2. g.captured >= u.paid
    <3> DEFINE l == Larger(f.captured, u.paid)
               y == Larger(0, f.hold - (l - f.captured))
               p == [f EXCEPT !.captured = l, !.hold = y]
               z == ProjectedStatus(p, HasUnresolvedRefund(f), FALSE)
    <3>1. AfterUpdate(f, a) = [p EXCEPT !.status = z]
      <4>1. a.external = None /\ a.fraud_event = None /\ a.event = "payment_captured" /\ a.paid = u.paid
        BY <2>1 DEF a, CaptureClaim, NoClaim
      <4>2. WithExternal(f, a.external) = f
        BY <4>1 DEF WithExternal
      <4>3. AfterEvent(f, a) = Projected(WithPaid(f, a.paid), HasUnresolvedRefund(f), FALSE)
        BY <4>1 DEF AfterEvent
      <4> QED
        BY <4>1, <4>2, <4>3 DEF AfterUpdate, AfterFraud, Projected, WithPaid
    <3> HIDE DEF z, l, y
    <3>2. [p EXCEPT !.status = z].captured = l
      BY DEF PaymentFacts
    <3>3. l >= u.paid
      BY <1>13, <2>1 DEF l, Larger
    <3> QED
      BY <2>1, <3>1, <3>2, <3>3
  <2> QED
    BY <1>10, <1>11, <1>12, <1>13, <2>1, <2>2
<1> QED
  BY <1>4, <1>11, <1>12, <1>14, <1>15, <1>16

-----------------------------------------------------------------------------
(* One outcome of one operation *)

(* What neither moves money nor shows other money nor renames the payment. *)
Restates(p, q) ==
  /\ q \in PaymentFacts /\ SameTotals(p, q)
  /\ p.external # None => q.external = p.external

(* Requirements for a human, and a handle where there was none. *)
LEMMA NotesRestate ==
  ASSUME NEW f \in PaymentFacts, NEW op \in OperationRecord, NEW o \in Outcome
  PROVE  /\ Restates(f, Disputed(f, op, o).facts)
         /\ Restates(f, NotedFacts(f, op, o))
         /\ ~ConflictingExternalId(f, o) => Restates(f, IdentifiedFacts(f, op, o))
<1> DEFINE b == f.reconcile \/ Noted(f, op, o).reconcile
           n == [f EXCEPT !.reconcile = b]
           d == [f EXCEPT !.reconcile = TRUE]
<1>1. Noted(f, op, o).reconcile \in BOOLEAN /\ o.external \in Optional(ExternalIds)
  BY NotedTyped DEF OperationRecord, Outcome
<1>2. b \in BOOLEAN
  BY <1>1 DEF PaymentFacts
<1>3. NotedFacts(f, op, o) = n
  BY DEF NotedFacts
<1>4. Disputed(f, op, o).facts = d
  BY DEF Disputed
<1> HIDE DEF b
<1>5. Restates(f, n)
  BY <1>2 DEF Restates, SameTotals, PaymentFacts
<1>6. Restates(f, d)
  BY DEF Restates, SameTotals, PaymentFacts
<1> HIDE DEF n
<1>7. ASSUME ~ConflictingExternalId(f, o)
      PROVE  Restates(f, WithExternal(n, o.external))
  <2>1. o.external # None /\ f.external # None => o.external = f.external
    BY <1>7 DEF ConflictingExternalId
  <2>2. n \in PaymentFacts
    BY <1>5 DEF Restates
  <2>3. [n EXCEPT !.external = o.external].external = o.external
    BY <2>2 DEF PaymentFacts
  <2>4. o.external # None => [n EXCEPT !.external = o.external] \in PaymentFacts
    BY <1>1, <2>2 DEF PaymentFacts, Optional
  <2>5. SameTotals(n, [n EXCEPT !.external = o.external])
    BY <2>2 DEF SameTotals, PaymentFacts
  <2> QED
    BY <1>5, <2>1, <2>3, <2>4, <2>5 DEF WithExternal, Restates, SameTotals
<1> QED
  BY <1>3, <1>4, <1>5, <1>6, <1>7 DEF IdentifiedFacts

(* plan_outcome restates the facts, or settles an operation.               *)
LEMMA OutcomeCases ==
  ASSUME NEW f \in PaymentFacts, ValidAmounts(f),
         NEW all \in [OpId -> OperationRecord], NEW id \in OpId, NEW o \in Outcome,
         CanPlanOutcome(f, all, id, o)
  PROVE  LET op    == all[id]
             g     == IdentifiedFacts(f, op, o)
             claim == SettlementClaim(g, all, id, o)
             next  == SettledOps(f, all, id, o)
             plan  == OutcomePlan(f, all, id, o)
         IN  \/ Restates(f, plan.facts) /\ \A x \in OpId : plan.ops[x].state = all[x].state
             \/ /\ Restates(f, g) /\ g \in PaymentFacts /\ ValidAmounts(g)
                /\ ~ConflictingExternalId(f, o)
                /\ Active(op) \/ CancelledRefundSettled(all, id, o)
                /\ plan.ops = next
                /\ \/ o.state # "succeeded" /\ plan.facts = Reprojected(g, next, op.type)
                   \/ /\ o.state = "succeeded" /\ WellFormedOutcome(op, o)
                      /\ claim \in Observation /\ CanApplyToFacts(g, claim) /\ Possible(g, claim)
                      /\ plan.facts = Reprojected(AppliedToFacts(g, claim), next, op.type)
<1> DEFINE op    == all[id]
           n     == Noted(f, op, o)
           g     == IdentifiedFacts(f, op, o)
           claim == SettlementClaim(g, all, id, o)
           next  == SettledOps(f, all, id, o)
           plan  == OutcomePlan(f, all, id, o)
<1>1. op \in OperationRecord /\ n \in OperationRecord /\ n.state = op.state
  BY NotedTyped
<1>2. g \in PaymentFacts /\ ValidAmounts(g)
  BY <1>1, IdentifiedBuilds DEF Builds
<1>3. \A q : q.state = op.state => \A x \in OpId : [all EXCEPT ![id] = q][x].state = all[x].state
  OBVIOUS
<1>4. CASE Overstated(op, o)
  <2>1. plan.facts = Disputed(f, op, o).facts /\ plan.ops = [all EXCEPT ![id] = Disputed(f, op, o).op]
    BY <1>4 DEF OutcomePlan
  <2>2. Disputed(f, op, o).op.state = op.state
    BY <1>1 DEF Disputed, OperationRecord
  <2> HIDE DEF plan
  <2> QED
    BY <1>1, <1>3, <2>1, <2>2, NotesRestate DEF plan
<1>5. CASE ~Overstated(op, o) /\ OnlyNoted(f, all, id, o)
  <2>1. /\ plan.facts = IF ConflictingCorrelation(op, o) \/ ConflictingExternalId(f, o)
                        THEN NotedFacts(f, op, o) ELSE g
        /\ plan.ops = [all EXCEPT ![id] = n]
    BY <1>5 DEF OutcomePlan
  <2>2. Restates(f, plan.facts)
    BY <1>1, <2>1, NotesRestate
  <2> HIDE DEF plan, n, g
  <2> QED
    BY <1>1, <1>3, <2>1, <2>2 DEF plan
<1>6. CASE ~Overstated(op, o) /\ ~OnlyNoted(f, all, id, o)
  <2>1. /\ ~ConflictingExternalId(f, o) /\ Restates(f, g)
        /\ op.state \notin TerminalStates \/ CancelledRefundSettled(all, id, o)
        /\ op.state # "absent" /\ WellFormedOutcome(op, o)
    BY <1>1, <1>6, NotesRestate DEF OnlyNoted, CanPlanOutcome
  <2>2. Active(op) \/ CancelledRefundSettled(all, id, o)
    BY <1>1, <2>1 DEF OperationRecord, Active
  <2>3. CASE o.state = "succeeded" /\ ~Possible(g, claim)
    <3>1. plan.facts = Disputed(g, n, o).facts /\ plan.ops = [all EXCEPT ![id] = Disputed(g, n, o).op]
      BY <1>6, <2>3 DEF OutcomePlan
    <3>2. Disputed(g, n, o).op.state = op.state
      BY <1>1 DEF Disputed, OperationRecord
    <3> HIDE DEF plan, n, g
    <3>3. Restates(g, Disputed(g, n, o).facts)
      BY <1>1, <1>2, NotesRestate
    <3>4. Restates(f, plan.facts)
      BY <2>1, <3>1, <3>3 DEF Restates, SameTotals
    <3> QED
      BY <1>3, <3>1, <3>2, <3>4 DEF plan
  <2>4. CASE o.state = "succeeded" /\ Possible(g, claim)
    <3>1. plan.facts = Reprojected(AppliedToFacts(g, claim), next, op.type) /\ plan.ops = next
      BY <1>6, <2>4 DEF OutcomePlan
    <3>2. CanApplyToFacts(g, claim)
      BY <1>6, <2>4 DEF CanPlanOutcome
    <3>3. claim \in Observation
      BY <1>2, <2>1, <2>4, SettlementTyped
    <3> HIDE DEF plan, g, claim, next
    <3> QED
      BY <1>2, <2>1, <2>2, <2>4, <3>1, <3>2, <3>3 DEF plan, g, claim, next
  <2>5. CASE o.state # "succeeded"
    <3>1. plan.facts = Reprojected(g, next, op.type) /\ plan.ops = next
      BY <1>6, <2>5 DEF OutcomePlan
    <3> HIDE DEF plan, g, claim, next
    <3> QED
      BY <1>2, <2>1, <2>2, <2>5, <3>1 DEF plan, g, claim, next
  <2> QED
    BY <2>3, <2>4, <2>5
<1> QED
  BY <1>4, <1>5, <1>6

(* A refund's own outcome projects the status anew; the rest is kept.      *)
LEMMA ReprojectionShows ==
  ASSUME NEW p \in PaymentFacts, ValidAmounts(p), NEW all, NEW type
  PROVE  LET q == Reprojected(p, all, type)
         IN  /\ q.captured = p.captured /\ q.refunded = p.refunded /\ q.external = p.external
             /\ ShowsTotals(p) /\ (ActiveRefund(all) => p.captured > 0) => ShowsTotals(q)
             /\ HasUnresolvedRefund(p) \/ type = "start_refund" =>
                  (ActiveRefund(all) => HasUnresolvedRefund(q))
<1> DEFINE a == ActiveRefund(all)
           s == ProjectedStatus(p, a, FALSE)
           q == [p EXCEPT !.status = s]
<1>1. a \in BOOLEAN
  BY DEF ActiveRefund
<1>2. CASE type \in {"start_refund", "cancel_refund"}
  <2>1. Reprojected(p, all, type) = q /\ q = Projected(p, a, FALSE)
    BY <1>2 DEF Reprojected, Projected
  <2>2. a => s = "refund_started"
    BY DEF ProjectedStatus
  <2>3. (a => p.captured > 0) => ShowsTotals(q)
    BY <1>1, <2>1, ProjectionShows
  <2> HIDE DEF a, s
  <2>4. q.captured = p.captured /\ q.refunded = p.refunded /\ q.external = p.external /\ q.status = s
    BY DEF PaymentFacts
  <2> HIDE DEF q
  <2> QED
    BY <2>1, <2>2, <2>3, <2>4 DEF HasUnresolvedRefund, a
<1>3. CASE type \notin {"start_refund", "cancel_refund"}
  BY <1>3 DEF Reprojected
<1> QED
  BY <1>2, <1>3

(* The claims of settlements are never about the end of another refund,    *)
(* and name the payment only as their outcome does.                        *)
LEMMA SettlementShares ==
  ASSUME NEW f \in PaymentFacts, NEW all \in [OpId -> OperationRecord], NEW id \in OpId,
         NEW o \in Outcome, o.state = "succeeded"
  PROVE  LET claim == SettlementClaim(f, all, id, o)
         IN  /\ claim.external \in {None, o.external}
             /\ all[id].type # "start_refund" =>
                  claim.event \notin {"refund_confirmed", "refund_cancelled"}
             /\ all[id].type = "charge" =>
                  /\ claim.event = "payment_captured" /\ claim.refunded = None
                  /\ claim.paid = all[id].base_captured + SettledAmount(all[id], o)
<1>1. None \notin {"refund_confirmed", "refund_cancelled"}
  BY NoneIsNoValue DEF PaymentEvent
<1> QED
  BY <1>1 DEF SettlementClaim, CaptureClaim, RefundClaim, NoClaim

(* What an outcome shows: true totals, an open refund that was shown, the  *)
(* same handle, and the capture it settles.                                *)
LEMMA OutcomeShows ==
  ASSUME NEW f \in PaymentFacts, ValidAmounts(f),
         NEW all \in [OpId -> OperationRecord], NEW id \in OpId, NEW o \in Outcome,
         CanPlanOutcome(f, all, id, o)
  PROVE  LET plan == OutcomePlan(f, all, id, o)
         IN  /\ ActiveRefund(plan.ops) /\ HasUnresolvedRefund(f) => HasUnresolvedRefund(plan.facts)
             /\ ShowsTotals(f) /\ (ActiveRefund(plan.ops) => f.captured > 0)
                  => ShowsTotals(plan.facts)
<1> DEFINE op    == all[id]
           g     == IdentifiedFacts(f, op, o)
           claim == SettlementClaim(g, all, id, o)
           next  == SettledOps(f, all, id, o)
           plan  == OutcomePlan(f, all, id, o)
           h     == AppliedToFacts(g, claim)
<1>1. CASE Restates(f, plan.facts)
  BY <1>1, SameTotalsShown DEF Restates, SameTotals, HasUnresolvedRefund
<1>2. CASE ~Restates(f, plan.facts)
  <2>1. /\ Restates(f, g) /\ g \in PaymentFacts /\ ValidAmounts(g) /\ plan.ops = next
        /\ \/ o.state # "succeeded" /\ plan.facts = Reprojected(g, next, op.type)
           \/ /\ o.state = "succeeded"
              /\ claim \in Observation /\ CanApplyToFacts(g, claim)
              /\ plan.facts = Reprojected(h, next, op.type)
    BY <1>2, OutcomeCases
  <2>2. o.state = "succeeded" /\ op.type # "start_refund" =>
          claim.event \notin {"refund_confirmed", "refund_cancelled"}
    BY <2>1, SettlementShares
  <2> HIDE DEF plan, g, claim, next, op
  <2>3. /\ HasUnresolvedRefund(f) => HasUnresolvedRefund(g)
        /\ ShowsTotals(f) => ShowsTotals(g)
        /\ g.captured = f.captured
    BY <2>1, SameTotalsShown DEF Restates, SameTotals, HasUnresolvedRefund
  <2>4. CASE o.state # "succeeded"
    BY <2>1, <2>3, <2>4, ReprojectionShows DEF plan
  <2>5. CASE o.state = "succeeded"
    <3>1. Builds(g, h)
      BY <2>1, <2>5, ClaimBuilds
    <3>2. /\ ShowsTotals(g) => ShowsTotals(h)
          /\ HasUnresolvedRefund(g) /\ op.type # "start_refund" => HasUnresolvedRefund(h)
      BY <2>1, <2>2, <2>5, ClaimShows
    <3>3. plan.facts = Reprojected(h, next, op.type)
      BY <2>1, <2>5
    <3> HIDE DEF h
    <3>4. h \in PaymentFacts /\ ValidAmounts(h) /\ h.captured >= g.captured
      BY <3>1 DEF Builds
    <3>5. f.captured > 0 => h.captured > 0
      BY <2>1, <2>3, <3>4 DEF PaymentFacts
    <3>6. HasUnresolvedRefund(f) => HasUnresolvedRefund(h) \/ op.type = "start_refund"
      BY <2>3, <3>2
    <3>7. ActiveRefund(next) /\ HasUnresolvedRefund(f) => HasUnresolvedRefund(plan.facts)
      BY <3>3, <3>4, <3>6, ReprojectionShows
    <3>8. ShowsTotals(f) /\ (ActiveRefund(next) => f.captured > 0) => ShowsTotals(plan.facts)
      BY <2>3, <3>2, <3>3, <3>4, <3>5, ReprojectionShows
    <3> QED
      BY <2>1, <3>7, <3>8 DEF plan
  <2> QED
    BY <2>4, <2>5
<1> QED
  BY <1>1, <1>2

(* A settled outcome never names the payment anew, and its capture is in   *)
(* the total it leaves.                                                    *)
LEMMA OutcomeRecords ==
  ASSUME NEW f \in PaymentFacts, ValidAmounts(f),
         NEW all \in [OpId -> OperationRecord], NEW id \in OpId, NEW o \in Outcome,
         CanPlanOutcome(f, all, id, o)
  PROVE  LET plan == OutcomePlan(f, all, id, o)
         IN  /\ f.external # None => plan.facts.external = f.external
             /\ \A x \in OpId :
                  /\ all[x].type = "charge" /\ all[x].state # "succeeded"
                  /\ plan.ops[x].state = "succeeded"
                  => /\ x = id /\ Active(all[x])
                     /\ plan.ops[x].settled \in Int
                     /\ plan.facts.captured >= all[x].base_captured + plan.ops[x].settled
<1> DEFINE op    == all[id]
           g     == IdentifiedFacts(f, op, o)
           claim == SettlementClaim(g, all, id, o)
           next  == SettledOps(f, all, id, o)
           plan  == OutcomePlan(f, all, id, o)
           h     == AppliedToFacts(g, claim)
<1>1. CASE Restates(f, plan.facts) /\ \A x \in OpId : plan.ops[x].state = all[x].state
  BY <1>1 DEF Restates
<1>2. CASE ~(Restates(f, plan.facts) /\ \A x \in OpId : plan.ops[x].state = all[x].state)
  <2>1. /\ Restates(f, g) /\ g \in PaymentFacts /\ ValidAmounts(g) /\ plan.ops = next
        /\ ~ConflictingExternalId(f, o)
        /\ Active(op) \/ CancelledRefundSettled(all, id, o)
        /\ \/ o.state # "succeeded" /\ plan.facts = Reprojected(g, next, op.type)
           \/ /\ o.state = "succeeded" /\ WellFormedOutcome(op, o)
              /\ claim \in Observation /\ CanApplyToFacts(g, claim)
              /\ plan.facts = Reprojected(h, next, op.type)
    BY <1>2, OutcomeCases
  <2>2. /\ next[id].state = NextState(op, o)
        /\ o.state = "succeeded" => next[id].settled = SettledAmount(op, o)
        /\ \A x \in OpId \ {id} : next[x].state = "rejected" \/ next[x] = all[x]
    <3>1. all[id].state # "absent" /\ (Active(all[id]) \/ CancelledRefundSettled(all, id, o))
      BY <2>1 DEF Active, ActiveStates, CancelledRefundSettled
    <3> HIDE DEF plan, g, claim
    <3>2. next[id].state = NextState(op, o)
      BY <3>1, SettledOpsEvolve
    <3>3. o.state = "succeeded" => next[id].settled = SettledAmount(op, o)
      BY <3>1, SettledOpsEvolve
    <3>4. \A x \in OpId \ {id} : next[x].state = "rejected" \/ next[x] = all[x]
      <4>1. ASSUME NEW x \in OpId PROVE [all[x] EXCEPT !.state = "rejected"].state = "rejected"
        BY DEF OperationRecord
      <4> QED
        BY <4>1 DEF SettledOps
    <3> QED
      BY <3>2, <3>3, <3>4
  <2>3. o.state = "succeeded" =>
          /\ claim.external \in {None, o.external}
          /\ op.type = "charge" =>
               /\ claim.event = "payment_captured" /\ claim.refunded = None
               /\ claim.paid = op.base_captured + SettledAmount(op, o)
    BY <2>1, SettlementShares
  <2>4. /\ op \in OperationRecord /\ op.base_captured \in Int
        /\ op.amount \in Optional(Int) /\ o.settled \in Optional(Int)
    BY DEF OperationRecord, Outcome
  <2> HIDE DEF plan, g, claim, next, op
  <2>5. CASE o.state # "succeeded"
    <3>1. plan.facts.external = g.external
      BY <2>1, <2>5, ReprojectionShows
    <3>2. \A x \in OpId : next[x].state = "succeeded" => all[x].state = "succeeded"
      BY <2>2, <2>5 DEF NextState, op
    <3> QED
      BY <2>1, <3>1, <3>2 DEF Restates, plan
  <2>6. CASE o.state = "succeeded"
    <3>1. h \in PaymentFacts /\ ValidAmounts(h)
      BY <2>1, <2>6, ClaimBuilds DEF Builds
    <3>2. /\ h.external = IF claim.external = None THEN g.external ELSE claim.external
          /\ claim.event = "payment_captured" /\ claim.paid # None /\ claim.refunded = None
               => h.captured >= claim.paid
      BY <2>1, <2>6, ClaimShows
    <3>3. plan.facts = Reprojected(h, next, op.type)
      BY <2>1, <2>6
    <3> HIDE DEF h
    <3>4. plan.facts.external = h.external /\ plan.facts.captured = h.captured
      BY <3>1, <3>3, ReprojectionShows
    <3>5. f.external # None => plan.facts.external = f.external
      BY <2>1, <2>3, <2>6, <3>2, <3>4 DEF Restates, ConflictingExternalId
    <3>6. ASSUME NEW x \in OpId, all[x].type = "charge", all[x].state # "succeeded",
                 next[x].state = "succeeded"
          PROVE  /\ x = id /\ Active(all[x]) /\ next[x].settled \in Int
                 /\ plan.facts.captured >= all[x].base_captured + next[x].settled
      <4>1. x = id
        BY <2>2, <3>6
      <4>2. op.type = "charge" /\ Active(op)
        BY <2>1, <3>6, <4>1 DEF CancelledRefundSettled, op
      <4>3. SettledAmount(op, o) \in Int
        BY <2>1, <2>4, <2>6, <4>2 DEF WellFormedOutcome, MonetaryTypes, SettledAmount, Optional
      <4>4. claim.paid \in Int /\ claim.paid # None
        BY <2>3, <2>4, <2>6, <4>2, <4>3, NoneIsNoValue
      <4> QED
        BY <2>2, <2>3, <2>6, <3>2, <3>4, <4>1, <4>2, <4>3, <4>4 DEF op
    <3> QED
      BY <2>1, <3>5, <3>6 DEF plan
  <2> QED
    BY <2>5, <2>6
<1> QED
  BY <1>1, <1>2

-----------------------------------------------------------------------------
(* One observation *)

(* A refused claim restates the payment, and asks for a human. *)
LEMMA RetentionRestates ==
  ASSUME NEW f \in PaymentFacts, NEW u \in Observation, NEW reasons \in SUBSET RetentionReason
  PROVE  LET q == Retained(f, u, reasons)
         IN  /\ Restates(f, q) /\ q.external = f.external
             /\ q.reconcile = (f.reconcile \/ reasons # {})
<1> DEFINE b == f.reconcile \/ reasons # {}
           c == f.conflicts \cup {[claim |-> u, reason |-> r] : r \in reasons}
           q == [f EXCEPT !.reconcile = b, !.conflicts = c]
<1>1. b \in BOOLEAN
  BY DEF PaymentFacts
<1>2. \A r \in reasons : [claim |-> u, reason |-> r] \in [claim : Observation, reason : RetentionReason]
  OBVIOUS
<1>3. c \in SUBSET [claim : Observation, reason : RetentionReason]
  BY <1>2 DEF PaymentFacts
<1>4. Retained(f, u, reasons) = q
  BY DEF Retained
<1> HIDE DEF b, c
<1>5. q \in PaymentFacts /\ SameTotals(f, q) /\ q.external = f.external /\ q.reconcile = b
  BY <1>1, <1>3 DEF PaymentFacts, SameTotals
<1> HIDE DEF q
<1> QED
  BY <1>4, <1>5 DEF Restates, b

(* The aggregate part of plan_observation. *)
LEMMA AggregateShows ==
  ASSUME NEW f \in PaymentFacts, ValidAmounts(f), NEW u \in Observation, NEW all,
         CanPlanObservation(f, all, u)
  PROVE  LET g == AggregatedFacts(f, u)
         IN  /\ g \in PaymentFacts /\ ValidAmounts(g) /\ g.captured >= f.captured
             /\ ShowsTotals(f) => ShowsTotals(g)
             /\ f.external # None => g.external = f.external
             /\ ConflictingExternalId(f, u) => g.reconcile
<1> DEFINE c == Aggregate(f, u)
           p == ScreenedFacts(f, u)
           g == AggregatedFacts(f, u)
<1>1. ScreeningReasons(f, u) \in SUBSET RetentionReason
  BY DEF ScreeningReasons, RetentionReason
<1>2. /\ Restates(f, p) /\ p.external = f.external /\ ValidAmounts(p)
      /\ p.reconcile = (f.reconcile \/ ScreeningReasons(f, u) # {})
  BY <1>1, RetentionRestates, RetainedBuilds DEF ScreenedFacts, Builds
<1>3. c \in Observation /\ CanApplyToFacts(p, c) /\ g = AppliedToFacts(p, c)
  BY AggregateTyped DEF CanPlanObservation, AggregatedFacts
<1>4. c.external = IF ConflictingExternalId(f, u) THEN None ELSE u.external
  BY DEF Aggregate, Observation
<1>5. ConflictingExternalId(f, u) => p.reconcile
  BY <1>2 DEF ScreeningReasons
<1> HIDE DEF c, p, g
<1>6. p \in PaymentFacts
  BY <1>2 DEF Restates
<1>7. Builds(p, g)
  BY <1>2, <1>3, <1>6, ClaimBuilds
<1>8. /\ ShowsTotals(p) => ShowsTotals(g)
      /\ g.external = IF c.external = None THEN p.external ELSE c.external
  BY <1>2, <1>3, <1>6, ClaimShows
<1>9. ShowsTotals(f) => ShowsTotals(p)
  BY <1>2, SameTotalsShown DEF Restates
<1>10. f.external # None => g.external = f.external
  BY <1>2, <1>4, <1>8 DEF ConflictingExternalId
<1> QED
  BY <1>2, <1>5, <1>7, <1>8, <1>9, <1>10 DEF Builds, Restates, SameTotals, g

(* Captures that a commit settles are in the total it commits. *)
Settles(all, g, next) ==
  \A x \in OpId :
    /\ all[x].type = "charge" /\ all[x].state # "succeeded" /\ next[x].state = "succeeded"
    => /\ next[x].settled \in Int
       /\ g.captured >= all[x].base_captured + next[x].settled
       /\ Active(all[x])

(* plan_observation *)
LEMMA ObservationShows ==
  ASSUME NEW f \in PaymentFacts, ValidAmounts(f),
         NEW all \in [OpId -> OperationRecord], NEW u \in Observation,
         CanPlanObservation(f, all, u)
  PROVE  LET plan == ObservationPlan(f, all, u)
         IN  /\ ActiveRefund(plan.ops) => HasUnresolvedRefund(plan.facts)
             /\ ShowsTotals(f) /\ (ActiveRefund(plan.ops) => f.captured > 0)
                  => ShowsTotals(plan.facts)
             /\ f.external # None => plan.facts.external = f.external
             /\ ConflictingExternalId(f, u) => plan.facts.reconcile
             /\ Settles(all, plan.facts, plan.ops)
<1> DEFINE a    == AggregatedFacts(f, u)
           plan == CorrelatedPlan(f, all, u)
           g    == plan.facts
           s    == IF ActiveRefund(plan.ops) THEN "refund_started" ELSE g.status
           h    == [g EXCEPT !.status = s]
<1>1. /\ a \in PaymentFacts /\ ValidAmounts(a) /\ a.captured >= f.captured
      /\ ShowsTotals(f) => ShowsTotals(a)
      /\ f.external # None => a.external = f.external
      /\ ConflictingExternalId(f, u) => a.reconcile
      /\ f.captured \in Int
  BY AggregateShows DEF PaymentFacts
<1>2. /\ g \in PaymentFacts /\ g.captured >= a.captured /\ (a.reconcile => g.reconcile)
      /\ ShowsTotals(a) /\ (ActiveRefund(plan.ops) => a.captured > 0) => ShowsTotals(g)
      /\ a.external # None => g.external = a.external
      /\ Settles(all, g, plan.ops)
  <2>1. CASE ~Correlated(all, u)
    <3>1. plan.ops = all
      BY <2>1 DEF CorrelatedPlan, Correlated
    <3>2. g = a \/ g = Retained(a, u, CorrelationFailure(all, u))
      BY <2>1 DEF CorrelatedPlan, Correlated
    <3>3. CorrelationFailure(all, u) \in SUBSET RetentionReason
      BY DEF CorrelationFailure, RetentionReason
    <3> HIDE DEF plan, a, g
    <3>4. g = a \/ (Restates(a, g) /\ g.external = a.external /\ (a.reconcile => g.reconcile))
      BY <1>1, <3>2, <3>3, RetentionRestates DEF PaymentFacts
    <3>5. Settles(all, g, all)
      BY DEF Settles
    <3> QED
      BY <1>1, <3>1, <3>4, <3>5, SameTotalsShown DEF Restates, SameTotals, PaymentFacts
  <2>2. CASE Correlated(all, u)
    <3> DEFINE id == CHOOSE x \in Candidates(all, u) : TRUE
    <3>1. id \in Candidates(all, u) /\ id \in OpId /\ u.outcome \in Outcome
      BY <2>2, OneCandidate
    <3>2. CanPlanOutcome(a, all, id, u.outcome)
      BY <2>2, <3>1 DEF CanPlanObservation
    <3>3. plan = OutcomePlan(a, all, id, u.outcome)
      BY <2>2 DEF CorrelatedPlan, Correlated
    <3> HIDE DEF a, id, plan
    <3>4. Builds(a, plan.facts)
      BY <1>1, <3>1, <3>2, <3>3, OutcomeBuilds
    <3>5. ShowsTotals(a) /\ (ActiveRefund(plan.ops) => a.captured > 0) => ShowsTotals(plan.facts)
      BY <1>1, <3>1, <3>2, <3>3, OutcomeShows
    <3>6. /\ a.external # None => plan.facts.external = a.external
          /\ Settles(all, plan.facts, plan.ops)
      BY <1>1, <3>1, <3>2, <3>3, OutcomeRecords DEF Settles
    <3> QED
      BY <3>4, <3>5, <3>6 DEF Builds
  <2> QED
    BY <2>1, <2>2
<1>3. ObservationPlan(f, all, u) = [facts |-> h, ops |-> plan.ops]
  BY DEF ObservationPlan
<1> HIDE DEF plan, s, g, a
<1>4. /\ h.required = g.required /\ h.captured = g.captured /\ h.refunded = g.refunded
      /\ h.hold = g.hold /\ h.external = g.external /\ h.reconcile = g.reconcile /\ h.status = s
  BY <1>2 DEF PaymentFacts
<1> HIDE DEF h
<1>5. ActiveRefund(plan.ops) => HasUnresolvedRefund(h)
  BY <1>4 DEF s, HasUnresolvedRefund
<1>6. ASSUME ShowsTotals(f), ActiveRefund(plan.ops) => f.captured > 0
      PROVE  ShowsTotals(h)
  <2>1. a.captured \in Int /\ g.captured \in Int
    BY <1>1, <1>2 DEF PaymentFacts
  <2>2. CASE ActiveRefund(plan.ops)
    <3>1. h.captured > 0 /\ h.status = "refund_started"
      BY <1>1, <1>2, <1>4, <1>6, <2>1, <2>2 DEF s
    <3> QED
      BY <3>1 DEF ShowsTotals
  <2>3. CASE ~ActiveRefund(plan.ops)
    BY <1>1, <1>2, <1>4, <1>6, <2>3, SameTotalsShown DEF SameTotals, s
  <2> QED
    BY <2>2, <2>3
<1>7. Settles(all, h, plan.ops)
  BY <1>2, <1>4 DEF Settles
<1> QED
  BY <1>1, <1>2, <1>3, <1>4, <1>5, <1>6, <1>7

-----------------------------------------------------------------------------
(* One decision *)

(* A capture that a commit leaves succeeded was counted before, or is in   *)
(* the total it commits and nothing was reserved on top of it.             *)
Recorded(all, g, next) ==
  \A x \in OpId :
    all[x].type = "charge" /\ next[x].state = "succeeded" =>
      \/ all[x].state = "succeeded" /\ next[x].settled = all[x].settled
      \/ /\ next[x].settled \in Int
         /\ g.captured >= all[x].base_captured + next[x].settled
         /\ Active(all[x]) \/ \A y \in OpId : all[y].sequence <= all[x].sequence

(* Answers and callbacks record captures so. *)
LEMMA SettlesRecords ==
  ASSUME NEW all, NEW g, NEW next, Settles(all, g, next), HistoryEvolves(all, g, next)
  PROVE  Recorded(all, g, next)
BY DEF Settles, HistoryEvolves, Evolves, Recorded

(* plan_resolution *)
LEMMA DecisionShows ==
  ASSUME NEW f \in PaymentFacts, NEW all \in [OpId -> OperationRecord],
         NEW id \in OpId, NEW r \in Resolution, r.outcome.state \in TerminalStates,
         CanResolve(f, all, id, r)
  PROVE  LET plan == ResolutionPlan(f, all, id, r)
         IN  /\ ActiveRefund(plan.ops) => ActiveRefund(all)
             /\ ActiveRefund(plan.ops) /\ HasUnresolvedRefund(f) => HasUnresolvedRefund(plan.facts)
             /\ ShowsTotals(f) /\ (ActiveRefund(all) => HasUnresolvedRefund(f))
                  => ShowsTotals(plan.facts)
             /\ f.external # None => plan.facts.external = f.external
             /\ Recorded(all, plan.facts, plan.ops)
<1> DEFINE op       == all[id]
           re       == Reopened(op, r)
           reopened == [all EXCEPT ![id] = re]
           o        == r.outcome
           plan     == ResolvedPlan(f, all, id, r)
           final    == ResolutionPlan(f, all, id, r)
           p        == plan.ops[id]
           q        == [p EXCEPT !.resolutions = p.resolutions \cup {r}, !.pending = {}]
           keeps_marker == /\ all[id].state \in TerminalStates
                           /\ HasUnresolvedRefund(f)
                           /\ \A other \in OpId \ {id} : plan.ops[other] = all[other]
           g        == plan.facts
           s        == IF keeps_marker THEN "refund_started" ELSE g.status
           b        == IF r.clear THEN FALSE ELSE g.reconcile
           h        == [g EXCEPT !.status = s, !.reconcile = b]
<1>1. op \in OperationRecord /\ o \in Outcome /\ re \in OperationRecord
  BY ReopenedTyped DEF Resolution
<1>2. /\ reopened \in [OpId -> OperationRecord] /\ reopened[id] = re
      /\ \A x \in OpId \ {id} : reopened[x] = all[x]
  BY <1>1
<1>3. ValidAmounts(f) /\ CanPlanOutcome(f, reopened, id, o) /\ MayDecide(all, id, r)
  BY DEF CanResolve
<1>4. plan = OutcomePlan(f, reopened, id, o)
  BY DEF ResolvedPlan
<1>5. /\ Kept(op, re) /\ re.settled = op.settled
      /\ re.state = IF op.state = "rejected" \/ Corrects(op, r) THEN "unknown" ELSE op.state
  BY <1>1, ReopenedKept
<1> HIDE DEF re, plan, reopened
<1>6. Builds(f, g) /\ Follows(reopened, plan.ops)
  BY <1>1, <1>2, <1>3, <1>4, OutcomeBuilds
<1>7. final.facts = h /\ final.ops = [plan.ops EXCEPT ![id] = q]
  <2>1. \A a \in [OpId -> OperationRecord] :
          [a EXCEPT ![id].resolutions = @ \cup {r}, ![id].pending = {}]
            = [a EXCEPT ![id] = [a[id] EXCEPT !.resolutions = a[id].resolutions \cup {r}, !.pending = {}]]
    OBVIOUS
  <2>2. plan.ops \in [OpId -> OperationRecord]
    BY <1>6 DEF Follows
  <2> QED
    BY <2>1, <2>2 DEF ResolutionPlan, plan
<1>8. \A x \in OpId : Evolves(reopened[x], plan.ops[x])
  BY <1>1, <1>2, <1>3, <1>4, OutcomeEvolves
<1>9. /\ ActiveRefund(plan.ops) /\ HasUnresolvedRefund(f) => HasUnresolvedRefund(g)
      /\ ShowsTotals(f) /\ (ActiveRefund(plan.ops) => f.captured > 0) => ShowsTotals(g)
  BY <1>1, <1>2, <1>3, <1>4, OutcomeShows
<1>10. /\ f.external # None => g.external = f.external
       /\ \A x \in OpId :
            /\ reopened[x].type = "charge" /\ reopened[x].state # "succeeded"
            /\ plan.ops[x].state = "succeeded"
            => /\ x = id /\ Active(reopened[x])
               /\ plan.ops[x].settled \in Int
               /\ g.captured >= reopened[x].base_captured + plan.ops[x].settled
  BY <1>1, <1>2, <1>3, <1>4, OutcomeRecords
<1> HIDE DEF p, g
<1>11. p \in OperationRecord /\ plan.ops \in [OpId -> OperationRecord]
  BY <1>6 DEF Follows, p
<1>12. q.state = p.state /\ q.settled = p.settled /\ q.type = p.type
  BY <1>11 DEF OperationRecord
<1> HIDE DEF q
<1>13. \A x \in OpId : /\ final.ops[x].state = plan.ops[x].state
                        /\ final.ops[x].settled = plan.ops[x].settled
                        /\ final.ops[x].type = plan.ops[x].type
  BY <1>7, <1>11, <1>12 DEF p
<1> HIDE DEF s, b, final
<1>14. g \in PaymentFacts /\ g.captured >= f.captured /\ f.captured \in Int
  BY <1>6 DEF Builds, PaymentFacts
<1>15. /\ h.required = g.required /\ h.captured = g.captured /\ h.refunded = g.refunded
       /\ h.hold = g.hold /\ h.external = g.external /\ h.status = s
  BY <1>14 DEF PaymentFacts
<1> HIDE DEF h
<1>16. Decided(all, final.facts, final.ops, id, r)
  BY DecisionHistory DEF final
<1>17. ActiveRefund(final.ops) = ActiveRefund(plan.ops)
  BY <1>13 DEF ActiveRefund, Active
<1>18. ActiveRefund(final.ops) => ActiveRefund(all)
  BY <1>16 DEF ActiveRefund, Decided, Evolves, Kept, Promised, Active, ActiveStates, TerminalStates
<1>19. ActiveRefund(final.ops) /\ HasUnresolvedRefund(f) => HasUnresolvedRefund(final.facts)
  BY <1>7, <1>9, <1>15, <1>17 DEF s, HasUnresolvedRefund
<1>20. ASSUME ShowsTotals(f), ActiveRefund(all) => HasUnresolvedRefund(f)
       PROVE  ShowsTotals(final.facts)
  <2>1. ActiveRefund(plan.ops) => f.captured > 0
    BY <1>17, <1>18, <1>20, RefundMeansFunds
  <2>2. ShowsTotals(g)
    BY <1>9, <1>20, <2>1
  <2>3. CASE keeps_marker
    <3>1. f.captured > 0 /\ h.status = "refund_started"
      BY <1>15, <1>20, <2>3, RefundMeansFunds DEF s
    <3>2. h.captured > 0
      BY <1>14, <1>15, <3>1 DEF PaymentFacts
    <3> QED
      BY <1>7, <3>1, <3>2 DEF ShowsTotals
  <2>4. CASE ~keeps_marker
    BY <1>7, <1>15, <2>2, <2>4, SameTotalsShown DEF SameTotals, s
  <2> QED
    BY <2>3, <2>4
<1>21. ASSUME NEW x \in OpId, all[x].type = "charge", final.ops[x].state = "succeeded",
              ~(all[x].state = "succeeded" /\ final.ops[x].settled = all[x].settled)
       PROVE  /\ final.ops[x].settled \in Int
              /\ final.facts.captured >= all[x].base_captured + final.ops[x].settled
              /\ Active(all[x]) \/ \A y \in OpId : all[y].sequence <= all[x].sequence
  <2>1. /\ reopened[x].type = all[x].type /\ reopened[x].base_captured = all[x].base_captured
        /\ reopened[x].settled = all[x].settled
    BY <1>2, <1>5 DEF Kept, Promised
  <2>2. reopened[x].state # "succeeded"
    BY <1>2, <1>5, <1>8, <1>13, <1>21, <2>1 DEF Evolves
  <2>3. /\ x = id /\ Active(re) /\ final.ops[x].settled \in Int
        /\ final.facts.captured >= all[x].base_captured + final.ops[x].settled
    BY <1>2, <1>7, <1>10, <1>13, <1>15, <1>21, <2>1, <2>2
  <2>4. r.outcome.state = "succeeded"
    BY <1>16, <1>21, <2>3 DEF Decided
  <2>5. Active(op) \/ \A y \in OpId : all[y].sequence <= op.sequence
    BY <1>3, <1>5, <2>3, <2>4 DEF MayDecide, Overturns, Active
  <2> QED
    BY <2>3, <2>5
<1>22. Recorded(all, final.facts, final.ops)
  BY <1>21 DEF Recorded
<1>23. f.external # None => final.facts.external = f.external
  BY <1>7, <1>10, <1>15
<1> QED
  BY <1>18, <1>19, <1>20, <1>22, <1>23 DEF final

-----------------------------------------------------------------------------
(* Every step *)

(* What a commit keeps of what a payment shows. *)
Shows(f, g, next) ==
  /\ ActiveRefund(next) => HasUnresolvedRefund(g)
  /\ ShowsTotals(f) => ShowsTotals(g)
  /\ f.external # None => g.external = f.external

(* Nothing but a reservation opens a refund. *)
LEMMA EvolvesRefunds ==
  ASSUME NEW all, NEW g, NEW next, HistoryEvolves(all, g, next), ActiveRefund(next)
  PROVE  ActiveRefund(all)
BY DEF HistoryEvolves, Evolves, Kept, Promised, ActiveRefund

(* reserve_operation: a refund is shown from its reservation on, and only  *)
(* captured money is refunded.                                             *)
LEMMA ReservationShows ==
  ASSUME IndInv, OpenRefundIsShown, NEW i \in Intents, Reserve(i)
  PROVE  Shows(facts, facts', ops')
<1> DEFINE g == [facts EXCEPT !.status = "refund_started"]
<1>1. facts \in PaymentFacts /\ ValidAmounts(facts)
  BY DEF IndInv, TypeOK, FundsBounded
<1>2. /\ CanReserve(facts, ops, i) /\ i.id \in OpId
      /\ \A x \in OpId \ {i.id} : ops'[x] = ops[x]
      /\ ops'[i.id].type = i.type
      /\ facts' = IF i.type = "start_refund" THEN g ELSE facts
  BY ReservationHistory
<1>3. CASE i.type = "start_refund"
  <2>1. AvailableAmount(facts, i.type) = RefundableAmount(facts)
    BY <1>3 DEF AvailableAmount
  <2>2. facts.captured > 0
    BY <1>1, <1>2, <1>3, <2>1
    DEF CanReserve, CanResolveAmount, MonetaryTypes, RefundableAmount, PaymentFacts, ValidAmounts
  <2>3. g.captured = facts.captured /\ g.status = "refund_started" /\ g.external = facts.external
    BY <1>1 DEF PaymentFacts
  <2> HIDE DEF g
  <2> QED
    BY <1>2, <1>3, <2>2, <2>3 DEF Shows, ShowsTotals, HasUnresolvedRefund
<1>4. CASE i.type # "start_refund"
  <2>1. ActiveRefund(ops') => ActiveRefund(ops)
    BY <1>2, <1>4 DEF ActiveRefund
  <2> QED
    BY <1>2, <1>4, <2>1 DEF Shows, OpenRefundIsShown
<1> QED
  BY <1>3, <1>4

(* A claim moves no money and opens nothing. *)
LEMMA ClaimedShows ==
  ASSUME IndInv, OpenRefundIsShown, ClaimedNow
  PROVE  Shows(facts, facts', ops') /\ Recorded(ops, facts', ops') /\ facts' = facts
<1>1. ops \in [OpId -> OperationRecord]
  BY DEF IndInv, TypeOK
<1>2. PICK id \in OpId, expected \in 0 .. MaxAttempts, now \in Times :
        \E retry_until \in Optional(Deadlines), scope \in Optional(Scopes) :
          Claim(id, expected, now, retry_until, scope)
  BY DEF ClaimedNow
<1>3. PICK retry_until \in Optional(Deadlines), scope \in Optional(Scopes) :
        Claim(id, expected, now, retry_until, scope)
  BY <1>2
<1> DEFINE op == ops[id]
           q  == Submission(op, now, retry_until, scope)
<1>4. /\ CanSubmit(facts, op, expected, now) /\ facts' = facts
      /\ ops' = [ops EXCEPT ![id] = q] /\ op \in OperationRecord
  BY <1>1, <1>3 DEF Claim
<1> HIDE DEF op
<1>5. q.state = "submitting" /\ Active(op)
  BY <1>4, ClaimHistory
<1>6. q.type = op.type
  BY <1>4, ClaimHistory
<1> HIDE DEF q
<1>7. \A x \in OpId : ops'[x] = IF x = id THEN q ELSE ops[x]
  BY <1>1, <1>4
<1>8. ActiveRefund(ops') => ActiveRefund(ops)
  BY <1>5, <1>6, <1>7 DEF ActiveRefund, op
<1>9. Recorded(ops, facts', ops')
  BY <1>5, <1>7 DEF Recorded
<1> QED
  BY <1>4, <1>8, <1>9 DEF Shows, OpenRefundIsShown

(* record_operation_outcome *)
LEMMA RecordOutcomeShows ==
  ASSUME IndInv, OpenRefundIsShown, NEW id \in OpId, NEW o \in Outcomes, NEW attempt,
         RecordOutcome(id, o, attempt)
  PROVE  Shows(facts, facts', ops') /\ Recorded(ops, facts', ops')
<1> DEFINE plan == OutcomePlan(facts, ops, id, o)
           p    == plan.ops[id]
           q    == [p EXCEPT !.pending = p.pending \ {attempt}]
<1>1. /\ facts \in PaymentFacts /\ ValidAmounts(facts) /\ o \in Outcome
      /\ ops \in [OpId -> OperationRecord] /\ CanPlanOutcome(facts, ops, id, o)
  BY InputsTyped DEF IndInv, TypeOK, FundsBounded, RecordOutcome
<1>2. Builds(facts, plan.facts) /\ Follows(ops, plan.ops)
  BY <1>1, OutcomeBuilds
<1>3. HistoryEvolves(ops, plan.facts, plan.ops)
  BY <1>1, OutcomeHistory
<1>4. /\ ActiveRefund(plan.ops) /\ HasUnresolvedRefund(facts) => HasUnresolvedRefund(plan.facts)
      /\ ShowsTotals(facts) /\ (ActiveRefund(plan.ops) => facts.captured > 0)
           => ShowsTotals(plan.facts)
  BY <1>1, OutcomeShows
<1>5. facts.external # None => plan.facts.external = facts.external
  BY <1>1, OutcomeRecords
<1>6. Settles(ops, plan.facts, plan.ops)
  BY <1>1, OutcomeRecords DEF Settles
<1>7. facts' = plan.facts /\ ops' = WithoutAttempt(plan.ops, id, attempt)
  BY DEF RecordOutcome
<1> HIDE DEF plan
<1>8. \A x \in OpId : /\ ops'[x].type = plan.ops[x].type /\ ops'[x].state = plan.ops[x].state
                       /\ ops'[x].settled = plan.ops[x].settled
  <2>1. CASE attempt = None
    BY <1>7, <2>1 DEF WithoutAttempt
  <2>2. CASE attempt # None
    <3>1. ops' = [plan.ops EXCEPT ![id] = q] /\ p \in OperationRecord
      BY <1>2, <1>7, <2>2 DEF WithoutAttempt, Follows
    <3>2. q.type = p.type /\ q.state = p.state /\ q.settled = p.settled
      BY <3>1 DEF OperationRecord
    <3> HIDE DEF q
    <3> QED
      BY <1>2, <3>1, <3>2 DEF Follows
  <2> QED
    BY <2>1, <2>2
<1>9. ActiveRefund(plan.ops) => HasUnresolvedRefund(facts)
  BY <1>3, EvolvesRefunds DEF OpenRefundIsShown
<1>10. ActiveRefund(ops') = ActiveRefund(plan.ops)
  BY <1>8 DEF ActiveRefund, Active
<1>11. Shows(facts, facts', ops')
  BY <1>1, <1>4, <1>5, <1>7, <1>9, <1>10, RefundMeansFunds DEF Shows
<1>12. Recorded(ops, plan.facts, plan.ops)
  BY <1>3, <1>6, SettlesRecords
<1>13. Recorded(ops, facts', ops')
  BY <1>7, <1>8, <1>12 DEF Recorded
<1> QED
  BY <1>11, <1>13

(* apply_observation: repeated, impossible and new evidence *)
LEMMA NoticeShows ==
  ASSUME IndInv, OpenRefundIsShown, NEW u \in Observations,
         ObserveAgain(u) \/ ObserveImpossible(u) \/ Observe(u)
  PROVE  /\ Shows(facts, facts', ops') /\ Recorded(ops, facts', ops')
         /\ replay' # replay /\ ConflictingExternalId(facts, u) => facts'.reconcile
<1>1. /\ facts \in PaymentFacts /\ ValidAmounts(facts) /\ u \in Observation
      /\ ops \in [OpId -> OperationRecord]
  BY InputsTyped DEF IndInv, TypeOK, FundsBounded
<1>2. CASE ObserveAgain(u) \/ ObserveImpossible(u)
  <2>1. /\ {"conflicting_identity"} \in SUBSET RetentionReason
        /\ {"financial_constraints"} \in SUBSET RetentionReason
    BY DEF RetentionReason
  <2>2. /\ UNCHANGED <<ops, replay>>
        /\ \/ facts' = facts
           \/ facts' = Retained(facts, u, {"conflicting_identity"})
           \/ facts' = Retained(facts, u, {"financial_constraints"})
    BY <1>2 DEF ObserveAgain, ObserveImpossible
  <2>3. facts' = facts \/ (SameTotals(facts, facts') /\ facts'.external = facts.external)
    BY <1>1, <2>1, <2>2, RetentionRestates DEF Restates
  <2>4. ShowsTotals(facts) => ShowsTotals(facts')
    BY <2>3, SameTotalsShown
  <2>5. Recorded(ops, facts', ops')
    BY <2>2 DEF Recorded
  <2> QED
    BY <2>2, <2>3, <2>4, <2>5 DEF Shows, OpenRefundIsShown, SameTotals, HasUnresolvedRefund
<1>3. CASE Observe(u)
  <2> DEFINE plan == ObservationPlan(facts, ops, u)
  <2>1. CanPlanObservation(facts, ops, u) /\ facts' = plan.facts /\ ops' = plan.ops
    BY <1>3 DEF Observe, Commit
  <2>2. HistoryEvolves(ops, plan.facts, plan.ops)
    BY <1>1, <2>1, ObservationHistory
  <2>3. /\ ActiveRefund(plan.ops) => HasUnresolvedRefund(plan.facts)
        /\ ShowsTotals(facts) /\ (ActiveRefund(plan.ops) => facts.captured > 0)
             => ShowsTotals(plan.facts)
    BY <1>1, <2>1, ObservationShows
  <2>4. /\ facts.external # None => plan.facts.external = facts.external
        /\ ConflictingExternalId(facts, u) => plan.facts.reconcile
        /\ Settles(ops, plan.facts, plan.ops)
    BY <1>1, <2>1, ObservationShows
  <2> HIDE DEF plan
  <2>5. ActiveRefund(plan.ops) => HasUnresolvedRefund(facts)
    BY <2>2, EvolvesRefunds DEF OpenRefundIsShown
  <2>6. Recorded(ops, facts', ops')
    BY <2>1, <2>2, <2>4, SettlesRecords
  <2> QED
    BY <1>1, <2>1, <2>3, <2>4, <2>5, <2>6, RefundMeansFunds DEF Shows
<1> QED
  BY <1>2, <1>3

(* resolve_operation *)
LEMMA ResolveShows ==
  ASSUME IndInv, OpenRefundIsShown, NEW w \in Reviewers, NEW r \in Resolutions, Resolve(w, r)
  PROVE  Shows(facts, facts', ops') /\ Recorded(ops, facts', ops')
<1> DEFINE id   == review[w].id
           plan == ResolutionPlan(facts, ops, id, r)
<1>1. /\ facts \in PaymentFacts /\ ops \in [OpId -> OperationRecord]
      /\ review \in [Reviewers -> Review]
      /\ r \in Resolution /\ r.outcome.state \in TerminalStates
  BY InputsTyped, ResolutionsAreTerminal DEF IndInv, TypeOK
<1>2. id \in OpId
  BY <1>1 DEF Resolve, Review, Optional
<1>3. CanResolve(facts, ops, id, r) /\ facts' = plan.facts /\ ops' = plan.ops
  BY DEF Resolve, Commit
<1> HIDE DEF id
<1>4. /\ ActiveRefund(plan.ops) => ActiveRefund(ops)
      /\ ActiveRefund(plan.ops) /\ HasUnresolvedRefund(facts) => HasUnresolvedRefund(plan.facts)
      /\ ShowsTotals(facts) /\ (ActiveRefund(ops) => HasUnresolvedRefund(facts))
           => ShowsTotals(plan.facts)
      /\ facts.external # None => plan.facts.external = facts.external
      /\ Recorded(ops, plan.facts, plan.ops)
  BY <1>1, <1>2, <1>3, DecisionShows
<1> HIDE DEF plan
<1> QED
  BY <1>3, <1>4 DEF Shows, OpenRefundIsShown

(* Any step. *)
LEMMA StepShows ==
  ASSUME IndInv, OpenRefundIsShown, [Next]_vars
  PROVE  /\ Shows(facts, facts', ops')
         /\ Recorded(ops, facts', ops') \/ \E i \in Intents : Reserve(i)
<1>1. ASSUME facts' = facts, ops' = ops
      PROVE  Shows(facts, facts', ops') /\ Recorded(ops, facts', ops')
  BY <1>1 DEF Shows, Recorded, OpenRefundIsShown
<1>2. ASSUME NEW id \in OpId, NEW evidence \in Evidence, RecordFailure(id, evidence)
      PROVE  Shows(facts, facts', ops') /\ Recorded(ops, facts', ops')
  <2> DEFINE op == ops[id]
             q  == FailureNoted(op, evidence)
  <2>1. /\ facts' = facts /\ ops' = [ops EXCEPT ![id] = q] /\ op \in OperationRecord
        /\ ops \in [OpId -> OperationRecord]
    BY <1>2 DEF RecordFailure, IndInv, TypeOK
  <2>2. q.type = op.type /\ q.state = op.state /\ q.settled = op.settled
    BY <2>1 DEF FailureNoted, OperationRecord
  <2> HIDE DEF q
  <2>3. \A x \in OpId : /\ ops'[x].type = ops[x].type /\ ops'[x].state = ops[x].state
                         /\ ops'[x].settled = ops[x].settled
    BY <2>1, <2>2
  <2> QED
    BY <2>1, <2>3 DEF Shows, Recorded, OpenRefundIsShown, ActiveRefund, Active
<1>3. CASE Operate
  <2>1. \/ \E i \in Intents : Reserve(i) \/ Resume(i)
        \/ ClaimedNow
        \/ \E id \in OpId, o \in Outcomes : \E attempt : RecordOutcome(id, o, attempt)
        \/ \E id \in OpId, evidence \in Evidence : RecordFailure(id, evidence)
    BY <1>3 DEF Operate, ClaimedNow
  <2>2. ASSUME NEW i \in Intents, Reserve(i) PROVE Shows(facts, facts', ops')
    BY <2>2, ReservationShows
  <2>3. ASSUME NEW i \in Intents, Resume(i)
        PROVE Shows(facts, facts', ops') /\ Recorded(ops, facts', ops')
    BY <1>1, <2>3 DEF Resume, vars
  <2>4. ASSUME NEW id \in OpId, NEW o \in Outcomes, NEW attempt, RecordOutcome(id, o, attempt)
        PROVE  Shows(facts, facts', ops') /\ Recorded(ops, facts', ops')
    BY <2>4, RecordOutcomeShows
  <2> QED
    BY <1>2, <2>1, <2>2, <2>3, <2>4, ClaimedShows
<1>4. CASE Notice
  BY <1>4, NoticeShows DEF Notice
<1>5. CASE Decide
  BY <1>1, <1>5, ResolveShows DEF Decide, ReviewOperation, ReviewFacts
<1>6. CASE UNCHANGED vars
  BY <1>1, <1>6 DEF vars
<1> QED
  BY <1>3, <1>4, <1>5, <1>6 DEF Next

-----------------------------------------------------------------------------
(* What is shown *)

(* A refund that may still settle is never hidden: not by a capture, a     *)
(* callback about the payment, another answer or a decision.               *)
THEOREM OpenRefundsShow == Spec => []OpenRefundIsShown
<1>1. Init => OpenRefundIsShown
  BY DEF Init, OpenRefundIsShown, ActiveRefund, Absent, Active, ActiveStates
<1>2. IndInv /\ OpenRefundIsShown /\ [Next]_vars => OpenRefundIsShown'
  BY StepShows DEF Shows, OpenRefundIsShown
<1> QED
  BY <1>1, <1>2, InductiveInvariant, PTL DEF Spec

(* A payment opened with a truthful status keeps one: it claims captured,  *)
(* returned or held money exactly when the totals do.  An open refund must *)
(* be shown along with it, since it says which statuses a projection may   *)
(* leave behind.                                                           *)
THEOREM StatusStaysTruthful ==
  ASSUME TotalsShownAtOpening
  PROVE  Spec => []StatusTruthful
<1>1. Init => StatusTruthful
  BY DEF Init, StatusTruthful, TotalsShownAtOpening
<1>2. IndInv /\ OpenRefundIsShown /\ StatusTruthful /\ [Next]_vars => StatusTruthful'
  BY StepShows DEF Shows, StatusTruthful
<1> QED
  BY <1>1, <1>2, InductiveInvariant, OpenRefundsShow, PTL DEF Spec

-----------------------------------------------------------------------------
(* What is counted *)

(* What a step that reserves nothing leaves of a record. *)
LEMMA StepKeeps ==
  ASSUME IndInv, FreeIsEmpty, [Next]_vars, ~\E i \in Intents : Reserve(i), NEW x \in OpId
  PROVE  /\ ops'[x].type = ops[x].type /\ ops'[x].base_captured = ops[x].base_captured
         /\ ops'[x].sequence = ops[x].sequence
         /\ ops'[x].state # "absent" => ops[x].state # "absent"
<1>1. ops \in [OpId -> OperationRecord]
  BY DEF IndInv, TypeOK
<1>2. CASE ops[x].state # "absent"
  BY <1>2, StepGrows DEF Grows
<1>3. CASE ops[x].state = "absent"
  <2>1. ASSUME ClaimedNow PROVE ops'[x] = ops[x]
    <3>1. PICK id \in OpId : id # x /\ \E q : ops' = [ops EXCEPT ![id] = q]
      BY <1>3, <2>1 DEF ClaimedNow, Claim
    <3> QED
      BY <1>1, <3>1
  <2>2. ASSUME Answered PROVE ops'[x] = ops[x]
    BY <1>3, <2>2 DEF Answered, HistoryEvolves, Evolves
  <2>3. ASSUME NEW id \in OpId, NEW r \in Resolutions, DecidedBy(id, r) PROVE ops'[x] = ops[x]
    BY <1>3, <2>3 DEF DecidedBy, Decided, Evolves
  <2> QED
    BY <2>1, <2>2, <2>3, <1>3, StepHistory
<1> QED
  BY <1>2, <1>3

(* CapturesAreCounted, with the settlement known to be an amount. *)
SettlementsCounted ==
  \A id \in OpId :
    ops[id].type = "charge" /\ ops[id].state = "succeeded" =>
      /\ ops[id].settled \in Int
      /\ facts.captured >= ops[id].base_captured + ops[id].settled

(* A capture in flight was reserved last: while it is open only a          *)
(* cancellation could be reserved, and there is no refund to cancel.       *)
OpenChargeIsLast ==
  \A id, other \in OpId :
    ops[id].type = "charge" /\ Active(ops[id]) => ops[other].sequence <= ops[id].sequence

CountedInv ==
  FreeIsEmpty /\ OpenRefundIsShown /\ SettlementsCounted /\ OpenChargeIsLast
    /\ LaterIntentsBuildOnCaptures

(* The totals a step commits are integers that only grow. *)
LEMMA StepAccumulates ==
  ASSUME IndInv, [Next]_vars
  PROVE  /\ facts.captured \in Int /\ facts'.captured \in Int
         /\ facts'.captured >= facts.captured
<1> DEFINE f == [facts EXCEPT !.reconcile = FALSE]
<1>1. f.captured = facts.captured /\ facts.captured \in Int
  BY DEF IndInv, TypeOK, PaymentFacts
<1>2. Builds(facts, facts') \/ Builds(f, facts')
  BY StepBuilds
<1> HIDE DEF f
<1> QED
  BY <1>1, <1>2 DEF Builds, PaymentFacts

LEMMA CountedStays == IndInv /\ CountedInv /\ [Next]_vars => CountedInv'
<1> SUFFICES ASSUME IndInv, CountedInv, [Next]_vars PROVE CountedInv'
  OBVIOUS
<1>1. FreeIsEmpty' /\ OpenRefundIsShown'
  BY FreeStaysEmpty, StepShows DEF CountedInv, Shows, OpenRefundIsShown
<1>2. /\ facts.captured \in Int /\ facts'.captured \in Int
      /\ facts'.captured >= facts.captured
  BY StepAccumulates
<1>3. IndInv'
  BY NextIndInv
<1>4. /\ \A x \in OpId : ops[x] \in OperationRecord /\ ops'[x] \in OperationRecord
      /\ \A x \in OpId : ops[x].base_captured \in Int /\ ops[x].sequence \in Nat
  BY <1>3 DEF IndInv, TypeOK, OperationRecord
<1>5. CASE \E i \in Intents : Reserve(i)
  <2>1. PICK i \in Intents : Reserve(i)
    BY <1>5
  <2> DEFINE n == i.id
  <2>2. /\ n \in OpId /\ CanReserve(facts, ops, i) /\ ops[n].state = "absent"
        /\ \A x \in OpId \ {n} : ops'[x] = ops[x]
        /\ ops'[n].state = "reserved" /\ ops'[n].base_captured = facts.captured
        /\ ops'[n].sequence = NextSequence(ops)
    BY <2>1, ReservationHistory
  <2>3. facts'.captured = facts.captured
    BY <2>1, ReservationHistory DEF IndInv, TypeOK, PaymentFacts
  <2>4. /\ NextSequence(ops) \in Nat
        /\ \A x \in OpId : ops[x].sequence <= NextSequence(ops)
    BY <1>4, NextSequenceAbove DEF IndInv, TypeOK
  <2>5. \A x \in OpId : ~(ops[x].type = "charge" /\ Active(ops[x]))
    BY <2>2 DEF CanReserve, Blocks, Holding
  <2> HIDE DEF n
  <2>6. SettlementsCounted'
    BY <2>2, <2>3 DEF CountedInv, SettlementsCounted
  <2>7. OpenChargeIsLast'
    BY <2>2, <2>4, <2>5 DEF OpenChargeIsLast
  <2>8. LaterIntentsBuildOnCaptures'
    <3> SUFFICES ASSUME NEW a \in OpId, NEW b \in OpId,
                        ops'[a].state = "succeeded", ops'[a].type = "charge", ops'[b].state # "absent",
                        ops'[a].sequence < ops'[b].sequence
                 PROVE  ops'[b].base_captured >= ops'[a].base_captured + ops'[a].settled
      BY DEF LaterIntentsBuildOnCaptures, Reserved
    <3>1. a # n /\ ops'[a] = ops[a]
      BY <2>2
    <3>2. CASE b = n
      BY <2>2, <3>1, <3>2 DEF CountedInv, SettlementsCounted
    <3>3. CASE b # n
      BY <2>2, <3>1, <3>3 DEF CountedInv, LaterIntentsBuildOnCaptures, Reserved
    <3> QED
      BY <3>2, <3>3
  <2> QED
    BY <1>1, <2>6, <2>7, <2>8 DEF CountedInv
<1>6. CASE ~\E i \in Intents : Reserve(i)
  <2>1. \A x \in OpId :
          /\ ops'[x].type = ops[x].type /\ ops'[x].base_captured = ops[x].base_captured
          /\ ops'[x].sequence = ops[x].sequence
          /\ ops'[x].state # "absent" => ops[x].state # "absent"
    BY <1>6, StepKeeps DEF CountedInv
  <2>2. Recorded(ops, facts', ops')
    BY <1>6, StepShows DEF CountedInv
  <2>3. \A x \in OpId : Active(ops'[x]) => Active(ops[x])
    BY <1>6, StepHolds DEF StillHolds, Holding
  <2>4. SettlementsCounted'
    BY <1>2, <1>4, <2>1, <2>2 DEF CountedInv, SettlementsCounted, Recorded
  <2>5. OpenChargeIsLast'
    BY <2>1, <2>3 DEF CountedInv, OpenChargeIsLast
  <2>6. LaterIntentsBuildOnCaptures'
    <3> SUFFICES ASSUME NEW a \in OpId, NEW b \in OpId,
                        ops'[a].state = "succeeded", ops'[a].type = "charge", ops'[b].state # "absent",
                        ops'[a].sequence < ops'[b].sequence, ops'[a].state # "absent"
                 PROVE  ops'[b].base_captured >= ops'[a].base_captured + ops'[a].settled
      BY DEF LaterIntentsBuildOnCaptures, Reserved
    <3>1. ops[a].sequence < ops[b].sequence /\ ~(ops[b].sequence <= ops[a].sequence)
      BY <1>4, <2>1
    <3>2. ops[a].state = "succeeded" /\ ops'[a].settled = ops[a].settled
      BY <2>1, <2>2, <3>1 DEF Recorded, CountedInv, OpenChargeIsLast
    <3> QED
      BY <2>1, <3>1, <3>2 DEF CountedInv, LaterIntentsBuildOnCaptures, Reserved
  <2> QED
    BY <1>1, <2>4, <2>5, <2>6 DEF CountedInv
<1> QED
  BY <1>5, <1>6

LEMMA InitCounted == Init => CountedInv
BY DEF Init, CountedInv, FreeIsEmpty, OpenRefundIsShown, ActiveRefund, SettlementsCounted,
       OpenChargeIsLast, LaterIntentsBuildOnCaptures, Reserved, Absent, Active, ActiveStates

LEMMA Counted == Spec => []CountedInv
BY InitCounted, CountedStays, InductiveInvariant, PTL DEF Spec

(* No capture an operation established is ever missing from the totals,    *)
(* whichever channel reported it and whatever was reported later.          *)
THEOREM CapturesStayCounted == Spec => []CapturesAreCounted
<1>1. CountedInv => CapturesAreCounted
  BY DEF CountedInv, SettlementsCounted, CapturesAreCounted
<1> QED
  BY <1>1, Counted, PTL

(* What an intent was resolved from stays true: the baseline of a later    *)
(* intent contains every earlier capture, also one that a late answer or a *)
(* decision settles afterwards.                                            *)
THEOREM BaselinesStayComparable == Spec => []LaterIntentsBuildOnCaptures
<1>1. CountedInv => LaterIntentsBuildOnCaptures
  BY DEF CountedInv
<1> QED
  BY <1>1, Counted, PTL

-----------------------------------------------------------------------------
(* Who is meant *)

(* Only new evidence enters the replay log, under its own identity. *)
LEMMA StepLogs ==
  ASSUME IndInv, OpenRefundIsShown, [Next]_vars, NEW u \in Observations,
         ConflictingExternalId(facts, u), u.event_id # None,
         replay[u.event_id] # u, replay'[u.event_id] = u
  PROVE  facts'.reconcile
<1>1. replay \in [EventId -> Optional(Observation)] /\ u.event_id \in EventId
  BY InputsTyped DEF IndInv, TypeOK, Observation, Optional
<1>2. PICK v \in Observations : Observe(v)
  BY <1>1 DEF Next, Operate, Notice, Decide, Reserve, Resume, Claim, RecordOutcome, RecordFailure,
              ObserveAgain, ObserveImpossible, ReviewOperation, ReviewFacts, Resolve, vars
<1>3. v.event_id # None /\ replay' = [replay EXCEPT ![v.event_id] = v]
  BY <1>2 DEF Observe
<1>4. v = u
  BY <1>1, <1>3
<1>5. replay' # replay
  OBVIOUS
<1> QED
  BY <1>2, <1>4, <1>5, NoticeShows

(* The handles a provider gave to the payment and to an operation stay,    *)
(* and evidence that names another payment stops the commands.             *)
THEOREM HandlesStay == Spec => IdentitiesAreStable
<1> DEFINE Stable ==
     /\ facts.external # None => facts'.external = facts.external
     /\ \A id \in OpId :
          ops[id].correlation # None => ops'[id].correlation = ops[id].correlation
     /\ facts.external # None /\ (\E u \in Observations :
            /\ u.external # None /\ u.external # facts.external
            /\ u.event_id # None /\ replay[u.event_id] # u /\ replay'[u.event_id] = u)
        => facts'.reconcile
<1>1. ASSUME IndInv, FreeIsEmpty, OpenRefundIsShown, [Next]_vars PROVE Stable
  <2>1. facts.external # None => facts'.external = facts.external
    BY <1>1, StepShows DEF Shows
  <2>2. ASSUME NEW id \in OpId, ops[id].correlation # None
        PROVE  ops'[id].correlation = ops[id].correlation
    BY <1>1, <2>2, StepGrows DEF Grows, FreeIsEmpty, Absent
  <2>3. ASSUME facts.external # None, NEW u \in Observations,
               u.external # None, u.external # facts.external,
               u.event_id # None, replay[u.event_id] # u, replay'[u.event_id] = u
        PROVE  facts'.reconcile
    BY <1>1, <2>3, StepLogs DEF ConflictingExternalId
  <2> QED
    BY <2>1, <2>2, <2>3
<1>2. IndInv /\ FreeIsEmpty /\ OpenRefundIsShown /\ [Next]_vars => [Stable]_vars
  BY <1>1
<1> QED
  BY <1>2, InductiveInvariant, FreeRecords, OpenRefundsShow, PTL DEF Spec, IdentitiesAreStable

-----------------------------------------------------------------------------
(* Totals *)

(* Only the two settlement events move a total, and each moves its own to  *)
(* the greater of what was known and what is claimed.                      *)
LEMMA EventTotals ==
  ASSUME NEW p \in PaymentFacts, NEW u
  PROVE  LET q == AfterEvent(p, u)
         IN  /\ q.captured = IF u.event = "payment_captured" THEN Larger(p.captured, u.paid)
                             ELSE p.captured
             /\ q.refunded = IF u.event = "refund_confirmed" THEN Larger(p.refunded, u.refunded)
                             ELSE p.refunded
<1>1. \A s : /\ [p EXCEPT !.status = s].captured = p.captured
             /\ [p EXCEPT !.status = s].refunded = p.refunded
  BY DEF PaymentFacts
<1>2. \A c, h, s : /\ [[p EXCEPT !.captured = c, !.hold = h] EXCEPT !.status = s].captured = c
                   /\ [[p EXCEPT !.captured = c, !.hold = h] EXCEPT !.status = s].refunded = p.refunded
  BY DEF PaymentFacts
<1>3. \A h, s : /\ [[p EXCEPT !.hold = h] EXCEPT !.status = s].captured = p.captured
                /\ [[p EXCEPT !.hold = h] EXCEPT !.status = s].refunded = p.refunded
  BY DEF PaymentFacts
<1>4. \A r, s : /\ [[p EXCEPT !.refunded = r] EXCEPT !.status = s].captured = p.captured
                /\ [[p EXCEPT !.refunded = r] EXCEPT !.status = s].refunded = r
  BY DEF PaymentFacts
<1> QED
  BY <1>1, <1>2, <1>3, <1>4 DEF AfterEvent, Projected, WithLocked, WithPaid, WithRefunded

LEMMA UpdateTotals ==
  ASSUME NEW p \in PaymentFacts, NEW u \in Observation, CanApplyUpdate(p, u)
  PROVE  LET q == AfterUpdate(p, u)
         IN  /\ q \in PaymentFacts
             /\ q.captured = IF u.event = "payment_captured" THEN Larger(p.captured, u.paid)
                             ELSE p.captured
             /\ q.refunded = IF u.event = "refund_confirmed" THEN Larger(p.refunded, u.refunded)
                             ELSE p.refunded
<1> DEFINE e == WithExternal(p, u.external)
           r == AfterEvent(e, u)
           v == FraudOutcome(u.fraud_event)
           t == [r EXCEPT !.fraud = v]
<1>1. /\ e \in PaymentFacts /\ e.captured = p.captured /\ e.refunded = p.refunded
  BY DEF WithExternal, PaymentFacts, Optional, Observation
<1>2. /\ r.captured = IF u.event = "payment_captured" THEN Larger(p.captured, u.paid)
                      ELSE p.captured
      /\ r.refunded = IF u.event = "refund_confirmed" THEN Larger(p.refunded, u.refunded)
                      ELSE p.refunded
  BY <1>1, EventTotals
<1>3. AfterUpdate(p, u) \in PaymentFacts
  BY UpdateBuilds DEF Builds
<1>4. AfterUpdate(p, u) = IF u.fraud_event = None THEN r ELSE t
  BY DEF AfterUpdate, AfterFraud
<1>5. r \in PaymentFacts
  <2>1. ValidUpdateAmounts(e, u) /\ CanApplyEvent(e, u)
    BY DEF WithExternal, PaymentFacts, CanApplyUpdate, ValidUpdateAmounts, ValidAmounts,
           CanApplyEvent, CaptureRecordable, HasUnresolvedRefund, RefundableAmount
  <2> HIDE DEF e
  <2> QED
    BY <1>1, <2>1, EventBuilds DEF Builds
<1> HIDE DEF r, v
<1>6. t.captured = r.captured /\ t.refunded = r.refunded
  BY <1>5 DEF PaymentFacts
<1> QED
  BY <1>2, <1>3, <1>4, <1>6

(* So does a claim that _apply_to_facts accepts: the greater of both.      *)
LEMMA ClaimTotals ==
  ASSUME NEW f \in PaymentFacts, NEW c \in Observation, CanApplyToFacts(f, c)
  PROVE  LET q == AppliedToFacts(f, c)
         IN  /\ q.captured = IF c.paid = None THEN f.captured ELSE Larger(f.captured, c.paid)
             /\ q.refunded = IF c.refunded = None THEN f.refunded
                             ELSE Larger(f.refunded, c.refunded)
<1> DEFINE u == WithoutStaleHold(f, c)
           a == CaptureClaim(u.paid)
           b == RefundClaim(u.refunded)
           g == AfterCapture(f, u)
           h == AfterFunds(f, u)
           m == Remainder(h, u)
           k == AfterUpdate(h, m)
           s == IF /\ HasUnresolvedRefund(f)
                   /\ u.event \notin {"refund_confirmed", "refund_cancelled"}
                THEN "refund_started" ELSE k.status
           n == \/ k.reconcile
                \/ /\ k.captured > f.captured
                   /\ f.refunded > 0 \/ HasUnresolvedRefund(f)
           q == [k EXCEPT !.status = s, !.reconcile = n]
<1>1. /\ u \in Observation /\ u.paid = c.paid /\ u.refunded = c.refunded
      /\ \A x \in PaymentFacts : Remainder(x, u) \in Observation
  BY ClaimShares
<1>2. /\ u.paid \in Optional(Int) /\ u.refunded \in Optional(Int)
      /\ f.captured \in Int /\ f.refunded \in Int
      /\ None \notin {"payment_captured", "refund_confirmed"}
  BY <1>1, NoneIsNoValue DEF Observation, PaymentFacts, PaymentEvent
<1>3. CanApplyCapture(f, u) /\ CanApplyRefund(g, u) /\ CanApplyUpdate(h, m)
  BY DEF CanApplyToFacts
<1>4. AppliedToFacts(f, c) = q
  BY DEF AppliedToFacts
<1> HIDE DEF u
<1>5. g = IF u.paid = None THEN f ELSE AfterUpdate(f, a)
  BY DEF AfterCapture
<1>6. h = IF ConfirmsRefund(g, u) THEN AfterUpdate(g, b) ELSE g
  BY DEF AfterFunds, AfterRefund
<1>7. ASSUME u.paid # None
      PROVE  /\ a \in Observation /\ CanApplyUpdate(f, a)
             /\ a.event = "payment_captured" /\ a.paid = u.paid
  BY <1>2, <1>3, <1>7, ClaimsTyped, TotalsNameNobody DEF CanApplyCapture, Optional
<1>8. ASSUME ConfirmsRefund(g, u)
      PROVE  /\ u.refunded # None /\ b \in Observation /\ CanApplyUpdate(g, b)
             /\ b.event = "refund_confirmed" /\ b.refunded = u.refunded
  BY <1>2, <1>3, <1>8, ClaimsTyped DEF CanApplyRefund, ConfirmsRefund, Optional, RefundClaim, NoClaim
<1> HIDE DEF a, b, g, h
<1>9. /\ g \in PaymentFacts /\ g.refunded = f.refunded
      /\ g.captured = IF u.paid = None THEN f.captured ELSE Larger(f.captured, u.paid)
  BY <1>2, <1>5, <1>7, UpdateTotals
<1>10. /\ h \in PaymentFacts /\ h.captured = g.captured
       /\ h.refunded = IF ConfirmsRefund(g, u) THEN Larger(g.refunded, u.refunded) ELSE g.refunded
  BY <1>2, <1>6, <1>8, <1>9, UpdateTotals
<1>11. h.refunded = IF u.refunded = None THEN f.refunded ELSE Larger(f.refunded, u.refunded)
  BY <1>2, <1>9, <1>10 DEF ConfirmsRefund, Larger, Optional
<1>12. m \in Observation
  BY <1>1, <1>10
<1>13. m.event \notin {"payment_captured", "refund_confirmed"}
  <2>1. m.paid = None /\ m.refunded = None
    BY <1>1 DEF Remainder, Observation
  <2> HIDE DEF m
  <2>2. m.event = "payment_captured" => m.paid # None
    BY <1>2, <1>3 DEF CanApplyUpdate, CanApplyEvent
  <2>3. m.event = "refund_confirmed" => m.refunded # None
    BY <1>2, <1>3 DEF CanApplyUpdate, CanApplyEvent
  <2> QED
    BY <2>1, <2>2, <2>3
<1> HIDE DEF m
<1>14. k \in PaymentFacts /\ k.captured = h.captured /\ k.refunded = h.refunded
  BY <1>3, <1>10, <1>12, <1>13, UpdateTotals
<1> HIDE DEF k, s, n
<1>15. q.captured = k.captured /\ q.refunded = k.refunded
  BY <1>14 DEF PaymentFacts
<1> HIDE DEF q
<1> QED
  BY <1>1, <1>4, <1>9, <1>10, <1>11, <1>14, <1>15

-----------------------------------------------------------------------------
(* The greatest of finitely many numbers *)

LEMMA NumbersAreBounded ==
  ASSUME NEW v, NEW S, IsFiniteSet(S), \A x \in S : v[x] \in Int
  PROVE  \E n \in Nat : \A x \in S : v[x] <= n
<1> DEFINE G == {T \in SUBSET S : \E n \in Nat : \A x \in T : v[x] <= n}
<1>1. ASSUME NEW T \in SUBSET S, \A U \in SUBSET T : U # T => U \in G
      PROVE  T \in G
  <2>1. CASE T = {}
    BY <2>1
  <2>2. CASE T # {}
    <3>1. PICK e \in T : TRUE
      BY <2>2
    <3>2. PICK n \in Nat : \A x \in T \ {e} : v[x] <= n
      <4>1. T \ {e} \in SUBSET T /\ T \ {e} # T
        BY <3>1
      <4>2. T \ {e} \in G
        BY <1>1, <4>1
      <4> QED
        BY <4>2
    <3>3. PICK m \in Nat : n <= m /\ v[e] <= m
      <4>1. CASE v[e] <= n
        BY <4>1
      <4>2. CASE ~(v[e] <= n)
        BY <3>2, <4>2
      <4> QED
        BY <4>1, <4>2
    <3>4. \A x \in T : v[x] <= m
      BY <3>2, <3>3
    <3> QED
      BY <3>4
  <2> QED
    BY <2>1, <2>2
<1>2. S \in G
  <2> HIDE DEF G
  <2> QED
    BY <1>1, SetsAreGood
<1> QED
  BY <1>2

LEMMA GreatestOfNumbers ==
  ASSUME NEW v, NEW S, IsFiniteSet(S), \A x \in S : v[x] \in Int
  PROVE  LET M == {v[x] : x \in S} \cup {0}
         IN  Max(M) \in M /\ \A x \in S : v[x] <= Max(M)
<1> DEFINE M == {v[x] : x \in S} \cup {0}
           N == M \cap Nat
<1>1. PICK n \in Nat : \A x \in S : v[x] <= n
  BY NumbersAreBounded
<1>2. N \in SUBSET Nat /\ 0 \in N /\ \A y \in N : y <= n
  BY <1>1
<1>3. Max(N) \in N /\ \A y \in N : y <= Max(N)
  <2> HIDE DEF N
  <2> QED
    BY <1>2, GreatestExists
<1>4. \A y \in M : y \in Int
  OBVIOUS
<1>5. PICK g \in M : \A y \in M : g >= y
  <2> DEFINE g == Max(N)
  <2>1. g \in M /\ g \in Nat
    BY <1>3
  <2>2. \A y \in N : y <= g
    BY <1>3
  <2> HIDE DEF g
  <2>3. \A y \in M : g >= y
    BY <1>4, <2>1, <2>2
  <2> QED
    BY <2>1, <2>3
<1>6. Max(M) \in M /\ \A y \in M : Max(M) >= y
  <2> HIDE DEF M
  <2> QED
    BY <1>5 DEF Max
<1>7. \A x \in S : v[x] \in M
  OBVIOUS
<1> HIDE DEF M
<1>8. \A x \in S : v[x] <= Max(M)
  BY <1>4, <1>6, <1>7
<1> QED
  BY <1>6, <1>8 DEF M

-----------------------------------------------------------------------------
(* _confirmed_refund_total *)

(* Every confirmed refund has a settlement. *)
RefundsKnown(all) ==
  /\ IsFiniteSet(Refunds(all))
  /\ \A x \in Refunds(all) : all[x].state = "succeeded" => all[x].settled \in Int

(* The same refunds, on the same baselines, are confirmed with the same    *)
(* settlements.                                                            *)
SameRefunds(all, next) ==
  \A x \in OpId :
    /\ next[x].type = all[x].type
    /\ next[x].base_refunded = all[x].base_refunded
    /\ next[x].sequence = all[x].sequence
    /\ all[x].type = "start_refund" =>
         /\ next[x].state = "succeeded" <=> all[x].state = "succeeded"
         /\ all[x].state = "succeeded" => next[x].settled = all[x].settled

LEMMA BoundsAreIntegers ==
  ASSUME NEW all \in [OpId -> OperationRecord], RefundsKnown(all), NEW r \in OpId
  PROVE  RefundBound(all, r) \in Int
<1> DEFINE v == [x \in OpId |-> all[x].settled]
<1>1. ConfirmedSince(all, r) \in SUBSET Refunds(all)
  BY DEF ConfirmedSince
<1>2. IsFiniteSet(ConfirmedSince(all, r))
  BY <1>1, FS_Subset DEF RefundsKnown
<1>3. \A x \in ConfirmedSince(all, r) : v[x] \in Int
  BY DEF ConfirmedSince, Refunds, RefundsKnown
<1> HIDE DEF v
<1>4. SumFunctionOnSet(v, ConfirmedSince(all, r)) \in Int
  BY <1>2, <1>3, SumsAreIntegers
<1>5. all[r].base_refunded \in Int
  BY DEF OperationRecord
<1> QED
  BY <1>4, <1>5 DEF RefundBound, v

LEMMA SameBounds ==
  ASSUME NEW all, NEW next, RefundsKnown(all), SameRefunds(all, next), NEW r \in OpId
  PROVE  RefundBound(next, r) = RefundBound(all, r)
<1> DEFINE v == [x \in OpId |-> all[x].settled]
           w == [x \in OpId |-> next[x].settled]
           S == ConfirmedSince(all, r)
<1>1. ConfirmedSince(next, r) = S
  BY DEF ConfirmedSince, Refunds, SameRefunds
<1>2. S \in SUBSET Refunds(all)
  BY DEF ConfirmedSince
<1>3. IsFiniteSet(S)
  BY <1>2, FS_Subset DEF RefundsKnown
<1>4. \A x \in S : v[x] = w[x]
  BY DEF ConfirmedSince, Refunds, SameRefunds
<1> HIDE DEF v, w, S
<1>5. SumFunctionOnSet(v, S) = SumFunctionOnSet(w, S)
  BY <1>3, <1>4, SumsOfTheSame
<1> QED
  BY <1>1, <1>5 DEF RefundBound, SameRefunds, v, w, S

LEMMA SameStaysKnown ==
  ASSUME NEW all, NEW next, RefundsKnown(all), SameRefunds(all, next)
  PROVE  RefundsKnown(next)
<1>1. Refunds(next) = Refunds(all)
  BY DEF Refunds, SameRefunds
<1> QED
  BY <1>1 DEF RefundsKnown, Refunds, SameRefunds

(* A confirmed refund claims no less than any baseline and what was        *)
(* confirmed since, itself included.                                       *)
LEMMA ConfirmedTotalBounds ==
  ASSUME NEW all \in [OpId -> OperationRecord], RefundsKnown(all),
         NEW id \in Refunds(all), NEW settled \in Int, NEW next,
         SameRefunds([all EXCEPT ![id].state = "succeeded", ![id].settled = settled], next)
  PROVE  /\ RefundsKnown(next)
         /\ ConfirmedRefundTotal(all, id, settled) \in Int
         /\ \A r \in Refunds(next) :
              /\ RefundBound(next, r) \in Int
              /\ RefundBound(next, r) <= ConfirmedRefundTotal(all, id, settled)
         /\ \/ ConfirmedRefundTotal(all, id, settled) = 0
            \/ \E r \in Refunds(next) :
                 RefundBound(next, r) = ConfirmedRefundTotal(all, id, settled)
<1> DEFINE op == [all[id] EXCEPT !.state = "succeeded", !.settled = settled]
           confirmed == [all EXCEPT ![id].state = "succeeded", ![id].settled = settled]
           b == [r \in OpId |-> RefundBound(confirmed, r)]
           S == Refunds(all)
           M == {b[r] : r \in S} \cup {0}
<1>1. id \in OpId /\ all[id] \in OperationRecord
  BY DEF Refunds
<1>2. confirmed = [all EXCEPT ![id] = op]
  BY <1>1
<1>3. /\ op \in OperationRecord /\ op.type = all[id].type /\ op.state = "succeeded"
      /\ op.settled = settled
  BY <1>1 DEF OperationRecord, Optional, TerminalStates
<1> HIDE DEF op
<1>4. confirmed \in [OpId -> OperationRecord] /\ confirmed[id] = op
      /\ \A x \in OpId \ {id} : confirmed[x] = all[x]
  BY <1>1, <1>2, <1>3
<1> HIDE DEF confirmed
<1>5. Refunds(confirmed) = S
  BY <1>1, <1>3, <1>4 DEF Refunds
<1>6. RefundsKnown(confirmed)
  <2>1. \A x \in OpId : confirmed[x].state = "succeeded" /\ x \in S => confirmed[x].settled \in Int
    BY <1>3, <1>4 DEF RefundsKnown
  <2>2. \A x \in S : x \in OpId
    BY DEF Refunds
  <2> QED
    BY <1>5, <2>1, <2>2 DEF RefundsKnown
<1>7. \A r \in OpId : RefundBound(confirmed, r) \in Int
  BY <1>4, <1>6, BoundsAreIntegers
<1>8. SameRefunds(confirmed, next)
  BY DEF confirmed
<1>9. RefundsKnown(next) /\ Refunds(next) = S
  BY <1>5, <1>6, <1>8, SameStaysKnown DEF Refunds, SameRefunds
<1>10. \A r \in S : RefundBound(next, r) = b[r] /\ b[r] \in Int
  <2>1. \A r \in OpId : RefundBound(next, r) = RefundBound(confirmed, r)
    BY <1>6, <1>8, SameBounds
  <2> QED
    BY <1>7, <2>1 DEF Refunds
<1>11. ConfirmedRefundTotal(all, id, settled) = Max(M)
  <2>1. \A r \in S : RefundBound(confirmed, r) = b[r]
    BY DEF Refunds
  <2>2. {RefundBound(confirmed, r) : r \in S} = {b[r] : r \in S}
    BY <2>1
  <2> HIDE DEF b
  <2> QED
    BY <2>2 DEF ConfirmedRefundTotal, confirmed
<1> HIDE DEF b
<1>12. Max(M) \in M /\ \A r \in S : b[r] <= Max(M)
  <2>1. IsFiniteSet(S)
    BY DEF RefundsKnown
  <2> HIDE DEF S
  <2> QED
    BY <1>10, <2>1, GreatestOfNumbers
<1>13. Max(M) = 0 \/ \E r \in S : b[r] = Max(M)
  BY <1>12
<1>14. Max(M) \in Int
  BY <1>10, <1>13
<1> HIDE DEF M, S
<1> QED
  BY <1>9, <1>10, <1>11, <1>12, <1>13, <1>14

-----------------------------------------------------------------------------
(* What a commit does to refunds *)

(* The refunds of a history are in the total of the facts g. *)
CountsRefunds(g, next) ==
  RefundsKnown(next) /\ \A r \in Refunds(next) : g.refunded >= RefundBound(next, r)

(* What an outcome that is more than a note makes of another record. *)
LEMMA SettledOthers ==
  ASSUME NEW f, NEW all \in [OpId -> OperationRecord], NEW id \in OpId, NEW o \in Outcome,
         NEW x \in OpId, x # id
  PROVE  /\ SettledOps(f, all, id, o)[x].state = "rejected" \/ SettledOps(f, all, id, o)[x] = all[x]
         /\ all[id].type # "cancel_refund" => SettledOps(f, all, id, o)[x] = all[x]
<1>1. [all[x] EXCEPT !.state = "rejected"].state = "rejected"
  BY DEF OperationRecord
<1> QED
  BY <1>1 DEF SettledOps, StopsTarget

LEMMA SettledSelf ==
  ASSUME NEW f, NEW all \in [OpId -> OperationRecord], NEW id \in OpId, NEW o \in Outcome,
         Active(all[id]) \/ CancelledRefundSettled(all, id, o)
  PROVE  /\ SettledOps(f, all, id, o)[id].state = NextState(all[id], o)
         /\ o.state = "succeeded" =>
              SettledOps(f, all, id, o)[id].settled = SettledAmount(all[id], o)
<1>1. all[id].state # "absent"
  BY DEF Active, ActiveStates, CancelledRefundSettled
<1> QED
  BY <1>1, SettledOpsEvolve

(* An outcome confirms the operation it is about and no other. *)
LEMMA OnlyOneSettles ==
  ASSUME NEW f \in PaymentFacts, ValidAmounts(f),
         NEW all \in [OpId -> OperationRecord], NEW id \in OpId, NEW o \in Outcome,
         CanPlanOutcome(f, all, id, o),
         NEW y \in OpId, all[y].state # "succeeded",
         OutcomePlan(f, all, id, o).ops[y].state = "succeeded"
  PROVE  y = id
<1> DEFINE plan == OutcomePlan(f, all, id, o)
<1>1. plan.ops = SettledOps(f, all, id, o) \/ \A x \in OpId : plan.ops[x].state = all[x].state
  BY OutcomeCases
<1>2. plan.ops = SettledOps(f, all, id, o)
  BY <1>1
<1> HIDE DEF plan
<1> QED
  BY <1>2, SettledOthers DEF plan

(* What an outcome of a refund settles, if it settles it. *)
LEMMA RefundSettles ==
  ASSUME NEW f \in PaymentFacts, ValidAmounts(f),
         NEW all \in [OpId -> OperationRecord], NEW id \in OpId, NEW o \in Outcome,
         CanPlanOutcome(f, all, id, o), RefundsKnown(all),
         all[id].type = "start_refund", all[id].state # "succeeded",
         OutcomePlan(f, all, id, o).ops[id].state = "succeeded"
  PROVE  LET plan    == OutcomePlan(f, all, id, o)
             settled == SettledAmount(all[id], o)
         IN  /\ settled \in Int
             /\ plan.ops[id].settled = settled
             /\ SameRefunds([all EXCEPT ![id].state = "succeeded", ![id].settled = settled], plan.ops)
             /\ plan.facts.captured = f.captured
             /\ plan.facts.refunded =
                  Larger(f.refunded, ConfirmedRefundTotal(all, id, settled))
<1> DEFINE op    == all[id]
           g     == IdentifiedFacts(f, op, o)
           claim == SettlementClaim(g, all, id, o)
           next  == SettledOps(f, all, id, o)
           plan  == OutcomePlan(f, all, id, o)
           h     == AppliedToFacts(g, claim)
           paid  == SettledAmount(op, o)
           done  == [op EXCEPT !.state = "succeeded", !.settled = paid]
           confirmed == [all EXCEPT ![id].state = "succeeded", ![id].settled = paid]
           total == ConfirmedRefundTotal(all, id, paid)
<1>1. /\ Restates(f, g) /\ g \in PaymentFacts /\ ValidAmounts(g) /\ plan.ops = next
      /\ Active(op) \/ CancelledRefundSettled(all, id, o)
      /\ \/ o.state # "succeeded" /\ plan.facts = Reprojected(g, next, op.type)
         \/ /\ o.state = "succeeded" /\ WellFormedOutcome(op, o)
            /\ claim \in Observation /\ CanApplyToFacts(g, claim)
            /\ plan.facts = Reprojected(h, next, op.type)
  <2>1. ~\A x \in OpId : plan.ops[x].state = all[x].state
    OBVIOUS
  <2> QED
    BY <2>1, OutcomeCases
<1>3. /\ \A x \in OpId : Evolves(all[x], next[x])
      /\ next[id].state = NextState(op, o)
      /\ o.state = "succeeded" => next[id].settled = paid
  <2>1. Active(all[id]) \/ CancelledRefundSettled(all, id, o)
    BY <1>1
  <2>3. \A x \in OpId : Evolves(all[x], plan.ops[x])
    BY OutcomeEvolves
  <2> HIDE DEF plan, g, claim
  <2>4. next[id].state = NextState(op, o)
    BY <2>1, SettledSelf
  <2>5. o.state = "succeeded" => next[id].settled = paid
    BY <2>1, SettledSelf
  <2> QED
    BY <1>1, <2>3, <2>4, <2>5
<1>4. \A x \in OpId \ {id} : next[x] = all[x]
  BY SettledOthers
<1>5. op.type = "start_refund" /\ o.state = "succeeded"
  BY <1>1, <1>3 DEF NextState
<1>7. claim = RefundClaim(total)
  BY <1>5 DEF SettlementClaim
<1>8. /\ op \in OperationRecord /\ op.amount \in Optional(Int) /\ o.settled \in Optional(Int)
  BY DEF OperationRecord, Outcome
<1>9. paid \in Int
  BY <1>1, <1>5, <1>8 DEF WellFormedOutcome, MonetaryTypes, SettledAmount, Optional
<1>10. plan.ops = next
  BY <1>1
<1>11. WellFormedOutcome(op, o) /\ claim \in Observation /\ CanApplyToFacts(g, claim)
       /\ plan.facts = Reprojected(h, next, op.type)
  BY <1>1, <1>5
<1>12. next[id].state = "succeeded" /\ next[id].settled = paid
  BY <1>1, <1>3, <1>5
<1>13. /\ next[id].type = op.type /\ next[id].base_refunded = op.base_refunded
       /\ next[id].sequence = op.sequence
  BY <1>3 DEF Evolves, Kept, Promised
<1> HIDE DEF plan, g, claim, next, paid
<1>14. SameRefunds(confirmed, next)
  <2>1. confirmed = [all EXCEPT ![id] = done]
    OBVIOUS
  <2>2. /\ done.type = op.type /\ done.base_refunded = op.base_refunded
        /\ done.sequence = op.sequence /\ done.state = "succeeded" /\ done.settled = paid
    BY <1>8 DEF OperationRecord
  <2> HIDE DEF done, confirmed
  <2>3. confirmed[id] = done /\ \A x \in OpId \ {id} : confirmed[x] = all[x]
    BY <2>1
  <2> QED
    BY <1>4, <1>12, <1>13, <2>2, <2>3 DEF SameRefunds
<1>15. total \in Int
  <2>1. id \in Refunds(all)
    BY <1>5 DEF Refunds
  <2> QED
    BY <1>9, <1>14, <2>1, ConfirmedTotalBounds
<1>16. claim.paid = None /\ claim.refunded = total /\ total # None
  BY <1>7, <1>15, NoneIsNoValue DEF RefundClaim, NoClaim
<1>17. h.captured = g.captured /\ h.refunded = Larger(g.refunded, total)
  BY <1>1, <1>11, <1>16, ClaimTotals
<1>18. h \in PaymentFacts /\ ValidAmounts(h)
  BY <1>1, <1>11, ClaimBuilds DEF Builds
<1> HIDE DEF h
<1>19. plan.facts.captured = h.captured /\ plan.facts.refunded = h.refunded
  BY <1>11, <1>18, ReprojectionShows
<1>20. g.captured = f.captured /\ g.refunded = f.refunded
  BY <1>1 DEF Restates, SameTotals
<1> HIDE DEF total
<1> QED
  BY <1>9, <1>10, <1>12, <1>14, <1>17, <1>19, <1>20 DEF plan, paid, total

(* Records that evolve, and no refund among them that is newly confirmed.  *)
LEMMA EvolvingRefunds ==
  ASSUME NEW all, NEW next, \A x \in OpId : Evolves(all[x], next[x]),
         \A x \in OpId : all[x].type = "start_refund" /\ next[x].state = "succeeded" =>
                           all[x].state = "succeeded"
  PROVE  SameRefunds(all, next)
BY DEF SameRefunds, Evolves, Kept, Promised

(* plan_outcome *)
LEMMA OutcomeRefunds ==
  ASSUME NEW f \in PaymentFacts, ValidAmounts(f),
         NEW all \in [OpId -> OperationRecord], NEW id \in OpId, NEW o \in Outcome,
         CanPlanOutcome(f, all, id, o), RefundsKnown(all)
  PROVE  LET plan == OutcomePlan(f, all, id, o)
         IN  SameRefunds(all, plan.ops) \/ CountsRefunds(plan.facts, plan.ops)
<1> DEFINE plan == OutcomePlan(f, all, id, o)
           settled == SettledAmount(all[id], o)
<1>1. CASE \A x \in OpId : all[x].type = "start_refund" /\ plan.ops[x].state = "succeeded" =>
                             all[x].state = "succeeded"
  <2>1. \A x \in OpId : Evolves(all[x], plan.ops[x])
    BY OutcomeEvolves
  <2> HIDE DEF plan
  <2>2. SameRefunds(all, plan.ops)
    BY <1>1, <2>1, EvolvingRefunds
  <2> QED
    BY <2>2 DEF plan
<1>2. ASSUME NEW y \in OpId, all[y].type = "start_refund", all[y].state # "succeeded",
             plan.ops[y].state = "succeeded"
      PROVE  CountsRefunds(plan.facts, plan.ops)
  <2>0. y = id
    BY <1>2, OnlyOneSettles
  <2>1. /\ settled \in Int
        /\ SameRefunds([all EXCEPT ![id].state = "succeeded", ![id].settled = settled], plan.ops)
        /\ plan.facts.refunded = Larger(f.refunded, ConfirmedRefundTotal(all, id, settled))
    BY <1>2, <2>0, RefundSettles
  <2>2. id \in Refunds(all)
    BY <1>2, <2>0 DEF Refunds
  <2>3. f.refunded \in Int
    BY DEF PaymentFacts
  <2> HIDE DEF plan, settled
  <2>4. /\ RefundsKnown(plan.ops)
        /\ ConfirmedRefundTotal(all, id, settled) \in Int
        /\ \A r \in Refunds(plan.ops) :
             /\ RefundBound(plan.ops, r) \in Int
             /\ RefundBound(plan.ops, r) <= ConfirmedRefundTotal(all, id, settled)
    BY <2>1, <2>2, ConfirmedTotalBounds
  <2>5. plan.facts.refunded \in Int /\ plan.facts.refunded >= ConfirmedRefundTotal(all, id, settled)
    BY <2>1, <2>3, <2>4 DEF Larger
  <2> QED
    BY <2>4, <2>5 DEF CountsRefunds
<1> QED
  BY <1>1, <1>2

LEMMA SameAgain ==
  ASSUME NEW a, NEW b, NEW c, SameRefunds(a, b), SameRefunds(b, c)
  PROVE  SameRefunds(a, c)
BY DEF SameRefunds

(* What is counted stays so while the refunds stay the same. *)
LEMMA SameStaysCounted ==
  ASSUME NEW g, NEW all, NEW next, CountsRefunds(g, all), SameRefunds(all, next)
  PROVE  CountsRefunds(g, next)
<1>1. RefundsKnown(next)
  BY SameStaysKnown DEF CountsRefunds
<1>2. Refunds(next) = Refunds(all) /\ Refunds(all) \subseteq OpId
  BY DEF Refunds, SameRefunds
<1>3. \A r \in Refunds(all) : RefundBound(next, r) = RefundBound(all, r)
  BY <1>2, SameBounds DEF CountsRefunds
<1> QED
  BY <1>1, <1>2, <1>3 DEF CountsRefunds

(* Counting is about one total of the facts. *)
LEMMA CountsByTotal ==
  ASSUME NEW g, NEW h, NEW all, CountsRefunds(g, all), h.refunded = g.refunded
  PROVE  CountsRefunds(h, all)
BY DEF CountsRefunds

(* plan_observation *)
LEMMA ObservationRefunds ==
  ASSUME NEW f \in PaymentFacts, ValidAmounts(f),
         NEW all \in [OpId -> OperationRecord], NEW u \in Observation,
         CanPlanObservation(f, all, u), RefundsKnown(all)
  PROVE  LET plan == ObservationPlan(f, all, u)
         IN  SameRefunds(all, plan.ops) \/ CountsRefunds(plan.facts, plan.ops)
<1> DEFINE a    == AggregatedFacts(f, u)
           plan == CorrelatedPlan(f, all, u)
           g    == plan.facts
           s    == IF ActiveRefund(plan.ops) THEN "refund_started" ELSE g.status
           h    == [g EXCEPT !.status = s]
           id   == CHOOSE x \in Candidates(all, u) : TRUE
<1>1. ObservationPlan(f, all, u) = [facts |-> h, ops |-> plan.ops]
  BY DEF ObservationPlan
<1>2. CASE ~Correlated(all, u)
  <2>1. plan.ops = all
    BY <1>2 DEF CorrelatedPlan, Correlated
  <2>2. SameRefunds(all, all)
    BY DEF SameRefunds
  <2> QED
    BY <1>1, <2>1, <2>2
<1>3. CASE Correlated(all, u)
  <2>1. id \in Candidates(all, u) /\ id \in OpId /\ u.outcome \in Outcome
    BY <1>3, OneCandidate
  <2>2. CanPlanOutcome(a, all, id, u.outcome)
    BY <1>3, <2>1 DEF CanPlanObservation
  <2>3. plan = OutcomePlan(a, all, id, u.outcome)
    BY <1>3 DEF CorrelatedPlan, Correlated
  <2>4. a \in PaymentFacts /\ ValidAmounts(a)
    BY AggregateShows
  <2> HIDE DEF a, id, plan
  <2>5. SameRefunds(all, plan.ops) \/ CountsRefunds(g, plan.ops)
    BY <2>1, <2>2, <2>3, <2>4, OutcomeRefunds
  <2>6. g \in PaymentFacts
    BY <2>1, <2>2, <2>3, <2>4, OutcomeBuilds DEF Builds
  <2> HIDE DEF s, g
  <2>7. h.refunded = g.refunded
    BY <2>6 DEF PaymentFacts
  <2> HIDE DEF h
  <2>8. CountsRefunds(g, plan.ops) => CountsRefunds(h, plan.ops)
    BY <2>7, CountsByTotal
  <2> QED
    BY <1>1, <2>5, <2>8
<1> QED
  BY <1>2, <1>3

(* What plan_resolution adds to the outcome it decides on. *)
LEMMA DecisionCloses ==
  ASSUME NEW f, NEW all, NEW id \in OpId, NEW r,
         ResolvedPlan(f, all, id, r).facts \in PaymentFacts,
         ResolvedPlan(f, all, id, r).ops \in [OpId -> OperationRecord]
  PROVE  LET plan  == ResolvedPlan(f, all, id, r)
             final == ResolutionPlan(f, all, id, r)
         IN  /\ final.facts.captured = plan.facts.captured
             /\ final.facts.refunded = plan.facts.refunded
             /\ \A x \in OpId : /\ final.ops[x].type = plan.ops[x].type
                                /\ final.ops[x].state = plan.ops[x].state
                                /\ final.ops[x].settled = plan.ops[x].settled
                                /\ final.ops[x].base_captured = plan.ops[x].base_captured
                                /\ final.ops[x].base_refunded = plan.ops[x].base_refunded
                                /\ final.ops[x].sequence = plan.ops[x].sequence
<1> DEFINE plan  == ResolvedPlan(f, all, id, r)
           final == ResolutionPlan(f, all, id, r)
           p     == plan.ops[id]
           q     == [p EXCEPT !.resolutions = p.resolutions \cup {r}, !.pending = {}]
           g     == plan.facts
           keeps_marker == /\ all[id].state \in TerminalStates
                           /\ HasUnresolvedRefund(f)
                           /\ \A other \in OpId \ {id} : plan.ops[other] = all[other]
           s     == IF keeps_marker THEN "refund_started" ELSE g.status
           b     == IF r.clear THEN FALSE ELSE g.reconcile
           h     == [g EXCEPT !.status = s, !.reconcile = b]
<1>1. final.facts = h /\ final.ops = [plan.ops EXCEPT ![id] = q]
  <2>1. [plan.ops EXCEPT ![id].resolutions = @ \cup {r}, ![id].pending = {}]
          = [plan.ops EXCEPT ![id] = q]
    <3> HIDE DEF plan
    <3> QED
      BY DEF q, p
  <2> QED
    BY <2>1 DEF ResolutionPlan
<1> HIDE DEF plan, final, s, b
<1>2. h.captured = g.captured /\ h.refunded = g.refunded
  BY DEF PaymentFacts, plan
<1>3. p \in OperationRecord /\ plan.ops \in [OpId -> OperationRecord]
  BY DEF plan
<1> HIDE DEF p, h
<1>4. /\ q.type = p.type /\ q.state = p.state /\ q.settled = p.settled
      /\ q.base_captured = p.base_captured /\ q.base_refunded = p.base_refunded
      /\ q.sequence = p.sequence
  BY <1>3 DEF OperationRecord
<1> HIDE DEF q
<1>5. final.ops[id] = q /\ \A x \in OpId \ {id} : final.ops[x] = plan.ops[x]
  BY <1>1, <1>3
<1> QED
  BY <1>1, <1>2, <1>4, <1>5 DEF p, plan, final

(* plan_resolution *)
LEMMA DecisionRefunds ==
  ASSUME NEW f \in PaymentFacts, NEW all \in [OpId -> OperationRecord],
         NEW id \in OpId, NEW r \in Resolution, r.outcome.state \in TerminalStates,
         CanResolve(f, all, id, r), RefundsKnown(all)
  PROVE  LET plan == ResolutionPlan(f, all, id, r)
         IN  SameRefunds(all, plan.ops) \/ CountsRefunds(plan.facts, plan.ops)
<1> DEFINE op       == all[id]
           re       == Reopened(op, r)
           reopened == [all EXCEPT ![id] = re]
           o        == r.outcome
           plan     == ResolvedPlan(f, all, id, r)
           final    == ResolutionPlan(f, all, id, r)
<1>1. op \in OperationRecord /\ o \in Outcome /\ re \in OperationRecord
  BY ReopenedTyped DEF Resolution
<1>2. /\ reopened \in [OpId -> OperationRecord] /\ reopened[id] = re
      /\ \A x \in OpId \ {id} : reopened[x] = all[x]
  BY <1>1
<1>3. ValidAmounts(f) /\ CanPlanOutcome(f, reopened, id, o)
  BY DEF CanResolve
<1>4. plan = OutcomePlan(f, reopened, id, o)
  BY DEF ResolvedPlan
<1>5. /\ Kept(op, re) /\ re.settled = op.settled
      /\ re.state = IF op.state = "rejected" \/ Corrects(op, r) THEN "unknown" ELSE op.state
  BY <1>1, ReopenedKept
<1>6. /\ re.type = op.type /\ re.base_refunded = op.base_refunded /\ re.sequence = op.sequence
  BY <1>5 DEF Kept, Promised
<1> HIDE DEF re, plan, reopened
<1>7. Builds(f, plan.facts) /\ Follows(reopened, plan.ops)
  BY <1>1, <1>2, <1>3, <1>4, OutcomeBuilds
<1>8. RefundsKnown(reopened)
  <2>1. Refunds(reopened) = Refunds(all)
    BY <1>2, <1>6 DEF Refunds
  <2>2. \A x \in OpId : reopened[x].state = "succeeded" =>
          all[x].state = "succeeded" /\ reopened[x].settled = all[x].settled
    BY <1>2, <1>5
  <2> QED
    BY <2>1, <2>2 DEF RefundsKnown, Refunds
<1>9. SameRefunds(reopened, plan.ops) \/ CountsRefunds(plan.facts, plan.ops)
  BY <1>1, <1>2, <1>3, <1>4, <1>8, OutcomeRefunds
<1>10. plan.facts \in PaymentFacts /\ plan.ops \in [OpId -> OperationRecord]
  BY <1>7 DEF Builds, Follows
<1>11. /\ final.facts.refunded = plan.facts.refunded
       /\ \A x \in OpId : /\ final.ops[x].type = plan.ops[x].type
                          /\ final.ops[x].state = plan.ops[x].state
                          /\ final.ops[x].settled = plan.ops[x].settled
                          /\ final.ops[x].base_refunded = plan.ops[x].base_refunded
                          /\ final.ops[x].sequence = plan.ops[x].sequence
  BY <1>10, DecisionCloses DEF plan
<1>12. op.state = "succeeded" => final.ops[id].state = "succeeded"
  BY DecisionHistory DEF Decided
<1> HIDE DEF final
<1>13. SameRefunds(plan.ops, final.ops)
  BY <1>11 DEF SameRefunds
<1>14. ASSUME SameRefunds(reopened, plan.ops) PROVE SameRefunds(all, final.ops)
  <2>1. SameRefunds(reopened, final.ops)
    BY <1>13, <1>14, SameAgain
  <2>2. re.state = "succeeded" => op.state = "succeeded"
    BY <1>5
  <2> QED
    BY <1>2, <1>5, <1>6, <1>12, <2>1, <2>2 DEF SameRefunds
<1>15. ASSUME CountsRefunds(plan.facts, plan.ops) PROVE CountsRefunds(final.facts, final.ops)
  BY <1>11, <1>13, <1>15, SameStaysCounted, CountsByTotal
<1> QED
  BY <1>9, <1>14, <1>15 DEF final

(* The totals returned grow like those captured. *)
LEMMA StepReturns ==
  ASSUME IndInv, [Next]_vars
  PROVE  /\ facts.refunded \in Int /\ facts'.refunded \in Int
         /\ facts'.refunded >= facts.refunded
<1> DEFINE f == [facts EXCEPT !.reconcile = FALSE]
<1>1. f.refunded = facts.refunded /\ facts.refunded \in Int
  BY DEF IndInv, TypeOK, PaymentFacts
<1>2. Builds(facts, facts') \/ Builds(f, facts')
  BY StepBuilds
<1> HIDE DEF f
<1> QED
  BY <1>1, <1>2 DEF Builds, PaymentFacts

(* A claim submits what is active already. *)
LEMMA ClaimedRefunds ==
  ASSUME IndInv, ClaimedNow
  PROVE  SameRefunds(ops, ops')
<1>1. ops \in [OpId -> OperationRecord]
  BY DEF IndInv, TypeOK
<1>2. PICK id \in OpId, expected \in 0 .. MaxAttempts, now \in Times :
        \E retry_until \in Optional(Deadlines), scope \in Optional(Scopes) :
          Claim(id, expected, now, retry_until, scope)
  BY DEF ClaimedNow
<1>3. PICK retry_until \in Optional(Deadlines), scope \in Optional(Scopes) :
        Claim(id, expected, now, retry_until, scope)
  BY <1>2
<1> DEFINE op == ops[id]
           q  == Submission(op, now, retry_until, scope)
<1>4. CanSubmit(facts, op, expected, now) /\ ops' = [ops EXCEPT ![id] = q] /\ op \in OperationRecord
  BY <1>1, <1>3 DEF Claim
<1> HIDE DEF op
<1>5. /\ q.state = "submitting" /\ Active(op) /\ q.type = op.type
      /\ q.base_refunded = op.base_refunded /\ q.sequence = op.sequence
  BY <1>4, ClaimHistory
<1>6. op.state # "succeeded"
  BY <1>5 DEF Active, ActiveStates
<1> HIDE DEF q
<1>7. \A x \in OpId : ops'[x] = IF x = id THEN q ELSE ops[x]
  BY <1>1, <1>4
<1> QED
  BY <1>5, <1>6, <1>7 DEF SameRefunds, op

(* An attempt that is retired takes nothing else along. *)
LEMMA RetiredRefunds ==
  ASSUME NEW all \in [OpId -> OperationRecord], NEW id \in OpId, NEW attempt
  PROVE  SameRefunds(all, WithoutAttempt(all, id, attempt))
<1> DEFINE p == all[id]
           q == [p EXCEPT !.pending = p.pending \ {attempt}]
<1>1. CASE attempt = None
  BY <1>1 DEF WithoutAttempt, SameRefunds
<1>2. CASE attempt # None
  <2>1. WithoutAttempt(all, id, attempt) = [all EXCEPT ![id] = q] /\ p \in OperationRecord
    BY <1>2 DEF WithoutAttempt
  <2>2. /\ q.type = p.type /\ q.state = p.state /\ q.settled = p.settled
        /\ q.base_refunded = p.base_refunded /\ q.sequence = p.sequence
    BY <2>1 DEF OperationRecord
  <2> HIDE DEF q
  <2> QED
    BY <2>1, <2>2 DEF SameRefunds
<1> QED
  BY <1>1, <1>2

(* A step that reserves nothing leaves the refunds as they are, or commits *)
(* a total that contains them.                                             *)
CountsOn(g, all, next) == SameRefunds(all, next) \/ CountsRefunds(g, next)

LEMMA AnswerRefunds ==
  ASSUME IndInv, RefundsKnown(ops), NEW id \in OpId, NEW o \in Outcomes, NEW attempt,
         RecordOutcome(id, o, attempt)
  PROVE  CountsOn(facts', ops, ops')
<1> DEFINE plan == OutcomePlan(facts, ops, id, o)
<1>1. /\ facts \in PaymentFacts /\ ValidAmounts(facts) /\ o \in Outcome
      /\ ops \in [OpId -> OperationRecord] /\ CanPlanOutcome(facts, ops, id, o)
  BY InputsTyped DEF IndInv, TypeOK, FundsBounded, RecordOutcome
<1>2. Follows(ops, plan.ops)
  BY <1>1, OutcomeBuilds
<1>3. SameRefunds(ops, plan.ops) \/ CountsRefunds(plan.facts, plan.ops)
  BY <1>1, OutcomeRefunds
<1>4. facts' = plan.facts /\ ops' = WithoutAttempt(plan.ops, id, attempt)
  BY DEF RecordOutcome
<1> HIDE DEF plan
<1>5. SameRefunds(plan.ops, ops')
  BY <1>2, <1>4, RetiredRefunds DEF Follows
<1> QED
  BY <1>3, <1>4, <1>5, SameAgain, SameStaysCounted DEF CountsOn

LEMMA FailureRefunds ==
  ASSUME IndInv, NEW id \in OpId, NEW evidence \in Evidence, RecordFailure(id, evidence)
  PROVE  SameRefunds(ops, ops')
<1> DEFINE op == ops[id]
           q  == FailureNoted(op, evidence)
<1>1. /\ ops' = [ops EXCEPT ![id] = q] /\ op \in OperationRecord
      /\ ops \in [OpId -> OperationRecord]
  BY DEF RecordFailure, IndInv, TypeOK
<1>2. /\ q.type = op.type /\ q.state = op.state /\ q.settled = op.settled
      /\ q.base_refunded = op.base_refunded /\ q.sequence = op.sequence
  BY <1>1 DEF FailureNoted, OperationRecord
<1> HIDE DEF q
<1> QED
  BY <1>1, <1>2 DEF SameRefunds

LEMMA StepRefunds ==
  ASSUME IndInv, RefundsKnown(ops), [Next]_vars, ~\E i \in Intents : Reserve(i)
  PROVE  CountsOn(facts', ops, ops')
<1>1. ASSUME ops' = ops PROVE CountsOn(facts', ops, ops')
  BY <1>1 DEF CountsOn, SameRefunds
<1>2. CASE Operate
  <2>1. \/ \E i \in Intents : Resume(i)
        \/ ClaimedNow
        \/ \E id \in OpId, o \in Outcomes : \E attempt : RecordOutcome(id, o, attempt)
        \/ \E id \in OpId, evidence \in Evidence : RecordFailure(id, evidence)
    BY <1>2 DEF Operate, ClaimedNow
  <2>2. ASSUME NEW i \in Intents, Resume(i) PROVE CountsOn(facts', ops, ops')
    BY <1>1, <2>2 DEF Resume, vars
  <2> QED
    BY <2>1, <2>2, ClaimedRefunds, AnswerRefunds, FailureRefunds DEF CountsOn
<1>3. CASE Notice
  <2>1. PICK u \in Observations : ObserveAgain(u) \/ ObserveImpossible(u) \/ Observe(u)
    BY <1>3 DEF Notice
  <2>2. CASE ObserveAgain(u) \/ ObserveImpossible(u)
    BY <1>1, <2>2 DEF ObserveAgain, ObserveImpossible
  <2>3. CASE Observe(u)
    <3>1. /\ facts \in PaymentFacts /\ ValidAmounts(facts) /\ u \in Observation
          /\ ops \in [OpId -> OperationRecord]
      BY InputsTyped DEF IndInv, TypeOK, FundsBounded
    <3>2. /\ CanPlanObservation(facts, ops, u) /\ facts' = ObservationPlan(facts, ops, u).facts
          /\ ops' = ObservationPlan(facts, ops, u).ops
      BY <2>3 DEF Observe, Commit
    <3> QED
      BY <3>1, <3>2, ObservationRefunds DEF CountsOn
  <2> QED
    BY <2>1, <2>2, <2>3
<1>4. CASE Decide
  <2>1. ASSUME NEW w \in Reviewers, NEW r \in Resolutions, Resolve(w, r)
        PROVE  CountsOn(facts', ops, ops')
    <3> DEFINE id == review[w].id
    <3>1. /\ facts \in PaymentFacts /\ ops \in [OpId -> OperationRecord]
          /\ review \in [Reviewers -> Review]
          /\ r \in Resolution /\ r.outcome.state \in TerminalStates
      BY InputsTyped, ResolutionsAreTerminal DEF IndInv, TypeOK
    <3>2. id \in OpId
      BY <2>1, <3>1 DEF Resolve, Review, Optional
    <3>3. /\ CanResolve(facts, ops, id, r) /\ facts' = ResolutionPlan(facts, ops, id, r).facts
          /\ ops' = ResolutionPlan(facts, ops, id, r).ops
      BY <2>1 DEF Resolve, Commit
    <3> HIDE DEF id
    <3> QED
      BY <3>1, <3>2, <3>3, DecisionRefunds DEF CountsOn
  <2> QED
    BY <1>1, <1>4, <2>1 DEF Decide, ReviewOperation, ReviewFacts
<1>5. CASE UNCHANGED vars
  BY <1>1, <1>5 DEF vars
<1> QED
  BY <1>2, <1>3, <1>4, <1>5 DEF Next

(* A new refund starts from the total as it is, after all the others. *)
LEMMA ReservedRefunds ==
  ASSUME IndInv, CountsRefunds(facts, ops), NEW i \in Intents, Reserve(i)
  PROVE  CountsRefunds(facts', ops')
<1> DEFINE n == i.id
           v == [x \in OpId |-> ops[x].settled]
           w == [x \in OpId |-> ops'[x].settled]
<1>1. /\ n \in OpId /\ ops[n].state = "absent"
      /\ \A x \in OpId \ {n} : ops'[x] = ops[x]
      /\ ops'[n].state = "reserved" /\ ops'[n].base_refunded = facts.refunded
      /\ ops'[n].sequence = NextSequence(ops)
  BY ReservationHistory
<1>2. facts'.refunded = facts.refunded /\ facts.refunded \in Int
  BY ReservationHistory DEF IndInv, TypeOK, PaymentFacts
<1>3. /\ ops \in [OpId -> OperationRecord] /\ \A x \in OpId : ops[x].sequence \in Nat
      /\ NextSequence(ops) \in Nat /\ \A x \in OpId : ops[x].sequence < NextSequence(ops)
  BY NextSequenceAbove DEF IndInv, TypeOK, OperationRecord
<1> HIDE DEF n
<1>4. Refunds(ops') \subseteq Refunds(ops) \cup {n} /\ Refunds(ops') \subseteq OpId
  BY <1>1 DEF Refunds
<1>5. RefundsKnown(ops')
  <2>1. IsFiniteSet(Refunds(ops) \cup {n})
    BY FS_AddElement DEF CountsRefunds, RefundsKnown
  <2>2. IsFiniteSet(Refunds(ops'))
    BY <1>4, <2>1, FS_Subset
  <2> QED
    BY <1>1, <2>2 DEF CountsRefunds, RefundsKnown, Refunds
<1>6. ConfirmedSince(ops', n) = {}
  <2>1. \A x \in OpId \ {n} : ~(ops'[x].sequence >= ops'[n].sequence)
    BY <1>1, <1>3
  <2> QED
    BY <1>1, <2>1 DEF ConfirmedSince, Refunds
<1>7. RefundBound(ops', n) = facts.refunded
  BY <1>1, <1>2, <1>6, SumEmpty DEF RefundBound
<1>8. ASSUME NEW r \in OpId \ {n} PROVE RefundBound(ops', r) = RefundBound(ops, r)
  <2> DEFINE S == ConfirmedSince(ops, r)
  <2>1. ConfirmedSince(ops', r) = S
    BY <1>1, <1>8 DEF ConfirmedSince, Refunds
  <2>2. S \in SUBSET Refunds(ops) /\ n \notin S
    BY <1>1 DEF ConfirmedSince
  <2>3. IsFiniteSet(S)
    BY <2>2, FS_Subset DEF CountsRefunds, RefundsKnown
  <2>4. \A x \in S : v[x] = w[x]
    BY <1>1, <2>2 DEF Refunds
  <2> HIDE DEF v, w, S
  <2>5. SumFunctionOnSet(v, S) = SumFunctionOnSet(w, S)
    BY <2>3, <2>4, SumsOfTheSame
  <2> QED
    BY <1>1, <1>8, <2>1, <2>5 DEF RefundBound, v, w, S
<1>9. \A r \in Refunds(ops') : facts'.refunded >= RefundBound(ops', r)
  <2> SUFFICES ASSUME NEW r \in Refunds(ops') PROVE facts'.refunded >= RefundBound(ops', r)
    OBVIOUS
  <2>1. CASE r = n
    BY <1>2, <1>7, <2>1
  <2>2. CASE r # n
    BY <1>2, <1>4, <1>8, <2>2 DEF CountsRefunds
  <2> QED
    BY <2>1, <2>2
<1> QED
  BY <1>5, <1>9 DEF CountsRefunds

LEMMA RefundsCountedInd ==
  ASSUME IndInv, CountsRefunds(facts, ops), [Next]_vars
  PROVE  CountsRefunds(facts', ops')
<1>1. CASE \E i \in Intents : Reserve(i)
  BY <1>1, ReservedRefunds
<1>2. CASE ~\E i \in Intents : Reserve(i)
  <2>1. CountsOn(facts', ops, ops')
    BY <1>2, StepRefunds DEF CountsRefunds
  <2>2. ASSUME SameRefunds(ops, ops') PROVE CountsRefunds(facts', ops')
    <3>1. CountsRefunds(facts, ops')
      BY <2>2, SameStaysCounted
    <3>2. IndInv'
      BY NextIndInv
    <3>3. ops' \in [OpId -> OperationRecord]
      BY <3>2 DEF IndInv, TypeOK
    <3>4. \A r \in Refunds(ops') : RefundBound(ops', r) \in Int
      BY <3>1, <3>3, BoundsAreIntegers DEF CountsRefunds, Refunds
    <3> QED
      BY <3>1, <3>4, StepReturns DEF CountsRefunds
  <2> QED
    BY <2>1, <2>2 DEF CountsOn
<1> QED
  BY <1>1, <1>2

LEMMA InitRefunds == Init => CountsRefunds(facts, ops)
<1> SUFFICES ASSUME Init PROVE CountsRefunds(facts, ops)
  OBVIOUS
<1>1. \A x \in OpId : ops[x].type = None
  BY DEF Init, Absent
<1>2. Refunds(ops) = {}
  BY <1>1, NoneIsNoType DEF Refunds, OperationType
<1> QED
  BY <1>2, FS_EmptySet DEF CountsRefunds, RefundsKnown

(* No refund a provider confirmed is ever missing from the total returned, *)
(* not even one that settles after it was cancelled and after later ones:  *)
(* _confirmed_refund_total adds to each baseline what came after it.       *)
THEOREM RefundsStayCounted == Spec => []RefundsAreCounted
<1>1. Init => CountsRefunds(facts, ops)
  BY InitRefunds
<1>2. IndInv /\ CountsRefunds(facts, ops) /\ [Next]_vars => CountsRefunds(facts, ops)'
  BY RefundsCountedInd
<1>3. CountsRefunds(facts, ops) => RefundsAreCounted
  BY DEF CountsRefunds, RefundsAreCounted
<1> QED
  BY <1>1, <1>2, <1>3, InductiveInvariant, PTL DEF Spec

-----------------------------------------------------------------------------
(* Exact totals *)

(* What was promised stays, and no operation that moves money settles.     *)
SamePromises(all, next) ==
  \A x \in OpId :
    /\ next[x].type = all[x].type /\ next[x].amount = all[x].amount
    /\ next[x].base_captured = all[x].base_captured
    /\ next[x].base_refunded = all[x].base_refunded
    /\ next[x].sequence = all[x].sequence

SameSettled(p, q) ==
  p.type \in MonetaryTypes =>
    /\ q.state = "succeeded" <=> p.state = "succeeded"
    /\ p.state = "succeeded" => q.settled = p.settled

Still(f, all, g, next) ==
  /\ SamePromises(all, next)
  /\ \A x \in OpId : SameSettled(all[x], next[x])
  /\ g.captured = f.captured /\ g.refunded = f.refunded

(* One of them settles, with the amount a; a refund raises the total to    *)
(* the greatest bound there is.                                            *)
GreatestBound(next, t) ==
  /\ \A r \in Refunds(next) : RefundBound(next, r) <= t
  /\ t = 0 \/ \E r \in Refunds(next) : RefundBound(next, r) = t

Settlement(f, all, g, next, id, a) ==
  /\ SamePromises(all, next)
  /\ \A x \in OpId \ {id} : SameSettled(all[x], next[x])
  /\ all[id].type \in MonetaryTypes
  /\ next[id].state = "succeeded" /\ next[id].settled = a
  /\ all[id].type = "charge" =>
       /\ g.captured = Larger(f.captured, all[id].base_captured + a)
       /\ g.refunded = f.refunded
  /\ all[id].type = "start_refund" =>
       /\ g.captured = f.captured
       /\ \E t \in Int : GreatestBound(next, t) /\ g.refunded = Larger(f.refunded, t)

AmountsPositive(all) == \A x \in OpId : all[x].type \in MonetaryTypes => all[x].amount \in Nat

LEMMA OverstatedKeeps ==
  ASSUME NEW f, NEW all \in [OpId -> OperationRecord], NEW id \in OpId, NEW o \in Outcome,
         all[id].state # "absent", Overstated(all[id], o)
  PROVE  OutcomePlan(f, all, id, o).ops[id].state = all[id].state
<1> DEFINE p == Disputed(f, all[id], o).op
<1>1. OutcomePlan(f, all, id, o).ops = [all EXCEPT ![id] = p]
  BY DEF OutcomePlan
<1>2. p.state = all[id].state
  BY DisputedEvolves
<1> HIDE DEF p
<1> QED
  BY <1>1, <1>2

(* Evolving records keep their promises and their settlements. *)
LEMMA EvolvingSettled ==
  ASSUME NEW op, NEW q, Evolves(op, q), op.type \in MonetaryTypes /\ q.state = "succeeded" => op.state = "succeeded"
  PROVE  SameSettled(op, q)
BY DEF SameSettled, Evolves

LEMMA EvolvingPromises ==
  ASSUME NEW all, NEW next, \A x \in OpId : Evolves(all[x], next[x])
  PROVE  SamePromises(all, next)
BY DEF SamePromises, Evolves, Kept, Promised

(* A settled amount is one of the reservation's. *)
LEMMA SettledAmounts ==
  ASSUME NEW op \in OperationRecord, NEW o \in Outcome, WellFormedOutcome(op, o),
         o.state = "succeeded", ~Overstated(op, o), op.type \in MonetaryTypes, op.amount \in Nat
  PROVE  SettledAmount(op, o) \in Nat
BY DEF SettledAmount, Overstated

(* plan_outcome *)
LEMMA OutcomeMoney ==
  ASSUME NEW f \in PaymentFacts, ValidAmounts(f),
         NEW all \in [OpId -> OperationRecord], NEW id \in OpId, NEW o \in Outcome,
         CanPlanOutcome(f, all, id, o), RefundsKnown(all), AmountsPositive(all)
  PROVE  LET plan == OutcomePlan(f, all, id, o)
             a    == SettledAmount(all[id], o)
         IN  \/ Still(f, all, plan.facts, plan.ops)
             \/ /\ Settlement(f, all, plan.facts, plan.ops, id, a)
                /\ a \in Nat /\ o.state = "succeeded"
                /\ all[id].state # "succeeded"
                /\ all[id].type = "charge" => Active(all[id])
<1> DEFINE op    == all[id]
           g     == IdentifiedFacts(f, op, o)
           claim == SettlementClaim(g, all, id, o)
           next  == SettledOps(f, all, id, o)
           plan  == OutcomePlan(f, all, id, o)
           h     == AppliedToFacts(g, claim)
           a     == SettledAmount(op, o)
<1>1. /\ \A x \in OpId : Evolves(all[x], plan.ops[x])
      /\ op \in OperationRecord /\ op.state # "absent"
  BY OutcomeEvolves DEF CanPlanOutcome
<1>2. SamePromises(all, plan.ops)
  <2> HIDE DEF plan
  <2> QED
    BY <1>1, EvolvingPromises
<1>3. CASE Restates(f, plan.facts) /\ \A x \in OpId : plan.ops[x].state = all[x].state
  <2> HIDE DEF plan
  <2>1. \A x \in OpId : SameSettled(all[x], plan.ops[x])
    BY <1>1, <1>3, EvolvingSettled
  <2> QED
    BY <1>2, <1>3, <2>1 DEF Still, Restates, SameTotals, plan
<1>4. CASE ~(Restates(f, plan.facts) /\ \A x \in OpId : plan.ops[x].state = all[x].state)
  <2>1. /\ Restates(f, g) /\ g \in PaymentFacts /\ ValidAmounts(g) /\ plan.ops = next
        /\ Active(op) \/ CancelledRefundSettled(all, id, o)
        /\ \/ o.state # "succeeded" /\ plan.facts = Reprojected(g, next, op.type)
           \/ /\ o.state = "succeeded" /\ WellFormedOutcome(op, o)
              /\ claim \in Observation /\ CanApplyToFacts(g, claim)
              /\ plan.facts = Reprojected(h, next, op.type)
    BY <1>4, OutcomeCases
  <2>2. /\ next[id].state = NextState(op, o)
        /\ o.state = "succeeded" => next[id].settled = a
    <3>1. Active(all[id]) \/ CancelledRefundSettled(all, id, o)
      BY <2>1
    <3> HIDE DEF plan, g, claim
    <3> QED
      BY <3>1, SettledSelf
  <2>3. \A x \in OpId \ {id} : SameSettled(all[x], plan.ops[x])
    <3>1. \A x \in OpId \ {id} : plan.ops[x].state = "rejected" \/ plan.ops[x] = all[x]
      BY <2>1, SettledOthers
    <3> HIDE DEF plan
    <3> QED
      BY <1>1, <3>1, EvolvingSettled
  <2>4. op.state # "succeeded"
    BY <2>1 DEF Active, ActiveStates, CancelledRefundSettled
  <2>5. g.captured = f.captured /\ g.refunded = f.refunded
    BY <2>1 DEF Restates, SameTotals
  <2>6. CASE o.state # "succeeded"
    <3>1. plan.ops[id].state # "succeeded"
      BY <2>1, <2>2, <2>4, <2>6 DEF NextState
    <3>2. SameSettled(op, plan.ops[id])
      BY <2>4, <3>1 DEF SameSettled
    <3>3. plan.facts.captured = g.captured /\ plan.facts.refunded = g.refunded
      BY <2>1, <2>6, ReprojectionShows
    <3> HIDE DEF plan, g, next
    <3> QED
      BY <1>2, <2>3, <2>5, <3>2, <3>3 DEF Still, plan
  <2>7. CASE o.state = "succeeded"
    <3>1. /\ WellFormedOutcome(op, o) /\ claim \in Observation /\ CanApplyToFacts(g, claim)
          /\ plan.facts = Reprojected(h, next, op.type)
      BY <2>1, <2>7
    <3>2. plan.ops[id].state = "succeeded" /\ plan.ops[id].settled = a
      BY <2>1, <2>2, <2>7 DEF NextState
    <3>3. ~Overstated(op, o)
      BY <1>1, <2>4, <3>2, OverstatedKeeps
    <3>4. h \in PaymentFacts /\ ValidAmounts(h)
      BY <2>1, <3>1, ClaimBuilds DEF Builds
    <3>5. plan.facts.captured = h.captured /\ plan.facts.refunded = h.refunded
      BY <3>1, <3>4, ReprojectionShows
    <3>6. /\ h.captured = IF claim.paid = None THEN g.captured ELSE Larger(g.captured, claim.paid)
          /\ h.refunded = IF claim.refunded = None THEN g.refunded
                          ELSE Larger(g.refunded, claim.refunded)
      BY <2>1, <3>1, ClaimTotals
    <3>7. CASE op.type \notin MonetaryTypes
      <4>1. claim.paid = None /\ claim.refunded = None
        BY <3>7 DEF SettlementClaim, NoClaim, MonetaryTypes
      <4>2. SameSettled(op, plan.ops[id])
        BY <3>7 DEF SameSettled
      <4> HIDE DEF plan, g, next, h, claim
      <4> QED
        BY <1>2, <2>3, <2>5, <3>5, <3>6, <4>1, <4>2 DEF Still, plan
    <3>8. CASE op.type \in MonetaryTypes
      <4>1. op.amount \in Nat
        BY <3>8 DEF AmountsPositive
      <4>2. a \in Nat
        BY <1>1, <2>7, <3>1, <3>3, <3>8, <4>1, SettledAmounts
      <4>3. CASE op.type = "charge"
        <5>1. claim = CaptureClaim(op.base_captured + a)
          BY <4>3 DEF SettlementClaim
        <5>2. op.base_captured \in Int
          BY <1>1 DEF OperationRecord
        <5>3. Active(op)
          BY <2>1, <4>3 DEF CancelledRefundSettled
        <5> HIDE DEF plan, g, next, h, claim, a
        <5>4. claim.paid = op.base_captured + a /\ claim.paid # None /\ claim.refunded = None
          BY <4>2, <5>1, <5>2, NoneIsNoValue DEF CaptureClaim, NoClaim
        <5>5. Settlement(f, all, plan.facts, plan.ops, id, a)
          BY <1>2, <2>3, <2>5, <3>2, <3>5, <3>6, <4>3, <5>4 DEF Settlement, MonetaryTypes
        <5> QED
          BY <2>4, <2>7, <4>2, <5>3, <5>5 DEF plan, a
      <4>4. CASE op.type = "start_refund"
        <5> HIDE DEF g, next, h, claim
        <5>1. /\ SameRefunds([all EXCEPT ![id].state = "succeeded", ![id].settled = a], plan.ops)
              /\ plan.facts.captured = f.captured
              /\ plan.facts.refunded = Larger(f.refunded, ConfirmedRefundTotal(all, id, a))
          BY <2>4, <3>2, <4>4, RefundSettles
        <5>2. id \in Refunds(all) /\ a \in Int
          BY <4>2, <4>4 DEF Refunds
        <5> HIDE DEF plan, a
        <5>3. ConfirmedRefundTotal(all, id, a) \in Int /\ GreatestBound(plan.ops, ConfirmedRefundTotal(all, id, a))
          BY <5>1, <5>2, ConfirmedTotalBounds DEF GreatestBound
        <5>4. Settlement(f, all, plan.facts, plan.ops, id, a)
          BY <1>2, <2>3, <3>2, <4>4, <5>1, <5>3 DEF Settlement, MonetaryTypes
        <5> QED
          BY <2>4, <2>7, <4>2, <4>4, <5>4 DEF plan, a
      <4> QED
        BY <3>8, <4>3, <4>4 DEF MonetaryTypes
    <3> QED
      BY <3>7, <3>8
  <2> QED
    BY <2>6, <2>7
<1> QED
  BY <1>3, <1>4

LastReserved(all, id) == \A other \in OpId : all[other].sequence <= all[id].sequence

(* A settlement raises what was settled before, and a capture is one that  *)
(* nothing was reserved on.                                                *)
Settles1(f, all, g, next, id, a) ==
  /\ Settlement(f, all, g, next, id, a)
  /\ all[id].state = "succeeded" => all[id].settled <= a
  /\ all[id].type = "charge" => Active(all[id]) \/ LastReserved(all, id)

(* plan_resolution *)
LEMMA DecisionMoney ==
  ASSUME NEW f \in PaymentFacts, NEW all \in [OpId -> OperationRecord],
         NEW id \in OpId, NEW r \in Resolution, r.outcome.state \in TerminalStates,
         CanResolve(f, all, id, r), RefundsKnown(all), AmountsPositive(all)
  PROVE  LET plan == ResolutionPlan(f, all, id, r)
         IN  \/ Still(f, all, plan.facts, plan.ops)
             \/ \E a \in Nat : Settles1(f, all, plan.facts, plan.ops, id, a)
<1> DEFINE op       == all[id]
           re       == Reopened(op, r)
           reopened == [all EXCEPT ![id] = re]
           o        == r.outcome
           plan     == ResolvedPlan(f, all, id, r)
           final    == ResolutionPlan(f, all, id, r)
           a        == SettledAmount(re, o)
<1>1. op \in OperationRecord /\ o \in Outcome /\ re \in OperationRecord
  BY ReopenedTyped DEF Resolution
<1>2. /\ reopened \in [OpId -> OperationRecord] /\ reopened[id] = re
      /\ \A x \in OpId \ {id} : reopened[x] = all[x]
  BY <1>1
<1>3. ValidAmounts(f) /\ CanPlanOutcome(f, reopened, id, o) /\ MayDecide(all, id, r)
  BY DEF CanResolve
<1>4. plan = OutcomePlan(f, reopened, id, o)
  BY DEF ResolvedPlan
<1>5. /\ Kept(op, re) /\ re.settled = op.settled
      /\ re.state = IF op.state = "rejected" \/ Corrects(op, r) THEN "unknown" ELSE op.state
  BY <1>1, ReopenedKept
<1>6. /\ re.type = op.type /\ re.amount = op.amount /\ re.base_captured = op.base_captured
      /\ re.base_refunded = op.base_refunded /\ re.sequence = op.sequence
  BY <1>5 DEF Kept, Promised
<1> HIDE DEF re, plan, reopened
<1>7. Builds(f, plan.facts) /\ Follows(reopened, plan.ops)
  BY <1>1, <1>2, <1>3, <1>4, OutcomeBuilds
<1>8. RefundsKnown(reopened) /\ AmountsPositive(reopened)
  <2>1. Refunds(reopened) = Refunds(all)
    BY <1>2, <1>6 DEF Refunds
  <2>2. \A x \in OpId : reopened[x].state = "succeeded" =>
          all[x].state = "succeeded" /\ reopened[x].settled = all[x].settled
    BY <1>2, <1>5
  <2> QED
    BY <1>2, <1>6, <2>1, <2>2 DEF RefundsKnown, Refunds, AmountsPositive
<1>9. \/ Still(f, reopened, plan.facts, plan.ops)
      \/ /\ Settlement(f, reopened, plan.facts, plan.ops, id, a)
         /\ a \in Nat /\ o.state = "succeeded"
         /\ re.state # "succeeded"
         /\ re.type = "charge" => Active(re)
  BY <1>1, <1>2, <1>3, <1>4, <1>8, OutcomeMoney
<1>10. plan.facts \in PaymentFacts /\ plan.ops \in [OpId -> OperationRecord]
  BY <1>7 DEF Builds, Follows
<1>11. /\ final.facts.captured = plan.facts.captured /\ final.facts.refunded = plan.facts.refunded
       /\ \A x \in OpId : /\ final.ops[x].type = plan.ops[x].type
                          /\ final.ops[x].state = plan.ops[x].state
                          /\ final.ops[x].settled = plan.ops[x].settled
                          /\ final.ops[x].base_captured = plan.ops[x].base_captured
                          /\ final.ops[x].base_refunded = plan.ops[x].base_refunded
                          /\ final.ops[x].sequence = plan.ops[x].sequence
  BY <1>10, DecisionCloses DEF plan
<1>12. /\ op.state = "succeeded" => final.ops[id].state = "succeeded"
       /\ \A x \in OpId : final.ops[x].amount = plan.ops[x].amount
  <2>1. op.state = "succeeded" => final.ops[id].state = "succeeded"
    BY DecisionHistory DEF Decided
  <2>2. \A x \in OpId : final.ops[x].amount = plan.ops[x].amount
    <3> DEFINE p == plan.ops[id]
               q == [p EXCEPT !.resolutions = p.resolutions \cup {r}, !.pending = {}]
    <3>1. final.ops = [plan.ops EXCEPT ![id].resolutions = @ \cup {r}, ![id].pending = {}]
      BY DEF ResolutionPlan, plan
    <3>2. final.ops = [plan.ops EXCEPT ![id] = q]
      BY <3>1
    <3>3. p \in OperationRecord
      BY <1>10
    <3>4. q.amount = p.amount
      BY <3>3 DEF OperationRecord
    <3> HIDE DEF q
    <3> QED
      BY <1>10, <3>2, <3>4
  <2> QED
    BY <2>1, <2>2
<1> HIDE DEF final
<1>13. \A t : GreatestBound(plan.ops, t) => GreatestBound(final.ops, t)
  <2>1. [x \in OpId |-> final.ops[x].settled] = [x \in OpId |-> plan.ops[x].settled]
    BY <1>11
  <2>2. Refunds(final.ops) = Refunds(plan.ops)
    BY <1>11 DEF Refunds
  <2>3. \A x \in OpId : ConfirmedSince(final.ops, x) = ConfirmedSince(plan.ops, x)
    BY <1>11, <2>2 DEF ConfirmedSince, Refunds
  <2>4. \A x \in OpId : RefundBound(final.ops, x) = RefundBound(plan.ops, x)
    BY <1>11, <2>1, <2>3 DEF RefundBound
  <2>5. \A x \in Refunds(plan.ops) : x \in OpId
    BY DEF Refunds
  <2> QED
    BY <2>2, <2>4, <2>5 DEF GreatestBound
<1>14. SamePromises(reopened, plan.ops)
  BY <1>9 DEF Still, Settlement
<1>15. SamePromises(all, final.ops)
  BY <1>2, <1>6, <1>11, <1>12, <1>14 DEF SamePromises
<1>16. ASSUME Still(f, reopened, plan.facts, plan.ops)
       PROVE  Still(f, all, final.facts, final.ops)
  <2>1. \A x \in OpId \ {id} : SameSettled(all[x], final.ops[x])
    BY <1>2, <1>11, <1>16 DEF Still, SameSettled
  <2>2. SameSettled(op, final.ops[id])
    <3>1. SameSettled(re, plan.ops[id])
      BY <1>2, <1>16 DEF Still
    <3>2. /\ final.ops[id].state = plan.ops[id].state
          /\ final.ops[id].settled = plan.ops[id].settled
      BY <1>11
    <3>3. CASE op.type \in MonetaryTypes
      <4>1. plan.ops[id].state = "succeeded" <=> re.state = "succeeded"
        BY <1>6, <3>1, <3>3 DEF SameSettled
      <4>2. re.state = "succeeded" => plan.ops[id].settled = op.settled
        BY <1>5, <1>6, <3>1, <3>3 DEF SameSettled
      <4>3. re.state = "succeeded" => op.state = "succeeded"
        BY <1>5
      <4> QED
        BY <1>12, <3>2, <4>1, <4>2, <4>3 DEF SameSettled
    <3>4. CASE op.type \notin MonetaryTypes
      BY <3>4 DEF SameSettled
    <3> QED
      BY <3>3, <3>4
  <2> QED
    BY <1>11, <1>15, <1>16, <2>1, <2>2 DEF Still
<1>17. ASSUME Settlement(f, reopened, plan.facts, plan.ops, id, a), a \in Nat, o.state = "succeeded",
              re.state # "succeeded", re.type = "charge" => Active(re)
       PROVE  Settles1(f, all, final.facts, final.ops, id, a)
  <2>1. \A x \in OpId \ {id} : SameSettled(all[x], final.ops[x])
    BY <1>2, <1>11, <1>17 DEF Settlement, SameSettled
  <2> HIDE DEF a
  <2>2. Settlement(f, all, final.facts, final.ops, id, a)
    BY <1>2, <1>6, <1>11, <1>13, <1>15, <1>17, <2>1 DEF Settlement
  <2>3. op.state = "succeeded" => Corrects(op, r)
    BY <1>5, <1>17
  <2>4. a = SettledAmount(op, o)
    BY <1>6 DEF a, SettledAmount
  <2>5. op.state = "succeeded" => op.settled <= a
    BY <1>3, <2>3, <2>4 DEF MayDecide
  <2>6. Corrects(op, r) \/ op.state = "rejected" => LastReserved(all, id)
    BY <1>3, <1>17 DEF MayDecide, Overturns, LastReserved
  <2>7. op.type = "charge" => Active(op) \/ LastReserved(all, id)
    BY <1>5, <1>6, <1>17, <2>6 DEF Active
  <2> QED
    BY <2>2, <2>5, <2>7 DEF Settles1
<1> QED
  BY <1>9, <1>16, <1>17 DEF final

(* Two sums that differ in one member. *)
LEMMA SumReplaced ==
  ASSUME NEW v, NEW w, NEW S, NEW T, IsFiniteSet(S), IsFiniteSet(T), NEW e,
         S \ {e} = T \ {e}, \A x \in S : v[x] \in Int, \A x \in T : w[x] \in Int,
         \A x \in S \ {e} : v[x] = w[x]
  PROVE  /\ SumFunctionOnSet(v, S) \in Int /\ SumFunctionOnSet(w, T) \in Int
         /\ SumFunctionOnSet(w, T) = SumFunctionOnSet(v, S)
              + (IF e \in T THEN w[e] ELSE 0) - (IF e \in S THEN v[e] ELSE 0)
<1> DEFINE R == S \ {e}
<1>1. /\ SumFunctionOnSet(v, S) \in Int /\ SumFunctionOnSet(w, T) \in Int
      /\ IsFiniteSet(R)
  BY SumsAreIntegers, FS_Subset
<1>2. SumFunctionOnSet(v, R) = SumFunctionOnSet(w, R) /\ SumFunctionOnSet(v, R) \in Int
  BY <1>1, SumsAreIntegers, SumsOfTheSame
<1>3. SumFunctionOnSet(v, S) = SumFunctionOnSet(v, R) + (IF e \in S THEN v[e] ELSE 0)
  <2>1. CASE e \in S
    <3>1. SumFunctionOnSet(v, S) = v[e] + SumFunctionOnSet(v, R) /\ v[e] \in Int
      BY <2>1, SumWithout
    <3> HIDE DEF R
    <3> QED
      BY <1>2, <2>1, <3>1
  <2>2. CASE e \notin S
    <3>1. S = R
      BY <2>2
    <3> HIDE DEF R
    <3> QED
      BY <1>2, <2>2, <3>1
  <2> QED
    BY <2>1, <2>2
<1>4. SumFunctionOnSet(w, T) = SumFunctionOnSet(w, R) + (IF e \in T THEN w[e] ELSE 0)
  <2>1. CASE e \in T
    <3>1. SumFunctionOnSet(w, T) = w[e] + SumFunctionOnSet(w, R) /\ w[e] \in Int
      BY <2>1, SumWithout
    <3> HIDE DEF R
    <3> QED
      BY <1>2, <2>1, <3>1
  <2>2. CASE e \notin T
    <3>1. T = R
      BY <2>2
    <3> HIDE DEF R
    <3> QED
      BY <1>2, <2>2, <3>1
  <2> QED
    BY <2>1, <2>2
<1>5. e \in T => w[e] \in Int
  OBVIOUS
<1>6. e \in S => v[e] \in Int
  OBVIOUS
<1> HIDE DEF R
<1> QED
  BY <1>1, <1>2, <1>3, <1>4, <1>5, <1>6

-----------------------------------------------------------------------------
SettledOnes(all, type) == {id \in OpId : all[id].type = type /\ all[id].state = "succeeded"}

SettledTotal(all, type) ==
  SumFunctionOnSet([id \in OpId |-> all[id].settled], SettledOnes(all, type))

(* The settlements of one type can be summed. *)
Summable(all, type) ==
  /\ IsFiniteSet(SettledOnes(all, type))
  /\ \A x \in SettledOnes(all, type) : all[x].settled \in Int

SameOnes(all, next, type) ==
  /\ SettledOnes(next, type) = SettledOnes(all, type)
  /\ \A x \in SettledOnes(all, type) : next[x].settled = all[x].settled

LEMMA SameOnesTotal ==
  ASSUME NEW all, NEW next, NEW type, Summable(all, type), SameOnes(all, next, type)
  PROVE  /\ Summable(next, type) /\ SettledTotal(all, type) \in Int
         /\ SettledTotal(next, type) = SettledTotal(all, type)
<1> DEFINE v == [x \in OpId |-> all[x].settled]
           w == [x \in OpId |-> next[x].settled]
           S == SettledOnes(all, type)
<1>1. \A x \in S : v[x] = w[x] /\ v[x] \in Int
  BY DEF SettledOnes, SameOnes, Summable
<1>2. SettledTotal(all, type) = SumFunctionOnSet(v, S) /\ SettledTotal(next, type) = SumFunctionOnSet(w, S)
  BY DEF SettledTotal, SameOnes
<1>3. IsFiniteSet(S) /\ Summable(next, type)
  BY DEF Summable, SameOnes
<1> HIDE DEF v, w, S
<1> QED
  BY <1>1, <1>2, <1>3, SumsOfTheSame, SumsAreIntegers

(* What was settled of a record before. *)
SoFar(p) == IF p.state = "succeeded" THEN p.settled ELSE 0

LEMMA SettlementTotal ==
  ASSUME NEW f, NEW all, NEW g, NEW next, NEW id \in OpId, NEW a \in Nat,
         Settlement(f, all, g, next, id, a), Summable(all, all[id].type)
  PROVE  /\ Summable(next, all[id].type)
         /\ SettledTotal(all, all[id].type) \in Int /\ SoFar(all[id]) \in Int
         /\ SettledTotal(next, all[id].type) = SettledTotal(all, all[id].type) + a - SoFar(all[id])
<1> DEFINE v == [x \in OpId |-> all[x].settled]
           w == [x \in OpId |-> next[x].settled]
           type == all[id].type
           S == SettledOnes(all, type)
           T == SettledOnes(next, type)
<1>1. /\ SamePromises(all, next) /\ \A x \in OpId \ {id} : SameSettled(all[x], next[x])
      /\ type \in MonetaryTypes /\ next[id].state = "succeeded" /\ next[id].settled = a
  BY DEF Settlement
<1>2. S \ {id} = T \ {id} /\ T = S \cup {id}
  BY <1>1 DEF SettledOnes, SamePromises, SameSettled
<1>3. \A x \in S \ {id} : v[x] = w[x]
  BY <1>1 DEF SettledOnes, SameSettled
<1>4. (\A x \in S : v[x] \in Int) /\ IsFiniteSet(S)
  BY DEF Summable, SettledOnes
<1>5. IsFiniteSet(T)
  BY <1>2, <1>4, FS_AddElement
<1>6. \A x \in T : w[x] \in Int
  <2>1. w[id] = a
    BY <1>1
  <2> HIDE DEF v, w, S, T
  <2> QED
    BY <1>2, <1>3, <1>4, <2>1
<1>7. Summable(next, type)
  <2>1. \A x \in T : w[x] = next[x].settled
    BY DEF SettledOnes
  <2> HIDE DEF w, type
  <2> QED
    BY <1>5, <1>6, <2>1 DEF Summable
<1>8. w[id] = a /\ v[id] = all[id].settled /\ id \in T /\ (id \in S <=> all[id].state = "succeeded")
  BY <1>1, <1>2 DEF SettledOnes
<1>9. SettledTotal(all, type) = SumFunctionOnSet(v, S) /\ SettledTotal(next, type) = SumFunctionOnSet(w, T)
  BY DEF SettledTotal
<1> HIDE DEF v, w, S, T, type
<1>10. /\ SumFunctionOnSet(v, S) \in Int /\ SumFunctionOnSet(w, T) \in Int
       /\ SumFunctionOnSet(w, T) = SumFunctionOnSet(v, S)
            + (IF id \in T THEN w[id] ELSE 0) - (IF id \in S THEN v[id] ELSE 0)
  BY <1>2, <1>3, <1>4, <1>5, <1>6, SumReplaced
<1>11. SoFar(all[id]) = (IF id \in S THEN v[id] ELSE 0) /\ SoFar(all[id]) \in Int
  BY <1>4, <1>8 DEF SoFar
<1> QED
  BY <1>7, <1>8, <1>9, <1>10, <1>11 DEF type

(* No refund's bound grows by more than the settlement does. *)
LEMMA SettlementBounds ==
  ASSUME NEW f, NEW all \in [OpId -> OperationRecord], NEW g, NEW next, NEW id \in OpId, NEW a \in Nat,
         Settlement(f, all, g, next, id, a), RefundsKnown(all), all[id].type = "start_refund",
         SoFar(all[id]) <= a, NEW r \in OpId
  PROVE  RefundBound(next, r) <= RefundBound(all, r) + a - SoFar(all[id])
<1> DEFINE v == [x \in OpId |-> all[x].settled]
           w == [x \in OpId |-> next[x].settled]
           S == ConfirmedSince(all, r)
           T == ConfirmedSince(next, r)
<1>1. /\ SamePromises(all, next) /\ \A x \in OpId \ {id} : SameSettled(all[x], next[x])
      /\ next[id].state = "succeeded" /\ next[id].settled = a
  BY DEF Settlement
<1>2. S \ {id} = T \ {id} /\ T \subseteq S \cup {id}
  BY <1>1 DEF ConfirmedSince, Refunds, SamePromises, SameSettled, MonetaryTypes
<1>3. \A x \in S \ {id} : v[x] = w[x]
  BY <1>1 DEF ConfirmedSince, Refunds, SameSettled, MonetaryTypes
<1>4. \A x \in S : v[x] \in Int
  BY DEF RefundsKnown, ConfirmedSince, Refunds
<1>5. IsFiniteSet(S) /\ IsFiniteSet(T)
  <2>1. S \subseteq Refunds(all)
    BY DEF ConfirmedSince
  <2>2. IsFiniteSet(S)
    BY <2>1, FS_Subset DEF RefundsKnown
  <2> HIDE DEF S, T
  <2>3. IsFiniteSet(S \cup {id})
    BY <2>2, FS_AddElement
  <2> QED
    BY <1>2, <2>2, <2>3, FS_Subset
<1>6. w[id] = a /\ v[id] = all[id].settled
  BY <1>1
<1>7. id \in S => all[id].state = "succeeded" /\ id \in T
  BY <1>1, NoneIsNoValue DEF ConfirmedSince, Refunds, SamePromises
<1>8. /\ RefundBound(all, r) = all[r].base_refunded + SumFunctionOnSet(v, S)
      /\ RefundBound(next, r) = all[r].base_refunded + SumFunctionOnSet(w, T)
  BY <1>1 DEF RefundBound, SamePromises
<1>9. all[r].base_refunded \in Int
  BY DEF OperationRecord
<1>10. SoFar(all[id]) \in Int
  BY DEF SoFar, RefundsKnown, Refunds
<1>11. id \in S => SoFar(all[id]) = v[id]
  BY <1>6, <1>7 DEF SoFar
<1> HIDE DEF v, w, S, T
<1>12. \A x \in T : w[x] \in Int
  BY <1>2, <1>3, <1>4, <1>6
<1>13. /\ SumFunctionOnSet(v, S) \in Int /\ SumFunctionOnSet(w, T) \in Int
       /\ SumFunctionOnSet(w, T) = SumFunctionOnSet(v, S)
            + (IF id \in T THEN w[id] ELSE 0) - (IF id \in S THEN v[id] ELSE 0)
  BY <1>2, <1>3, <1>4, <1>5, <1>12, SumReplaced
<1>14. (IF id \in T THEN w[id] ELSE 0) - (IF id \in S THEN v[id] ELSE 0) <= a - SoFar(all[id])
  <2>1. CASE id \in S
    BY <1>6, <1>7, <1>10, <1>11, <2>1
  <2>2. CASE id \notin S /\ id \in T
    <3>1. SoFar(all[id]) = 0
      <4>1. ASSUME all[id].state = "succeeded" PROVE FALSE
        <5>1. all[id].settled \in Int /\ all[id].settled # None
          BY <4>1, NoneIsNoValue DEF RefundsKnown, Refunds
        <5>2. id \in S
          BY <1>1, <2>2, <4>1, <5>1 DEF S, T, ConfirmedSince, Refunds, SamePromises
        <5> QED
          BY <2>2, <5>2
      <4> QED
        BY <4>1 DEF SoFar
    <3> QED
      BY <1>6, <2>2, <3>1
  <2>3. CASE id \notin S /\ id \notin T
    BY <1>10, <2>3
  <2> QED
    BY <2>1, <2>2, <2>3
<1> QED
  <2>1. \A x \in T : w[x] \in Int
    BY <1>12
  <2>2. \A x \in S : v[x] \in Int
    BY <1>4
  <2> DEFINE d == (IF id \in T THEN w[id] ELSE 0) - (IF id \in S THEN v[id] ELSE 0)
  <2>3. d \in Int
    BY <2>1, <2>2
  <2>4. SumFunctionOnSet(w, T) = SumFunctionOnSet(v, S) + d
    BY <1>13, <2>1, <2>2
  <2>5. d <= a - SoFar(all[id])
    BY <1>14
  <2> HIDE DEF d
  <2> QED
    BY <1>8, <1>9, <1>10, <1>13, <2>3, <2>4, <2>5

(* The bound of the first refund is all that was ever returned. *)
LEMMA FirstBound ==
  ASSUME NEW all, NEW r \in Refunds(all), \A x \in Refunds(all) : all[x].sequence >= all[r].sequence,
         Summable(all, "start_refund")
  PROVE  RefundBound(all, r) = all[r].base_refunded + SettledTotal(all, "start_refund")
<1>1. \A x \in SettledOnes(all, "start_refund") : all[x].settled # None
  BY NoneIsNoValue DEF Summable
<1>2. ConfirmedSince(all, r) = SettledOnes(all, "start_refund")
  BY <1>1 DEF ConfirmedSince, SettledOnes, Refunds
<1> QED
  BY <1>2 DEF RefundBound, SettledTotal

(* A step without callbacks that reserves nothing settles one operation or *)
(* none.                                                                   *)
MoneyMoves(f, all, g, next) ==
  \/ Still(f, all, g, next)
  \/ \E id \in OpId, a \in Nat : Settles1(f, all, g, next, id, a)

LEMMA ClaimedMoney ==
  ASSUME IndInv, ClaimedNow
  PROVE  Still(facts, ops, facts', ops')
<1>1. ops \in [OpId -> OperationRecord]
  BY DEF IndInv, TypeOK
<1>2. PICK id \in OpId, expected \in 0 .. MaxAttempts, now \in Times :
        \E retry_until \in Optional(Deadlines), scope \in Optional(Scopes) :
          Claim(id, expected, now, retry_until, scope)
  BY DEF ClaimedNow
<1>3. PICK retry_until \in Optional(Deadlines), scope \in Optional(Scopes) :
        Claim(id, expected, now, retry_until, scope)
  BY <1>2
<1> DEFINE p == ops[id]
           q == Submission(p, now, retry_until, scope)
<1>4. CanSubmit(facts, p, expected, now) /\ ops' = [ops EXCEPT ![id] = q] /\ p \in OperationRecord
      /\ facts' = facts
  BY <1>1, <1>3 DEF Claim
<1> HIDE DEF p
<1>5. /\ q.state = "submitting" /\ Active(p) /\ q.type = p.type /\ q.amount = p.amount
      /\ q.base_captured = p.base_captured
      /\ q.base_refunded = p.base_refunded /\ q.sequence = p.sequence
  BY <1>4, ClaimHistory
<1>6. p.state # "succeeded"
  BY <1>5 DEF Active, ActiveStates
<1> HIDE DEF q
<1>7. \A x \in OpId : ops'[x] = IF x = id THEN q ELSE ops[x]
  BY <1>1, <1>4
<1> QED
  BY <1>4, <1>5, <1>6, <1>7 DEF Still, SamePromises, SameSettled, p

LEMMA FailureMoney ==
  ASSUME IndInv, NEW id \in OpId, NEW evidence \in Evidence, RecordFailure(id, evidence)
  PROVE  Still(facts, ops, facts', ops')
<1> DEFINE p == ops[id]
           q == FailureNoted(p, evidence)
<1>1. /\ ops' = [ops EXCEPT ![id] = q] /\ p \in OperationRecord
      /\ ops \in [OpId -> OperationRecord] /\ facts' = facts
  BY DEF RecordFailure, IndInv, TypeOK
<1>2. /\ q.type = p.type /\ q.state = p.state /\ q.settled = p.settled /\ q.amount = p.amount
      /\ q.base_captured = p.base_captured
      /\ q.base_refunded = p.base_refunded /\ q.sequence = p.sequence
  BY <1>1 DEF FailureNoted, OperationRecord
<1> HIDE DEF q
<1> QED
  BY <1>1, <1>2 DEF Still, SamePromises, SameSettled

(* Retiring an attempt changes no money. *)
LEMMA RetiredMoney ==
  ASSUME NEW f, NEW g, NEW all, NEW next \in [OpId -> OperationRecord], NEW id \in OpId, NEW attempt,
         MoneyMoves(f, all, g, next)
  PROVE  MoneyMoves(f, all, g, WithoutAttempt(next, id, attempt))
<1> DEFINE p == next[id]
           q == [p EXCEPT !.pending = p.pending \ {attempt}]
           final == WithoutAttempt(next, id, attempt)
<1>1. CASE attempt = None
  BY <1>1 DEF WithoutAttempt
<1>2. CASE attempt # None
  <2>1. final = [next EXCEPT ![id] = q] /\ p \in OperationRecord
    BY <1>2 DEF WithoutAttempt
  <2>2. /\ q.type = p.type /\ q.state = p.state /\ q.settled = p.settled
        /\ q.amount = p.amount /\ q.base_captured = p.base_captured
        /\ q.base_refunded = p.base_refunded /\ q.sequence = p.sequence
    BY <2>1 DEF OperationRecord
  <2> HIDE DEF q, final
  <2>3. \A x \in OpId :
          /\ final[x].type = next[x].type /\ final[x].state = next[x].state
          /\ final[x].settled = next[x].settled /\ final[x].amount = next[x].amount
          /\ final[x].base_captured = next[x].base_captured
          /\ final[x].base_refunded = next[x].base_refunded
          /\ final[x].sequence = next[x].sequence
    BY <2>1, <2>2
  <2> HIDE DEF p
  <2>4. \A t : GreatestBound(next, t) => GreatestBound(final, t)
    <3>1. [x \in OpId |-> final[x].settled] = [x \in OpId |-> next[x].settled]
      BY <2>3
    <3>2. Refunds(final) = Refunds(next)
      BY <2>3 DEF Refunds
    <3>3. \A x \in OpId : ConfirmedSince(final, x) = ConfirmedSince(next, x)
      BY <2>3, <3>2 DEF ConfirmedSince, Refunds
    <3>4. \A x \in OpId : RefundBound(final, x) = RefundBound(next, x)
      BY <2>3, <3>1, <3>3 DEF RefundBound
    <3>5. \A x \in Refunds(next) : x \in OpId
      BY DEF Refunds
    <3> QED
      BY <3>2, <3>4, <3>5 DEF GreatestBound
  <2>5. CASE Still(f, all, g, next)
    <3>1. Still(f, all, g, final)
      BY <2>3, <2>5 DEF Still, SamePromises, SameSettled
    <3> QED
      BY <3>1 DEF MoneyMoves, final
  <2>6. ASSUME NEW y \in OpId, NEW a \in Nat, Settles1(f, all, g, next, y, a)
        PROVE  MoneyMoves(f, all, g, final)
    <3>1. Settlement(f, all, g, next, y, a)
      BY <2>6 DEF Settles1
    <3>2. SamePromises(all, final) /\ \A x \in OpId \ {y} : SameSettled(all[x], final[x])
      BY <2>3, <3>1 DEF Settlement, SamePromises, SameSettled
    <3>3. Settlement(f, all, g, final, y, a)
      BY <2>3, <2>4, <3>1, <3>2 DEF Settlement
    <3> QED
      BY <2>6, <3>3 DEF Settles1, MoneyMoves
  <2> QED
    BY <2>5, <2>6 DEF MoneyMoves, final
<1> QED
  BY <1>1, <1>2

LEMMA AnswerMoney ==
  ASSUME IndInv, RefundsKnown(ops), AmountsPositive(ops),
         NEW id \in OpId, NEW o \in Outcomes, NEW attempt, RecordOutcome(id, o, attempt)
  PROVE  MoneyMoves(facts, ops, facts', ops')
<1> DEFINE plan == OutcomePlan(facts, ops, id, o)
           a    == SettledAmount(ops[id], o)
<1>1. /\ facts \in PaymentFacts /\ ValidAmounts(facts) /\ o \in Outcome
      /\ ops \in [OpId -> OperationRecord] /\ CanPlanOutcome(facts, ops, id, o)
  BY InputsTyped DEF IndInv, TypeOK, FundsBounded, RecordOutcome
<1>2. plan.ops \in [OpId -> OperationRecord]
  BY <1>1, OutcomeBuilds DEF Follows
<1>3. \/ Still(facts, ops, plan.facts, plan.ops)
      \/ /\ Settlement(facts, ops, plan.facts, plan.ops, id, a) /\ a \in Nat
         /\ ops[id].state # "succeeded" /\ (ops[id].type = "charge" => Active(ops[id]))
  BY <1>1, OutcomeMoney
<1>4. facts' = plan.facts /\ ops' = WithoutAttempt(plan.ops, id, attempt)
  BY DEF RecordOutcome
<1> HIDE DEF plan, a
<1>5. MoneyMoves(facts, ops, plan.facts, plan.ops)
  BY <1>3 DEF MoneyMoves, Settles1
<1> QED
  BY <1>2, <1>4, <1>5, RetiredMoney

LEMMA StepMoney ==
  ASSUME IndInv, RefundsKnown(ops), AmountsPositive(ops),
         [Next]_vars, ~Notice, ~\E i \in Intents : Reserve(i)
  PROVE  MoneyMoves(facts, ops, facts', ops')
<1>1. ASSUME ops' = ops, facts' = facts PROVE MoneyMoves(facts, ops, facts', ops')
  BY <1>1 DEF MoneyMoves, Still, SamePromises, SameSettled
<1>2. CASE Operate
  <2>1. \/ \E i \in Intents : Resume(i)
        \/ ClaimedNow
        \/ \E id \in OpId, o \in Outcomes : \E attempt : RecordOutcome(id, o, attempt)
        \/ \E id \in OpId, evidence \in Evidence : RecordFailure(id, evidence)
    BY <1>2 DEF Operate, ClaimedNow
  <2>2. ASSUME NEW i \in Intents, Resume(i) PROVE MoneyMoves(facts, ops, facts', ops')
    BY <1>1, <2>2 DEF Resume, vars
  <2> QED
    BY <2>1, <2>2, ClaimedMoney, AnswerMoney, FailureMoney DEF MoneyMoves
<1>4. CASE Decide
  <2>1. ASSUME NEW w \in Reviewers, NEW r \in Resolutions, Resolve(w, r)
        PROVE  MoneyMoves(facts, ops, facts', ops')
    <3> DEFINE id == review[w].id
    <3>1. /\ facts \in PaymentFacts /\ ops \in [OpId -> OperationRecord]
          /\ review \in [Reviewers -> Review]
          /\ r \in Resolution /\ r.outcome.state \in TerminalStates
      BY InputsTyped, ResolutionsAreTerminal DEF IndInv, TypeOK
    <3>2. id \in OpId
      BY <2>1, <3>1 DEF Resolve, Review, Optional
    <3>3. /\ CanResolve(facts, ops, id, r) /\ facts' = ResolutionPlan(facts, ops, id, r).facts
          /\ ops' = ResolutionPlan(facts, ops, id, r).ops
      BY <2>1 DEF Resolve, Commit
    <3> HIDE DEF id
    <3> QED
      BY <3>1, <3>2, <3>3, DecisionMoney DEF MoneyMoves
  <2> QED
    BY <1>1, <1>4, <2>1 DEF Decide, ReviewOperation, ReviewFacts
<1>5. CASE UNCHANGED vars
  BY <1>1, <1>5 DEF vars
<1> QED
  BY <1>2, <1>4, <1>5 DEF Next

DistinctSequences(all) ==
  \A x, y \in OpId :
    x # y /\ all[x].type \in MonetaryTypes /\ all[y].type \in MonetaryTypes =>
      all[x].sequence # all[y].sequence

(* Nothing was captured since the last capture was reserved but by it.     *)
LastChargeAdds(g, all) ==
  \A x \in OpId :
    all[x].type = "charge" /\ LastReserved(all, x) =>
      g.captured = all[x].base_captured + SoFar(all[x])

(* The first refund was reserved before anything was returned.             *)
FirstRefundStarts(start, all) ==
  Refunds(all) # {} =>
    \E r \in Refunds(all) :
      /\ all[r].base_refunded = start.refunded
      /\ \A x \in Refunds(all) : all[x].sequence >= all[r].sequence

TotalsAdd(start, g, all) ==
  /\ Summable(all, "charge") /\ Summable(all, "start_refund")
  /\ g.captured = start.captured + SettledTotal(all, "charge")
  /\ g.refunded = start.refunded + SettledTotal(all, "start_refund")

MoneyInv(start, g, all) ==
  /\ AmountsPositive(all) /\ DistinctSequences(all)
  /\ LastChargeAdds(g, all) /\ FirstRefundStarts(start, all) /\ TotalsAdd(start, g, all)

(* What promises alone decide stays decided. *)
LEMMA PromisesKeep ==
  ASSUME NEW start, NEW all, NEW next, SamePromises(all, next),
         AmountsPositive(all), DistinctSequences(all), FirstRefundStarts(start, all)
  PROVE  /\ AmountsPositive(next) /\ DistinctSequences(next) /\ FirstRefundStarts(start, next)
         /\ \A x \in OpId : LastReserved(next, x) <=> LastReserved(all, x)
<1>1. Refunds(next) = Refunds(all) /\ \A x \in Refunds(all) : x \in OpId
  BY DEF Refunds, SamePromises
<1>2. AmountsPositive(next) /\ DistinctSequences(next)
  BY DEF AmountsPositive, DistinctSequences, SamePromises
<1>3. FirstRefundStarts(start, next)
  BY <1>1 DEF FirstRefundStarts, SamePromises
<1>4. \A x \in OpId : LastReserved(next, x) <=> LastReserved(all, x)
  BY DEF LastReserved, SamePromises
<1> QED
  BY <1>2, <1>3, <1>4

(* Nothing that moves money settles. *)
LEMMA StillKeeps ==
  ASSUME NEW start, NEW f, NEW all, NEW g, NEW next, MoneyInv(start, f, all), Still(f, all, g, next)
  PROVE  MoneyInv(start, g, next)
<1>1. /\ SamePromises(all, next) /\ \A x \in OpId : SameSettled(all[x], next[x])
      /\ g.captured = f.captured /\ g.refunded = f.refunded
  BY DEF Still
<1>2. /\ AmountsPositive(next) /\ DistinctSequences(next) /\ FirstRefundStarts(start, next)
      /\ \A x \in OpId : LastReserved(next, x) <=> LastReserved(all, x)
  BY <1>1, PromisesKeep DEF MoneyInv
<1>3. \A type \in MonetaryTypes : SameOnes(all, next, type)
  BY <1>1 DEF SameOnes, SettledOnes, SamePromises, SameSettled
<1>4. TotalsAdd(start, g, next)
  <2>1. SameOnes(all, next, "charge") /\ SameOnes(all, next, "start_refund")
    BY <1>3 DEF MonetaryTypes
  <2> QED
    BY <1>1, <2>1, SameOnesTotal DEF MoneyInv, TotalsAdd
<1>5. LastChargeAdds(g, next)
  <2>1. \A x \in OpId : all[x].type = "charge" => SoFar(next[x]) = SoFar(all[x])
    BY <1>1 DEF SameSettled, SoFar, MonetaryTypes
  <2> QED
    BY <1>1, <1>2, <2>1 DEF MoneyInv, LastChargeAdds, SamePromises
<1> QED
  BY <1>2, <1>4, <1>5 DEF MoneyInv

(* An operation of the other kind settles nothing of this one.             *)
LEMMA OtherKind ==
  ASSUME NEW f, NEW all, NEW g, NEW next, NEW id \in OpId, NEW a,
         Settlement(f, all, g, next, id, a), NEW type \in MonetaryTypes, type # all[id].type
  PROVE  SameOnes(all, next, type)
BY DEF Settlement, SameOnes, SettledOnes, SamePromises, SameSettled

(* A capture settles. *)
LEMMA CaptureAdds ==
  ASSUME NEW start \in PaymentFacts, NEW f \in PaymentFacts, NEW all \in [OpId -> OperationRecord],
         NEW g, NEW next, MoneyInv(start, f, all),
         NEW id \in OpId, NEW a \in Nat, Settlement(f, all, g, next, id, a),
         all[id].type = "charge", SoFar(all[id]) <= a, LastReserved(all, id)
  PROVE  MoneyInv(start, g, next)
<1>1. /\ SamePromises(all, next) /\ \A x \in OpId \ {id} : SameSettled(all[x], next[x])
      /\ next[id].state = "succeeded" /\ next[id].settled = a
      /\ g.captured = Larger(f.captured, all[id].base_captured + a) /\ g.refunded = f.refunded
  BY DEF Settlement
<1>2. /\ AmountsPositive(next) /\ DistinctSequences(next) /\ FirstRefundStarts(start, next)
      /\ \A x \in OpId : LastReserved(next, x) <=> LastReserved(all, x)
  BY <1>1, PromisesKeep DEF MoneyInv
<1>3. /\ Summable(next, "charge") /\ SettledTotal(all, "charge") \in Int /\ SoFar(all[id]) \in Int
      /\ SettledTotal(next, "charge") = SettledTotal(all, "charge") + a - SoFar(all[id])
  BY SettlementTotal DEF MoneyInv, TotalsAdd
<1>4. Summable(next, "start_refund") /\ SettledTotal(next, "start_refund") = SettledTotal(all, "start_refund")
  <2>1. SameOnes(all, next, "start_refund")
    BY OtherKind DEF MonetaryTypes
  <2> QED
    BY <2>1, SameOnesTotal DEF MoneyInv, TotalsAdd
<1>5. f.captured = all[id].base_captured + SoFar(all[id])
  BY DEF MoneyInv, LastChargeAdds
<1>6. f.captured \in Int /\ start.captured \in Int /\ all[id].base_captured \in Int
  BY DEF PaymentFacts, OperationRecord
<1>7. g.captured = all[id].base_captured + a /\ g.captured = f.captured + a - SoFar(all[id])
  BY <1>1, <1>3, <1>5, <1>6 DEF Larger
<1>8. TotalsAdd(start, g, next)
  BY <1>1, <1>3, <1>4, <1>6, <1>7 DEF MoneyInv, TotalsAdd
<1>9. LastChargeAdds(g, next)
  <2> SUFFICES ASSUME NEW x \in OpId, next[x].type = "charge", LastReserved(next, x)
               PROVE  g.captured = next[x].base_captured + SoFar(next[x])
    BY DEF LastChargeAdds
  <2>1. x = id
    <3>1. all[x].type = "charge" /\ LastReserved(all, x)
      BY <1>1, <1>2 DEF SamePromises
    <3>2. all[x].sequence \in Nat /\ all[id].sequence \in Nat
      BY DEF OperationRecord
    <3>3. all[x].sequence = all[id].sequence
      BY <3>1, <3>2 DEF LastReserved
    <3> QED
      BY <3>1, <3>3 DEF MoneyInv, DistinctSequences, MonetaryTypes
  <2> QED
    BY <1>1, <1>7, <2>1 DEF SamePromises, SoFar
<1> QED
  BY <1>2, <1>8, <1>9 DEF MoneyInv

(* A refund settles: the first one's bound is the new total, and no other  *)
(* bound is greater.                                                       *)
LEMMA RefundAdds ==
  ASSUME NEW start \in PaymentFacts, NEW f \in PaymentFacts, ValidAmounts(f),
         NEW all \in [OpId -> OperationRecord], NEW g, NEW next \in [OpId -> OperationRecord],
         MoneyInv(start, f, all), CountsRefunds(f, all),
         NEW id \in OpId, NEW a \in Nat, Settlement(f, all, g, next, id, a),
         all[id].type = "start_refund", SoFar(all[id]) <= a
  PROVE  MoneyInv(start, g, next)
<1>1. /\ SamePromises(all, next) /\ \A x \in OpId \ {id} : SameSettled(all[x], next[x])
      /\ next[id].state = "succeeded" /\ next[id].settled = a
      /\ g.captured = f.captured
  BY DEF Settlement
<1>2. /\ AmountsPositive(next) /\ DistinctSequences(next) /\ FirstRefundStarts(start, next)
      /\ \A x \in OpId : LastReserved(next, x) <=> LastReserved(all, x)
  BY <1>1, PromisesKeep DEF MoneyInv
<1>3. /\ Summable(next, "start_refund") /\ SettledTotal(all, "start_refund") \in Int
      /\ SoFar(all[id]) \in Int
      /\ SettledTotal(next, "start_refund") = SettledTotal(all, "start_refund") + a - SoFar(all[id])
  BY SettlementTotal DEF MoneyInv, TotalsAdd
<1>4. Summable(next, "charge") /\ SettledTotal(next, "charge") = SettledTotal(all, "charge")
  <2>1. SameOnes(all, next, "charge")
    BY OtherKind DEF MonetaryTypes
  <2> QED
    BY <2>1, SameOnesTotal DEF MoneyInv, TotalsAdd
<1>5. f.refunded \in Int /\ start.refunded \in Int /\ f.refunded >= 0
  BY DEF PaymentFacts, ValidAmounts
<1> DEFINE sum == f.refunded + a - SoFar(all[id])
<1>6. sum \in Int /\ sum = start.refunded + SettledTotal(next, "start_refund") /\ sum >= f.refunded
  BY <1>3, <1>5 DEF MoneyInv, TotalsAdd
<1>7. PICK t \in Int : GreatestBound(next, t) /\ g.refunded = Larger(f.refunded, t)
  BY DEF Settlement
<1>8. PICK r \in Refunds(next) : /\ next[r].base_refunded = start.refunded
                                  /\ \A x \in Refunds(next) : next[x].sequence >= next[r].sequence
  <2>1. id \in Refunds(next)
    BY <1>1 DEF Refunds, SamePromises
  <2> QED
    BY <1>2, <2>1 DEF FirstRefundStarts
<1>9. RefundBound(next, r) = sum
  BY <1>3, <1>6, <1>8, FirstBound
<1> HIDE DEF sum
<1>10. sum <= t
  BY <1>6, <1>7, <1>9 DEF GreatestBound
<1>11. t <= sum
  <2>1. CASE t = 0
    BY <1>5, <1>6, <2>1
  <2>2. ASSUME NEW x \in Refunds(next), RefundBound(next, x) = t PROVE t <= sum
    <3>1. x \in OpId /\ x \in Refunds(all)
      BY <1>1 DEF Refunds, SamePromises
    <3>2. RefundBound(next, x) <= RefundBound(all, x) + a - SoFar(all[id])
      BY <3>1, SettlementBounds DEF CountsRefunds
    <3>3. RefundBound(all, x) \in Int
      BY <3>1, BoundsAreIntegers DEF CountsRefunds
    <3>4. RefundBound(all, x) <= f.refunded
      BY <1>5, <3>1, <3>3 DEF CountsRefunds
    <3> QED
      BY <1>3, <1>5, <2>2, <3>2, <3>3, <3>4 DEF sum
  <2> QED
    BY <1>7, <2>1, <2>2 DEF GreatestBound
<1>12. g.refunded = sum
  BY <1>5, <1>6, <1>7, <1>10, <1>11 DEF Larger
<1>13. TotalsAdd(start, g, next)
  BY <1>1, <1>3, <1>4, <1>6, <1>12 DEF MoneyInv, TotalsAdd
<1>14. LastChargeAdds(g, next)
  <2>1. \A x \in OpId : all[x].type = "charge" => SoFar(next[x]) = SoFar(all[x])
    BY <1>1 DEF SameSettled, SoFar, MonetaryTypes
  <2> QED
    BY <1>1, <1>2, <2>1 DEF MoneyInv, LastChargeAdds, SamePromises
<1> QED
  BY <1>2, <1>13, <1>14 DEF MoneyInv

(* What is reserved is an amount. *)
LEMMA ReservedAmounts ==
  ASSUME IndInv, AmountsPositive(ops), NEW i \in Intents, Reserve(i)
  PROVE  AmountsPositive(ops')
<1>1. /\ CanReserve(facts, ops, i) /\ \A x \in OpId \ {i.id} : ops'[x] = ops[x]
      /\ ops'[i.id].type = i.type /\ ops'[i.id].amount = ResolvedAmount(facts, i)
  BY ReservationHistory
<1>2. i.type \in MonetaryTypes => ResolvedAmount(facts, i) \in Nat
  <2>1. facts \in PaymentFacts
    BY DEF IndInv, TypeOK
  <2>2. i.type \in MonetaryTypes => ResolvedAmount(facts, i) \in 1 .. AvailableAmount(facts, i.type)
    BY <1>1 DEF CanReserve, CanResolveAmount
  <2>3. i.type \in MonetaryTypes => AvailableAmount(facts, i.type) \in Int
    BY <2>1 DEF MonetaryTypes, AvailableAmount, CapturableAmount, Smaller, RefundableAmount, PaymentFacts
  <2> QED
    BY <2>2, <2>3
<1> QED
  BY <1>1, <1>2 DEF AmountsPositive

(* A reservation starts from the totals as they are. *)
LEMMA ReservationAdds ==
  ASSUME NEW start \in PaymentFacts, IndInv, FreeIsEmpty, MoneyInv(start, facts, ops),
         NEW i \in Intents, Reserve(i)
  PROVE  MoneyInv(start, facts', ops')
<1> DEFINE n == i.id
<1>1. /\ i \in Intent /\ CanReserve(facts, ops, i) /\ n \in OpId /\ ops[n].state = "absent"
      /\ \A x \in OpId \ {n} : ops'[x] = ops[x]
      /\ ops'[n].state = "reserved" /\ ops'[n].type = i.type
      /\ ops'[n].amount = ResolvedAmount(facts, i)
      /\ ops'[n].base_captured = facts.captured /\ ops'[n].base_refunded = facts.refunded
      /\ ops'[n].sequence = NextSequence(ops)
  BY ReservationHistory
<1>2. /\ facts'.captured = facts.captured /\ facts'.refunded = facts.refunded
      /\ facts.captured \in Int /\ facts.refunded \in Int
      /\ start.captured \in Int /\ start.refunded \in Int
  BY ReservationHistory DEF IndInv, TypeOK, PaymentFacts
<1>3. /\ ops \in [OpId -> OperationRecord] /\ \A x \in OpId : ops[x].sequence \in Nat
      /\ NextSequence(ops) \in Nat /\ \A x \in OpId : ops[x].sequence < NextSequence(ops)
  BY NextSequenceAbove DEF IndInv, TypeOK, OperationRecord
<1>4. ops[n].type \notin MonetaryTypes
  <2>1. ops[n].type = None
    BY <1>1 DEF FreeIsEmpty, Absent
  <2> QED
    BY <2>1, NoneIsNoType DEF OperationType, MonetaryTypes
<1> HIDE DEF n
<1>6. AmountsPositive(ops')
  BY ReservedAmounts DEF MoneyInv
<1>7. DistinctSequences(ops')
  <2>1. \A x \in OpId \ {n} : ops[x].sequence # NextSequence(ops)
    BY <1>3
  <2> QED
    BY <1>1, <2>1 DEF MoneyInv, DistinctSequences
<1>8. \A type \in MonetaryTypes : SameOnes(ops, ops', type)
  BY <1>1 DEF SameOnes, SettledOnes
<1>9. TotalsAdd(start, facts', ops')
  <2>1. SameOnes(ops, ops', "charge") /\ SameOnes(ops, ops', "start_refund")
    BY <1>8 DEF MonetaryTypes
  <2> QED
    BY <1>2, <2>1, SameOnesTotal DEF MoneyInv, TotalsAdd
<1>10. LastChargeAdds(facts', ops')
  <2> SUFFICES ASSUME NEW x \in OpId, LastReserved(ops', x)
               PROVE  facts'.captured = ops'[x].base_captured + SoFar(ops'[x])
    BY DEF LastChargeAdds
  <2>1. x = n
    <3>1. ops'[n].sequence <= ops'[x].sequence
      BY <1>1 DEF LastReserved
    <3> QED
      BY <1>1, <1>3, <3>1
  <2> QED
    BY <1>1, <1>2, <2>1 DEF SoFar
<1>11. FirstRefundStarts(start, ops')
  <2>1. Refunds(ops') \subseteq Refunds(ops) \cup {n} /\ n \notin Refunds(ops)
        /\ Refunds(ops) \subseteq Refunds(ops') /\ Refunds(ops) \subseteq OpId
    BY <1>1, <1>4 DEF Refunds, MonetaryTypes
  <2>2. CASE Refunds(ops) = {}
    <3>1. SettledOnes(ops, "start_refund") = {}
      BY <2>2 DEF SettledOnes, Refunds
    <3>2. SettledTotal(ops, "start_refund") = 0
      BY <3>1, SumEmpty DEF SettledTotal
    <3>3. facts.refunded = start.refunded
      BY <1>2, <3>2 DEF MoneyInv, TotalsAdd
    <3>4. \A x \in Refunds(ops') : x = n
      BY <2>1, <2>2
    <3> QED
      BY <1>1, <1>3, <3>3, <3>4 DEF FirstRefundStarts
  <2>3. CASE Refunds(ops) # {}
    <3>1. PICK r \in Refunds(ops) : /\ ops[r].base_refunded = start.refunded
                                    /\ \A x \in Refunds(ops) : ops[x].sequence >= ops[r].sequence
      BY <2>3 DEF MoneyInv, FirstRefundStarts
    <3>2. r \in OpId \ {n} /\ ops'[r] = ops[r] /\ r \in Refunds(ops')
      BY <1>1, <2>1
    <3>3. \A x \in Refunds(ops') : ops'[x].sequence >= ops'[r].sequence
      <4>1. NextSequence(ops) >= ops[r].sequence
        BY <1>3, <3>2
      <4>2. ASSUME NEW x \in Refunds(ops'), x # n PROVE x \in Refunds(ops) /\ ops'[x] = ops[x]
        BY <1>1, <2>1, <4>2
      <4> QED
        BY <1>1, <3>1, <3>2, <4>1, <4>2
    <3> QED
      BY <3>1, <3>2, <3>3 DEF FirstRefundStarts
  <2> QED
    BY <2>2, <2>3
<1> QED
  BY <1>6, <1>7, <1>9, <1>10, <1>11 DEF MoneyInv

LEMMA MoneyInd ==
  ASSUME Observations = {}, NEW start \in PaymentFacts, IndInv, CountedInv,
         CountsRefunds(facts, ops), MoneyInv(start, facts, ops), [Next]_vars
  PROVE  MoneyInv(start, facts', ops')
<1>1. CASE \E i \in Intents : Reserve(i)
  BY <1>1, ReservationAdds DEF CountedInv
<1>2. CASE ~\E i \in Intents : Reserve(i)
  <2>1. MoneyMoves(facts, ops, facts', ops')
    <3>1. ~Notice
      BY DEF Notice
    <3> QED
      BY <1>2, <3>1, StepMoney DEF CountsRefunds, MoneyInv
  <2>2. ASSUME NEW id \in OpId, NEW a \in Nat, Settles1(facts, ops, facts', ops', id, a)
        PROVE  MoneyInv(start, facts', ops')
    <3>1. /\ facts \in PaymentFacts /\ ValidAmounts(facts) /\ ops \in [OpId -> OperationRecord]
      BY DEF IndInv, TypeOK, FundsBounded
    <3>2. ops' \in [OpId -> OperationRecord]
      BY NextIndInv DEF IndInv, TypeOK
    <3>3. Settlement(facts, ops, facts', ops', id, a) /\ SoFar(ops[id]) <= a
      BY <2>2 DEF Settles1, SoFar
    <3>4. ops[id].type = "charge" => LastReserved(ops, id)
      BY <2>2 DEF Settles1, CountedInv, OpenChargeIsLast, LastReserved
    <3>5. ops[id].type \in {"charge", "start_refund"}
      BY <3>3 DEF Settlement, MonetaryTypes
    <3> QED
      BY <3>1, <3>2, <3>3, <3>4, <3>5, CaptureAdds, RefundAdds
  <2> QED
    BY <2>1, <2>2, StillKeeps DEF MoneyMoves
<1> QED
  BY <1>1, <1>2

(* While providers speak only when asked, no money is counted twice and    *)
(* none is lost: the totals are those the payment was opened with plus     *)
(* what its operations settled, however late or repeated the answers, and  *)
(* whatever an operator decided.                                           *)
THEOREM TotalsAreExact ==
  ASSUME Observations = {}
  PROVE  Spec => []MoneyIsCountedOnce
<1> DEFINE Inv == /\ CountedInv /\ CountsRefunds(facts, ops)
                  /\ \E start \in InitialFacts : MoneyInv(start, facts, ops)
<1>0. InitialFacts \subseteq PaymentFacts
  BY PaymentsOpenValid
<1>1. Init => CountedInv /\ CountsRefunds(facts, ops)
  BY InitCounted, InitRefunds
<1>2. Init => \E start \in InitialFacts : MoneyInv(start, facts, ops)
  <2> SUFFICES ASSUME Init PROVE MoneyInv(facts, facts, ops)
    BY DEF Init
  <2>1. \A x \in OpId : ops[x].type \notin MonetaryTypes /\ ops[x].state = "absent"
    BY NoneIsNoType DEF Init, Absent, OperationType, MonetaryTypes
  <2>2. /\ SettledOnes(ops, "charge") = {} /\ SettledOnes(ops, "start_refund") = {}
        /\ Refunds(ops) = {}
    BY <2>1 DEF SettledOnes, Refunds, MonetaryTypes
  <2>3. SettledTotal(ops, "charge") = 0 /\ SettledTotal(ops, "start_refund") = 0
    BY <2>2, SumEmpty DEF SettledTotal
  <2>4. facts.captured \in Int /\ facts.refunded \in Int
    BY <1>0 DEF Init, PaymentFacts
  <2>5. TotalsAdd(facts, facts, ops)
    BY <2>2, <2>3, <2>4, FS_EmptySet DEF TotalsAdd, Summable
  <2> QED
    BY <2>1, <2>2, <2>5
    DEF MoneyInv, AmountsPositive, DistinctSequences, LastChargeAdds, FirstRefundStarts, MonetaryTypes
<1>3. IndInv /\ Inv /\ [Next]_vars => Inv'
  <2> SUFFICES ASSUME IndInv, Inv, [Next]_vars PROVE Inv'
    OBVIOUS
  <2>1. CountedInv' /\ CountsRefunds(facts', ops')
    BY CountedStays, RefundsCountedInd
  <2>2. PICK start \in InitialFacts : MoneyInv(start, facts, ops)
    OBVIOUS
  <2>3. MoneyInv(start, facts', ops')
    BY <1>0, <2>2, MoneyInd
  <2> QED
    BY <2>1, <2>3
<1>4. Inv => MoneyIsCountedOnce
  <2>1. \A type : SettledTotal(ops, type) = SettledSum(type)
    BY DEF SettledTotal, SettledSum, SettledOnes
  <2> QED
    BY <2>1 DEF MoneyInv, TotalsAdd, MoneyIsCountedOnce
<1> HIDE DEF Inv
<1> QED
  BY <1>1, <1>2, <1>3, <1>4, InductiveInvariant, PTL DEF Spec, Inv

-----------------------------------------------------------------------------
(* Fresh evidence *)

(* Only what was confirmed has a settled amount. *)
SettledMeansDone(all) == \A x \in OpId : all[x].settled # None => all[x].state = "succeeded"

LEMMA ClaimedDone ==
  ASSUME IndInv, SettledMeansDone(ops), AmountsPositive(ops), ClaimedNow
  PROVE  SettledMeansDone(ops') /\ AmountsPositive(ops')
<1>1. ops \in [OpId -> OperationRecord]
  BY DEF IndInv, TypeOK
<1>2. PICK id \in OpId, expected \in 0 .. MaxAttempts, now \in Times :
        \E retry_until \in Optional(Deadlines), scope \in Optional(Scopes) :
          Claim(id, expected, now, retry_until, scope)
  BY DEF ClaimedNow
<1>3. PICK retry_until \in Optional(Deadlines), scope \in Optional(Scopes) :
        Claim(id, expected, now, retry_until, scope)
  BY <1>2
<1> DEFINE p == ops[id]
           q == Submission(p, now, retry_until, scope)
<1>4. CanSubmit(facts, p, expected, now) /\ ops' = [ops EXCEPT ![id] = q] /\ p \in OperationRecord
  BY <1>1, <1>3 DEF Claim
<1> HIDE DEF p
<1>5. Active(p) /\ q.settled = p.settled /\ q.type = p.type /\ q.amount = p.amount
  BY <1>4, ClaimHistory
<1>6. p.state # "succeeded"
  BY <1>5 DEF Active, ActiveStates
<1>7. q.settled = None
  BY <1>5, <1>6 DEF SettledMeansDone, p
<1> HIDE DEF q
<1>8. \A x \in OpId : ops'[x] = IF x = id THEN q ELSE ops[x]
  BY <1>1, <1>4
<1> QED
  BY <1>5, <1>7, <1>8 DEF SettledMeansDone, AmountsPositive, p

LEMMA DoneStays ==
  ASSUME IndInv, SettledMeansDone(ops), AmountsPositive(ops), [Next]_vars
  PROVE  SettledMeansDone(ops') /\ AmountsPositive(ops')
<1>1. CASE \E i \in Intents : Reserve(i)
  <2>1. PICK i \in Intents : Reserve(i)
    BY <1>1
  <2>2. /\ \A x \in OpId \ {i.id} : ops'[x] = ops[x]
        /\ ops'[i.id].settled = None
    BY <2>1, ReservationHistory
  <2> QED
    BY <2>1, <2>2, ReservedAmounts DEF SettledMeansDone
<1>2. CASE Answered
  <2>1. \A x \in OpId : Evolves(ops[x], ops'[x])
    BY <1>2 DEF Answered, HistoryEvolves
  <2> QED
    BY <2>1 DEF Evolves, Kept, Promised, SettledMeansDone, AmountsPositive
<1>3. ASSUME NEW id \in OpId, NEW r \in Resolutions, DecidedBy(id, r)
      PROVE  SettledMeansDone(ops') /\ AmountsPositive(ops')
  <2>1. /\ \A x \in OpId \ {id} : Evolves(ops[x], ops'[x])
        /\ Kept(ops[id], ops'[id])
        /\ ops[id].state = "succeeded" => ops'[id].state = "succeeded"
        /\ ops'[id].settled # ops[id].settled => ops'[id].state = "succeeded"
    BY <1>3 DEF DecidedBy, Decided
  <2>2. \A x \in OpId : Kept(ops[x], ops'[x])
    BY <2>1 DEF Evolves
  <2>3. AmountsPositive(ops')
    BY <2>2 DEF Kept, Promised, AmountsPositive
  <2> QED
    BY <2>1, <2>3 DEF Evolves, SettledMeansDone
<1> QED
  BY <1>1, <1>2, <1>3, ClaimedDone, StepHistory

(* What is settled again as it was changes no total: it was counted.       *)
LEMMA CountedAlready ==
  ASSUME IndInv, SettlementsCounted, CountsRefunds(facts, ops), SettledMeansDone(ops),
         NEW g, NEW next, NEW id \in OpId, NEW a \in Nat, Settles1(facts, ops, g, next, id, a),
         next[id].settled = ops[id].settled
  PROVE  g.captured = facts.captured /\ g.refunded = facts.refunded
<1>1. /\ Settlement(facts, ops, g, next, id, a) /\ ops[id].settled = a
      /\ ops[id].type \in {"charge", "start_refund"}
  BY DEF Settles1, Settlement, MonetaryTypes
<1>2. ops[id].state = "succeeded" /\ SoFar(ops[id]) = a
  BY <1>1, NoneIsNoValue DEF SettledMeansDone, SoFar
<1>3. /\ ops \in [OpId -> OperationRecord] /\ facts.captured \in Int /\ facts.refunded \in Int
      /\ facts.refunded >= 0
  BY DEF IndInv, TypeOK, FundsBounded, ValidAmounts, PaymentFacts
<1>4. CASE ops[id].type = "charge"
  <2>1. facts.captured >= ops[id].base_captured + a /\ ops[id].base_captured \in Int
    BY <1>1, <1>2, <1>3, <1>4 DEF SettlementsCounted, OperationRecord
  <2> QED
    BY <1>1, <1>3, <1>4, <2>1 DEF Settlement, Larger
<1>5. CASE ops[id].type = "start_refund"
  <2>1. PICK t \in Int : GreatestBound(next, t) /\ g.refunded = Larger(facts.refunded, t)
    BY <1>1, <1>5 DEF Settlement
  <2>2. t <= facts.refunded
    <3>1. ASSUME NEW x \in Refunds(next), RefundBound(next, x) = t PROVE t <= facts.refunded
      <4>1. x \in OpId /\ x \in Refunds(ops)
        BY <1>1 DEF Refunds, Settlement, SamePromises
      <4>2. RefundBound(next, x) <= RefundBound(ops, x) + a - SoFar(ops[id])
        BY <1>1, <1>2, <1>3, <1>5, <4>1, SettlementBounds DEF CountsRefunds
      <4>3. RefundBound(ops, x) \in Int /\ RefundBound(ops, x) <= facts.refunded
        BY <1>3, <4>1, BoundsAreIntegers DEF CountsRefunds
      <4> QED
        BY <1>2, <1>3, <3>1, <4>2, <4>3
    <3> QED
      BY <1>3, <2>1, <3>1 DEF GreatestBound
  <2> QED
    BY <1>1, <1>3, <1>5, <2>1, <2>2 DEF Settlement, Larger
<1> QED
  BY <1>1, <1>4, <1>5

FreshInv ==
  /\ CountedInv /\ CountsRefunds(facts, ops)
  /\ SettledMeansDone(ops) /\ AmountsPositive(ops)

LEMMA StepIsFresh ==
  ASSUME EvidenceIsTagged, IndInv, FreshInv, [Next]_vars
  PROVE  facts'.captured # facts.captured \/ facts'.refunded # facts.refunded =>
           \/ replay' # replay
           \/ \E id \in OpId : ops'[id].settled # ops[id].settled
<1>1. CASE \E i \in Intents : Reserve(i)
  <2>1. facts'.captured = facts.captured /\ facts'.refunded = facts.refunded
    BY <1>1, ReservationHistory DEF IndInv, TypeOK, PaymentFacts
  <2> QED
    BY <2>1
<1>2. ASSUME NEW u \in Observations, ObserveAgain(u) \/ ObserveImpossible(u)
      PROVE  facts'.captured = facts.captured /\ facts'.refunded = facts.refunded
  BY <1>2 DEF ObserveAgain, ObserveImpossible, Retained, IndInv, TypeOK, PaymentFacts
<1>3. ASSUME NEW u \in Observations, Observe(u)
      PROVE  replay' # replay
  <2>1. u # None /\ u.event_id # None /\ u.event_id \in EventId
    BY InputsTyped DEF EvidenceIsTagged, Observation, Optional
  <2>2. replay[u.event_id] = None /\ replay' = [replay EXCEPT ![u.event_id] = u]
    BY <1>3, <2>1 DEF Observe, Replayed
  <2>3. replay \in [EventId -> Optional(Observation)]
    BY DEF IndInv, TypeOK
  <2>4. replay'[u.event_id] = u
    BY <2>1, <2>2, <2>3
  <2> QED
    BY <2>1, <2>2, <2>4
<1>4. CASE Notice
  BY <1>2, <1>3, <1>4 DEF Notice
<1>5. CASE ~Notice /\ ~\E i \in Intents : Reserve(i)
  <2>1. MoneyMoves(facts, ops, facts', ops')
    BY <1>5, StepMoney DEF FreshInv, CountsRefunds
  <2>2. CASE Still(facts, ops, facts', ops')
    BY <2>2 DEF Still
  <2>3. ASSUME NEW id \in OpId, NEW a \in Nat, Settles1(facts, ops, facts', ops', id, a),
               ops'[id].settled = ops[id].settled
        PROVE  facts'.captured = facts.captured /\ facts'.refunded = facts.refunded
    BY <2>3, CountedAlready DEF FreshInv, CountedInv
  <2> QED
    BY <2>1, <2>2, <2>3 DEF MoneyMoves
<1> QED
  BY <1>1, <1>4, <1>5

LEMMA FreshHolds == Spec => []FreshInv
<1>1. Init => FreshInv
  <2>1. Init => SettledMeansDone(ops) /\ AmountsPositive(ops)
    BY NoneIsNoType DEF Init, Absent, SettledMeansDone, AmountsPositive, OperationType, MonetaryTypes
  <2> QED
    BY <2>1, InitCounted, InitRefunds DEF FreshInv
<1>2. IndInv /\ FreshInv /\ [Next]_vars => FreshInv'
  BY CountedStays, RefundsCountedInd, DoneStays DEF FreshInv
<1> QED
  BY <1>1, <1>2, InductiveInvariant, PTL DEF Spec

(* No total moves twice on the same evidence: it takes a callback seen for *)
(* the first time, or an operation that records its settlement in the same *)
(* commit, also when an operator decides.                                  *)
THEOREM EvidenceIsFresh ==
  ASSUME EvidenceIsTagged
  PROVE  Spec => MoneyNeedsFreshEvidence
<1>1. IndInv /\ FreshInv /\ [Next]_vars =>
        [facts'.captured # facts.captured \/ facts'.refunded # facts.refunded =>
           \/ replay' # replay
           \/ \E id \in OpId : ops'[id].settled # ops[id].settled]_vars
  BY StepIsFresh
<1> QED
  BY <1>1, FreshHolds, InductiveInvariant, PTL DEF Spec, MoneyNeedsFreshEvidence

=============================================================================
