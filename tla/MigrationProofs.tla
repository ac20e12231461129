--------------------------- MODULE MigrationProofs ----------------------------
(***************************************************************************)
(* The released flow and the cutover proved: rows and tasks keep their     *)
(* types, whatever the tasks overwrite; no total says more than the        *)
(* provider moved; while nothing went wrong, moved money is on its way     *)
(* into the books; and a payment found unsettled stays closed.             *)
(*                                                                         *)
(* Tasks share nothing but the row, and what each carries is a snapshot    *)
(* of it: it is enough that every snapshot is sound and every update       *)
(* justified by what the provider did, because both stay so.               *)
(***************************************************************************)
EXTENDS Migration, PaymentFactsProofs

-----------------------------------------------------------------------------
(* The state engine on a stored payment *)

(* One update changes the totals it names and leaves the rest of the       *)
(* record as declared.                                                     *)
Turns(p, q, captured, refunded) ==
  /\ q \in Row /\ ValidAmounts(q)
  /\ q.required = p.required /\ q.remembered = p.remembered
  /\ q.captured = captured /\ q.refunded = refunded

LEMMA RowStatus ==
  ASSUME NEW p \in Row, NEW a \in BOOLEAN, NEW b \in BOOLEAN
  PROVE  ProjectedStatus(p, a, b) \in PaymentStatus
<1>1. p.status \in PaymentStatus /\ p.refunded \in Nat /\ p.captured \in Nat
  BY DEF Row
<1> QED
  BY <1>1 DEF ProjectedStatus, PaymentStatus

LEMMA RowRestated ==
  ASSUME NEW p \in Row, ValidAmounts(p), NEW s \in PaymentStatus
  PROVE  Turns(p, [p EXCEPT !.status = s], p.captured, p.refunded)
BY DEF Turns, Row, ValidAmounts

LEMMA RowProjected ==
  ASSUME NEW p \in Row, ValidAmounts(p), NEW a \in BOOLEAN, NEW b \in BOOLEAN
  PROVE  Turns(p, Projected(p, a, b), p.captured, p.refunded)
BY RowStatus, RowRestated DEF Projected

LEMMA RowCaptured ==
  ASSUME NEW p \in Row, ValidAmounts(p), NEW paid \in Nat, paid <= p.required
  PROVE  Turns(p, WithPaid(p, paid), Larger(p.captured, paid), p.refunded)
<1> DEFINE c == Larger(p.captured, paid)
           h == Larger(0, p.hold - (c - p.captured))
<1>1. p.required \in Nat /\ p.captured \in Nat /\ p.hold \in Nat /\ p.refunded \in Nat
  BY DEF Row
<1>2. c \in Nat /\ p.captured <= c /\ c <= p.required
  BY <1>1 DEF ValidAmounts, Larger
<1>3. h \in Nat /\ h <= p.required - c
  BY <1>1, <1>2 DEF ValidAmounts, Larger
<1>4. WithPaid(p, paid) = [p EXCEPT !.captured = c, !.hold = h]
  BY DEF WithPaid
<1> HIDE DEF c, h
<1>5. [p EXCEPT !.captured = c, !.hold = h] \in Row
  BY <1>2, <1>3 DEF Row
<1> QED
  BY <1>1, <1>2, <1>3, <1>4, <1>5 DEF Turns, ValidAmounts, Row, c

(* Whatever event of an update the engine accepts. *)
LEMMA RowEvent ==
  ASSUME NEW p \in Row, NEW u \in Update,
         ValidUpdateAmounts(p, u), CanApplyEvent(p, u)
  PROVE  Turns(p, AfterEvent(p, u),
               IF u.event = "payment_captured" THEN Larger(p.captured, u.paid) ELSE p.captured,
               IF u.event = "refund_confirmed" THEN Larger(p.refunded, u.refunded) ELSE p.refunded)
<1>1. /\ ValidAmounts(p) /\ u.event \in Optional(PaymentEvent)
      /\ p.required \in Nat /\ p.captured \in Nat /\ p.hold \in Nat /\ p.refunded \in Nat
      /\ None \notin {"locked", "payment_captured", "refund_confirmed"}
  BY NoneIsNoValue DEF ValidUpdateAmounts, Update, Row, PaymentEvent
<1>2. Turns(p, p, p.captured, p.refunded)
  BY <1>1 DEF Turns
<1>3. HasUnresolvedRefund(p) \in BOOLEAN
  BY DEF HasUnresolvedRefund
<1>4. {"prepared", "charge_started", "failed", "refund_started", "pre-auth"} \subseteq PaymentStatus
  BY DEF PaymentStatus
<1>5. CASE u.event \in {"prepared", "charge_requested", "failed", "refund_requested"}
  BY <1>1, <1>2, <1>4, <1>5, RowRestated DEF AfterEvent
<1>6. CASE u.event = "locked"
  <2> DEFINE q == WithLocked(p, u.locked)
  <2>1. u.locked \in 1 .. (p.required - p.captured)
    BY <1>1, <1>6 DEF ValidUpdateAmounts, CanApplyEvent
  <2>2. Turns(p, q, p.captured, p.refunded)
    BY <1>1, <2>1 DEF Turns, WithLocked, Larger, Row, ValidAmounts
  <2> HIDE DEF q
  <2>3. Turns(q, [q EXCEPT !.status = "pre-auth"], q.captured, q.refunded)
    BY <1>4, <2>2, RowRestated DEF Turns
  <2>4. AfterEvent(p, u) = [q EXCEPT !.status = "pre-auth"]
    BY <1>6 DEF AfterEvent, q
  <2> QED
    BY <1>6, <2>2, <2>3, <2>4 DEF Turns
<1>7. CASE u.event = "payment_captured"
  <2> DEFINE q == WithPaid(p, u.paid)
             r == Projected(q, HasUnresolvedRefund(p), FALSE)
  <2>1. u.paid \in Nat /\ u.paid <= p.required
    BY <1>1, <1>7 DEF ValidUpdateAmounts, CanApplyEvent
  <2>2. Turns(p, q, Larger(p.captured, u.paid), p.refunded)
    BY <1>1, <2>1, RowCaptured
  <2> HIDE DEF q
  <2>3. Turns(q, r, q.captured, q.refunded)
    BY <1>3, <2>2, RowProjected DEF Turns
  <2>4. AfterEvent(p, u) = r
    BY <1>7 DEF AfterEvent, q
  <2> QED
    BY <1>7, <2>2, <2>3, <2>4 DEF Turns
<1>8. CASE u.event = "refund_confirmed"
  <2> DEFINE q == WithRefunded(p, u.refunded)
             r == Projected(q, FALSE, FALSE)
  <2>1. u.refunded \in 0 .. p.captured
    BY <1>1, <1>8 DEF ValidUpdateAmounts, CanApplyEvent
  <2>2. Turns(p, q, p.captured, Larger(p.refunded, u.refunded))
    BY <1>1, <2>1 DEF Turns, WithRefunded, Larger, Row, ValidAmounts
  <2> HIDE DEF q
  <2>3. Turns(q, r, q.captured, q.refunded)
    BY <2>2, RowProjected DEF Turns
  <2>4. AfterEvent(p, u) = r
    BY <1>8 DEF AfterEvent, q
  <2> QED
    BY <1>8, <2>2, <2>3, <2>4 DEF Turns
<1>9. CASE u.event = "refund_cancelled"
  BY <1>1, <1>9, RowProjected DEF AfterEvent
<1>10. CASE u.event = "lock_released"
  <2> DEFINE q == [p EXCEPT !.hold = 0]
             r == Projected(q, HasUnresolvedRefund(p), TRUE)
  <2>1. Turns(p, q, p.captured, p.refunded)
    BY <1>1 DEF Turns, Row, ValidAmounts
  <2> HIDE DEF q
  <2>2. Turns(q, r, q.captured, q.refunded)
    BY <1>3, <2>1, RowProjected DEF Turns
  <2>3. AfterEvent(p, u) = r
    BY <1>10 DEF AfterEvent, q
  <2> QED
    BY <1>10, <2>1, <2>2, <2>3 DEF Turns
<1>11. CASE u.event \notin PaymentEvent
  BY <1>2, <1>11 DEF AfterEvent, PaymentEvent
<1> QED
  BY <1>1, <1>5, <1>6, <1>7, <1>8, <1>9, <1>10, <1>11 DEF PaymentEvent

LEMMA RowUpdated ==
  ASSUME NEW p \in Row, NEW u \in Update, CanApplyUpdate(p, u)
  PROVE  Turns(p, AfterUpdate(p, u),
               IF u.event = "payment_captured" THEN Larger(p.captured, u.paid) ELSE p.captured,
               IF u.event = "refund_confirmed" THEN Larger(p.refunded, u.refunded) ELSE p.refunded)
<1> DEFINE q == WithExternal(p, u.external)
<1>1. u.external \in Optional(ExternalIds) /\ u.fraud_event = None
  BY DEF Update
<1>2. /\ q \in Row /\ q.required = p.required /\ q.captured = p.captured /\ q.hold = p.hold
      /\ q.refunded = p.refunded /\ q.status = p.status /\ q.remembered = p.remembered
  BY <1>1 DEF WithExternal, Row, Optional
<1>3. ValidUpdateAmounts(q, u) /\ CanApplyEvent(q, u)
  BY <1>2 DEF CanApplyUpdate, ValidUpdateAmounts, ValidAmounts, CanApplyEvent,
              CaptureRecordable, HasUnresolvedRefund, RefundableAmount
<1>4. AfterUpdate(p, u) = AfterEvent(q, u)
  BY <1>1 DEF AfterUpdate, AfterFraud
<1> HIDE DEF q
<1> QED
  BY <1>2, <1>3, <1>4, RowEvent DEF Turns

-----------------------------------------------------------------------------
(* Snapshots and the updates that are applied to them *)

(* A snapshot of a payment of the required amount, which prov executes.    *)
Snapshot(p, prov, required) ==
  /\ p \in Row /\ p.required = required
  /\ ValidAmounts(p) \/ \E opening \in Openings : p = opening.row
  /\ p.captured <= prov.captured /\ p.refunded <= prov.refunded
  /\ Booked(p)

(* An update that says no more than what was moved, under a name that says *)
(* what it says.                                                           *)
Justified(u, prov, required) ==
  /\ u \in Update
  /\ u.event = "payment_captured" => u.paid # None /\ u.paid <= prov.captured
  /\ u.event = "refund_confirmed" => u.refunded # None /\ u.refunded <= prov.refunded
  /\ u.event_id # None =>
       \A total \in 0 .. required :
         /\ u.event_id = EventName("payment", total) =>
              u.event = "payment_captured" /\ u.paid = total
         /\ u.event_id = EventName("refund", total) =>
              u.event = "refund_confirmed" /\ u.refunded = total

LEMMA AppliedIsSound ==
  ASSUME NEW prov, NEW required \in Nat, Funds(prov, required),
         NEW p, Snapshot(p, prov, required),
         NEW u, u = None \/ Justified(u, prov, required), CanApply(p, u)
  PROVE  LET q == Applied(p, u)
         IN  /\ Snapshot(q, prov, required)
             /\ p.captured <= q.captured /\ p.refunded <= q.refunded
             /\ Fresh(p, u) /\ u.event = "payment_captured" => u.paid <= q.captured
<1>1. /\ p \in Row /\ p.captured \in Nat /\ p.refunded \in Nat /\ p.required = required
      /\ p.remembered \in SUBSET EventId
  BY DEF Snapshot, Row
<1>2. CASE ~Fresh(p, u)
  BY <1>1, <1>2 DEF Applied
<1>3. CASE Fresh(p, u)
  <2> DEFINE r == AfterUpdate(p, u)
             names == r.remembered \cup ({u.event_id} \ {None})
             q == [r EXCEPT !.remembered = names]
  <2>1. Justified(u, prov, required) /\ u \in Update /\ CanApplyUpdate(p, u)
    BY <1>3 DEF Fresh, CanApply, Justified
  <2>2. Turns(p, r,
              IF u.event = "payment_captured" THEN Larger(p.captured, u.paid) ELSE p.captured,
              IF u.event = "refund_confirmed" THEN Larger(p.refunded, u.refunded) ELSE p.refunded)
    BY <1>1, <2>1, RowUpdated
  <2>3. Applied(p, u) = q
    BY <1>3 DEF Applied
  <2>4. u.event_id \in Optional(EventId) /\ u.paid \in Optional(Nat) /\ u.refunded \in Optional(Nat)
    BY <2>1 DEF Update
  <2> HIDE DEF r
  <2>5. r.remembered = p.remembered /\ r \in Row /\ ValidAmounts(r) /\ r.required = p.required
    BY <2>2 DEF Turns
  <2>6. names \in SUBSET EventId
    BY <1>1, <2>4, <2>5 DEF Optional
  <2>7. /\ q \in Row /\ ValidAmounts(q) /\ q.required = required /\ q.captured = r.captured
        /\ q.refunded = r.refunded /\ q.remembered = names
    BY <1>1, <2>5, <2>6 DEF Row, ValidAmounts
  <2> HIDE DEF q
  <2>8. /\ p.captured <= r.captured /\ p.refunded <= r.refunded
        /\ u.event = "payment_captured" => u.paid <= r.captured
        /\ u.event = "refund_confirmed" => u.refunded <= r.refunded
        /\ r.captured <= prov.captured /\ r.refunded <= prov.refunded
    BY <1>1, <2>1, <2>2, <2>4 DEF Turns, Larger, Justified, Snapshot, Funds, Optional, ProviderRecord
  <2>9. Booked(q)
    <3> SUFFICES ASSUME NEW total \in 0 .. q.required
                 PROVE  /\ EventName("payment", total) \in q.remembered => total <= q.captured
                        /\ EventName("refund", total) \in q.remembered => total <= q.refunded
      BY DEF Booked
    <3>1. /\ EventName("payment", total) \in p.remembered => total <= p.captured
          /\ EventName("refund", total) \in p.remembered => total <= p.refunded
      BY <1>1, <2>7 DEF Snapshot, Booked
    <3>2. \A name \in names : name \in p.remembered \/ (name = u.event_id /\ u.event_id # None)
      BY <2>5
    <3>3. q.captured \in Nat /\ q.refunded \in Nat
      BY <2>7 DEF Row
    <3> HIDE DEF names
    <3>4. EventName("payment", total) \in q.remembered => total <= q.captured
      BY <1>1, <2>1, <2>7, <2>8, <3>1, <3>2, <3>3 DEF Justified
    <3>5. EventName("refund", total) \in q.remembered => total <= q.refunded
      BY <1>1, <2>1, <2>7, <2>8, <3>1, <3>2, <3>3 DEF Justified
    <3> QED
      BY <3>4, <3>5
  <2> QED
    BY <2>3, <2>7, <2>8, <2>9 DEF Snapshot
<1> QED
  BY <1>2, <1>3

-----------------------------------------------------------------------------
(* The released flow *)

Reply ==
  [success : BOOLEAN, later : BOOLEAN, amount : Nat, external : Optional(OrderIds),
   update : Optional(Update)]

Task ==
  [phase : {"idle", "calling", "answered"}, call : Optional(CallType), amount : Optional(Nat),
   payment : Optional(Row), answer : Optional(Reply)]

(* What the provider reports is one of its notices. *)
Reported(u, prov, required) ==
  \/ \E total \in 0 .. prov.captured : u = CapturedNotice(total)
  \/ \E total \in 0 .. prov.refunded : u = RefundedNotice(total)
  \/ u = LockedNotice(required)
  \/ u = Reports("failed")

(* A task works on a sound snapshot, and what it will apply is justified. *)
TaskSound(self, prov, required) ==
  /\ self.phase # "idle" => Snapshot(self.payment, prov, required)
  /\ self.phase = "calling" /\ self.call \in {"charge", "start_refund"} =>
       self.amount \in Nat \ {0}
  /\ self.phase = "answered" =>
       \/ UpdateFor(self) = None
       \/ Justified(UpdateFor(self), prov, required)

NamesKnown(required) ==
  \A family \in {"payment", "refund"}, total \in 0 .. required :
    EventName(family, total) \in EventId

Troubles == {"overlap", "alarm", "failure", "abandoned", "mixed"}

LegacyInv ==
  /\ Funds(provider, row.required) /\ NamesKnown(row.required)
  /\ Snapshot(row, provider, row.required)
  /\ tasks \in [Tasks -> Task]
  /\ \A t \in Tasks : TaskSound(tasks[t], provider, row.required)
  /\ \A u \in sent : Reported(u, provider, row.required)
  /\ trouble \subseteq Troubles
  /\ calls \in 0 .. MaxCalls

LEMMA NoticesJustified ==
  ASSUME NEW prov, NEW required \in Nat, Funds(prov, required), NamesKnown(required),
         NEW u, Reported(u, prov, required)
  PROVE  Justified(u, prov, required)
<1>0. NoUpdate \in Update
  BY DEF NoUpdate, Update, Optional
<1>1. /\ prov.captured \in Nat /\ prov.refunded \in Nat
      /\ prov.captured <= required /\ prov.refunded <= required
  BY DEF Funds, ProviderRecord
<1>2. {"payment_captured", "refund_confirmed", "locked", "failed"} \subseteq PaymentEvent
  BY DEF PaymentEvent
<1>3. CASE \E total \in 0 .. prov.captured : u = CapturedNotice(total)
  <2>1. PICK total \in 0 .. prov.captured : u = CapturedNotice(total)
    BY <1>3
  <2>2. EventName("payment", total) \in EventId
    BY <1>1, <2>1 DEF NamesKnown
  <2> DEFINE name == EventName("payment", total)
             n    == [NoUpdate EXCEPT !.event = "payment_captured", !.paid = total, !.event_id = name]
  <2> HIDE DEF name
  <2>3. "payment_captured" \in Optional(PaymentEvent) /\ total \in Optional(Nat) /\ name \in Optional(EventId)
    BY <1>1, <1>2, <2>1, <2>2 DEF Optional, name
  <2>5. n \in Update /\ n.event = "payment_captured" /\ n.paid = total /\ n.event_id = name
    BY <1>0, <2>3 DEF Update
  <2>6. u = n
    BY <2>1 DEF CapturedNotice, name
  <2> HIDE DEF n
  <2>4. \A k \in 0 .. required : /\ EventName("payment", total) = EventName("payment", k) => total = k
                                 /\ EventName("payment", total) # EventName("refund", k)
    BY DEF EventName
  <2> QED
    BY <1>1, <2>1, <2>4, <2>5, <2>6, NoneIsNoValue DEF Justified, name
<1>4. CASE \E total \in 0 .. prov.refunded : u = RefundedNotice(total)
  <2>1. PICK total \in 0 .. prov.refunded : u = RefundedNotice(total)
    BY <1>4
  <2>2. EventName("refund", total) \in EventId
    BY <1>1, <2>1 DEF NamesKnown
  <2> DEFINE name == EventName("refund", total)
             n    == [NoUpdate EXCEPT !.event = "refund_confirmed", !.refunded = total, !.event_id = name]
  <2> HIDE DEF name
  <2>3. "refund_confirmed" \in Optional(PaymentEvent) /\ total \in Optional(Nat) /\ name \in Optional(EventId)
    BY <1>1, <1>2, <2>1, <2>2 DEF Optional, name
  <2>5. n \in Update /\ n.event = "refund_confirmed" /\ n.refunded = total /\ n.event_id = name
    BY <1>0, <2>3 DEF Update
  <2>6. u = n
    BY <2>1 DEF RefundedNotice, name
  <2> HIDE DEF n
  <2>4. \A k \in 0 .. required : /\ EventName("refund", total) = EventName("refund", k) => total = k
                                 /\ EventName("refund", total) # EventName("payment", k)
    BY DEF EventName
  <2> QED
    BY <1>1, <2>1, <2>4, <2>5, <2>6, NoneIsNoValue DEF Justified, name
<1>5. CASE u = LockedNotice(required)
  BY <1>2, <1>5 DEF LockedNotice, NoUpdate, Update, Optional, Justified
<1>6. CASE u = Reports("failed")
  BY <1>2, <1>6 DEF Reports, NoUpdate, Update, Optional, Justified
<1> QED
  BY <1>3, <1>4, <1>5, <1>6 DEF Reported

(* What was true of the provider's totals stays true while they grow. *)
MovedMore(prov, next) == prov.captured <= next.captured /\ prov.refunded <= next.refunded

LEMMA SoundStays ==
  ASSUME NEW prov, NEW next, NEW required, Funds(prov, required), Funds(next, required),
         MovedMore(prov, next)
  PROVE  /\ \A p : Snapshot(p, prov, required) => Snapshot(p, next, required)
         /\ \A u : Justified(u, prov, required) => Justified(u, next, required)
         /\ \A u : Reported(u, prov, required) => Reported(u, next, required)
         /\ \A self : TaskSound(self, prov, required) => TaskSound(self, next, required)
<1>1. /\ prov.captured \in Nat /\ next.captured \in Nat /\ prov.refunded \in Nat /\ next.refunded \in Nat
      /\ prov.captured <= next.captured /\ prov.refunded <= next.refunded
  BY DEF Funds, MovedMore, ProviderRecord
<1>2. ASSUME NEW p, Snapshot(p, prov, required) PROVE Snapshot(p, next, required)
  <2>1. p.captured \in Nat /\ p.refunded \in Nat
    BY <1>2 DEF Snapshot, Row
  <2> QED
    BY <1>1, <1>2, <2>1 DEF Snapshot
<1>3. ASSUME NEW u, Justified(u, prov, required) PROVE Justified(u, next, required)
  <2>1. u.paid \in Optional(Nat) /\ u.refunded \in Optional(Nat)
    BY <1>3 DEF Justified, Update
  <2> QED
    BY <1>1, <1>3, <2>1 DEF Justified, Optional
<1>4. ASSUME NEW u, Reported(u, prov, required) PROVE Reported(u, next, required)
  BY <1>1, <1>4 DEF Reported
<1> QED
  BY <1>2, <1>3, <1>4 DEF TaskSound

LEMMA ProviderKeeps ==
  ASSUME LegacyInv, Provider
  PROVE  /\ LegacyInv'
         /\ MovedMore(provider, provider')
<1>1. /\ row \in Row /\ row.required \in Nat /\ Funds(provider, row.required)
      /\ UNCHANGED <<row, tasks, calls, trouble>>
  BY DEF LegacyInv, Snapshot, Row, Provider, Authorize, SettleCharge, SettleRefund, Notify
<1>5. provider \in ProviderRecord
  BY <1>1 DEF Funds, ProviderRecord
<1>2. /\ Funds(provider', row.required) /\ MovedMore(provider, provider')
      /\ \E u : sent' = sent \cup {u} /\ Reported(u, provider', row.required)
  <2>1. CASE Authorize
    <3>1. /\ provider' = [provider EXCEPT !.hold = row.required, !.authorized = TRUE]
          /\ ~provider.authorized /\ sent' = sent \cup {LockedNotice(row.required)}
      BY <2>1 DEF Authorize, Notify
    <3>2. provider.captured = 0 /\ provider.captured + row.required <= row.required
      BY <1>1, <3>1 DEF Funds, ProviderRecord
    <3>3. /\ provider'.hold = row.required /\ provider'.authorized
          /\ provider'.captured = provider.captured /\ provider'.refunded = provider.refunded
          /\ provider'.refunding = provider.refunding /\ provider'.charging = provider.charging
          /\ provider' \in ProviderRecord
      BY <1>1, <1>5, <3>1 DEF ProviderRecord
    <3>4. Funds(provider', row.required)
      BY <1>1, <1>5, <3>2, <3>3 DEF Funds, ProviderRecord
    <3>5. MovedMore(provider, provider')
      BY <1>5, <3>3 DEF MovedMore, ProviderRecord
    <3> QED
      BY <3>1, <3>4, <3>5 DEF Reported
  <2>2. CASE SettleCharge
    <3>1. CASE /\ provider' = [provider EXCEPT !.captured = @ + provider.charging,
                                               !.hold = @ - provider.charging, !.charging = 0]
               /\ sent' = sent \cup {CapturedNotice(provider.captured + provider.charging)}
      <4>3. /\ provider.captured + provider.charging \in Nat
            /\ provider.hold - provider.charging \in Nat
        BY <1>1, <1>5 DEF Funds, ProviderRecord
      <4>4. /\ provider'.captured = provider.captured + provider.charging
            /\ provider'.hold = provider.hold - provider.charging
            /\ provider'.charging = 0 /\ provider'.refunded = provider.refunded
            /\ provider'.refunding = provider.refunding
            /\ provider'.authorized = provider.authorized /\ provider' \in ProviderRecord
        BY <1>5, <3>1, <4>3 DEF ProviderRecord
      <4>1. Funds(provider', row.required) /\ MovedMore(provider, provider')
        BY <1>1, <1>5, <4>4 DEF Funds, MovedMore, ProviderRecord
      <4>2. /\ provider'.captured = provider.captured + provider.charging
            /\ provider'.captured \in Nat
        BY <1>1, <3>1 DEF Funds, ProviderRecord
      <4> QED
        BY <3>1, <4>1, <4>2 DEF Reported
    <3>2. CASE /\ provider' = [provider EXCEPT !.charging = 0]
               /\ sent' = sent \cup {Reports("failed")}
      BY <1>1, <3>2 DEF Funds, MovedMore, Reported, ProviderRecord
    <3> QED
      BY <2>2, <3>1, <3>2 DEF SettleCharge, Notify
  <2>3. CASE SettleRefund
    <3>1. PICK amount \in 1 .. provider.refunding :
            /\ provider' = [provider EXCEPT !.refunded = @ + amount, !.refunding = @ - amount]
            /\ sent' = sent \cup {RefundedNotice(provider.refunded + amount)}
      BY <2>3 DEF SettleRefund, Notify
    <3>4. /\ provider.refunded + amount \in Nat /\ provider.refunding - amount \in Nat
      BY <1>1, <1>5, <3>1 DEF ProviderRecord
    <3>5. /\ provider'.refunded = provider.refunded + amount
          /\ provider'.refunding = provider.refunding - amount
          /\ provider'.captured = provider.captured /\ provider'.hold = provider.hold
          /\ provider'.charging = provider.charging
          /\ provider'.authorized = provider.authorized /\ provider' \in ProviderRecord
      BY <1>5, <3>1, <3>4 DEF ProviderRecord
    <3>2. Funds(provider', row.required) /\ MovedMore(provider, provider')
      BY <1>1, <1>5, <3>1, <3>5 DEF Funds, MovedMore, ProviderRecord
    <3>3. provider'.refunded = provider.refunded + amount /\ provider'.refunded \in Nat
      BY <3>4, <3>5
    <3> QED
      BY <3>1, <3>2, <3>3 DEF Reported
  <2> QED
    BY <2>1, <2>2, <2>3 DEF Provider
<1>3. PICK u : sent' = sent \cup {u} /\ Reported(u, provider', row.required)
  BY <1>2
<1>4. /\ Snapshot(row, provider', row.required)
      /\ \A t \in Tasks : TaskSound(tasks[t], provider', row.required)
      /\ \A n \in sent : Reported(n, provider', row.required)
  BY <1>1, <1>2, SoundStays DEF LegacyInv
<1> QED
  BY <1>1, <1>2, <1>3, <1>4 DEF LegacyInv

(* One task goes on; the provider may have moved money in the same step.   *)
LEMMA TaskGoesOn ==
  ASSUME LegacyInv, Funds(provider', row.required), MovedMore(provider, provider'),
         UNCHANGED <<row, sent>>, calls' \in 0 .. MaxCalls, trouble' \subseteq Troubles,
         NEW t \in Tasks, NEW self \in Task, Sets(t, self),
         TaskSound(self, provider', row.required)
  PROVE  LegacyInv'
<1>1. tasks' \in [Tasks -> Task]
  BY DEF LegacyInv, Sets
<1>2. /\ Snapshot(row, provider', row.required)
      /\ \A o \in Tasks : TaskSound(tasks[o], provider', row.required)
      /\ \A n \in sent : Reported(n, provider', row.required)
  BY SoundStays DEF LegacyInv
<1>3. \A o \in Tasks : TaskSound(tasks'[o], provider', row.required)
  BY <1>2 DEF Sets, LegacyInv
<1> QED
  BY <1>1, <1>2, <1>3 DEF LegacyInv

LEMMA ReplyGiven ==
  ASSUME LegacyInv, NEW t \in Tasks, tasks[t].phase = "calling",
         NEW answer \in Reply, Answers(t, answer),
         Funds(provider', row.required), MovedMore(provider, provider'),
         UNCHANGED <<row, sent, calls>>, trouble' \subseteq Troubles,
         \A self \in Task :
           self.call = tasks[t].call /\ self.payment = tasks[t].payment /\ self.answer = answer =>
             \/ UpdateFor(self) = None
             \/ Justified(UpdateFor(self), provider', row.required)
  PROVE  LegacyInv'
<1> DEFINE self == [tasks[t] EXCEPT !.phase = "answered", !.answer = answer]
<1>1. tasks[t] \in Task /\ TaskSound(tasks[t], provider, row.required)
  BY DEF LegacyInv
<1>2. /\ self \in Task /\ self.phase = "answered" /\ self.call = tasks[t].call
      /\ self.payment = tasks[t].payment /\ self.answer = answer
  BY <1>1 DEF Task, Optional
<1>3. Sets(t, self)
  BY DEF Answers
<1> HIDE DEF self
<1>4. Snapshot(self.payment, provider', row.required)
  BY <1>1, <1>2, SoundStays DEF TaskSound, LegacyInv
<1>5. TaskSound(self, provider', row.required)
  BY <1>2, <1>4 DEF TaskSound
<1>6. calls' \in 0 .. MaxCalls
  BY DEF LegacyInv
<1> QED
  BY <1>2, <1>3, <1>5, <1>6, TaskGoesOn

LEMMA ReportsJustified ==
  ASSUME NEW event \in PaymentEvent \ {"payment_captured", "refund_confirmed"},
         NEW prov, NEW required
  PROVE  /\ Justified(Reports(event), prov, required)
         /\ \A x \in OrderIds :
              Justified([Reports(event) EXCEPT !.external = x], prov, required)
<1>1. NoUpdate \in Update /\ event \in Optional(PaymentEvent)
  BY DEF NoUpdate, Update, Optional
<1>2. /\ Reports(event) \in Update /\ Reports(event).event = event
      /\ Reports(event).event_id = None
  BY <1>1 DEF Reports, Update, NoUpdate
<1>3. ASSUME NEW x \in OrderIds
      PROVE  LET u == [Reports(event) EXCEPT !.external = x]
             IN  u \in Update /\ u.event = event /\ u.event_id = None
  <2>1. x \in Optional(ExternalIds)
    BY OpeningsTyped DEF Optional
  <2> QED
    BY <1>2, <2>1 DEF Update
<1> QED
  BY <1>2, <1>3 DEF Justified

(* Totals named by no event are justified by the provider alone. *)
LEMMA TotalsJustified ==
  ASSUME NEW prov, NEW required, NEW total \in Nat
  PROVE  LET u == [Reports("payment_captured") EXCEPT !.paid = total]
             v == [Reports("refund_confirmed") EXCEPT !.refunded = total]
         IN  /\ u.event = "payment_captured" /\ u.paid = total /\ u.event_id = None
             /\ u \in Update
             /\ total <= prov.captured => Justified(u, prov, required)
             /\ total <= prov.refunded => Justified(v, prov, required)
<1> DEFINE u == [Reports("payment_captured") EXCEPT !.paid = total]
           v == [Reports("refund_confirmed") EXCEPT !.refunded = total]
<1>1. NoUpdate \in Update /\ NoUpdate.event_id = None
  BY DEF NoUpdate, Update, Optional
<1>2. /\ {"payment_captured", "refund_confirmed"} \subseteq Optional(PaymentEvent)
      /\ total \in Optional(Nat) /\ total # None
  BY NoneIsNoValue DEF PaymentEvent, Optional
<1>3. u \in Update /\ u.event = "payment_captured" /\ u.paid = total /\ u.event_id = None
  BY <1>1, <1>2 DEF Reports, Update
<1>4. v \in Update /\ v.event = "refund_confirmed" /\ v.refunded = total /\ v.event_id = None
  BY <1>1, <1>2 DEF Reports, Update
<1> HIDE DEF u, v
<1>5. /\ total <= prov.captured => Justified(u, prov, required)
      /\ total <= prov.refunded => Justified(v, prov, required)
  BY <1>2, <1>3, <1>4 DEF Justified
<1> QED
  BY <1>3, <1>5 DEF u, v

LEMMA RespondsKeeps ==
  ASSUME LegacyInv, NEW t \in Tasks, Responds(t)
  PROVE  LegacyInv' /\ MovedMore(provider, provider') /\ UNCHANGED <<row, sent, calls>>
<1> DEFINE p == tasks[t].payment
           required == row.required
           Said(u) == u = None \/ Justified(u, provider', required)
<1>1. /\ tasks[t] \in Task /\ TaskSound(tasks[t], provider, required)
      /\ provider \in ProviderRecord /\ Funds(provider, required)
      /\ trouble \subseteq Troubles /\ required \in Nat
  BY DEF LegacyInv, Funds, Snapshot, Row
<1>2. /\ Answer \in Reply
      /\ {"prepared", "charge_requested", "failed", "refund_requested", "refund_cancelled",
          "lock_released"} \subseteq PaymentEvent \ {"payment_captured", "refund_confirmed"}
  BY DEF Answer, Reply, Optional, PaymentEvent
<1>3. tasks[t].phase = "calling"
  BY DEF Responds, TakesOrder, CapturesNow, CapturesLater, Declines, ReleasesHold,
         AcceptsRefund, StopsRefund, TellsTotals, Calling
<1>4. p \in Row /\ p.captured \in Nat /\ p.captured <= provider.captured
  BY <1>1, <1>3 DEF TaskSound, Snapshot, Row
<1>5. UNCHANGED <<row, sent, calls>>
  BY DEF Responds, TakesOrder, CapturesNow, CapturesLater, Declines, ReleasesHold,
         AcceptsRefund, StopsRefund, TellsTotals
<1>6. Funds(provider', required) /\ MovedMore(provider, provider')
      => \A event \in {"prepared", "charge_requested", "failed", "refund_requested",
                       "refund_cancelled", "lock_released"} :
           Justified(Reports(event), provider', required)
  BY <1>2, ReportsJustified
<1>7. CASE TakesOrder(t)
  <2>1. PICK x \in OrderIds : Answers(t, [Answer EXCEPT !.external = x])
    BY <1>7 DEF TakesOrder
  <2> DEFINE answer == [Answer EXCEPT !.external = x]
  <2>2. answer \in Reply /\ answer.external = x
    BY <1>2 DEF Reply, Optional
  <2>3. Funds(provider', required) /\ MovedMore(provider, provider')
    <3>1. provider' = [provider EXCEPT !.ordered = TRUE]
      BY <1>7 DEF TakesOrder
    <3>2. /\ provider' \in ProviderRecord /\ provider'.captured = provider.captured
          /\ provider'.hold = provider.hold /\ provider'.charging = provider.charging
          /\ provider'.refunded = provider.refunded /\ provider'.refunding = provider.refunding
          /\ provider'.authorized = provider.authorized
      BY <1>1, <3>1 DEF ProviderRecord
    <3> QED
      BY <1>1, <3>2 DEF Funds, ProviderRecord, MovedMore
  <2> HIDE DEF answer
  <2>4. \A self \in Task : self.call = "prepare" /\ self.answer = answer =>
          Said(UpdateFor(self))
    BY <1>2, <2>2, ReportsJustified DEF UpdateFor, PreparationReport
  <2>5. Answers(t, answer) /\ tasks[t].call = "prepare" /\ trouble' \subseteq Troubles
    BY <1>1, <1>7, <2>1 DEF TakesOrder, Calling, answer
  <2> QED
    BY <1>3, <1>5, <2>2, <2>3, <2>4, <2>5, ReplyGiven
<1>8. CASE CapturesNow(t)
  <2>1. PICK amount \in 1 .. tasks[t].amount, truthful \in BOOLEAN :
          /\ amount <= Uncharged
          /\ provider' = [provider EXCEPT !.captured = @ + amount, !.hold = @ - amount]
          /\ Answers(t, [Answer EXCEPT !.amount = IF truthful THEN amount ELSE 0])
    BY <1>8 DEF CapturesNow
  <2> DEFINE told == IF truthful THEN amount ELSE 0
             answer == [Answer EXCEPT !.amount = told]
  <2>2. told \in Nat /\ told <= amount /\ amount \in Nat
    OBVIOUS
  <2>3. /\ answer \in Reply /\ answer.amount = told /\ answer.success /\ ~answer.later
    BY <1>2, <2>2 DEF Reply, Answer
  <2>4. /\ provider' \in ProviderRecord /\ provider'.captured = provider.captured + amount
        /\ provider'.hold = provider.hold - amount /\ provider'.charging = provider.charging
        /\ provider'.refunded = provider.refunded /\ provider'.refunding = provider.refunding
        /\ provider'.authorized = provider.authorized
    <3>1. provider.captured + amount \in Nat /\ provider.hold - amount \in Nat
      BY <1>1, <2>1, <2>2 DEF Uncharged, Funds, ProviderRecord
    <3> QED
      BY <1>1, <2>1, <3>1 DEF ProviderRecord
  <2>5. Funds(provider', required) /\ MovedMore(provider, provider')
    BY <1>1, <2>1, <2>2, <2>4 DEF Funds, ProviderRecord, MovedMore, Uncharged
  <2> DEFINE total == p.captured + told
  <2>6. total \in Nat /\ total <= provider'.captured
    BY <1>1, <1>4, <2>2, <2>4 DEF ProviderRecord
  <2>7. trouble' \subseteq Troubles
    BY <1>1, <1>8 DEF CapturesNow, Troubles
  <2> HIDE DEF answer, told
  <2>8. \A self \in Task :
          self.call = "charge" /\ self.payment = p /\ self.answer = answer =>
            UpdateFor(self) = [Reports("payment_captured") EXCEPT !.paid = total]
    BY <2>3 DEF UpdateFor, ChargeReport
  <2> HIDE DEF total, p
  <2>9. \A self \in Task :
          self.call = "charge" /\ self.payment = p /\ self.answer = answer =>
            Said(UpdateFor(self))
    <3>1. Justified([Reports("payment_captured") EXCEPT !.paid = total], provider', required)
      BY <2>6, TotalsJustified
    <3> QED
      BY <2>8, <3>1
  <2>10. Answers(t, answer) /\ tasks[t].call = "charge"
    BY <1>8, <2>1 DEF CapturesNow, Calling, answer, told
  <2> QED
    BY <1>1, <1>3, <1>5, <2>3, <2>5, <2>7, <2>9, <2>10, ReplyGiven DEF p
<1>9. CASE CapturesLater(t)
  <2> DEFINE answer == [Answer EXCEPT !.later = TRUE]
  <2>1. answer \in Reply /\ answer.success /\ answer.later
    BY <1>2 DEF Reply, Answer
  <2>2. tasks[t].amount \in Nat /\ tasks[t].call = "charge" /\ tasks[t].amount <= Uncharged
    BY <1>1, <1>3, <1>9 DEF CapturesLater, Calling, TaskSound
  <2>3. Funds(provider', required) /\ MovedMore(provider, provider')
    BY <1>1, <1>9, <2>2 DEF CapturesLater, Funds, ProviderRecord, MovedMore, Uncharged
  <2> HIDE DEF answer
  <2>4. \A self \in Task : self.call = "charge" /\ self.answer = answer =>
          Said(UpdateFor(self))
    BY <1>6, <2>1, <2>3 DEF UpdateFor, ChargeReport
  <2> QED
    BY <1>1, <1>3, <1>5, <1>9, <2>1, <2>2, <2>3, <2>4, ReplyGiven DEF CapturesLater, answer
<1>10. CASE Declines(t)
  <2> DEFINE answer == [Answer EXCEPT !.success = FALSE]
  <2>1. answer \in Reply /\ ~answer.success
    BY <1>2 DEF Reply, Answer
  <2>2. Funds(provider', required) /\ MovedMore(provider, provider')
    BY <1>1, <1>10 DEF Declines, Funds, ProviderRecord, MovedMore
  <2> HIDE DEF answer
  <2>3. \A self \in Task : self.call = "charge" /\ self.answer = answer =>
          Said(UpdateFor(self))
    BY <1>6, <2>1, <2>2 DEF UpdateFor, ChargeReport
  <2>4. Answers(t, answer) /\ tasks[t].call = "charge" /\ trouble' \subseteq Troubles
    BY <1>1, <1>10 DEF Declines, Calling, answer
  <2> QED
    BY <1>3, <1>5, <2>1, <2>2, <2>3, <2>4, ReplyGiven
<1>11. CASE ReleasesHold(t)
  <2> DEFINE answer == [Answer EXCEPT !.amount = provider.hold]
  <2>1. answer \in Reply
    BY <1>1, <1>2 DEF Reply, ProviderRecord
  <2>2. Funds(provider', required) /\ MovedMore(provider, provider')
    BY <1>1, <1>11 DEF ReleasesHold, Funds, ProviderRecord, MovedMore
  <2> HIDE DEF answer
  <2>3. \A self \in Task : self.call = "release_lock" /\ self.answer = answer =>
          Said(UpdateFor(self))
    BY <1>6, <2>2 DEF UpdateFor
  <2> QED
    BY <1>1, <1>3, <1>5, <1>11, <2>1, <2>2, <2>3, ReplyGiven DEF ReleasesHold, Calling, answer
<1>12. CASE AcceptsRefund(t)
  <2> DEFINE answer == [Answer EXCEPT !.amount = tasks[t].amount]
  <2>0. tasks[t].amount \in Nat /\ tasks[t].call = "start_refund" /\ tasks[t].amount <= Unreturned
    BY <1>1, <1>3, <1>12 DEF AcceptsRefund, Calling, TaskSound
  <2>1. answer \in Reply
    BY <1>2, <2>0 DEF Reply
  <2>2. Funds(provider', required) /\ MovedMore(provider, provider')
    BY <1>1, <1>12, <2>0 DEF AcceptsRefund, Funds, ProviderRecord, MovedMore, Unreturned
  <2> HIDE DEF answer
  <2>3. \A self \in Task : self.call = "start_refund" /\ self.answer = answer =>
          Said(UpdateFor(self))
    BY <1>6, <2>2 DEF UpdateFor
  <2> QED
    BY <1>1, <1>3, <1>5, <1>12, <2>0, <2>1, <2>2, <2>3, ReplyGiven DEF AcceptsRefund, answer
<1>13. CASE StopsRefund(t)
  <2> DEFINE answer == [Answer EXCEPT !.success = provider.refunding > 0]
  <2>1. answer \in Reply
    <3>1. (provider.refunding > 0) \in BOOLEAN
      OBVIOUS
    <3> QED
      BY <1>2, <3>1 DEF Reply
  <2>2. Funds(provider', required) /\ MovedMore(provider, provider')
    BY <1>1, <1>13 DEF StopsRefund, Funds, ProviderRecord, MovedMore
  <2> HIDE DEF answer
  <2>3. \A self \in Task : self.call = "cancel_refund" /\ self.answer = answer =>
          Said(UpdateFor(self))
    BY <1>6, <2>2 DEF UpdateFor
  <2> QED
    BY <1>1, <1>3, <1>5, <1>13, <2>1, <2>2, <2>3, ReplyGiven DEF StopsRefund, Calling, answer
<1>14. CASE TellsTotals(t)
  <2>1. PICK u \in {None,
               [Reports("payment_captured") EXCEPT !.paid = provider.captured],
               [Reports("refund_confirmed") EXCEPT !.refunded = provider.refunded]} :
          Answers(t, [Answer EXCEPT !.update = u])
    BY <1>14 DEF TellsTotals
  <2> DEFINE answer == [Answer EXCEPT !.update = u]
  <2>2. /\ provider' = provider /\ provider.captured \in Nat /\ provider.refunded \in Nat
        /\ Funds(provider', required) /\ MovedMore(provider, provider')
    BY <1>1, <1>14 DEF TellsTotals, ProviderRecord, MovedMore
  <2>3. u = None \/ Justified(u, provider', required)
    <3>1. /\ Justified([Reports("payment_captured") EXCEPT !.paid = provider.captured],
                       provider', required)
          /\ Justified([Reports("refund_confirmed") EXCEPT !.refunded = provider.refunded],
                       provider', required)
      <4>1. provider.captured <= provider'.captured /\ provider.refunded <= provider'.refunded
        BY <2>2
      <4> QED
        BY <2>2, <4>1, TotalsJustified
    <3> QED
      BY <2>1, <3>1
  <2>4. answer \in Reply /\ answer.update = u
    BY <1>2, <2>3 DEF Reply, Optional, Justified
  <2> HIDE DEF answer
  <2>5. \A self \in Task : self.call = "poll" /\ self.answer = answer => Said(UpdateFor(self))
    BY <2>3, <2>4 DEF UpdateFor
  <2> QED
    BY <1>1, <1>3, <1>5, <1>14, <2>1, <2>2, <2>4, <2>5, ReplyGiven DEF TellsTotals, Calling, answer
<1> QED
  BY <1>7, <1>8, <1>9, <1>10, <1>11, <1>12, <1>13, <1>14 DEF Responds

LEMMA RestingIsSound ==
  ASSUME NEW prov, NEW required
  PROVE  Resting \in Task /\ TaskSound(Resting, prov, required)
BY DEF Resting, Task, Optional, TaskSound

LEMMA LegacyStarts ==
  ASSUME LegacyInit
  PROVE  LegacyInv
<1>1. PICK opening \in Openings : row = opening.row /\ provider = opening.provider
  BY DEF LegacyInit
<1>2. /\ Snapshot(row, provider, row.required) /\ Funds(provider, row.required)
      /\ NamesKnown(row.required) /\ MaxCalls \in Nat
  BY <1>1, OpeningsTyped DEF Snapshot, NamesKnown
<1>3. tasks \in [Tasks -> Task] /\ \A t \in Tasks : TaskSound(tasks[t], provider, row.required)
  BY RestingIsSound DEF LegacyInit
<1> QED
  BY <1>2, <1>3 DEF LegacyInit, LegacyInv, Troubles

LEMMA BeginKeeps ==
  ASSUME LegacyInv, NEW t \in Tasks, NEW call \in CallType \ {"callback"},
         NEW amount \in 1 .. row.required \cup {None}, Begin(t, call, amount)
  PROVE  LegacyInv'
<1> DEFINE self == [Resting EXCEPT !.phase = "calling", !.call = call, !.amount = amount,
                                   !.payment = row]
<1>1. /\ row \in Row /\ row.required \in Nat /\ Snapshot(row, provider, row.required)
      /\ Funds(provider, row.required)
      /\ trouble \subseteq Troubles /\ calls \in 0 .. MaxCalls /\ MaxCalls \in Nat
  BY OpeningsTyped DEF LegacyInv, Snapshot, Row
<1>2. UNCHANGED <<row, sent, provider>> /\ Sets(t, self) /\ calls' = calls + 1 /\ calls < MaxCalls
  BY DEF Begin
<1>3. calls' \in 0 .. MaxCalls /\ MovedMore(provider, provider')
  BY <1>1, <1>2 DEF MovedMore, Funds, ProviderRecord
<1>4. trouble' \subseteq Troubles
  BY <1>1 DEF Begin, Overlap, Troubles
<1>5. amount \in Optional(Nat) /\ call \in Optional(CallType) /\ row \in Optional(Row)
  BY <1>1 DEF Optional
<1>6. /\ self \in Task /\ self.phase = "calling" /\ self.call = call /\ self.amount = amount
      /\ self.payment = row
  BY <1>5, RestingIsSound DEF Task, Resting
<1>7. call \in {"charge", "start_refund"} => amount # None
  BY NoneIsNoValue DEF Begin, MayAsk
<1>8. call \in {"charge", "start_refund"} => amount \in Nat \ {0}
  BY <1>1, <1>7
<1> HIDE DEF self
<1>9. TaskSound(self, provider', row.required)
  BY <1>1, <1>2, <1>6, <1>8 DEF TaskSound
<1> QED
  BY <1>1, <1>2, <1>3, <1>4, <1>6, <1>9, TaskGoesOn

LEMMA HearKeeps ==
  ASSUME LegacyInv, NEW t \in Tasks, NEW u \in sent \cup {None}, Hear(t, u)
  PROVE  LegacyInv'
<1> DEFINE answer == [Answer EXCEPT !.update = u]
           self   == [Resting EXCEPT !.phase = "answered", !.call = "callback",
                                     !.payment = row, !.answer = answer]
<1>1. /\ row \in Row /\ row.required \in Nat /\ Snapshot(row, provider, row.required)
      /\ Funds(provider, row.required) /\ NamesKnown(row.required)
      /\ trouble \subseteq Troubles /\ calls \in 0 .. MaxCalls
  BY DEF LegacyInv, Snapshot, Row
<1>2. UNCHANGED <<row, sent, provider, calls>> /\ Sets(t, self)
  BY DEF Hear
<1>3. MovedMore(provider, provider')
  BY <1>1, <1>2 DEF MovedMore, Funds, ProviderRecord
<1>4. trouble' \subseteq Troubles
  BY <1>1 DEF Hear, Overlap, Troubles
<1>5. u = None \/ Justified(u, provider, row.required)
  BY <1>1, NoticesJustified DEF LegacyInv
<1>6. u \in Optional(Update)
  BY <1>5 DEF Optional, Justified
<1>7. answer \in Reply /\ answer.update = u
  BY <1>6 DEF Reply, Answer, Optional
<1> HIDE DEF answer
<1>8. /\ "callback" \in Optional(CallType) /\ row \in Optional(Row) /\ answer \in Optional(Reply)
  BY <1>1, <1>7 DEF Optional, CallType
<1>9. /\ self \in Task /\ self.phase = "answered" /\ self.call = "callback"
      /\ self.payment = row /\ self.answer = answer
  BY <1>8, RestingIsSound DEF Task, Resting
<1> HIDE DEF self
<1>10. UpdateFor(self) = u
  BY <1>7, <1>9 DEF UpdateFor
<1>11. TaskSound(self, provider', row.required)
  BY <1>1, <1>2, <1>5, <1>9, <1>10 DEF TaskSound
<1> QED
  BY <1>1, <1>2, <1>3, <1>4, <1>9, <1>11, TaskGoesOn

LEMMA SaveKeeps ==
  ASSUME LegacyInv, NEW t \in Tasks, Save(t)
  PROVE  LegacyInv'
<1> DEFINE p == tasks[t].payment
           u == UpdateFor(tasks[t])
<1>1. /\ row.required \in Nat /\ Funds(provider, row.required) /\ TaskSound(tasks[t], provider, row.required)
  BY DEF LegacyInv, Snapshot, Row
<1>2. /\ row' = Applied(p, u) /\ CanApply(p, u) /\ Sets(t, Resting)
      /\ UNCHANGED <<provider, sent, calls, trouble>>
  BY DEF Save
<1>3. /\ Snapshot(p, provider, row.required)
      /\ u = None \/ Justified(u, provider, row.required)
  BY <1>1 DEF Save, TaskSound
<1> HIDE DEF p, u
<1>4. Snapshot(row', provider, row.required)
  BY <1>1, <1>2, <1>3, AppliedIsSound
<1>5. row'.required = row.required
  BY <1>4 DEF Snapshot
<1>6. tasks' \in [Tasks -> Task] /\ \A o \in Tasks : TaskSound(tasks'[o], provider, row.required)
  BY <1>2, RestingIsSound DEF LegacyInv, Sets
<1> QED
  BY <1>2, <1>4, <1>5, <1>6 DEF LegacyInv

LEMMA GivingUpKeeps ==
  ASSUME LegacyInv, NEW t \in Tasks,
         Reject(t) \/ SaveFails(t) \/ ReturnQuietly(t) \/ Abandon(t)
  PROVE  LegacyInv'
<1>1. /\ Sets(t, Resting) /\ UNCHANGED <<row, provider, sent, calls>>
      /\ trouble' \subseteq Troubles
  BY DEF Reject, SaveFails, ReturnQuietly, Abandon, Raises, Troubles, LegacyInv
<1>2. MovedMore(provider, provider') /\ Funds(provider', row.required) /\ calls' \in 0 .. MaxCalls
  BY <1>1 DEF MovedMore, LegacyInv, Funds, ProviderRecord
<1> QED
  BY <1>1, <1>2, RestingIsSound, TaskGoesOn

LEMMA LegacyKeeps ==
  ASSUME LegacyInv, LegacyNext
  PROVE  LegacyInv' /\ MovedMore(provider, provider')
<1>1. UNCHANGED provider => MovedMore(provider, provider')
  BY DEF LegacyInv, Funds, ProviderRecord, MovedMore
<1>2. CASE Provider
  BY <1>2, ProviderKeeps
<1>3. ASSUME NEW t \in Tasks, NEW call \in CallType \ {"callback"},
             NEW amount \in 1 .. row.required \cup {None}, Begin(t, call, amount)
      PROVE  LegacyInv' /\ MovedMore(provider, provider')
  BY <1>1, <1>3, BeginKeeps DEF Begin
<1>4. ASSUME NEW t \in Tasks, NEW u \in sent \cup {None}, Hear(t, u)
      PROVE  LegacyInv' /\ MovedMore(provider, provider')
  BY <1>1, <1>4, HearKeeps DEF Hear
<1>5. ASSUME NEW t \in Tasks, Responds(t)
      PROVE  LegacyInv' /\ MovedMore(provider, provider')
  BY <1>5, RespondsKeeps
<1>6. ASSUME NEW t \in Tasks, Save(t)
      PROVE  LegacyInv' /\ MovedMore(provider, provider')
  BY <1>1, <1>6, SaveKeeps DEF Save
<1>7. ASSUME NEW t \in Tasks, Reject(t) \/ SaveFails(t) \/ ReturnQuietly(t) \/ Abandon(t)
      PROVE  LegacyInv' /\ MovedMore(provider, provider')
  BY <1>1, <1>7, GivingUpKeeps DEF Reject, SaveFails, ReturnQuietly, Abandon
<1> QED
  BY <1>2, <1>3, <1>4, <1>5, <1>6, <1>7 DEF LegacyNext

-----------------------------------------------------------------------------
(* After the cutover *)

(* The durable flow reads every field a notice has, and no other. *)
LEMMA ClaimedFields ==
  ASSUME NEW u \in Update
  PROVE  LET c == Claimed(u)
         IN  /\ c \in Observation /\ c.paid = u.paid /\ c.refunded = u.refunded
             /\ c.event_id = u.event_id /\ c.outcome = None /\ c.delta = FALSE
<1> DEFINE c == [event |-> u.event, fraud_event |-> u.fraud_event, paid |-> u.paid,
                 refunded |-> u.refunded, locked |-> u.locked, external |-> u.external,
                 event_id |-> u.event_id, operation |-> None, outcome |-> None,
                 scope |-> None, delta |-> FALSE]
           fields == {"event", "fraud_event", "paid", "refunded", "locked", "external", "event_id"}
<1>1. DOMAIN NoClaim = fields \cup {"operation", "outcome", "scope", "delta"}
  BY DEF NoClaim
<1>2. DOMAIN u = fields
  BY DEF Update
<1>3. /\ NoClaim.operation = None /\ NoClaim.outcome = None /\ NoClaim.scope = None
      /\ NoClaim.delta = FALSE
  BY DEF NoClaim
<1> DEFINE value(x) == IF x \in DOMAIN u THEN u[x] ELSE NoClaim[x]
<1>6. Claimed(u) = [x \in DOMAIN NoClaim |-> value(x)]
  BY DEF Claimed
<1>7. \A x \in DOMAIN NoClaim : value(x) = c[x]
  <2>1. \A x \in fields : value(x) = u[x]
    BY <1>2
  <2>2. \A x \in {"operation", "outcome", "scope", "delta"} : value(x) = NoClaim[x]
    BY <1>2
  <2> HIDE DEF value
  <2>3. \A x \in fields : value(x) = c[x]
    BY <2>1
  <2>4. \A x \in {"operation", "outcome", "scope", "delta"} : value(x) = c[x]
    <3>1. /\ value("operation") = c["operation"] /\ value("outcome") = c["outcome"]
          /\ value("scope") = c["scope"]
      BY <1>3, <2>2
    <3>2. value("delta") = c["delta"]
      BY <1>3, <2>2, Zenon
    <3> QED
      BY <3>1, <3>2
  <2> QED
    BY <1>1, <2>3, <2>4
<1>8. c = [x \in DOMAIN NoClaim |-> c[x]]
  BY <1>1
<1> HIDE DEF value, c
<1>9. Claimed(u) = c
  BY <1>6, <1>7, <1>8
<1> USE DEF c
<1>4. Claimed(u) = c
  BY <1>9
<1>5. c \in Observation
  BY DEF Update, Observation, Optional
<1> QED
  BY <1>4, <1>5

(* A claim the planner applies is applied to a payment that adds up. *)
LEMMA ApplicableIsSound ==
  ASSUME NEW f, NEW c, CanApplyToFacts(f, c)
  PROVE  ValidAmounts(f)
<1> DEFINE u == WithoutStaleHold(f, c)
<1>1. CASE u.paid # None
  BY <1>1 DEF CanApplyToFacts, CanApplyCapture, CanApplyUpdate, ValidUpdateAmounts
<1>2. CASE u.paid = None
  <2>1. AfterCapture(f, u) = f
    BY <1>2 DEF AfterCapture
  <2> HIDE DEF u
  <2>2. AfterFunds(f, u) = f \/ ConfirmsRefund(f, u)
    BY <2>1 DEF AfterFunds, AfterRefund
  <2> QED
    BY <2>1, <2>2 DEF u, CanApplyToFacts, CanApplyRefund, CanApplyUpdate, ValidUpdateAmounts
<1> QED
  BY <1>1, <1>2

(* What a notice does to the facts, whether it is new, known or impossible. *)
Took(u) ==
  /\ facts' \in PaymentFacts /\ facts'.required = facts.required /\ ops' = ops
  /\ facts.reconcile => facts'.reconcile
  /\ \/ /\ facts'.captured = facts.captured /\ facts'.refunded = facts.refunded
        /\ replay' = replay
     \/ /\ facts'.captured = IF u.paid = None THEN facts.captured
                             ELSE Larger(facts.captured, u.paid)
        /\ facts'.refunded = IF u.refunded = None THEN facts.refunded
                             ELSE Larger(facts.refunded, u.refunded)
        /\ replay' = IF u.event_id = None THEN replay
                     ELSE [replay EXCEPT ![u.event_id] = Claimed(u)]

LEMMA NoticeTaken ==
  ASSUME facts \in PaymentFacts, NEW u \in Update, HearDurably(u)
  PROVE  Took(u)
<1> DEFINE c == Claimed(u)
<1>1. /\ c \in Observation /\ c.paid = u.paid /\ c.refunded = u.refunded
      /\ c.event_id = u.event_id /\ c.outcome = None /\ c.delta = FALSE
  BY ClaimedFields
<1>2. ObserveAgain(c) \/ ObserveImpossible(c) \/ Observe(c)
  BY DEF HearDurably
<1>3. ASSUME NEW reasons \in SUBSET RetentionReason, facts' = Retained(facts, c, reasons),
             ops' = ops, replay' = replay
      PROVE  Took(u)
  <2>1. LET q == Retained(facts, c, reasons)
        IN  Restates(facts, q) /\ q.reconcile = (facts.reconcile \/ reasons # {})
    BY <1>1, <1>3, RetentionRestates
  <2> QED
    BY <1>3, <2>1 DEF Restates, SameTotals, Took
<1> HIDE DEF c
<1>4. CASE ObserveAgain(c)
  <2>1. facts' = facts \/ facts' = Retained(facts, c, {"conflicting_identity"})
    BY <1>4 DEF ObserveAgain
  <2>2. {"conflicting_identity"} \in SUBSET RetentionReason /\ ops' = ops /\ replay' = replay
    BY <1>4 DEF RetentionReason, ObserveAgain
  <2>3. CASE facts' = facts
    BY <2>2, <2>3 DEF Took
  <2> QED
    BY <1>3, <2>1, <2>2, <2>3
<1>5. CASE ObserveImpossible(c)
  <2>1. {"financial_constraints"} \in SUBSET RetentionReason
    BY DEF RetentionReason
  <2> QED
    BY <1>3, <1>5, <2>1 DEF ObserveImpossible
<1>6. CASE Observe(c)
  <2> DEFINE p == ScreenedFacts(facts, c)
             a == Aggregate(facts, c)
             g == AppliedToFacts(p, a)
             s == IF ActiveRefund(ops) THEN "refund_started" ELSE g.status
             q == [g EXCEPT !.status = s]
  <2>1. /\ a \in Observation /\ a.paid = u.paid /\ a.refunded = u.refunded
    <3>1. a \in Observation
      BY <1>1, AggregateTyped
    <3>2. DOMAIN c = DOMAIN a
      BY <1>1, <3>1 DEF Observation
    <3> QED
      BY <1>1, <3>1 DEF Aggregate, Observation
  <2>2. ScreeningReasons(facts, c) \in SUBSET RetentionReason
    BY DEF ScreeningReasons, RetentionReason
  <2>3. /\ p \in PaymentFacts /\ p.required = facts.required /\ p.captured = facts.captured
        /\ p.refunded = facts.refunded /\ (facts.reconcile => p.reconcile)
    <3>1. Restates(facts, p) /\ p.reconcile = (facts.reconcile \/ ScreeningReasons(facts, c) # {})
      BY <1>1, <2>2, RetentionRestates DEF ScreenedFacts
    <3> QED
      BY <3>1 DEF Restates, SameTotals
  <2>4. CanApplyToFacts(p, a)
    BY <1>6 DEF Observe, CanPlanObservation
  <2>5. facts' = q /\ ops' = ops
    BY <1>1, <1>6 DEF Observe, Commit, ObservationPlan, CorrelatedPlan, AggregatedFacts
  <2>6. replay' = IF u.event_id = None THEN replay ELSE [replay EXCEPT ![u.event_id] = c]
    BY <1>1, <1>6 DEF Observe
  <2> HIDE DEF p, a
  <2>7. Builds(p, g)
    BY <2>1, <2>3, <2>4, ApplicableIsSound, ClaimBuilds
  <2>8. /\ g.captured = IF u.paid = None THEN p.captured ELSE Larger(p.captured, u.paid)
        /\ g.refunded = IF u.refunded = None THEN p.refunded ELSE Larger(p.refunded, u.refunded)
    BY <2>1, <2>3, <2>4, ClaimTotals
  <2> HIDE DEF g
  <2>9. s \in PaymentStatus /\ g \in PaymentFacts /\ g.required = p.required
        /\ (p.reconcile => g.reconcile)
    BY <2>7 DEF Builds, PaymentStatus, PaymentFacts
  <2> HIDE DEF s
  <2>10. /\ q \in PaymentFacts /\ q.required = g.required /\ q.captured = g.captured
         /\ q.refunded = g.refunded /\ q.reconcile = g.reconcile
    BY <2>9 DEF PaymentFacts
  <2> QED
    BY <2>3, <2>5, <2>6, <2>8, <2>9, <2>10 DEF Took, c
<1> QED
  BY <1>2, <1>4, <1>5, <1>6

(* The migration does not take this record for settled. *)
Unsettled(p) == Ambiguous(p) \/ p.status \in LegacyPendingStatuses

(* The facts started from the row and took in only what the provider said: *)
(* an identity they know is of a total they contain.                       *)
MigratedInv ==
  IF Migrated
  THEN /\ facts \in PaymentFacts /\ facts.required = row.required
       /\ row.captured <= facts.captured /\ facts.captured <= provider.captured
       /\ row.refunded <= facts.refunded /\ facts.refunded <= provider.refunded
       /\ \A t \in Tasks : tasks[t].phase = "idle"
       /\ DOMAIN replay = EventId
       /\ \A total \in 0 .. row.required :
            /\ replay[EventName("payment", total)] # None => total <= facts.captured
            /\ replay[EventName("refund", total)] # None => total <= facts.refunded
       /\ Unsettled(row) => facts.reconcile /\ Reserved(ops) = {}
  ELSE /\ ops = [id \in OpId |-> Absent]
       /\ replay = [e \in EventId |-> None]

(* A notice claims no total beyond what was moved. *)
LEMMA NoticesClaim ==
  ASSUME NEW prov, NEW required, Funds(prov, required), NEW u, Reported(u, prov, required)
  PROVE  /\ u.paid = None \/ (u.paid \in Nat /\ u.paid <= prov.captured)
         /\ u.refunded = None \/ (u.refunded \in Nat /\ u.refunded <= prov.refunded)
<1>1. prov.captured \in Nat /\ prov.refunded \in Nat
  BY DEF Funds, ProviderRecord
<1>2. NoUpdate.paid = None /\ NoUpdate.refunded = None
  BY DEF NoUpdate
<1>3. ASSUME NEW total \in 0 .. prov.captured, u = CapturedNotice(total)
      PROVE  u.paid = total /\ u.refunded = None
  BY <1>3 DEF CapturedNotice, NoUpdate
<1>4. ASSUME NEW total \in 0 .. prov.refunded, u = RefundedNotice(total)
      PROVE  u.paid = None /\ u.refunded = total
  BY <1>4 DEF RefundedNotice, NoUpdate
<1>5. u \in {LockedNotice(required), Reports("failed")} => u.paid = None /\ u.refunded = None
  BY DEF LockedNotice, Reports, NoUpdate
<1> QED
  BY <1>1, <1>3, <1>4, <1>5 DEF Reported

LEMMA CutoverKeeps ==
  ASSUME LegacyInv, MigratedInv, Cutover
  PROVE  /\ MigratedInv' /\ Migrated'
         /\ facts'.captured = row.captured /\ facts'.refunded = row.refunded
<1> DEFINE b == Findings(row) \cap BlockingFindings # {}
           f == [required |-> row.required, captured |-> row.captured, refunded |-> row.refunded,
                 hold |-> row.hold, status |-> row.status, external |-> row.external,
                 fraud |-> row.fraud, reconcile |-> b, conflicts |-> {}]
<1>1. /\ row \in Row /\ row.captured <= provider.captured /\ row.refunded <= provider.refunded
      /\ row.captured \in Nat /\ row.refunded \in Nat /\ row.required \in Nat /\ row.hold \in Nat
  BY DEF LegacyInv, Snapshot, Row
<1>2. /\ ~Migrated /\ UNCHANGED <<legacyVars, ops, replay>> /\ facts' = f
      /\ \A t \in Tasks : tasks[t].phase = "idle"
  BY DEF Cutover, MigratedFacts
<1>3. f \in PaymentFacts
  BY <1>1 DEF PaymentFacts, Row
<1>4. /\ f.required = row.required /\ f.captured = row.captured /\ f.refunded = row.refunded
      /\ f.reconcile = b
  OBVIOUS
<1>5. Unsettled(row) => b
  BY DEF Unsettled, Findings, BlockingFindings
<1>6. Migrated'
  BY <1>2, <1>3, NoneIsNoRecord DEF Migrated
<1>7. ops = [id \in OpId |-> Absent] /\ replay = [e \in EventId |-> None]
  BY <1>2 DEF MigratedInv
<1>8. Reserved(ops') = {} /\ DOMAIN replay' = EventId
  BY <1>2, <1>7 DEF Reserved, Absent
<1>9. \A total \in 0 .. row.required :
        replay'[EventName("payment", total)] = None /\ replay'[EventName("refund", total)] = None
  BY <1>2, <1>7 DEF LegacyInv, NamesKnown
<1> HIDE DEF f, b
<1>10. /\ row' = row /\ tasks' = tasks /\ provider' = provider
  BY <1>2 DEF legacyVars
<1>11. Unsettled(row') => facts'.reconcile
  BY <1>2, <1>4, <1>5, <1>10
<1> QED
  BY <1>1, <1>2, <1>3, <1>4, <1>6, <1>8, <1>9, <1>10, <1>11 DEF MigratedInv

LEMMA HeardKeeps ==
  ASSUME LegacyInv, MigratedInv, NEW u \in sent, HearDurably(u)
  PROVE  /\ MigratedInv' /\ Migrated'
         /\ facts'.captured >= facts.captured /\ facts'.refunded >= facts.refunded
         /\ Remembers(row, u) =>
              facts'.captured = facts.captured /\ facts'.refunded = facts.refunded
<1>1. /\ Migrated /\ UNCHANGED legacyVars
      /\ row' = row /\ tasks' = tasks /\ provider' = provider
  BY DEF HearDurably, legacyVars
<1>2. /\ row \in Row /\ row.required \in Nat /\ Funds(provider, row.required)
      /\ NamesKnown(row.required) /\ Reported(u, provider, row.required)
      /\ row.captured \in Nat /\ row.refunded \in Nat
      /\ Booked(row)
  BY DEF LegacyInv, Snapshot, Row
<1>3. Justified(u, provider, row.required) /\ u \in Update
  BY <1>2, NoticesJustified DEF Justified
<1>4. /\ u.paid = None \/ (u.paid \in Nat /\ u.paid <= provider.captured)
      /\ u.refunded = None \/ (u.refunded \in Nat /\ u.refunded <= provider.refunded)
  BY <1>2, NoticesClaim
<1>5. /\ facts \in PaymentFacts /\ facts.captured \in Int /\ facts.refunded \in Int
      /\ facts.required = row.required
      /\ row.captured <= facts.captured /\ facts.captured <= provider.captured
      /\ row.refunded <= facts.refunded /\ facts.refunded <= provider.refunded
      /\ provider.captured \in Nat /\ provider.refunded \in Nat
  BY <1>1, <1>2 DEF MigratedInv, PaymentFacts, Funds, ProviderRecord
<1>6. Took(u)
  BY <1>3, <1>5, NoticeTaken
<1>7. /\ facts' \in PaymentFacts /\ facts'.required = row.required /\ ops' = ops
      /\ facts.reconcile => facts'.reconcile
  BY <1>5, <1>6 DEF Took
<1>8. Migrated'
  BY <1>7, NoneIsNoRecord DEF Migrated
<1>9. /\ facts'.captured >= facts.captured /\ facts'.refunded >= facts.refunded
      /\ facts'.captured <= provider.captured /\ facts'.refunded <= provider.refunded
      /\ facts'.captured \in Int /\ facts'.refunded \in Int
  BY <1>4, <1>5, <1>6 DEF Took, Larger
<1>10. DOMAIN replay' = EventId
  BY <1>1, <1>6 DEF Took, MigratedInv
<1>11. ASSUME NEW total \in 0 .. row.required
       PROVE  /\ replay'[EventName("payment", total)] # None => total <= facts'.captured
              /\ replay'[EventName("refund", total)] # None => total <= facts'.refunded
  <2>1. /\ replay[EventName("payment", total)] # None => total <= facts.captured
        /\ replay[EventName("refund", total)] # None => total <= facts.refunded
    BY <1>1 DEF MigratedInv
  <2>2. CASE replay' = replay
    BY <1>5, <1>9, <2>1, <2>2
  <2>3. CASE /\ replay' = [replay EXCEPT ![u.event_id] = Claimed(u)] /\ u.event_id # None
             /\ facts'.captured = IF u.paid = None THEN facts.captured
                                  ELSE Larger(facts.captured, u.paid)
             /\ facts'.refunded = IF u.refunded = None THEN facts.refunded
                                  ELSE Larger(facts.refunded, u.refunded)
    <3>1. /\ u.event_id = EventName("payment", total) => u.paid = total
          /\ u.event_id = EventName("refund", total) => u.refunded = total
      BY <1>3, <2>3 DEF Justified
    <3>2. total # None
      BY NoneIsNoValue
    <3>3. /\ u.paid = total => total <= facts'.captured
          /\ u.refunded = total => total <= facts'.refunded
      BY <1>5, <2>3, <3>2 DEF Larger
    <3>4. \A name : name # u.event_id => replay'[name] = replay[name]
      BY <2>3
    <3>5. CASE u.event_id = EventName("payment", total)
      <4>1. EventName("refund", total) # u.event_id
        BY <3>5 DEF EventName
      <4> QED
        BY <1>5, <1>9, <2>1, <3>1, <3>3, <3>4, <3>5, <4>1
    <3>6. CASE u.event_id # EventName("payment", total)
      BY <1>5, <1>9, <2>1, <3>1, <3>3, <3>4, <3>6
    <3> QED
      BY <3>5, <3>6
  <2> QED
    BY <1>6, <2>2, <2>3 DEF Took
<1>12. Unsettled(row) => facts'.reconcile /\ Reserved(ops') = {}
  BY <1>1, <1>7 DEF MigratedInv
<1>13. ASSUME Remembers(row, u)
       PROVE  facts'.captured = facts.captured /\ facts'.refunded = facts.refunded
  <2>1. u.event_id # None /\ u.event_id \in row.remembered
    BY <1>13 DEF Remembers
  <2>2. CASE \E total \in 0 .. provider.captured : u = CapturedNotice(total)
    <3>1. PICK total \in 0 .. provider.captured : u = CapturedNotice(total)
      BY <2>2
    <3>2. u.event_id = EventName("payment", total) /\ u.paid = total /\ u.refunded = None
      BY <3>1 DEF CapturedNotice, NoUpdate
    <3>3. total \in 0 .. row.required
      BY <1>2, <1>5 DEF Funds, ProviderRecord
    <3>4. total <= facts.captured
      BY <1>2, <1>5, <2>1, <3>2, <3>3 DEF Booked
    <3> QED
      BY <1>5, <1>6, <3>2, <3>4, NoneIsNoValue DEF Took, Larger
  <2>3. CASE \E total \in 0 .. provider.refunded : u = RefundedNotice(total)
    <3>1. PICK total \in 0 .. provider.refunded : u = RefundedNotice(total)
      BY <2>3
    <3>2. u.event_id = EventName("refund", total) /\ u.paid = None /\ u.refunded = total
      BY <3>1 DEF RefundedNotice, NoUpdate
    <3>3. total \in 0 .. row.required
      BY <1>2, <1>5 DEF Funds, ProviderRecord
    <3>4. total <= facts.refunded
      BY <1>2, <1>5, <2>1, <3>2, <3>3 DEF Booked
    <3> QED
      BY <1>5, <1>6, <3>2, <3>4, NoneIsNoValue DEF Took, Larger
  <2>4. CASE u \in {LockedNotice(row.required), Reports("failed")}
    BY <2>1, <2>4 DEF LockedNotice, Reports, NoUpdate
  <2> QED
    BY <1>2, <2>2, <2>3, <2>4 DEF Reported
<1>14. /\ row.captured <= facts'.captured /\ row.refunded <= facts'.refunded
  BY <1>2, <1>5, <1>9
<1>15. MigratedInv'
  <2>1. \A t \in Tasks : tasks'[t].phase = "idle"
    BY <1>1 DEF MigratedInv
  <2> QED
    BY <1>1, <1>7, <1>8, <1>9, <1>10, <1>11, <1>12, <1>14, <2>1 DEF MigratedInv
<1> QED
  BY <1>8, <1>9, <1>13, <1>15

LEMMA CommandKeeps ==
  ASSUME LegacyInv, MigratedInv, NEW i \in Intents, Command(i)
  PROVE  /\ MigratedInv' /\ Migrated'
         /\ facts'.captured = facts.captured /\ facts'.refunded = facts.refunded
<1>1. /\ Migrated /\ UNCHANGED legacyVars /\ UNCHANGED replay
      /\ row' = row /\ tasks' = tasks /\ provider' = provider
      /\ CanReserve(facts, ops, i) /\ facts' = Reservation(facts, ops, i).facts
  BY DEF Command, Reserve, Commit, legacyVars
<1>2. facts \in PaymentFacts /\ ~facts.reconcile
  BY <1>1 DEF MigratedInv, CanReserve
<1>3. facts' = IF i.type = "start_refund" THEN [facts EXCEPT !.status = "refund_started"] ELSE facts
  BY <1>1 DEF Reservation
<1>4. /\ facts' \in PaymentFacts /\ facts'.required = facts.required
      /\ facts'.captured = facts.captured /\ facts'.refunded = facts.refunded
  BY <1>2, <1>3 DEF PaymentFacts, PaymentStatus
<1>5. Migrated'
  BY <1>4, NoneIsNoRecord DEF Migrated
<1>6. ~Unsettled(row)
  BY <1>1, <1>2 DEF MigratedInv
<1> QED
  BY <1>1, <1>4, <1>5, <1>6 DEF MigratedInv

(* The provider settles what was in flight, before the cutover or after. *)
LEMMA SettlementKeeps ==
  ASSUME LegacyInv, MigratedInv, Provider, UNCHANGED vars
  PROVE  MigratedInv'
<1>1. /\ row' = row /\ tasks' = tasks /\ facts' = facts /\ ops' = ops /\ replay' = replay
  BY DEF Provider, Authorize, SettleCharge, SettleRefund, Notify, vars
<1>2. CASE ~Migrated
  BY <1>1, <1>2 DEF MigratedInv, Migrated
<1>3. CASE Migrated
  <2>1. LegacyInv' /\ MovedMore(provider, provider')
    BY ProviderKeeps
  <2>2. /\ facts.captured \in Int /\ facts.refunded \in Int
        /\ provider.captured \in Nat /\ provider'.captured \in Nat
        /\ provider.refunded \in Nat /\ provider'.refunded \in Nat
    BY <1>3, <2>1 DEF MigratedInv, LegacyInv, PaymentFacts, Funds, ProviderRecord
  <2>3. facts.captured <= provider'.captured /\ facts.refunded <= provider'.refunded
    BY <1>3, <2>1, <2>2 DEF MigratedInv, MovedMore
  <2> QED
    BY <1>1, <1>3, <2>3 DEF MigratedInv, Migrated
<1> QED
  BY <1>2, <1>3

LEMMA MigrationStarts == MigrationInit => LegacyInv /\ MigratedInv
BY LegacyStarts DEF MigrationInit, MigratedInv, Migrated

LEMMA MigrationKeeps == LegacyInv /\ MigratedInv /\ [MigrationNext]_allVars => LegacyInv' /\ MigratedInv'
<1> SUFFICES ASSUME LegacyInv, MigratedInv, [MigrationNext]_allVars
             PROVE  LegacyInv' /\ MigratedInv'
  OBVIOUS
<1>1. ASSUME UNCHANGED legacyVars PROVE LegacyInv'
  BY <1>1 DEF LegacyInv, legacyVars
<1>2. CASE ~Migrated /\ LegacyNext /\ UNCHANGED vars
  BY <1>2, LegacyKeeps DEF MigratedInv, Migrated, vars
<1>3. CASE Cutover
  BY <1>1, <1>3, CutoverKeeps DEF Cutover
<1>4. CASE Migrated /\ Provider /\ UNCHANGED vars
  BY <1>4, ProviderKeeps, SettlementKeeps
<1>5. ASSUME NEW u \in sent, HearDurably(u) PROVE LegacyInv' /\ MigratedInv'
  BY <1>1, <1>5, HeardKeeps DEF HearDurably
<1>6. ASSUME NEW i \in Intents, Command(i) PROVE LegacyInv' /\ MigratedInv'
  BY <1>1, <1>6, CommandKeeps DEF Command
<1>7. CASE UNCHANGED allVars
  BY <1>7 DEF allVars, legacyVars, vars, LegacyInv, MigratedInv, Migrated
<1> QED
  BY <1>2, <1>3, <1>4, <1>5, <1>6, <1>7 DEF MigrationNext

LEMMA MigrationInvariant == MigrationSpec => [](LegacyInv /\ MigratedInv)
BY MigrationStarts, MigrationKeeps, PTL DEF MigrationSpec

-----------------------------------------------------------------------------
(* Theorems *)

(* Workers overwrite each other, answers get lost or exceed the request,   *)
(* and the cutover comes when it comes: no balance that did not come in    *)
(* damaged ever becomes impossible, and records keep their declared types  *)
(* (flow.py, fsm.py, migration.py).                                        *)
THEOREM RowsKeepTheirShape == MigrationSpec => []LegacyTypeOK
<1>1. LegacyInv /\ MigratedInv => LegacyTypeOK
  <2> SUFFICES ASSUME LegacyInv, MigratedInv PROVE LegacyTypeOK
    OBVIOUS
  <2>1. row \in Row /\ (ValidAmounts(row) \/ \E opening \in Openings : row = opening.row)
    BY DEF LegacyInv, Snapshot
  <2>2. \A t \in Tasks : tasks[t] \in Task
    BY DEF LegacyInv
  <2> QED
    BY <2>1, <2>2 DEF LegacyInv, MigratedInv, LegacyTypeOK, Task, Troubles
<1> QED
  BY <1>1, MigrationInvariant, PTL

(* However the saves of the tasks interleave, and whichever notice comes   *)
(* again after the cutover, core never shows money the provider did not    *)
(* move: apply_payment_update takes maxima of totals that were true.       *)
THEOREM BooksNeverRunAhead == MigrationSpec => []BooksNeverOverstate
<1>1. LegacyInv /\ MigratedInv => BooksNeverOverstate
  BY DEF LegacyInv, MigratedInv, BooksNeverOverstate, Books, Snapshot
<1> QED
  BY <1>1, MigrationInvariant, PTL

(* _financial_record_is_ambiguous: what the migration found unsettled      *)
(* stays closed to reserve_operation, because no notice ends the           *)
(* reconciliation requirement.                                             *)
THEOREM UnsettledRowsStayClosed == MigrationSpec => []UnsettledRowsTakeNoCommands
<1>1. LegacyInv /\ MigratedInv => UnsettledRowsTakeNoCommands
  BY DEF MigratedInv, UnsettledRowsTakeNoCommands, Unsettled
<1> QED
  BY <1>1, MigrationInvariant, PTL

(* The replay log starts empty at the cutover, so every notice the         *)
(* released flow remembered is taken once more; none of them moves a       *)
(* total, for the row already contains what its name says.                 *)
THEOREM RedeliveriesAreHarmless == MigrationSpec => RedeliveryIsHarmless
<1> DEFINE Harmless ==
      \A u \in sent :
        Remembers(row, u) /\ HearDurably(u) =>
          facts'.captured = facts.captured /\ facts'.refunded = facts.refunded
<1>1. LegacyInv /\ MigratedInv => [Harmless]_allVars
  BY HeardKeeps
<1>2. RedeliveryIsHarmless <=> [][Harmless]_allVars
  BY DEF RedeliveryIsHarmless
<1> HIDE DEF Harmless
<1> QED
  BY <1>1, <1>2, MigrationInvariant, PTL

-----------------------------------------------------------------------------
(* Moved money is known *)

(* The task holds the answer to a charge done at once, which brings the    *)
(* total it has read up to the provider's.                                 *)
Owes(self) ==
  /\ self.phase = "answered" /\ self.call = "charge"
  /\ self.answer.success /\ ~self.answer.later
  /\ self.answer.amount # 0 => self.payment.captured + self.answer.amount = provider.captured

(* Calls that do not overlap work on the row as it is; what the row does   *)
(* not contain was announced or is about to be saved.                      *)
KnownInv ==
  trouble \subseteq {"failure"} =>
    /\ \A a, b \in Tasks : tasks[a].phase # "idle" /\ tasks[b].phase # "idle" => a = b
    /\ \A t \in Tasks : tasks[t].phase # "idle" => tasks[t].payment = row
    /\ provider.captured > Books.captured =>
         CapturedNotice(provider.captured) \in sent \/ \E t \in Tasks : Owes(tasks[t])
    /\ provider.refunded > Books.refunded => RefundedNotice(provider.refunded) \in sent

LEMMA TotalsTyped ==
  ASSUME LegacyInv
  PROVE  /\ provider.captured \in Nat /\ provider.refunded \in Nat
         /\ row \in Row /\ row.captured \in Nat /\ row.refunded \in Nat /\ row.required \in Nat
         /\ \A t \in Tasks : tasks[t] \in Task
BY DEF LegacyInv, Snapshot, Row, Funds, ProviderRecord

LEMMA KnownStarts ==
  ASSUME TotalsKnownAtOpening, MigrationInit
  PROVE  KnownInv
<1>1. PICK opening \in Openings : row = opening.row /\ provider = opening.provider
  BY DEF MigrationInit, LegacyInit
<1>2. provider.captured <= row.captured /\ provider.refunded <= row.refunded
  BY <1>1 DEF TotalsKnownAtOpening
<1>3. Books = row /\ \A t \in Tasks : tasks[t].phase = "idle"
  BY DEF MigrationInit, Books, Migrated, LegacyInit, Resting
<1>4. LegacyInv
  BY LegacyStarts DEF MigrationInit
<1> QED
  BY <1>2, <1>3, <1>4, TotalsTyped DEF KnownInv

(* A call starts: nobody else is at work, or calls overlap from now on.    *)
LEMMA StartsKnown ==
  ASSUME LegacyInv, KnownInv, ~Migrated, UNCHANGED facts, UNCHANGED <<row, provider, sent>>,
         NEW t \in Tasks, tasks[t].phase = "idle",
         NEW self, Sets(t, self), self.payment = row,
         trouble' = trouble \cup Overlap(t)
  PROVE  KnownInv'
<1> SUFFICES ASSUME trouble' \subseteq {"failure"} PROVE KnownInv'
  BY DEF KnownInv
<1>1. trouble \subseteq {"failure"} /\ \A o \in Tasks \ {t} : tasks[o].phase = "idle"
  BY DEF Overlap
<1>2. /\ tasks'[t] = self /\ \A o \in Tasks \ {t} : tasks'[o] = tasks[o]
  BY DEF Sets, LegacyInv
<1>3. Books' = row /\ Books = row
  BY DEF Books, Migrated
<1>4. ~ \E o \in Tasks : Owes(tasks[o])
  BY <1>1 DEF Owes
<1> QED
  BY <1>1, <1>2, <1>3, <1>4 DEF KnownInv

(* A call ends without a save: it owed nothing, or the alarm was raised.   *)
LEMMA EndsKnown ==
  ASSUME LegacyInv, KnownInv, ~Migrated, UNCHANGED facts, UNCHANGED <<row, provider, sent>>,
         NEW t \in Tasks, Sets(t, Resting), trouble \subseteq trouble',
         trouble' \subseteq {"failure"} => ~Owes(tasks[t])
  PROVE  KnownInv'
<1> SUFFICES ASSUME trouble' \subseteq {"failure"} PROVE KnownInv'
  BY DEF KnownInv
<1>1. trouble \subseteq {"failure"} /\ ~Owes(tasks[t])
  OBVIOUS
<1>2. /\ tasks'[t].phase = "idle" /\ \A o \in Tasks \ {t} : tasks'[o] = tasks[o]
  BY DEF Sets, LegacyInv, Resting
<1>3. Books' = row /\ Books = row
  BY DEF Books, Migrated
<1>4. \A o \in Tasks : Owes(tasks[o]) => Owes(tasks[o])' /\ o # t
  BY <1>1, <1>2 DEF Owes
<1> QED
  BY <1>1, <1>2, <1>3, <1>4 DEF KnownInv

LEMMA GivingUpKnown ==
  ASSUME LegacyInv, KnownInv, ~Migrated, UNCHANGED facts, NEW t \in Tasks,
         Reject(t) \/ SaveFails(t) \/ ReturnQuietly(t) \/ Abandon(t)
  PROVE  KnownInv'
<1>1. /\ Sets(t, Resting) /\ UNCHANGED <<row, provider, sent>> /\ trouble \subseteq trouble'
  BY DEF Reject, SaveFails, ReturnQuietly, Abandon, Raises
<1>2. Owes(tasks[t]) => MoneyMoved(tasks[t]) /\ Saves(tasks[t])
                        /\ tasks[t].call \notin {"callback", "poll"}
  BY DEF Owes, MoneyMoved, Saves
<1>3. ~Owes(tasks[t]) \/ ~(trouble' \subseteq {"failure"})
  BY <1>2 DEF Reject, SaveFails, ReturnQuietly, Abandon, Raises
<1> QED
  BY <1>1, <1>3, EndsKnown

LEMMA SaveKnown ==
  ASSUME LegacyInv, KnownInv, ~Migrated, UNCHANGED facts, NEW t \in Tasks, Save(t)
  PROVE  KnownInv'
<1> SUFFICES ASSUME trouble' \subseteq {"failure"} PROVE KnownInv'
  BY DEF KnownInv
<1> DEFINE p == tasks[t].payment
           u == UpdateFor(tasks[t])
<1>1. /\ trouble \subseteq {"failure"} /\ tasks[t].phase = "answered"
      /\ ValidAnswer(tasks[t]) /\ CanApply(p, u) /\ row' = Applied(p, u)
      /\ Sets(t, Resting) /\ UNCHANGED <<provider, sent>>
  BY DEF Save
<1>2. /\ p = row /\ \A o \in Tasks \ {t} : tasks[o].phase = "idle"
  BY <1>1 DEF KnownInv
<1>3. \A o \in Tasks : tasks'[o].phase = "idle"
  BY <1>1, <1>2 DEF Sets, LegacyInv, Resting
<1>4. Books' = row' /\ Books = row
  BY DEF Books, Migrated
<1>5. /\ row.required \in Nat /\ Funds(provider, row.required) /\ Snapshot(p, provider, row.required)
      /\ TaskSound(tasks[t], provider, row.required)
  BY <1>2, TotalsTyped DEF LegacyInv
<1>6. u = None \/ Justified(u, provider, row.required)
  BY <1>1, <1>5 DEF TaskSound
<1>7. Snapshot(row', provider, row.required)
  BY <1>1, <1>5, <1>6, AppliedIsSound
<1>8. /\ row.captured <= row'.captured /\ row.refunded <= row'.refunded
      /\ Fresh(p, u) /\ u.event = "payment_captured" => u.paid <= row'.captured
  BY <1>1, <1>2, <1>5, <1>6, AppliedIsSound
<1>9. row'.captured \in Nat /\ row'.refunded \in Nat
  BY <1>7 DEF Snapshot, Row
<1>10. ASSUME Owes(tasks[t])
       PROVE  provider.captured <= row'.captured
  <2>1. /\ tasks[t].call = "charge" /\ tasks[t].answer.success /\ ~tasks[t].answer.later
    BY <1>10 DEF Owes
  <2>2. tasks[t].answer.amount \in 1 .. tasks[t].amount
    BY <1>1, <2>1 DEF ValidAnswer
  <2>3. tasks[t].answer.amount # 0
    BY <2>2
  <2>4. p.captured + tasks[t].answer.amount = provider.captured
    BY <1>10, <2>2, <2>3 DEF Owes
  <2>5. u = [Reports("payment_captured") EXCEPT !.paid = provider.captured]
    BY <2>1, <2>4 DEF UpdateFor, ChargeReport
  <2>6. /\ u.event = "payment_captured" /\ u.paid = provider.captured /\ u.event_id = None
        /\ u \in Update
    <3> HIDE DEF u
    <3> QED
      BY <2>5, TotalsTyped, TotalsJustified
  <2>7. Fresh(p, u)
    BY <2>6, NoneIsNoRecord DEF Fresh, Remembers
  <2> QED
    BY <1>8, <2>6, <2>7
<1>11. \A o \in Tasks : Owes(tasks[o]) => o = t
  BY <1>2 DEF Owes
<1>12. provider.captured > row'.captured => CapturedNotice(provider.captured) \in sent
  BY <1>1, <1>4, <1>8, <1>9, <1>10, <1>11, TotalsTyped DEF KnownInv
<1>13. provider.refunded > row'.refunded => RefundedNotice(provider.refunded) \in sent
  BY <1>1, <1>4, <1>8, <1>9, TotalsTyped DEF KnownInv
<1> QED
  BY <1>1, <1>3, <1>4, <1>12, <1>13 DEF KnownInv

(* The provider answers: what it captured at once, the answer makes known. *)
LEMMA RespondsKnown ==
  ASSUME LegacyInv, KnownInv, ~Migrated, UNCHANGED facts, NEW t \in Tasks, Responds(t)
  PROVE  KnownInv'
<1> SUFFICES ASSUME trouble' \subseteq {"failure"} PROVE KnownInv'
  BY DEF KnownInv
<1>1. /\ UNCHANGED <<row, sent>> /\ trouble \subseteq {"failure"} /\ tasks[t].phase = "calling"
  BY DEF Responds, TakesOrder, CapturesNow, CapturesLater, Declines, ReleasesHold,
         AcceptsRefund, StopsRefund, TellsTotals, Calling
<1>2. PICK answer : Answers(t, answer)
  BY DEF Responds, TakesOrder, CapturesNow, CapturesLater, Declines, ReleasesHold,
         AcceptsRefund, StopsRefund, TellsTotals
<1>3. /\ tasks[t] \in Task /\ tasks[t].payment = row
      /\ \A o \in Tasks \ {t} : tasks[o].phase = "idle"
  BY <1>1, TotalsTyped DEF KnownInv
<1>4. /\ tasks'[t].phase = "answered" /\ tasks'[t].payment = row
      /\ tasks'[t].call = tasks[t].call /\ tasks'[t].answer = answer
      /\ \A o \in Tasks \ {t} : tasks'[o] = tasks[o]
  BY <1>2, <1>3 DEF Answers, Sets, LegacyInv, Task
<1>5. Books' = row /\ Books = row
  BY <1>1 DEF Books, Migrated
<1>6. ~ \E o \in Tasks : Owes(tasks[o])
  BY <1>1, <1>3 DEF Owes
<1>7. /\ \A a, b \in Tasks : tasks'[a].phase # "idle" /\ tasks'[b].phase # "idle" => a = b
      /\ \A o \in Tasks : tasks'[o].phase # "idle" => tasks'[o].payment = row
  BY <1>3, <1>4
<1>8. /\ provider \in ProviderRecord
      /\ \/ provider' = provider
         \/ \E x : provider' = [provider EXCEPT !.ordered = x]
         \/ \E x : provider' = [provider EXCEPT !.charging = x]
         \/ \E x : provider' = [provider EXCEPT !.hold = x]
         \/ \E x : provider' = [provider EXCEPT !.refunding = x]
         \/ CapturesNow(t)
  <2>1. provider \in ProviderRecord
    BY DEF LegacyInv, Funds
  <2>2. TellsTotals(t) \/ Declines(t) => provider' = provider
    BY DEF TellsTotals, Declines
  <2>3. TakesOrder(t) => \E x : provider' = [provider EXCEPT !.ordered = x]
    BY DEF TakesOrder
  <2>4. CapturesLater(t) => \E x : provider' = [provider EXCEPT !.charging = x]
    BY DEF CapturesLater
  <2>5. ReleasesHold(t) => \E x : provider' = [provider EXCEPT !.hold = x]
    BY DEF ReleasesHold
  <2>6. StopsRefund(t) => \E x : provider' = [provider EXCEPT !.refunding = x]
    BY DEF StopsRefund
  <2>7. AcceptsRefund(t) => \E x : provider' = [provider EXCEPT !.refunding = x]
    BY DEF AcceptsRefund
  <2> QED
    BY <2>1, <2>2, <2>3, <2>4, <2>5, <2>6, <2>7 DEF Responds
<1>9. CASE CapturesNow(t)
  <2>1. PICK amount \in 1 .. tasks[t].amount, truthful \in BOOLEAN :
          /\ provider' = [provider EXCEPT !.captured = @ + amount, !.hold = @ - amount]
          /\ Answers(t, [Answer EXCEPT !.amount = IF truthful THEN amount ELSE 0])
    BY <1>9 DEF CapturesNow
  <2> DEFINE told == IF truthful THEN amount ELSE 0
             reply == [Answer EXCEPT !.amount = told]
  <2>2. reply.success /\ ~reply.later /\ reply.amount = told
    BY DEF Answer
  <2>3. told # 0 => told = amount
    OBVIOUS
  <2> HIDE DEF reply, told
  <2>4. tasks'[t].answer = reply
    BY <1>3, <2>1 DEF Answers, Sets, LegacyInv, Task, reply, told
  <2>5. provider'.captured = provider.captured + amount /\ provider'.refunded = provider.refunded
    BY <1>8, <2>1 DEF ProviderRecord
  <2>6. provider.captured = row.captured /\ tasks[t].call = "charge"
    <3>1. CASE provider.captured = tasks[t].payment.captured
      BY <1>3, <1>9, <3>1 DEF CapturesNow, Calling
    <3>2. CASE provider.captured # tasks[t].payment.captured
      BY <1>9, <3>2 DEF CapturesNow
    <3> QED
      BY <3>1, <3>2
  <2>7. Owes(tasks[t])'
    BY <1>4, <2>2, <2>3, <2>4, <2>5, <2>6 DEF Owes
  <2> QED
    BY <1>1, <1>5, <1>7, <2>5, <2>7 DEF KnownInv
<1>10. CASE ~CapturesNow(t)
  <2>1. provider'.captured = provider.captured /\ provider'.refunded = provider.refunded
    BY <1>8, <1>10 DEF ProviderRecord
  <2> QED
    BY <1>1, <1>5, <1>6, <1>7, <2>1 DEF KnownInv
<1> QED
  BY <1>9, <1>10

(* The provider settles: it announces every total it reaches this way. *)
LEMMA SettlementKnown ==
  ASSUME LegacyInv, KnownInv, Provider, UNCHANGED facts
  PROVE  KnownInv'
<1> SUFFICES ASSUME trouble' \subseteq {"failure"} PROVE KnownInv'
  BY DEF KnownInv
<1>1. UNCHANGED <<row, tasks, trouble>> /\ sent \subseteq sent'
  BY DEF Provider, Authorize, SettleCharge, SettleRefund, Notify
<1>2. Books' = Books
  BY <1>1 DEF Books, Migrated
<1>3. provider \in ProviderRecord
  BY DEF LegacyInv, Funds
<1>4. /\ \/ provider'.captured = provider.captured
         \/ CapturedNotice(provider'.captured) \in sent'
      /\ \/ provider'.refunded = provider.refunded
         \/ RefundedNotice(provider'.refunded) \in sent'
  <2>1. CASE Authorize
    BY <1>3, <2>1 DEF Authorize, ProviderRecord
  <2>2. CASE SettleCharge
    <3>1. CASE /\ provider' = [provider EXCEPT !.captured = @ + provider.charging,
                                               !.hold = @ - provider.charging, !.charging = 0]
               /\ sent' = sent \cup {CapturedNotice(provider.captured + provider.charging)}
      <4>1. /\ provider'.captured = provider.captured + provider.charging
            /\ provider'.refunded = provider.refunded
        BY <1>3, <3>1 DEF ProviderRecord
      <4> QED
        BY <3>1, <4>1
    <3>2. CASE provider' = [provider EXCEPT !.charging = 0]
      BY <1>3, <3>2 DEF ProviderRecord
    <3> QED
      BY <2>2, <3>1, <3>2 DEF SettleCharge, Notify
  <2>3. CASE SettleRefund
    <3>1. PICK amount \in 1 .. provider.refunding :
            /\ provider' = [provider EXCEPT !.refunded = @ + amount, !.refunding = @ - amount]
            /\ sent' = sent \cup {RefundedNotice(provider.refunded + amount)}
      BY <2>3 DEF SettleRefund, Notify
    <3>2. /\ provider'.captured = provider.captured
          /\ provider'.refunded = provider.refunded + amount
      BY <1>3, <3>1 DEF ProviderRecord
    <3> QED
      BY <3>1, <3>2
  <2> QED
    BY <2>1, <2>2, <2>3 DEF Provider
<1>5. provider'.captured = provider.captured => \A self : Owes(self) => Owes(self)'
  BY DEF Owes
<1>6. provider'.captured > Books'.captured =>
        CapturedNotice(provider'.captured) \in sent' \/ \E t \in Tasks : Owes(tasks[t])'
  <2>1. CASE provider'.captured = provider.captured
    BY <1>1, <1>2, <2>1 DEF KnownInv, Owes
  <2>2. CASE CapturedNotice(provider'.captured) \in sent'
    BY <2>2
  <2> QED
    BY <1>4, <2>1, <2>2
<1>7. provider'.refunded > Books'.refunded => RefundedNotice(provider'.refunded) \in sent'
  BY <1>1, <1>2, <1>4 DEF KnownInv
<1> QED
  BY <1>1, <1>6, <1>7 DEF KnownInv

(* After the cutover the books only grow, and no task owes anything. *)
LEMMA BooksGrowKnown ==
  ASSUME LegacyInv, KnownInv, MigratedInv, LegacyInv', Migrated', UNCHANGED legacyVars,
         Books.captured \in Int, Books.refunded \in Int,
         facts'.captured \in Int, facts'.refunded \in Int,
         facts'.captured >= Books.captured, facts'.refunded >= Books.refunded
  PROVE  KnownInv'
<1>1. /\ row' = row /\ tasks' = tasks /\ provider' = provider /\ sent' = sent /\ trouble' = trouble
  BY DEF legacyVars
<1>2. Books' = facts'
  BY DEF Books, Migrated
<1>3. provider.captured \in Nat /\ provider.refunded \in Nat
  BY TotalsTyped
<1>4. \A t \in Tasks : Owes(tasks[t]) => Owes(tasks[t])'
  BY <1>1 DEF Owes
<1> QED
  BY <1>1, <1>2, <1>3, <1>4 DEF KnownInv

LEMMA KnownKeeps ==
  ASSUME LegacyInv, MigratedInv, KnownInv, [MigrationNext]_allVars
  PROVE  KnownInv'
<1>0. LegacyInv' /\ MigratedInv'
  BY MigrationKeeps
<1>1. CASE ~Migrated /\ LegacyNext /\ UNCHANGED vars
  <2>1. ~Migrated /\ UNCHANGED facts
    BY <1>1 DEF vars
  <2>2. CASE Provider
    BY <2>1, <2>2, SettlementKnown
  <2>3. ASSUME NEW t \in Tasks, NEW call \in CallType \ {"callback"},
               NEW amount \in 1 .. row.required \cup {None}, Begin(t, call, amount)
        PROVE  KnownInv'
    <3> DEFINE self == [Resting EXCEPT !.phase = "calling", !.call = call, !.amount = amount,
                                       !.payment = row]
    <3>1. self.payment = row
      BY DEF Resting
    <3>2. Sets(t, self) /\ tasks[t].phase = "idle" /\ trouble' = trouble \cup Overlap(t)
          /\ UNCHANGED <<row, provider, sent>>
      BY <2>3 DEF Begin
    <3> HIDE DEF self
    <3> QED
      BY <2>1, <3>1, <3>2, StartsKnown
  <2>4. ASSUME NEW t \in Tasks, NEW u \in sent \cup {None}, Hear(t, u)
        PROVE  KnownInv'
    <3> DEFINE self == [Resting EXCEPT !.phase = "answered", !.call = "callback", !.payment = row,
                                       !.answer = [Answer EXCEPT !.update = u]]
    <3>1. self.payment = row
      BY DEF Resting
    <3>2. Sets(t, self) /\ tasks[t].phase = "idle" /\ trouble' = trouble \cup Overlap(t)
          /\ UNCHANGED <<row, provider, sent>>
      BY <2>4 DEF Hear
    <3> HIDE DEF self
    <3> QED
      BY <2>1, <3>1, <3>2, StartsKnown
  <2>5. ASSUME NEW t \in Tasks,
               \/ Responds(t) \/ Save(t)
               \/ Reject(t) \/ SaveFails(t) \/ ReturnQuietly(t) \/ Abandon(t)
        PROVE  KnownInv'
    BY <2>1, <2>5, RespondsKnown, SaveKnown, GivingUpKnown
  <2> QED
    BY <1>1, <2>2, <2>3, <2>4, <2>5 DEF LegacyNext
<1>2. CASE Cutover
  <2>1. /\ Migrated' /\ facts'.captured = row.captured /\ facts'.refunded = row.refunded
        /\ Books = row /\ UNCHANGED legacyVars
    BY <1>2, CutoverKeeps DEF Cutover, Books
  <2>2. row.captured \in Int /\ row.refunded \in Int
    BY TotalsTyped
  <2> QED
    BY <1>0, <2>1, <2>2, BooksGrowKnown
<1>3. CASE Migrated /\ Provider /\ UNCHANGED vars
  BY <1>3, SettlementKnown DEF vars
<1>4. ASSUME Migrated, Migrated', UNCHANGED legacyVars,
             facts'.captured >= facts.captured, facts'.refunded >= facts.refunded
      PROVE  KnownInv'
  <2>1. /\ facts.captured \in Int /\ facts.refunded \in Int
        /\ facts'.captured \in Int /\ facts'.refunded \in Int /\ Books = facts
    BY <1>0, <1>4 DEF MigratedInv, PaymentFacts, Books
  <2> QED
    BY <1>0, <1>4, <2>1, BooksGrowKnown
<1>5. ASSUME NEW u \in sent, HearDurably(u) PROVE KnownInv'
  BY <1>4, <1>5, HeardKeeps DEF HearDurably
<1>6. ASSUME NEW i \in Intents, Command(i) PROVE KnownInv'
  <2>1. /\ Migrated /\ Migrated' /\ UNCHANGED legacyVars
        /\ facts'.captured = facts.captured /\ facts'.refunded = facts.refunded
    BY <1>6, CommandKeeps DEF Command
  <2>2. facts.captured \in Int /\ facts.refunded \in Int
    BY <2>1 DEF MigratedInv, PaymentFacts
  <2> QED
    BY <1>4, <2>1, <2>2
<1>7. CASE UNCHANGED allVars
  BY <1>7 DEF allVars, legacyVars, vars, KnownInv, Owes, Books, Migrated
<1> QED
  BY <1>1, <1>2, <1>3, <1>5, <1>6, <1>7 DEF MigrationNext

(* An announced total beyond the books goes by a name that neither the row *)
(* nor the replay log has.                                                 *)
LEMMA AnnouncedIsOpen ==
  ASSUME LegacyInv, MigratedInv
  PROVE  /\ provider.captured > Books.captured => Open(CapturedNotice(provider.captured))
         /\ provider.refunded > Books.refunded => Open(RefundedNotice(provider.refunded))
<1>1. /\ provider.captured \in 0 .. row.required /\ provider.refunded \in 0 .. row.required
      /\ row.required \in Nat /\ row.captured \in Nat /\ row.refunded \in Nat
  BY TotalsTyped DEF LegacyInv, Funds, ProviderRecord
<1>2. /\ CapturedNotice(provider.captured).event_id = EventName("payment", provider.captured)
      /\ RefundedNotice(provider.refunded).event_id = EventName("refund", provider.refunded)
  BY DEF CapturedNotice, RefundedNotice, NoUpdate
<1>3. CASE Migrated
  <2>1. /\ facts.captured \in Int /\ facts.refunded \in Int /\ Books = facts
        /\ replay[EventName("payment", provider.captured)] # None =>
             provider.captured <= facts.captured
        /\ replay[EventName("refund", provider.refunded)] # None =>
             provider.refunded <= facts.refunded
    BY <1>1, <1>3 DEF MigratedInv, PaymentFacts, Books
  <2> QED
    BY <1>1, <1>2, <1>3, <2>1 DEF Open
<1>4. CASE ~Migrated
  <2>1. /\ EventName("payment", provider.captured) \in row.remembered =>
             provider.captured <= row.captured
        /\ EventName("refund", provider.refunded) \in row.remembered =>
             provider.refunded <= row.refunded
    BY <1>1 DEF LegacyInv, Snapshot, Booked
  <2>2. Books = row
    BY <1>4 DEF Books
  <2> QED
    BY <1>1, <1>2, <1>4, <2>1, <2>2 DEF Open, Remembers
<1> QED
  BY <1>3, <1>4

(* flow.py: if nothing was missing when the deployment started, calls do   *)
(* not overlap, none is abandoned and nobody was told to reconcile, money  *)
(* the books lack is in an answer about to be saved or in a notice that    *)
(* _already_applied -- or the replay log -- will not turn away.            *)
THEOREM MovedMoneyStaysKnown ==
  ASSUME TotalsKnownAtOpening
  PROVE  MigrationSpec => []MovedMoneyIsKnown
<1>1. MigrationInit => LegacyInv /\ MigratedInv /\ KnownInv
  BY MigrationStarts, KnownStarts
<1>2. LegacyInv /\ MigratedInv /\ KnownInv /\ [MigrationNext]_allVars
        => (LegacyInv /\ MigratedInv /\ KnownInv)'
  BY MigrationKeeps, KnownKeeps
<1>3. LegacyInv /\ MigratedInv /\ KnownInv => MovedMoneyIsKnown
  BY AnnouncedIsOpen DEF KnownInv, Owes, MovedMoneyIsKnown
<1> QED
  BY <1>1, <1>2, <1>3, PTL DEF MigrationSpec

=============================================================================
