----------------------------- MODULE PaymentFsm -----------------------------
(***************************************************************************)
(* The payment state engine of fsm.py and _amounts.py: which semantic      *)
(* update a payment accepts, and the payment that results.                 *)
(*                                                                         *)
(* Every transition is a pair of operators.  Can...(p, u) holds when the   *)
(* code raises nothing for update u on payment p, and After...(p, u) is    *)
(* the payment it then leaves.  A raised update restores its snapshot, so  *)
(* it has no After.                                                        *)
(*                                                                         *)
(* A payment is a record with at least the fields                          *)
(*    required, captured, refunded, hold   amounts in whole money units    *)
(*    status, external, fraud                                              *)
(* where captured is amount_paid, refunded is amount_refunded and hold is  *)
(* amount_locked, the remaining authorization.  Fields the engine does not *)
(* read are carried through.  An update is a record with at least          *)
(*    event, fraud_event, paid, refunded, locked, external                 *)
(* each of which may be None.  Free text (fraud_message) and provider      *)
(* metadata (provider_data) are merged by the code and read by nothing     *)
(* here, so they are left out.                                             *)
(***************************************************************************)
EXTENDS Integers

CONSTANT None   \* an absent optional value

-----------------------------------------------------------------------------
(* Enumerations (enums.py) *)

PaymentStatus ==
  {"new", "prepared", "pre-auth", "charge_started", "partially_paid", "paid",
   "failed", "refund_started", "partially_refunded", "refunded", "cancelled"}

PaymentEvent ==
  {"prepared", "locked", "charge_requested", "payment_captured", "failed",
   "refund_requested", "refund_confirmed", "refund_cancelled", "lock_released"}

FraudStatus == {"unknown", "accepted", "rejected", "check"}

FraudEvent == {"review", "accept", "reject"}

(* An absent value is neither an amount nor an event. *)
ASSUME NoneIsNoValue ==
  None \notin Int /\ None \notin PaymentEvent /\ None \notin FraudEvent

(* Statuses the settlement rules own: kept only while a rule supports them. *)
SettlementStatus ==
  {"pre-auth", "partially_paid", "partially_refunded", "paid",
   "refund_started", "refunded"}

-----------------------------------------------------------------------------
(* Amounts *)

Larger(a, b)  == IF a >= b THEN a ELSE b
Smaller(a, b) == IF a <= b THEN a ELSE b

(* validate_payment_amounts: the balances a payment may hold at all. *)
ValidAmounts(p) ==
  /\ 0 <= p.captured /\ p.captured <= p.required
  /\ 0 <= p.hold     /\ p.hold <= p.required - p.captured
  /\ 0 <= p.refunded /\ p.refunded <= p.captured

(* Every supplied amount is checked against the stored balances, whatever  *)
(* the event of the update is.                                             *)
ValidUpdateAmounts(p, u) ==
  /\ ValidAmounts(p)
  /\ u.paid     = None \/ u.paid     \in 0 .. p.required
  /\ u.refunded = None \/ u.refunded \in 0 .. p.captured
  /\ u.locked   = None \/ u.locked   \in 1 .. (p.required - p.captured)

HasUnresolvedRefund(p) == p.status = "refund_started"

CapturableAmount(p) == Smaller(p.hold, p.required - p.captured)

RefundableAmount(p) == p.captured - p.refunded

(* Rule for a capture about to be asked of a provider. *)
CaptureEligible(p) == ~HasUnresolvedRefund(p) /\ p.refunded <= 0

(* Rule for a legacy charge-request notification. *)
CaptureRecordable(p) ==
  /\ ~HasUnresolvedRefund(p)
  /\ ~(p.captured > 0 /\ RefundableAmount(p) <= 0)

(* Mutant of WithPaid: the last snapshot wins. *)
LastPaidWins(p, paid) ==
  [p EXCEPT !.captured = paid, !.hold = Smaller(p.hold, p.required - paid)]

(* Cumulative totals never go down; a capture consumes the hold. *)
WithPaid(p, paid) ==
  [p EXCEPT !.captured = Larger(p.captured, paid),
            !.hold     = Larger(0, p.hold - (Larger(p.captured, paid) - p.captured))]

WithRefunded(p, refunded) == [p EXCEPT !.refunded = Larger(p.refunded, refunded)]

(* Mutant of WithLocked: every lock is taken for another authorization. *)
WithAnotherLock(p, locked) == [p EXCEPT !.hold = @ + locked]

WithLocked(p, locked) == [p EXCEPT !.hold = Larger(p.hold, locked)]

-----------------------------------------------------------------------------
(* project_payment_status: the public status is a projection of the funds. *)

ProjectedStatus(p, refund_in_progress, authorization_released) ==
  CASE refund_in_progress     -> "refund_started"
    [] ~refund_in_progress /\ p.refunded > 0 ->
         IF p.refunded >= p.captured THEN "refunded" ELSE "partially_refunded"
    [] ~refund_in_progress /\ p.refunded <= 0 /\ p.captured > 0 ->
         IF p.captured >= p.required THEN "paid" ELSE "partially_paid"
    [] OTHER ->
         IF p.hold > 0 THEN "pre-auth"
         ELSE IF authorization_released THEN "cancelled"
         ELSE IF p.status \in SettlementStatus THEN "prepared"
         ELSE p.status

(* Mutant of Projected: a release leaves the status as it was. *)
ProjectedWithoutRelease(p, refund_in_progress, authorization_released) ==
  IF authorization_released THEN p
  ELSE [p EXCEPT !.status = ProjectedStatus(p, refund_in_progress, FALSE)]

Projected(p, refund_in_progress, authorization_released) ==
  [p EXCEPT !.status = ProjectedStatus(p, refund_in_progress, authorization_released)]

-----------------------------------------------------------------------------
(* _apply_payment_event *)

CanApplyEvent(p, u) ==
  \/ u.event = None
  \/ u.event = "prepared" /\ p.status = "new"
  \/ /\ u.event = "locked"
     /\ p.status \in {"new", "prepared", "pre-auth"}
     /\ u.locked # None
  \/ /\ u.event = "charge_requested"
     /\ CaptureRecordable(p)
     /\ p.captured > 0 \/ p.hold > 0 \/ p.status = "charge_started"
  \/ u.event = "payment_captured" /\ u.paid # None
  \/ /\ u.event = "failed"
     /\ \/ p.status = "failed"
        \/ /\ p.captured <= 0 /\ p.refunded <= 0
           /\ p.status \in {"new", "prepared", "pre-auth", "charge_started"}
  \/ u.event = "refund_requested" /\ RefundableAmount(p) > 0
  \/ u.event = "refund_confirmed" /\ p.captured > 0 /\ u.refunded # None
  \/ /\ u.event = "refund_cancelled"
     /\ HasUnresolvedRefund(p) \/ RefundableAmount(p) > 0
  \/ u.event = "lock_released" /\ p.hold > 0

AfterEvent(p, u) ==
  CASE u.event = "prepared"         -> [p EXCEPT !.status = "prepared"]
    [] u.event = "locked"           -> [WithLocked(p, u.locked) EXCEPT !.status = "pre-auth"]
    [] u.event = "charge_requested" ->
         IF p.captured > 0 THEN p ELSE [p EXCEPT !.status = "charge_started"]
    [] u.event = "payment_captured" ->
         Projected(WithPaid(p, u.paid), HasUnresolvedRefund(p), FALSE)
    [] u.event = "failed"           -> [p EXCEPT !.status = "failed"]
    [] u.event = "refund_requested" -> [p EXCEPT !.status = "refund_started"]
    [] u.event = "refund_confirmed" -> Projected(WithRefunded(p, u.refunded), FALSE, FALSE)
    [] u.event = "refund_cancelled" -> Projected(p, FALSE, FALSE)
    [] u.event = "lock_released"    ->
         Projected([p EXCEPT !.hold = 0], HasUnresolvedRefund(p), TRUE)
    [] OTHER                        -> p

-----------------------------------------------------------------------------
(* _apply_fraud_event *)

(* Mutant of FraudOutcome: the event is stored in place of its outcome. *)
FraudEventStored(event) == event

FraudOutcome(event) ==
  CASE event = "review" -> "check"
    [] event = "accept" -> "accepted"
    [] event = "reject" -> "rejected"

(* A verdict may confirm itself or settle an open review; none overturns   *)
(* another.                                                                *)
CanApplyFraud(p, u) ==
  u.fraud_event # None =>
    p.fraud \in {"unknown", "check", FraudOutcome(u.fraud_event)}

AfterFraud(p, u) ==
  IF u.fraud_event = None THEN p
  ELSE [p EXCEPT !.fraud = FraudOutcome(u.fraud_event)]

-----------------------------------------------------------------------------
(* apply_payment_update, for an update whose event identity the caller has *)
(* already dealt with: validate, merge, payment event, fraud event, all or *)
(* nothing.                                                                *)

WithExternal(p, external) ==
  IF external = None THEN p ELSE [p EXCEPT !.external = external]

CanApplyUpdate(p, u) ==
  /\ ValidUpdateAmounts(p, u)
  /\ CanApplyEvent(p, u)
  /\ CanApplyFraud(p, u)

AfterUpdate(p, u) == AfterFraud(AfterEvent(WithExternal(p, u.external), u), u)

=============================================================================
