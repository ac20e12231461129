------------------------- MODULE MCDurableRepository -------------------------
(***************************************************************************)
(* Small instances of DurableRepository.  Amounts are whole units; a       *)
(* payment requires two of them, so that a partial and a full movement     *)
(* differ.  Each run takes the inputs of one question.                     *)
(***************************************************************************)
EXTENDS DurableRepository

CONSTANTS o1, o2, o3, e1, e2, e3, cA, cB, x1, x2, w1

-----------------------------------------------------------------------------
(* Payments *)

NewPayment ==
  [required |-> 2, captured |-> 0, refunded |-> 0, hold |-> 0, status |-> "new",
   external |-> None, fraud |-> "unknown", reconcile |-> FALSE, conflicts |-> {}]

AuthorizedPayment == [NewPayment EXCEPT !.hold = 2, !.status = "pre-auth"]

CapturedPayment == [NewPayment EXCEPT !.captured = 2, !.status = "paid"]

PartlyCaptured ==
  [NewPayment EXCEPT !.captured = 1, !.hold = 1, !.status = "partially_paid"]

StartNew        == {NewPayment}
StartAuthorized == {AuthorizedPayment}
StartHeld       == {PartlyCaptured}
StartFunded     == {AuthorizedPayment, CapturedPayment}

ASSUME OpeningShown == FundsShownAtOpening /\ TotalsShownAtOpening

-----------------------------------------------------------------------------
(* Evidence about operations *)

Plain(state) ==
  [state |-> state, settled |-> None, correlation |-> None, reconcile |-> FALSE,
   external |-> None]

With(o, handle)     == [o EXCEPT !.correlation = handle]
Settling(o, amount) == [o EXCEPT !.settled = amount]

CommandOutcomes ==
  {With(Plain("provider_pending"), cA), Plain("succeeded"), Plain("rejected"),
   Settling(Plain("succeeded"), 1)}

Wanted(id, type, amount, target) ==
  [id |-> id, type |-> type, amount |-> amount, target |-> target]

-----------------------------------------------------------------------------
(* Run commands: captures, refunds, a release, and the cancellation of a   *)
(* refund, of an authorized and of a paid payment.                         *)
CommandIntents ==
  {Wanted(o1, "charge", 1, None), Wanted(o1, "start_refund", 1, None),
   Wanted(o2, "charge", None, None), Wanted(o2, "start_refund", 1, None),
   Wanted(o2, "release_lock", None, None), Wanted(o3, "cancel_refund", None, o1)}

-----------------------------------------------------------------------------
(* Evidence about the payment *)

Says(event)          == [NoClaim EXCEPT !.event = event]
Holds(u, locked)     == [u EXCEPT !.locked = locked]
Pays(u, paid)        == [u EXCEPT !.paid = paid]
Returns(u, refunded) == [u EXCEPT !.refunded = refunded]
Tagged(u, event_id)  == [u EXCEPT !.event_id = event_id]
About(u, id, o)      == [u EXCEPT !.operation = id, !.outcome = o]

(* Run callbacks: the whole payment reported by the provider, out of order, *)
(* repeated, once with an event identity used for two events, and under a   *)
(* provider handle that need not be the one of its preparation.             *)
CallbackObservations ==
  {Tagged([Holds(Says("locked"), 2) EXCEPT !.fraud_event = "accept", !.external = x2], e1),
   Pays(Says("payment_captured"), 1),
   Pays(Holds(Says("locked"), 2), 0),
   Tagged(Pays(Says("payment_captured"), 2), e2),
   Tagged(Pays(Returns(Says("refund_confirmed"), 1), 1), e2),
   [Says("lock_released") EXCEPT !.scope = "release_lock"],
   Says("refund_requested"), Says("failed"), Says("charge_requested"),
   Returns(Says("refund_confirmed"), 2), Says("lock_released"),
   Pays(Says("payment_captured"), 3)}

CallbackIntents ==
  {Wanted(o1, "charge", 1, None), Wanted(o1, "start_refund", 1, None),
   Wanted(o1, "prepare", None, None)}

CallbackOutcomes ==
  {Plain("succeeded"), Plain("unknown"), Plain("rejected"),
   [Plain("succeeded") EXCEPT !.external = x1]}

(* Run channels: the same operations answered by responses, correlated     *)
(* callbacks, increments and cumulative totals at once.                    *)
ChannelIntents ==
  {Wanted(o1, "charge", 1, None), Wanted(o2, "start_refund", 1, None)}

ChannelOutcomes == {With(Plain("provider_pending"), cA), Plain("succeeded"), Plain("rejected")}

ChannelObservations ==
  {Tagged([About(Pays(Says("payment_captured"), 1), o1, Plain("succeeded")) EXCEPT !.delta = TRUE], e1),
   Tagged([Pays(NoClaim, 1) EXCEPT !.delta = TRUE], e1),
   Tagged(Pays(NoClaim, 2), e2),
   Tagged(About(Returns(Says("refund_confirmed"), 1), None, With(Plain("succeeded"), cA)), e3),
   Tagged(About(Says("refund_cancelled"), o2, Plain("rejected")), e2),
   Tagged(Says("refund_cancelled"), e3)}

(* Run external_refund: a refund started at the provider meets a local one. *)
ExternalRefundIntents ==
  {Wanted(o1, "start_refund", 1, None), Wanted(o2, "charge", 1, None)}

ExternalRefundOutcomes == {Plain("rejected")}

ExternalRefundObservations == {Tagged(Says("refund_requested"), e1)}

-----------------------------------------------------------------------------
(* Run decisions: contradictory answers, and an operator who may decide on *)
(* an operation more than once.                                            *)

DecisionIntents ==
  {Wanted(o1, "charge", 2, None), Wanted(o2, "start_refund", 1, None)}

DecisionOutcomes ==
  {Settling(Plain("succeeded"), 1), Plain("rejected")}

DecisionResolutions ==
  {[id |-> "accept all", outcome |-> Plain("succeeded"), clear |-> TRUE],
   [id |-> "accept one", outcome |-> Settling(Plain("succeeded"), 1), clear |-> FALSE]}

(* An answer that could not be recorded.                                  *)
LostResponse == {"lost response"}

Nothing == {}

=============================================================================
