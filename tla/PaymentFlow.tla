----------------------------- MODULE PaymentFlow -----------------------------
(***************************************************************************)
(* The released flow of flow.py over one stored payment: a task takes the  *)
(* payment object it was handed, checks it, awaits the processor, applies  *)
(* the answer to that object and saves it whole.  Nothing orders the tasks *)
(* of different workers, so the last save wins.                            *)
(*                                                                         *)
(* The provider and its plugin are the environment: a provider that        *)
(* captures what was authorized and returns what was captured, answers at  *)
(* once or accepts and settles later, and reports every later settlement   *)
(* by notices that carry cumulative totals and may come late, repeated or  *)
(* out of order.  The plugin names a notice as the dummy backend does.     *)
(*                                                                         *)
(* Applying and saving are one step here: the answer is applied to the     *)
(* task's own object, which nobody else sees before it is saved.           *)
(***************************************************************************)
EXTENDS PaymentFsm

CONSTANTS
  Tasks,      \* tasks running calls of the flow
  Openings,   \* pairs [row, provider] a deployment may be found in
  OrderIds,   \* provider handles a preparation may return
  MaxCalls    \* bound: commands and polls

VARIABLES
  row,        \* the stored payment
  tasks,      \* what each task is doing
  provider,   \* what the provider did
  sent,       \* notices it sent; each may be delivered any number of times
  calls,      \* how many commands and polls began
  trouble     \* why nobody may rely on the stored totals being complete

legacyVars == <<row, tasks, provider, sent, calls, trouble>>

CallType == {"prepare", "charge", "release_lock", "start_refund", "cancel_refund",
             "callback", "poll"}

NoUpdate ==
  [event |-> None, fraud_event |-> None, paid |-> None, refunded |-> None,
   locked |-> None, external |-> None, event_id |-> None]

(* Mutant of EventName: one name for all progress of a payment. *)
PaymentWideName(family, total) == <<family, 0>>

(* _fallback_event_id: a family of progress and its cumulative total. *)
EventName(family, total) == <<family, total>>

CapturedNotice(total) ==
  [NoUpdate EXCEPT !.event = "payment_captured", !.paid = total,
                   !.event_id = EventName("payment", total)]
RefundedNotice(total) ==
  [NoUpdate EXCEPT !.event = "refund_confirmed", !.refunded = total,
                   !.event_id = EventName("refund", total)]
LockedNotice(amount) == [NoUpdate EXCEPT !.event = "locked", !.locked = amount]
Reports(event)       == [NoUpdate EXCEPT !.event = event]

-----------------------------------------------------------------------------
(* apply_payment_update with its deduplication: a known event changes      *)
(* nothing, and an event is known once its update was applied.             *)

Remembers(p, u) == u.event_id # None /\ u.event_id \in p.remembered

Fresh(p, u) == u # None /\ ~Remembers(p, u)

CanApply(p, u) == Fresh(p, u) => CanApplyUpdate(p, u)

Applied(p, u) ==
  IF Fresh(p, u)
  THEN [AfterUpdate(p, u) EXCEPT !.remembered = @ \cup ({u.event_id} \ {None})]
  ELSE p

-----------------------------------------------------------------------------
(* The checks every command makes before it reaches the processor. *)

MayPrepare(p) == p.status = "new"

MayCharge(p, amount) ==
  ValidAmounts(p) /\ CaptureEligible(p) /\ amount \in 1 .. CapturableAmount(p)

MayRelease(p) == ValidAmounts(p) /\ p.hold > 0

MayRefund(p, amount) == ValidAmounts(p) /\ amount \in 1 .. RefundableAmount(p)

MayCancelRefund(p) == HasUnresolvedRefund(p) \/ RefundableAmount(p) > 0

(* An amount is asked for by charges and refunds only. *)
MayAsk(p, call, amount) ==
  \/ call = "charge"       /\ amount # None /\ MayCharge(p, amount)
  \/ call = "start_refund" /\ amount # None /\ MayRefund(p, amount)
  \/ amount = None /\ \/ call = "prepare"       /\ MayPrepare(p)
                      \/ call = "release_lock"  /\ MayRelease(p)
                      \/ call = "cancel_refund" /\ MayCancelRefund(p)
                      \/ call = "poll"

(* _validate_provider_amount *)
ValidAnswer(self) ==
  CASE self.call = "charge" ->
         IF self.answer.success
         THEN self.answer.amount \in (IF self.answer.later THEN 0 ELSE 1) .. self.amount
         ELSE self.answer.amount = 0
    [] self.call = "release_lock" -> self.answer.amount = self.payment.hold
    [] self.call = "start_refund" -> self.answer.amount \in 1 .. self.amount
    [] OTHER -> TRUE

PreparationReport(self) == [Reports("prepared") EXCEPT !.external = self.answer.external]

(* Mutant of ChargeReport: what was asked counts as what was charged. *)
ChargeReportAsAsked(self) ==
  IF ~self.answer.success THEN Reports("failed")
  ELSE [Reports("payment_captured") EXCEPT !.paid = self.payment.captured + self.amount]

(* A charge done at once adds to the total the task has read. *)
ChargeReport(self) ==
  IF ~self.answer.success THEN Reports("failed")
  ELSE IF self.answer.later THEN Reports("charge_requested")
  ELSE [Reports("payment_captured") EXCEPT !.paid = self.payment.captured + self.answer.amount]

(* What the flow makes of the processor's answer. *)
UpdateFor(self) ==
  CASE self.call = "prepare"       -> PreparationReport(self)
    [] self.call = "charge"        -> ChargeReport(self)
    [] self.call = "release_lock"  -> Reports("lock_released")
    [] self.call = "start_refund"  -> Reports("refund_requested")
    [] self.call = "cancel_refund" -> Reports("refund_cancelled")
    [] OTHER -> self.answer.update

(* A poll without news and a cancellation that failed save nothing. *)
Saves(self) ==
  /\ self.call = "poll" => self.answer.update # None
  /\ self.call = "cancel_refund" => self.answer.success

MoneyMoved(self) == self.call = "charge" /\ self.answer.success

-----------------------------------------------------------------------------
Resting == [phase |-> "idle", call |-> None, amount |-> None, payment |-> None, answer |-> None]

Answer ==
  [success |-> TRUE, later |-> FALSE, amount |-> 0, external |-> None, update |-> None]

LegacyInit ==
  /\ \E opening \in Openings : row = opening.row /\ provider = opening.provider
  /\ tasks   = [t \in Tasks |-> Resting]
  /\ sent    = {}
  /\ calls   = 0
  /\ trouble = {}

Sets(t, self) == tasks' = [tasks EXCEPT ![t] = self]

(* Two calls work on snapshots of the same payment. *)
Overlap(t) == IF \E o \in Tasks \ {t} : tasks[o].phase # "idle" THEN {"overlap"} ELSE {}

(* A command or a poll: the payment is loaded, checked, and the processor  *)
(* is called.  A refused call changes nothing, so it is no step.           *)
Begin(t, call, amount) ==
  /\ tasks[t].phase = "idle" /\ calls < MaxCalls
  /\ MayAsk(row, call, amount)
  /\ Sets(t, [Resting EXCEPT !.phase = "calling", !.call = call, !.amount = amount,
                             !.payment = row])
  /\ calls' = calls + 1
  /\ trouble' = trouble \cup Overlap(t)
  /\ UNCHANGED <<row, provider, sent>>

(* handle_callback: a notice, or one the plugin makes nothing of. *)
Hear(t, u) ==
  /\ tasks[t].phase = "idle"
  /\ Sets(t, [Resting EXCEPT !.phase = "answered", !.call = "callback", !.payment = row,
                             !.answer = [Answer EXCEPT !.update = u]])
  /\ trouble' = trouble \cup Overlap(t)
  /\ UNCHANGED <<row, provider, sent, calls>>

(* The rest of a call: apply and save. *)
Save(t) ==
  LET self == tasks[t]
  IN  /\ self.phase = "answered"
      /\ ValidAnswer(self) /\ Saves(self) /\ CanApply(self.payment, UpdateFor(self))
      /\ row' = Applied(self.payment, UpdateFor(self))
      /\ Sets(t, Resting)
      /\ UNCHANGED <<provider, sent, calls, trouble>>

(* The caller gets ReconciliationRequiredError, because the provider moved *)
(* money the payment does not show, or the plain exception.                *)
Raises(alarm) == trouble' = trouble \cup {IF alarm THEN "alarm" ELSE "failure"}

(* The answer is beyond the request, cannot be applied, or is not saved.   *)
(* A charge that succeeded and an impossible answer raise the alarm.       *)
Reject(t) ==
  LET self == tasks[t]
  IN  /\ self.phase = "answered"
      /\ ~ValidAnswer(self) \/ ~CanApply(self.payment, UpdateFor(self))
      /\ Raises(~ValidAnswer(self) \/ MoneyMoved(self))
      /\ Sets(t, Resting)
      /\ UNCHANGED <<row, provider, sent, calls>>

SaveFails(t) ==
  LET self == tasks[t]
  IN  /\ self.phase = "answered"
      /\ ValidAnswer(self) /\ Saves(self) /\ CanApply(self.payment, UpdateFor(self))
      /\ Raises(MoneyMoved(self))
      /\ Sets(t, Resting)
      /\ UNCHANGED <<row, provider, sent, calls>>

(* Nothing to save. *)
ReturnQuietly(t) ==
  /\ tasks[t].phase = "answered"
  /\ ~Saves(tasks[t])
  /\ Sets(t, Resting)
  /\ UNCHANGED <<row, provider, sent, calls, trouble>>

(* The worker dies, or the processor raises although the provider acted:   *)
(* the flow does not get the answer.                                       *)
Abandon(t) ==
  /\ tasks[t].phase # "idle"
  /\ trouble' = trouble \cup (IF tasks[t].call \in {"callback", "poll"} THEN {} ELSE {"abandoned"})
  /\ Sets(t, Resting)
  /\ UNCHANGED <<row, provider, sent, calls>>

-----------------------------------------------------------------------------
(* The provider and its plugin *)

Calling(t, call) == tasks[t].phase = "calling" /\ tasks[t].call = call

Answers(t, answer) == Sets(t, [tasks[t] EXCEPT !.phase = "answered", !.answer = answer])

Uncharged == provider.hold - provider.charging
Unreturned == provider.captured - provider.refunded - provider.refunding

TakesOrder(t) ==
  /\ Calling(t, "prepare")
  /\ \E x \in OrderIds : Answers(t, [Answer EXCEPT !.external = x])
  /\ provider' = [provider EXCEPT !.ordered = TRUE]
  /\ UNCHANGED <<row, sent, calls, trouble>>

(* Captured at once, reported truthfully or as nothing.  A snapshot that   *)
(* does not know an earlier settlement cannot yield the right total.       *)
CapturesNow(t) ==
  /\ Calling(t, "charge")
  /\ \E amount \in 1 .. tasks[t].amount, truthful \in BOOLEAN :
       /\ amount <= Uncharged
       /\ provider' = [provider EXCEPT !.captured = @ + amount, !.hold = @ - amount]
       /\ Answers(t, [Answer EXCEPT !.amount = IF truthful THEN amount ELSE 0])
  /\ trouble' = trouble \cup
       (IF provider.captured # tasks[t].payment.captured THEN {"mixed"} ELSE {})
  /\ UNCHANGED <<row, sent, calls>>

CapturesLater(t) ==
  /\ Calling(t, "charge")
  /\ provider.charging = 0 /\ tasks[t].amount <= Uncharged
  /\ provider' = [provider EXCEPT !.charging = tasks[t].amount]
  /\ Answers(t, [Answer EXCEPT !.later = TRUE])
  /\ UNCHANGED <<row, sent, calls, trouble>>

Declines(t) ==
  /\ Calling(t, "charge")
  /\ Answers(t, [Answer EXCEPT !.success = FALSE])
  /\ UNCHANGED <<row, provider, sent, calls, trouble>>

ReleasesHold(t) ==
  /\ Calling(t, "release_lock")
  /\ provider.charging = 0 /\ provider.hold > 0
  /\ provider' = [provider EXCEPT !.hold = 0]
  /\ Answers(t, [Answer EXCEPT !.amount = provider.hold])
  /\ UNCHANGED <<row, sent, calls, trouble>>

AcceptsRefund(t) ==
  /\ Calling(t, "start_refund")
  /\ tasks[t].amount <= Unreturned
  /\ provider' = [provider EXCEPT !.refunding = @ + tasks[t].amount]
  /\ Answers(t, [Answer EXCEPT !.amount = tasks[t].amount])
  /\ UNCHANGED <<row, sent, calls, trouble>>

StopsRefund(t) ==
  /\ Calling(t, "cancel_refund")
  /\ provider' = [provider EXCEPT !.refunding = 0]
  /\ Answers(t, [Answer EXCEPT !.success = provider.refunding > 0])
  /\ UNCHANGED <<row, sent, calls, trouble>>

(* A poll reads the totals as they are now, under no event name. *)
TellsTotals(t) ==
  /\ Calling(t, "poll")
  /\ \E u \in {None,
               [Reports("payment_captured") EXCEPT !.paid = provider.captured],
               [Reports("refund_confirmed") EXCEPT !.refunded = provider.refunded]} :
       Answers(t, [Answer EXCEPT !.update = u])
  /\ UNCHANGED <<row, provider, sent, calls, trouble>>

Notify(n) == sent' = sent \cup {n} /\ UNCHANGED <<row, tasks, calls, trouble>>

(* The buyer authorizes the whole amount of the order. *)
Authorize ==
  /\ provider.ordered /\ ~provider.authorized
  /\ provider' = [provider EXCEPT !.hold = row.required, !.authorized = TRUE]
  /\ Notify(LockedNotice(row.required))

SettleCharge ==
  /\ provider.charging > 0
  /\ \/ /\ provider' = [provider EXCEPT !.captured = @ + provider.charging,
                                        !.hold = @ - provider.charging, !.charging = 0]
        /\ Notify(CapturedNotice(provider.captured + provider.charging))
     \/ /\ provider' = [provider EXCEPT !.charging = 0]
        /\ Notify(Reports("failed"))

SettleRefund ==
  /\ provider.refunding > 0
  /\ \E amount \in 1 .. provider.refunding :
       /\ provider' = [provider EXCEPT !.refunded = @ + amount, !.refunding = @ - amount]
       /\ Notify(RefundedNotice(provider.refunded + amount))

Provider == Authorize \/ SettleCharge \/ SettleRefund

Responds(t) ==
  \/ TakesOrder(t) \/ CapturesNow(t) \/ CapturesLater(t) \/ Declines(t) \/ ReleasesHold(t)
  \/ AcceptsRefund(t) \/ StopsRefund(t) \/ TellsTotals(t)

LegacyNext ==
  \/ \E t \in Tasks :
       \/ \E call \in CallType \ {"callback"}, amount \in 1 .. row.required \cup {None} :
            Begin(t, call, amount)
       \/ \E u \in sent \cup {None} : Hear(t, u)
       \/ Responds(t)
       \/ Save(t) \/ Reject(t) \/ SaveFails(t) \/ ReturnQuietly(t) \/ Abandon(t)
  \/ Provider

LegacySpec == LegacyInit /\ [][LegacyNext]_legacyVars

=============================================================================
