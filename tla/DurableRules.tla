---------------------------- MODULE DurableRules ----------------------------
(***************************************************************************)
(* The storage-neutral planners of the durable contract: durable/rules.py, *)
(* durable/evidence.py and durable/resolution.py.                          *)
(*                                                                         *)
(* A planner takes the current facts of one payment and its complete       *)
(* retained history of operations, and returns what an adapter must commit *)
(* together.  Here Can...(...) holds when the planner raises nothing, and  *)
(* the operator named for the plan is a record [facts, ops] of the facts   *)
(* and the history after the commit.                                       *)
(*                                                                         *)
(* facts is a payment of PaymentFsm with two more fields: reconcile        *)
(* (reconciliation_required) and conflicts (observation_conflicts, kept as *)
(* a set because the code never adds one twice).  ops is a function of     *)
(* operation identities; an identity that was never reserved is "absent".  *)
(* One payment with one backend is modelled, so the payment and backend    *)
(* parts of every identity are constant.                                   *)
(***************************************************************************)
EXTENDS PaymentFsm, FiniteSets, FiniteSetsExt

CONSTANT OpId   \* application-supplied operation identities

-----------------------------------------------------------------------------
(* Records (records.py) *)

OperationType ==
  {"prepare", "charge", "release_lock", "start_refund", "cancel_refund"}

(* A record that was never reserved is of none of these types. *)
ASSUME NoneIsNoType == None \notin OperationType

ActiveStates   == {"reserved", "submitting", "provider_pending", "unknown"}
TerminalStates == {"succeeded", "rejected"}

(* The states an outcome may report: what a provider did, or may have done. *)
EvidenceStates == TerminalStates \cup {"provider_pending", "unknown"}

MonetaryTypes == {"charge", "start_refund"}

(* The identity is free. *)
Absent ==
  [type |-> None, state |-> "absent", asked |-> None, target |-> None,
   target_correlation |-> None, amount |-> None, base_captured |-> 0,
   base_refunded |-> 0, base_hold |-> 0, sequence |-> 0, attempts |-> 0,
   pending |-> {}, submitted_at |-> None, retry_until |-> None, scope |-> None,
   settled |-> None, correlation |-> None, reconcile |-> FALSE,
   disputes |-> {}, recovery |-> {}, resolutions |-> {}]

Reserved(ops)       == {id \in OpId : ops[id].state # "absent"}
Active(op)          == op.state \in ActiveStates
ResponsePending(op) == op.pending # {}
Holding(op)         == Active(op) \/ ResponsePending(op)

ActiveRefund(ops) ==
  \E id \in OpId : ops[id].type = "start_refund" /\ Active(ops[id])

-----------------------------------------------------------------------------
(* _apply_to_facts: one provider claim run through the state engine.       *)

NoClaim ==
  [event |-> None, fraud_event |-> None, paid |-> None, refunded |-> None,
   locked |-> None, external |-> None, event_id |-> None, operation |-> None,
   outcome |-> None, scope |-> None, delta |-> FALSE]

CaptureClaim(paid)    == [NoClaim EXCEPT !.event = "payment_captured", !.paid = paid]
RefundClaim(refunded) == [NoClaim EXCEPT !.event = "refund_confirmed", !.refunded = refunded]

(* A snapshot older than a recorded capture cannot reinstate its hold.     *)
WithoutStaleHold(f, u) ==
  IF u.paid # None /\ u.paid < f.captured
  THEN [u EXCEPT !.locked = None, !.event = IF @ = "locked" THEN None ELSE @]
  ELSE u

(* First the captured total ... *)
CanApplyCapture(f, u) == u.paid = None \/ CanApplyUpdate(f, CaptureClaim(u.paid))
AfterCapture(f, u)    == IF u.paid = None THEN f ELSE AfterUpdate(f, CaptureClaim(u.paid))

(* ... then the refunded total, unless it is old and nobody confirms it ... *)
ConfirmsRefund(f, u) ==
  u.refunded # None /\ (u.refunded > f.refunded \/ u.event = "refund_confirmed")

CanApplyRefund(f, u) ==
  ConfirmsRefund(f, u) => CanApplyUpdate(f, RefundClaim(u.refunded))
AfterRefund(f, u) ==
  IF ConfirmsRefund(f, u) THEN AfterUpdate(f, RefundClaim(u.refunded)) ELSE f

(* ... then what is left of the update. *)
EventConsumed(f, u) ==
  \/ u.event = "payment_captured" /\ u.paid # None
  \/ u.event = "refund_confirmed" /\ u.refunded # None
  \/ u.event = "lock_released" /\ u.scope = "release_lock" /\ f.hold = 0

Remainder(f, u) ==
  [u EXCEPT !.event    = IF EventConsumed(f, u) THEN None ELSE @,
            !.paid     = None,
            !.refunded = None]

AfterFunds(f, u) == AfterRefund(AfterCapture(f, u), u)

CanApplyToFacts(f, claim) ==
  LET u == WithoutStaleHold(f, claim)
  IN  /\ CanApplyCapture(f, u)
      /\ CanApplyRefund(AfterCapture(f, u), u)
      /\ CanApplyUpdate(AfterFunds(f, u), Remainder(AfterFunds(f, u), u))

(* An unresolved refund stays visible unless the claim is about its end,   *)
(* and a capture confirmed after funds were returned needs a human.        *)
AppliedToFacts(f, claim) ==
  LET u    == WithoutStaleHold(f, claim)
      next == AfterUpdate(AfterFunds(f, u), Remainder(AfterFunds(f, u), u))
  IN  [next EXCEPT
        !.status    = IF /\ HasUnresolvedRefund(f)
                         /\ u.event \notin {"refund_confirmed", "refund_cancelled"}
                      THEN "refund_started" ELSE @,
        !.reconcile = \/ @
                      \/ /\ next.captured > f.captured
                         /\ f.refunded > 0 \/ HasUnresolvedRefund(f)]

(* _financial_observation_is_possible: could these totals be true of the   *)
(* payment at all?  A snapshot's hold is judged against its own capture.   *)
ClaimedCapture(f, u) ==
  IF u.paid = None THEN f.captured ELSE Larger(f.captured, u.paid)

Possible(f, u) ==
  /\ f.captured <= f.required
  /\ u.paid     = None \/ u.paid     \in 0 .. f.required
  /\ u.refunded = None \/ u.refunded \in 0 .. ClaimedCapture(f, u)
  /\ \/ u.locked = None
     \/ u.locked \in 1 .. (f.required - (IF u.paid = None THEN f.captured ELSE u.paid))

-----------------------------------------------------------------------------
(* plan_reservation *)

SameRequest(op, i) == op.type = i.type /\ op.asked = i.amount /\ op.target = i.target

(* A cancellation names a refund the provider has accepted and identified. *)
CancellableRefund(ops, target) ==
  /\ target \in OpId
  /\ ops[target].type = "start_refund"
  /\ ops[target].state = "provider_pending"
  /\ ops[target].correlation # None

(* Mutant of Blocks: an operation is out of the way once its outcome is    *)
(* known, although its worker still owes the response.                     *)
BlocksWhileActive(ops, id, i) ==
  Active(ops[id]) /\ ~(i.type = "cancel_refund" /\ id = i.target)

(* One mutation at a time, except a cancellation of the refund it names.   *)
Blocks(ops, id, i) ==
  /\ Holding(ops[id])
  /\ ~ /\ i.type = "cancel_refund"
       /\ id = i.target
       /\ ops[id].type = "start_refund"
       /\ ops[id].state = "provider_pending"

AvailableAmount(f, type) ==
  CASE type = "release_lock" -> f.hold
    [] type = "charge"       -> CapturableAmount(f)
    [] type = "start_refund" -> RefundableAmount(f)
    [] OTHER                 -> None

(* _resolve_amount: the whole available amount by default. *)
ResolvedAmount(f, i) == IF i.amount = None THEN AvailableAmount(f, i.type) ELSE i.amount

CanResolveAmount(f, i) ==
  /\ ValidAmounts(f)
  /\ i.type \in {"prepare", "cancel_refund"} => i.amount = None
  /\ i.type = "prepare" => f.status = "new" /\ f.captured = 0 /\ f.hold = 0
  /\ i.type = "release_lock" => f.hold > 0 /\ i.amount \in {None, f.hold}
  /\ i.type = "charge" => CaptureEligible(f)
  /\ i.type \in MonetaryTypes => ResolvedAmount(f, i) \in 1 .. AvailableAmount(f, i.type)

CanReserve(f, ops, i) ==
  /\ ops[i.id].state = "absent"
  /\ ~f.reconcile
  /\ \A id \in OpId : ~ops[id].reconcile
  /\ i.type = "cancel_refund" => CancellableRefund(ops, i.target)
  /\ \A id \in OpId : ~Blocks(ops, id, i)
  /\ CanResolveAmount(f, i)

NextSequence(ops) == Max({ops[id].sequence : id \in OpId} \cup {0}) + 1

Reservation(f, ops, i) ==
  [facts |-> IF i.type = "start_refund" THEN [f EXCEPT !.status = "refund_started"] ELSE f,
   ops   |-> [ops EXCEPT ![i.id] =
               [Absent EXCEPT
                 !.type          = i.type,
                 !.state         = "reserved",
                 !.asked         = i.amount,
                 !.target        = i.target,
                 !.target_correlation =
                   IF i.type = "cancel_refund" THEN ops[i.target].correlation ELSE None,
                 !.amount        = ResolvedAmount(f, i),
                 !.base_captured = f.captured,
                 !.base_refunded = f.refunded,
                 !.base_hold     = f.hold,
                 !.sequence      = NextSequence(ops)]]]

-----------------------------------------------------------------------------
(* plan_submission: compare-and-set of the submission counter. *)

CanSubmit(f, op, expected, now) ==
  /\ ~f.reconcile /\ ~op.reconcile
  /\ op.attempts = expected
  /\ \/ op.attempts = 0 /\ op.state = "reserved"
     \/ /\ op.attempts > 0
        /\ op.state \in {"unknown", "submitting"}
        /\ op.retry_until # None /\ now < op.retry_until

(* Mutant of Submission: every claim starts a new retry window. *)
SubmissionExtended(op, now, retry_until, scope) ==
  [op EXCEPT !.state = "submitting", !.attempts = @ + 1,
             !.pending = @ \cup {op.attempts + 1}, !.submitted_at = now,
             !.retry_until = retry_until, !.scope = scope]

(* Only the first claim sets the submission time, scope and deadline.      *)
Submission(op, now, retry_until, scope) ==
  [op EXCEPT !.state        = "submitting",
             !.attempts     = @ + 1,
             !.pending      = @ \cup {op.attempts + 1},
             !.submitted_at = IF op.attempts = 0 THEN now ELSE @,
             !.retry_until  = IF op.attempts = 0 THEN retry_until ELSE @,
             !.scope        = IF op.attempts = 0 THEN scope ELSE @]

-----------------------------------------------------------------------------
(* plan_outcome *)

SettledAmount(op, o) == IF o.settled = None THEN op.amount ELSE o.settled

WellFormedOutcome(op, o) ==
  /\ o.external # None => op.type = "prepare"
  /\ o.state \in EvidenceStates
  /\ o.settled # None => o.state = "succeeded" /\ op.type \in MonetaryTypes
  /\ o.state = "succeeded" /\ op.type \in MonetaryTypes => SettledAmount(op, o) # None

(* More (or less) than the reservation can have moved. *)
Overstated(op, o) ==
  o.state = "succeeded" /\ o.settled # None /\ ~(o.settled \in 1 .. op.amount)

ConflictingCorrelation(op, o) ==
  op.correlation # None /\ o.correlation # None /\ op.correlation # o.correlation

ContradictoryTerminal(op, o) ==
  /\ op.state \in TerminalStates /\ o.state \in TerminalStates
  /\ \/ op.state # o.state
     \/ op.state = "succeeded" /\ SettledAmount(op, o) # op.settled

ConflictingExternalId(f, o) ==
  f.external # None /\ o.external # None /\ f.external # o.external

(* Mutant of CancelledRefundSettled: any rejected refund may settle late. *)
AnyRefundSettled(ops, id, o) ==
  ops[id].state = "rejected" /\ o.state = "succeeded" /\ ops[id].type = "start_refund"

(* A refund rejected by its cancellation may still turn out to have run.   *)
CancelledRefundSettled(ops, id, o) ==
  /\ ops[id].state = "rejected" /\ o.state = "succeeded"
  /\ ops[id].type = "start_refund"
  /\ \E c \in OpId : /\ ops[c].type = "cancel_refund"
                     /\ ops[c].state = "succeeded"
                     /\ ops[c].target = id

Disputed(f, op, o) ==
  [facts |-> [f EXCEPT !.reconcile = TRUE],
   op    |-> [op EXCEPT !.reconcile = TRUE, !.disputes = @ \cup {o}]]

(* What every accepted outcome leaves on the record, settled or not. *)
Contradicts(f, op, o) ==
  ConflictingCorrelation(op, o) \/ ConflictingExternalId(f, o) \/ ContradictoryTerminal(op, o)

Noted(f, op, o) ==
  [op EXCEPT !.correlation = IF @ = None THEN o.correlation ELSE @,
             !.reconcile   = @ \/ o.reconcile \/ Contradicts(f, op, o),
             !.disputes    = IF Contradicts(f, op, o) THEN @ \cup {o} ELSE @]

NotedFacts(f, op, o) == [f EXCEPT !.reconcile = @ \/ Noted(f, op, o).reconcile]

(* _confirmed_refund_total: every refund's starting total plus the refunds *)
(* confirmed at or after it is a lower bound of what was returned; the     *)
(* greatest one counts no refund twice.                                    *)
Refunds(ops) == {id \in OpId : ops[id].type = "start_refund"}

ConfirmedSince(ops, id) ==
  {r \in Refunds(ops) : /\ ops[r].sequence >= ops[id].sequence
                        /\ ops[r].state = "succeeded"
                        /\ ops[r].settled # None}

RefundBound(ops, id) ==
  ops[id].base_refunded
    + SumFunctionOnSet([r \in OpId |-> ops[r].settled], ConfirmedSince(ops, id))

(* Mutant of ConfirmedRefundTotal: only the refund's own baseline counts.  *)
RefundOnOwnBaseline(ops, id, settled) == ops[id].base_refunded + settled

ConfirmedRefundTotal(ops, id, settled) ==
  LET confirmed == [ops EXCEPT ![id].state = "succeeded", ![id].settled = settled]
  IN  Max({RefundBound(confirmed, r) : r \in Refunds(ops)} \cup {0})

(* The cumulative claim a succeeded operation makes about the payment.     *)
SettlementClaim(f, ops, id, o) ==
  LET op == ops[id]
  IN  CASE op.type = "charge" -> CaptureClaim(op.base_captured + SettledAmount(op, o))
        [] op.type = "start_refund" ->
             RefundClaim(ConfirmedRefundTotal(ops, id, SettledAmount(op, o)))
        [] op.type = "release_lock" ->
             [NoClaim EXCEPT !.event = IF f.hold = 0 THEN None ELSE "lock_released"]
        [] op.type = "prepare" ->
             [NoClaim EXCEPT !.event    = IF f.status = "new" THEN "prepared" ELSE None,
                             !.external = o.external]
        [] OTHER -> NoClaim

(* Mutant of OnlyNoted: the newest outcome wins over a terminal state. *)
OnlyNotedOnConflict(f, ops, id, o) ==
  ConflictingCorrelation(ops[id], o) \/ ConflictingExternalId(f, o)

(* The outcome adds evidence but establishes no new effect. *)
OnlyNoted(f, ops, id, o) ==
  \/ ConflictingCorrelation(ops[id], o)
  \/ ConflictingExternalId(f, o)
  \/ ops[id].state \in TerminalStates /\ ~CancelledRefundSettled(ops, id, o)

(* Facts when the outcome conflicts with neither identity. *)
IdentifiedFacts(f, op, o) == WithExternal(NotedFacts(f, op, o), o.external)

CanPlanOutcome(f, ops, id, o) ==
  LET op == ops[id]
      g  == IdentifiedFacts(f, op, o)
      claim == SettlementClaim(g, ops, id, o)
  IN  /\ op.state # "absent"
      /\ WellFormedOutcome(op, o)
      /\ \/ Overstated(op, o)
         \/ OnlyNoted(f, ops, id, o)
         \/ o.state # "succeeded"
         \/ /\ op.type = "cancel_refund" => op.target \in Refunds(ops)
            /\ Possible(g, claim) => CanApplyToFacts(g, claim)

(* A refund's own status marker follows the refunds still active. *)
Reprojected(f, ops, type) ==
  IF type \in {"start_refund", "cancel_refund"}
  THEN Projected(f, ActiveRefund(ops), FALSE) ELSE f

NextState(op, o) ==
  IF op.state = "provider_pending" /\ o.state = "unknown" THEN op.state ELSE o.state

(* A successful cancellation rejects its target if that is still open.     *)
StopsTarget(ops, id, o) ==
  /\ ops[id].type = "cancel_refund" /\ o.state = "succeeded"
  /\ Active(ops[ops[id].target])

SettledOps(f, ops, id, o) ==
  LET op    == ops[id]
      moved == [Noted(f, op, o) EXCEPT
                 !.state   = NextState(op, o),
                 !.settled = IF o.state = "succeeded" THEN SettledAmount(op, o) ELSE @]
  IN  [other \in OpId |->
        IF other = id THEN moved
        ELSE IF StopsTarget(ops, id, o) /\ other = op.target
             THEN [ops[other] EXCEPT !.state = "rejected"]
        ELSE ops[other]]

OutcomePlan(f, ops, id, o) ==
  LET op    == ops[id]
      g     == IdentifiedFacts(f, op, o)
      claim == SettlementClaim(g, ops, id, o)
      next  == SettledOps(f, ops, id, o)
      Dispute(facts, record) ==
        [facts |-> Disputed(facts, record, o).facts,
         ops   |-> [ops EXCEPT ![id] = Disputed(facts, record, o).op]]
  IN  CASE Overstated(op, o) -> Dispute(f, op)
        [] ~Overstated(op, o) /\ OnlyNoted(f, ops, id, o) ->
             [facts |-> IF ConflictingCorrelation(op, o) \/ ConflictingExternalId(f, o)
                        THEN NotedFacts(f, op, o) ELSE g,
              ops   |-> [ops EXCEPT ![id] = Noted(f, op, o)]]
        [] OTHER ->
             IF o.state # "succeeded"
             THEN [facts |-> Reprojected(g, next, op.type), ops |-> next]
             ELSE IF ~Possible(g, claim)
             THEN Dispute(g, Noted(f, op, o))
             ELSE [facts |-> Reprojected(AppliedToFacts(g, claim), next, op.type),
                   ops   |-> next]

-----------------------------------------------------------------------------
(* plan_observation *)

(* _validate_observation: malformed evidence raises before any commit.     *)
WellFormedObservation(u) ==
  /\ u.event = "locked" => u.locked # None
  /\ u.scope # None => u.scope = "release_lock" /\ u.event = "lock_released"
  /\ u.operation # None => u.outcome # None
  /\ u.outcome # None => /\ u.outcome.state \in EvidenceStates
                         /\ u.outcome.settled # None => u.outcome.state = "succeeded"

(* Mutant of Retained: only the last refused claim is kept.                *)
RetainedLatest(f, u, reasons) ==
  [f EXCEPT !.reconcile = @ \/ reasons # {},
            !.conflicts = {[claim |-> u, reason |-> r] : r \in reasons}]

(* _retain_observation: keep the refused claim and stop new commands.      *)
Retained(f, u, reasons) ==
  [f EXCEPT !.reconcile = @ \/ reasons # {},
            !.conflicts = @ \cup {[claim |-> u, reason |-> r] : r \in reasons}]

ScopedRelease(u) == u.scope = "release_lock" /\ u.event = "lock_released"

CancellationEvents == {"lock_released", "refund_cancelled"}

ScreeningReasons(f, u) ==
  {r \in {"unresolved_delta", "ambiguous_cancellation", "conflicting_external_id"} :
     \/ r = "unresolved_delta" /\ u.delta /\ u.outcome = None
     \/ /\ r = "ambiguous_cancellation"
        /\ u.event \in CancellationEvents /\ ~ScopedRelease(u) /\ u.outcome = None
     \/ r = "conflicting_external_id" /\ ConflictingExternalId(f, u)}

(* The event label only survives where it says something about the whole   *)
(* payment; increments and correlated outcomes are resolved per operation. *)
KeepsEvent(u) ==
  /\ u.delta => u.event = "failed"
  /\ u.outcome # None => u.event \in {"failed", "locked"}
  /\ u.event \in CancellationEvents => ScopedRelease(u)

(* Mutant of Aggregate: the last provider handle named replaces the first. *)
AggregateRenaming(f, u) ==
  [u EXCEPT !.event = IF KeepsEvent(u) THEN @ ELSE None]

Aggregate(f, u) ==
  [u EXCEPT !.event    = IF KeepsEvent(u) THEN @ ELSE None,
            !.paid     = IF u.delta THEN None ELSE @,
            !.refunded = IF u.delta THEN None ELSE @,
            !.locked   = IF u.delta THEN None ELSE @,
            !.external = IF ConflictingExternalId(f, u) THEN None ELSE @]

(* The operations an outcome is about: the one it names, or those that     *)
(* hold its provider handle.                                               *)
Candidates(ops, u) ==
  IF u.operation # None
  THEN {id \in Reserved(ops) : id = u.operation}
  ELSE {id \in Reserved(ops) : /\ u.outcome.correlation # None
                               /\ ops[id].correlation = u.outcome.correlation}

DeltaMatches(u, op) ==
  LET confirmed == SettledAmount(op, u.outcome)
      Agrees(actual, type) ==
        \/ actual = None
        \/ u.outcome.state = "succeeded" /\ op.type = type /\ actual = confirmed
  IN  u.delta => /\ Agrees(u.paid, "charge")
                 /\ Agrees(u.refunded, "start_refund")
                 /\ u.locked = None

ScreenedFacts(f, u) == Retained(f, u, ScreeningReasons(f, u))

(* Facts once the aggregate part has been applied. *)
AggregatedFacts(f, u) == AppliedToFacts(ScreenedFacts(f, u), Aggregate(f, u))

CorrelationFailure(ops, u) ==
  IF Cardinality(Candidates(ops, u)) # 1 THEN {"uncorrelated_outcome"}
  ELSE {r \in {"conflicting_delta"} : \E id \in Candidates(ops, u) : ~DeltaMatches(u, ops[id])}

Correlated(ops, u) == u.outcome # None /\ CorrelationFailure(ops, u) = {}

CanPlanObservation(f, ops, u) ==
  /\ CanApplyToFacts(ScreenedFacts(f, u), Aggregate(f, u))
  /\ Correlated(ops, u) =>
       \A id \in Candidates(ops, u) :
         CanPlanOutcome(AggregatedFacts(f, u), ops, id, u.outcome)

(* Mutant of CorrelatedPlan: the operation is committed, its money is not. *)
CorrelatedWithoutFunds(f, ops, u) ==
  IF Correlated(ops, u)
  THEN [facts |-> AggregatedFacts(f, u),
        ops   |-> OutcomePlan(AggregatedFacts(f, u), ops,
                              CHOOSE id \in Candidates(ops, u) : TRUE, u.outcome).ops]
  ELSE [facts |-> AggregatedFacts(f, u), ops |-> ops]

CorrelatedPlan(f, ops, u) ==
  IF u.outcome = None THEN [facts |-> AggregatedFacts(f, u), ops |-> ops]
  ELSE IF Correlated(ops, u)
  THEN LET id == CHOOSE id \in Candidates(ops, u) : TRUE
       IN  OutcomePlan(AggregatedFacts(f, u), ops, id, u.outcome)
  ELSE [facts |-> Retained(AggregatedFacts(f, u), u, CorrelationFailure(ops, u)),
        ops   |-> ops]

(* Mutant of ObservationPlan: a confirmed total hides the open refund. *)
ObservationHidingRefund(f, ops, u) == CorrelatedPlan(f, ops, u)

(* A refund of ours that is still open always shows. *)
ObservationPlan(f, ops, u) ==
  LET plan == CorrelatedPlan(f, ops, u)
  IN  [facts |-> [plan.facts EXCEPT
                   !.status = IF ActiveRefund(plan.ops) THEN "refund_started" ELSE @],
       ops   |-> plan.ops]

-----------------------------------------------------------------------------
(* plan_operation_failure *)

FailureNoted(op, evidence) ==
  [op EXCEPT !.reconcile = TRUE, !.recovery = @ \cup {evidence}]

-----------------------------------------------------------------------------
(* plan_resolution: an operator's audited decision on one operation.       *)

Corrects(op, r) == op.state = "succeeded" /\ SettledAmount(op, r.outcome) # op.settled

Overturns(op, r) == op.state = "rejected" /\ r.outcome.state = "succeeded"

(* The settlement a correction replaces is kept as disputed evidence. *)
Superseded(op) ==
  [state |-> "succeeded", settled |-> op.settled, correlation |-> op.correlation,
   reconcile |-> FALSE, external |-> None]

(* Mutant of Reopened: a decision closes the file. *)
ReopenedWithoutDisputes(op, r) ==
  [op EXCEPT !.reconcile = FALSE, !.disputes = {},
             !.state = IF op.state = "rejected" \/ Corrects(op, r) THEN "unknown" ELSE @]

Reopened(op, r) ==
  [op EXCEPT !.reconcile = FALSE,
             !.disputes  = IF Corrects(op, r) THEN @ \cup {Superseded(op)} ELSE @,
             !.state     = IF op.state = "rejected" \/ Corrects(op, r) THEN "unknown" ELSE @]

ResolvedPlan(f, ops, id, r) ==
  OutcomePlan(f, [ops EXCEPT ![id] = Reopened(ops[id], r)], id, r.outcome)

(* Mutants of MayDecide: a decision may lower a settlement; a decision may *)
(* change a settlement later intents were reserved on.                     *)
MayLower(ops, id, r) == ops[id].state = "succeeded" => r.outcome.state = "succeeded"
MayDecideAnytime(ops, id, r) ==
  /\ ops[id].state = "succeeded" => r.outcome.state = "succeeded"
  /\ Corrects(ops[id], r) =>
       /\ ops[id].settled # None
       /\ SettledAmount(ops[id], r.outcome) \in ops[id].settled .. ops[id].amount

(* Confirmed effects are never undone, and a settlement changes only while *)
(* nothing was reserved on top of it.                                      *)
MayDecide(ops, id, r) ==
  LET op == ops[id]
  IN  /\ op.state = "succeeded" => r.outcome.state = "succeeded"
      /\ Corrects(op, r) =>
           /\ op.settled # None
           /\ SettledAmount(op, r.outcome) \in op.settled .. op.amount
      /\ Corrects(op, r) \/ Overturns(op, r) =>
           \A other \in OpId : ops[other].sequence <= op.sequence

ResolutionPlan(f, ops, id, r) ==
  LET plan == ResolvedPlan(f, ops, id, r)
      keeps_marker == /\ ops[id].state \in TerminalStates
                      /\ HasUnresolvedRefund(f)
                      /\ \A other \in OpId \ {id} : plan.ops[other] = ops[other]
  IN  [facts |-> [plan.facts EXCEPT
                   !.status    = IF keeps_marker THEN "refund_started" ELSE @,
                   !.reconcile = IF r.clear THEN FALSE ELSE @],
       ops   |-> [plan.ops EXCEPT ![id].resolutions = @ \cup {r},
                                  ![id].pending     = {}]]

CanResolve(f, ops, id, r) ==
  LET reopened == [ops EXCEPT ![id] = Reopened(ops[id], r)]
      plan     == ResolutionPlan(f, ops, id, r)
  IN  /\ ops[id].state # "absent"
      /\ \A previous \in ops[id].resolutions : previous.id # r.id
      /\ ValidAmounts(f)
      /\ MayDecide(ops, id, r)
      /\ CanPlanOutcome(f, reopened, id, r.outcome)
      /\ ~plan.ops[id].reconcile
      /\ r.clear => \A other \in OpId : ~plan.ops[other].reconcile

=============================================================================
