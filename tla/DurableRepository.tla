-------------------------- MODULE DurableRepository --------------------------
(***************************************************************************)
(* One payment in the durable repository of durable/memory.py: the         *)
(* committed facts, the retained operations and the replay log, changed    *)
(* only by the planners of DurableRules.                                   *)
(*                                                                         *)
(* Every operation of the repository reads, plans and commits while it     *)
(* holds the payment's lock, so each is one action.  The callers --        *)
(* commands, submitting workers, callbacks, polling, recovery and          *)
(* operators -- are not ordered by anything, so any call may come next     *)
(* with any argument: a late response, a callback before its response, an  *)
(* answer that contradicts another, a duplicate.  What an operator decides *)
(* is based on reads made earlier, which may be stale by then.             *)
(***************************************************************************)
EXTENDS DurableRules

CONSTANTS
  Intents,        \* instructions an application may issue
  Outcomes,       \* provider evidence about one operation
  Observations,   \* provider evidence about the payment
  Evidence,       \* normalized claims of a response that was not recorded
  Resolutions,    \* decisions an operator may take
  Reviewers,      \* operators
  InitialFacts,   \* payments the repository may be opened with
  Times,          \* instants at which a submission is claimed
  Deadlines,      \* retry deadlines a submission may be claimed with
  Scopes,         \* idempotency scopes a processor may declare
  EventId,        \* provider event identities
  Correlations,   \* provider handles of operations
  ExternalIds,    \* provider handles of the payment
  MaxAttempts     \* bound: submissions of one operation

VARIABLES
  facts,    \* committed PaymentFacts
  ops,      \* committed OperationRecords, by identity
  replay,   \* applied observations, by event identity
  review    \* what each operator last read

vars == <<facts, ops, replay, review>>

-----------------------------------------------------------------------------
(* Types *)

Optional(S) == S \cup {None}

Intent ==
  [id : OpId, type : OperationType, amount : Optional(Int), target : Optional(OpId)]

Outcome ==
  [state : EvidenceStates, settled : Optional(Int),
   correlation : Optional(Correlations), reconcile : BOOLEAN,
   external : Optional(ExternalIds)]

Observation ==
  [event : Optional(PaymentEvent), fraud_event : Optional(FraudEvent),
   paid : Optional(Int), refunded : Optional(Int), locked : Optional(Int),
   external : Optional(ExternalIds), event_id : Optional(EventId),
   operation : Optional(OpId), outcome : Optional(Outcome),
   scope : Optional(OperationType), delta : BOOLEAN]

(* An operator's decision; who, why and when are part of its identity. *)
Resolution == [id : STRING, outcome : Outcome, clear : BOOLEAN]

RetentionReason ==
  {"conflicting_identity", "financial_constraints", "unresolved_delta",
   "ambiguous_cancellation", "conflicting_external_id",
   "uncorrelated_outcome", "conflicting_delta"}

PaymentFacts ==
  [required : Int, captured : Int, refunded : Int, hold : Int,
   status : PaymentStatus, external : Optional(ExternalIds),
   fraud : FraudStatus, reconcile : BOOLEAN,
   conflicts : SUBSET [claim : Observation, reason : RetentionReason]]

OperationRecord ==
  [type : Optional(OperationType), state : ActiveStates \cup TerminalStates \cup {"absent"},
   asked : Optional(Int), target : Optional(OpId),
   target_correlation : Optional(Correlations), amount : Optional(Int),
   base_captured : Int, base_refunded : Int, base_hold : Int,
   sequence : Nat, attempts : Nat, pending : SUBSET Nat,
   submitted_at : Optional(Int), retry_until : Optional(Int), scope : Optional(Scopes),
   settled : Optional(Int), correlation : Optional(Correlations),
   reconcile : BOOLEAN, disputes : SUBSET Outcome, recovery : SUBSET Evidence,
   resolutions : SUBSET Resolution]

Review == [facts : Optional(PaymentFacts), id : Optional(OpId), op : Optional(OperationRecord)]

(* What callers may pass, and what a payment may start from. *)
ASSUME InputsTyped ==
  /\ Intents \subseteq Intent
  /\ Outcomes \subseteq Outcome
  /\ Observations \subseteq Observation /\ None \notin Observations
  /\ Resolutions \subseteq Resolution
  /\ Times \subseteq Int /\ Deadlines \subseteq Int
  /\ MaxAttempts \in Nat

ASSUME ResolutionsAreTerminal ==
  \A r \in Resolutions : r.outcome.state \in TerminalStates /\ ~r.outcome.reconcile

(* A repository is opened with facts of its own or migrated ones; the      *)
(* balances of a migrated payment are taken as they were stored, so this   *)
(* leaves out a legacy payment whose balances were impossible already.     *)
ASSUME PaymentsOpenValid ==
  InitialFacts \subseteq {f \in PaymentFacts : ValidAmounts(f)}

(* Once funds were captured the status is one from which no lock is        *)
(* accepted any more; a payment opened with captured funds shows them.     *)
Funded(p) == p.captured > 0 => p.status \notin {"new", "prepared", "pre-auth"}

FundsShownAtOpening == \A f \in InitialFacts : Funded(f)

(* The public status is the projection of the totals, or an unresolved     *)
(* refund, once funds were captured, and claims none before.               *)
ShowsTotals(p) ==
  /\ IF p.captured > 0
     THEN p.status \in {"refund_started", ProjectedStatus(p, FALSE, FALSE)}
     ELSE p.status \notin SettlementStatus \ {"pre-auth"}
  /\ p.status = "pre-auth" => p.hold > 0
  /\ p.status = "cancelled" => p.hold = 0

TotalsShownAtOpening == \A f \in InitialFacts : ShowsTotals(f)

-----------------------------------------------------------------------------
Init ==
  /\ facts  \in InitialFacts
  /\ ops    = [id \in OpId |-> Absent]
  /\ replay = [e \in EventId |-> None]
  /\ review = [w \in Reviewers |-> [facts |-> None, id |-> None, op |-> None]]

Commit(plan) == facts' = plan.facts /\ ops' = plan.ops

(* reserve_operation, a new intent. *)
Reserve(i) ==
  /\ CanReserve(facts, ops, i)
  /\ Commit(Reservation(facts, ops, i))
  /\ UNCHANGED <<replay, review>>

(* reserve_operation, an intent repeated: the reservation is handed back.  *)
Resume(i) ==
  /\ ops[i.id].state # "absent"
  /\ SameRequest(ops[i.id], i)
  /\ UNCHANGED vars

(* claim_submission, when the caller wins it. *)
Claim(id, expected, now, retry_until, scope) ==
  /\ ops[id].state # "absent"
  /\ ops[id].attempts < MaxAttempts
  /\ CanSubmit(facts, ops[id], expected, now)
  /\ ops' = [ops EXCEPT ![id] = Submission(@, now, retry_until, scope)]
  /\ UNCHANGED <<facts, replay, review>>

(* Mutant of WithoutAttempt: any answer acknowledges every producer. *)
AllAttemptsRetired(all, id, attempt) == [all EXCEPT ![id].pending = {}]

(* record_operation_outcome.  A submitting worker passes its attempt, which *)
(* retires that attempt; a query passes none.                              *)
WithoutAttempt(all, id, attempt) ==
  IF attempt = None THEN all ELSE [all EXCEPT ![id].pending = @ \ {attempt}]

RecordOutcome(id, o, attempt) ==
  /\ attempt = None \/ attempt \in 1 .. ops[id].attempts
  /\ CanPlanOutcome(facts, ops, id, o)
  /\ facts' = OutcomePlan(facts, ops, id, o).facts
  /\ ops'   = WithoutAttempt(OutcomePlan(facts, ops, id, o).ops, id, attempt)
  /\ UNCHANGED <<replay, review>>

(* record_operation_failure *)
RecordFailure(id, evidence) ==
  /\ ops[id].state # "absent"
  /\ ops' = [ops EXCEPT ![id] = FailureNoted(@, evidence)]
  /\ UNCHANGED <<facts, replay, review>>

-----------------------------------------------------------------------------
(* apply_observation *)

Replayed(u) == u.event_id # None /\ replay[u.event_id] # None

(* Mutant of ObserveAgain: other content under a known identity is taken   *)
(* for a correction.                                                       *)
ObserveCorrection(u) ==
  /\ WellFormedObservation(u)
  /\ Replayed(u)
  /\ Possible(facts, u) /\ CanPlanObservation(facts, ops, u)
  /\ Commit(ObservationPlan(facts, ops, u))
  /\ UNCHANGED <<replay, review>>

(* The event identity is known.  The same content applies nothing; other   *)
(* content is kept as a conflict.                                          *)
ObserveAgain(u) ==
  /\ WellFormedObservation(u)
  /\ Replayed(u)
  /\ facts' = IF replay[u.event_id] = u THEN facts
              ELSE Retained(facts, u, {"conflicting_identity"})
  /\ UNCHANGED <<ops, replay, review>>

(* The totals cannot be true of this payment. *)
ObserveImpossible(u) ==
  /\ WellFormedObservation(u)
  /\ ~Replayed(u)
  /\ ~Possible(facts, u)
  /\ facts' = Retained(facts, u, {"financial_constraints"})
  /\ UNCHANGED <<ops, replay, review>>

Observe(u) ==
  /\ WellFormedObservation(u)
  /\ ~Replayed(u)
  /\ Possible(facts, u)
  /\ CanPlanObservation(facts, ops, u)
  /\ Commit(ObservationPlan(facts, ops, u))
  /\ replay' = IF u.event_id = None THEN replay ELSE [replay EXCEPT ![u.event_id] = u]
  /\ UNCHANGED review

-----------------------------------------------------------------------------
(* resolve_operation.  An operator reads any operation on record, settled  *)
(* ones included, and the facts, in two calls, and decides.                *)

(* list_unresolved_operations *)
Unresolved(id) == Active(ops[id]) \/ ops[id].reconcile \/ ResponsePending(ops[id])

ReviewOperation(w, id) ==
  /\ ops[id].state # "absent"
  /\ review' = [review EXCEPT ![w] = [facts |-> None, id |-> id, op |-> ops[id]]]
  /\ UNCHANGED <<facts, ops, replay>>

ReviewFacts(w) ==
  /\ review[w].id # None /\ review[w].facts = None
  /\ review' = [review EXCEPT ![w].facts = facts]
  /\ UNCHANGED <<facts, ops, replay>>

(* The decision commits only if what was reviewed is still what is stored. *)
Resolve(w, r) ==
  /\ review[w].id # None /\ review[w].facts # None
  /\ LET id == review[w].id
     IN  /\ review[w].facts = facts
         /\ review[w].op = ops[id]
         /\ CanResolve(facts, ops, id, r)
         /\ Commit(ResolutionPlan(facts, ops, id, r))
  /\ review' = [review EXCEPT ![w] = [facts |-> None, id |-> None, op |-> None]]
  /\ UNCHANGED replay

Operate ==
  \/ \E i \in Intents : Reserve(i) \/ Resume(i)
  \/ \E id \in OpId, expected \in 0 .. MaxAttempts, now \in Times :
       \E retry_until \in Optional(Deadlines), scope \in Optional(Scopes) :
         Claim(id, expected, now, retry_until, scope)
  \/ \E id \in OpId, o \in Outcomes, attempt \in Optional(1 .. MaxAttempts) :
       RecordOutcome(id, o, attempt)
  \/ \E id \in OpId, evidence \in Evidence : RecordFailure(id, evidence)

Notice == \E u \in Observations : ObserveAgain(u) \/ ObserveImpossible(u) \/ Observe(u)

Decide ==
  \E w \in Reviewers :
    \/ \E id \in OpId : ReviewOperation(w, id)
    \/ ReviewFacts(w)
    \/ \E r \in Resolutions : Resolve(w, r)

Next == Operate \/ Notice \/ Decide

Spec == Init /\ [][Next]_vars

-----------------------------------------------------------------------------
(* Invariants *)

(* Every committed value has the shape its record declares. *)
TypeOK ==
  /\ facts  \in PaymentFacts
  /\ ops    \in [OpId -> OperationRecord]
  /\ replay \in [EventId -> Optional(Observation)]
  /\ review \in [Reviewers -> Review]

(* Whatever providers, callbacks and operators say, and in whatever order,  *)
(* the committed balances of rules.py stay possible: nothing captured      *)
(* beyond the required amount, nothing refunded that was not captured,     *)
(* nothing held that could not still be captured.                          *)
FundsBounded == ValidAmounts(facts)

(* The public status of project_payment_status never claims money the      *)
(* facts do not hold, nor hides money they do, whatever callbacks, answers *)
(* and decisions were recorded in between.                                 *)
StatusTruthful == ShowsTotals(facts)

(* A refund of ours that may still settle is always visible in the status, *)
(* whichever callback, capture or outcome was recorded last.               *)
OpenRefundIsShown == ActiveRefund(ops) => HasUnresolvedRefund(facts)

(* Two operations hold the payment at once only as a cancellation and the  *)
(* refund it names: no two reservations overlap on the same funds, even    *)
(* while a late response is still owed (_blocking_operation).              *)
OneMutationAtATime ==
  \A a, b \in OpId :
    a # b /\ Holding(ops[a]) /\ Holding(ops[b]) =>
      \/ ops[a].type = "cancel_refund" /\ ops[a].target = b
      \/ ops[b].type = "cancel_refund" /\ ops[b].target = a

(* A capture that a succeeded operation established is in the totals, on   *)
(* top of the baseline it was reserved on, and stays there.                *)
CapturesAreCounted ==
  \A id \in OpId :
    ops[id].type = "charge" /\ ops[id].state = "succeeded" =>
      facts.captured >= ops[id].base_captured + ops[id].settled

(* So is every refund, together with the refunds confirmed after it        *)
(* (_confirmed_refund_total).                                              *)
RefundsAreCounted == \A r \in Refunds(ops) : facts.refunded >= RefundBound(ops, r)

(* Without callbacks the totals are exactly what the operations settled: a *)
(* late or repeated answer, also one of a refund that was cancelled first, *)
(* is counted once.                                                        *)
SettledSum(type) ==
  SumFunctionOnSet([id \in OpId |-> ops[id].settled],
                   {id \in OpId : ops[id].type = type /\ ops[id].state = "succeeded"})

MoneyIsCountedOnce ==
  \E f \in InitialFacts :
    /\ facts.captured = f.captured + SettledSum("charge")
    /\ facts.refunded = f.refunded + SettledSum("start_refund")

(* An intent is reserved on top of the money its predecessors captured,    *)
(* and no later answer or decision moves that ground: the baselines that   *)
(* cumulative settlement relies on stay comparable.                        *)
LaterIntentsBuildOnCaptures ==
  \A a, b \in Reserved(ops) :
    /\ ops[a].sequence < ops[b].sequence
    /\ ops[a].type = "charge" /\ ops[a].state = "succeeded"
    => ops[b].base_captured >= ops[a].base_captured + ops[a].settled

-----------------------------------------------------------------------------
(* Action properties *)

(* Committed money only accumulates, and once anything was captured no old *)
(* snapshot or lock notification brings a released or consumed hold back.  *)
FundsNeverRegress ==
  [][/\ facts'.required = facts.required
     /\ facts'.captured >= facts.captured
     /\ facts'.refunded >= facts.refunded
     /\ facts.captured > 0 => facts'.hold <= facts.hold]_vars

(* Every notice about the payment carries an identity of its event. *)
EvidenceIsTagged == \A u \in Observations : u.event_id # None

(* Totals move only with evidence that was not committed before: an event  *)
(* identity seen for the first time, or an operation whose settlement is   *)
(* recorded in the same commit.  Nothing is applied twice.                 *)
MoneyNeedsFreshEvidence ==
  [][facts'.captured # facts.captured \/ facts'.refunded # facts.refunded =>
       \/ replay' # replay
       \/ \E id \in OpId : ops'[id].settled # ops[id].settled]_vars

(* A confirmed effect is never undone, and a rejected operation succeeds   *)
(* only by an audited decision or, flagged for reconciliation, when a      *)
(* refund that was cancelled turns out to have run.                        *)
ConfirmedEffectsStand ==
  [][\A id \in OpId :
       /\ ops[id].state = "succeeded" =>
            ops'[id].state = "succeeded" /\ (ops[id].settled # None => ops'[id].settled >= ops[id].settled)
       /\ ops[id].state = "rejected" /\ ops'[id].state # "rejected" =>
            /\ ops'[id].state = "succeeded"
            /\ \/ ops'[id].resolutions # ops[id].resolutions
               \/ /\ ops'[id].reconcile /\ facts'.reconcile
                  /\ \E c \in OpId : ops[c].target = id /\ ops[c].state = "succeeded"]_vars

(* Disputed claims survive every commit, and a reconciliation requirement  *)
(* ends only by a decision: for an operation by one about it, for the      *)
(* payment by one that leaves no operation disputed.                       *)
DisputesOutliveEverything ==
  [][/\ facts.conflicts \subseteq facts'.conflicts
     /\ \A id \in OpId : /\ ops[id].disputes \subseteq ops'[id].disputes
                         /\ ops[id].recovery \subseteq ops'[id].recovery
                         /\ ops[id].reconcile /\ ~ops'[id].reconcile =>
                              ops'[id].resolutions # ops[id].resolutions
     /\ facts.reconcile /\ ~facts'.reconcile =>
          /\ \E id \in OpId : ops'[id].resolutions # ops[id].resolutions
          /\ \A id \in OpId : ~ops'[id].reconcile]_vars

(* The provider handle of the payment, of an operation and of the refund a *)
(* cancellation was reserved for never change once they are known, however *)
(* many handles responses and callbacks name; another one is a dispute.    *)
IdentitiesAreStable ==
  [][/\ facts.external # None => facts'.external = facts.external
     /\ \A id \in OpId :
          ops[id].correlation # None => ops'[id].correlation = ops[id].correlation
     /\ facts.external # None /\ (\E u \in Observations :
            /\ u.external # None /\ u.external # facts.external
            /\ u.event_id # None /\ replay[u.event_id] # u /\ replay'[u.event_id] = u)
        => facts'.reconcile]_vars

(* What a reservation resolved and its first claim promised never changes: *)
(* a retry reuses the amount and the baselines, and extends no deadline.   *)
ReservationIsFrozen ==
  [][\A id \in Reserved(ops) :
       /\ \A field \in {"type", "asked", "target", "target_correlation", "amount",
                        "base_captured", "base_refunded", "base_hold", "sequence"} :
            ops'[id][field] = ops[id][field]
       /\ ops[id].attempts > 0 =>
            /\ ops'[id].submitted_at = ops[id].submitted_at
            /\ ops'[id].retry_until  = ops[id].retry_until
            /\ ops'[id].scope        = ops[id].scope]_vars

(* concepts.md says that capture commands are refused once any refund is   *)
(* unresolved.  A refund the provider reported as requested, and of which  *)
(* no end was reported and no money returned, is unresolved.               *)
RefundReported ==
  /\ \E e \in EventId : replay[e] # None /\ replay[e].event = "refund_requested"
  /\ \A e \in EventId : replay[e] # None => replay[e].event \notin {"refund_confirmed", "refund_cancelled"}
  /\ facts.refunded = 0

CaptureWaitsForRefunds ==
  [][RefundReported => \A id \in OpId :
       ops[id].state = "absent" => ops'[id].type # "charge"]_vars

=============================================================================
