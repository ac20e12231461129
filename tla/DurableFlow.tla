----------------------------- MODULE DurableFlow -----------------------------
(***************************************************************************)
(* DurablePaymentFlow (durable/flow.py): the workers that take commands to *)
(* a provider on top of DurableRepository.  Every await of the flow is a   *)
(* point between two steps: another worker, the provider, the clock, a     *)
(* cancellation or the death of the process may come in between.           *)
(*                                                                         *)
(* The provider is the environment.  It is honest about the capability its *)
(* plugin declares (provider.py): it keeps the keys of a scope for some    *)
(* time, within which it recognizes a repeated one, whatever window was    *)
(* declared when the key was sent; an absence it declares authoritative    *)
(* also excludes later execution; and a request that has not arrived when  *)
(* its call times out never arrives -- which durable-storage.md asks of    *)
(* plugins ("honor the request timeout").  Answers and requests get lost.  *)
(* clock is the clock the workers share: now plus the time elapsed since.  *)
(***************************************************************************)
EXTENDS DurableRepository

CONSTANTS
  Workers,        \* tasks running calls of the flow
  Capabilities,   \* declarations a plugin may be deployed with
  Verdicts,       \* what the provider may do with an instruction it takes
  Retention,      \* how long the provider keeps the keys of a scope
  ProviderTimeout,
  MaxTime,        \* bound: the clock stops here
  MaxFaults       \* bound: crashes, cancellations, failing writes, deployments

LookupSemantics == {"unsupported", "authoritative", "authoritative_including_absence"}

(* OperationCapabilities; restricted is the opt-in of the deployment. *)
Declaration ==
  {cap \in [scope : Optional(Scopes), window : Optional(Nat \ {0}), restricted : BOOLEAN,
            lookup : LookupSemantics] : cap.scope = None <=> cap.window = None}

(* The instants and deadlines of the repository include those of the clock. *)
ASSUME FlowInputsTyped ==
  /\ Capabilities \subseteq Declaration
  /\ Verdicts \subseteq {"succeeded", "rejected", "provider_pending"}
  /\ Retention \in [Scopes -> Nat]
  /\ ProviderTimeout \in Nat /\ MaxTime \in Nat /\ MaxFaults \in Nat
  /\ \A e \in EvidenceStates : [state |-> e, settled |-> None, correlation |-> None,
                                 reconcile |-> FALSE, external |-> None] \in Outcomes
  /\ "claim" \in Evidence /\ None \notin EvidenceStates \cup OpId
  /\ 0 .. MaxTime \subseteq Times
  /\ \A cap \in Capabilities, t \in 0 .. MaxTime :
       cap.window # None => t + cap.window \in Deadlines

(* No declaration names a longer window than the provider keeps the keys   *)
(* of its scope.  A deployment may shorten or lengthen the window within   *)
(* that; the provider's own policy is stable for the life of an intent, as *)
(* docs/durable-storage.md asks for.                                       *)
WindowsAreHonoured ==
  \A cap \in Capabilities : cap.scope # None => cap.window <= Retention[cap.scope]

(* The provider of DurableFlow treats commands as independent: a command   *)
(* that stops another one is outside its model.                            *)
WithoutCancellations == \A i \in Intents : i.type # "cancel_refund"

VARIABLES
  workers,     \* what each worker is doing
  wire,        \* requests on their way to the provider
  provider,    \* what the provider did with each command
  capability,  \* the declaration currently deployed
  clock,
  faults       \* how many faults happened

repository == <<facts, ops, replay, review>>
flowVars   == <<repository, workers, wire, provider, capability, clock, faults>>

Phases ==
  {"idle", "asking", "reserved", "claimed", "calling", "answered", "retaining",
   "dropped", "finishing", "querying", "deciding", "reclaiming", "noticed"}

Idle ==
  [phase |-> "idle", intent |-> None, id |-> None, cap |-> None, seen |-> None,
   attempt |-> None, answer |-> None, now |-> 0]

(* The part of a fetched record the flow looks at later on. *)
Seen(op) ==
  [state |-> op.state, attempts |-> op.attempts, submitted_at |-> op.submitted_at,
   retry_until |-> op.retry_until, scope |-> op.scope, reconcile |-> op.reconcile]

Untouched == [taken |-> 0, verdict |-> None, keys |-> {}]

FlowInit ==
  /\ Init
  /\ workers  = [w \in Workers |-> Idle]
  /\ wire     = {}
  /\ provider = [id \in OpId |-> Untouched]
  /\ capability \in Capabilities
  /\ clock  = 0
  /\ faults = 0

Becomes(w, next) == workers' = [workers EXCEPT ![w] = next]
Return(w)        == Becomes(w, Idle)

OnlyWorkers == UNCHANGED <<repository, wire, provider, capability, clock, faults>>
LocalStep   == UNCHANGED <<wire, provider, capability, clock, faults>>

(* A bare state, as core records it when the provider did not answer. *)
Bare(state) ==
  [state |-> state, settled |-> None, correlation |-> None, reconcile |-> FALSE,
   external |-> None]

-----------------------------------------------------------------------------
(* Capabilities *)

(* _capability refuses an operation that nothing could recover, unless the *)
(* deployment opted into restricted mode.                                  *)
Submittable(cap) ==
  cap.window # None \/ cap.lookup # "unsupported" \/ cap.restricted

(* Mutant of WithinWindow: no headroom for the call. *)
WithinWindowExactly(seen, cap, now) ==
  /\ seen.submitted_at # None /\ seen.retry_until # None /\ cap.window # None
  /\ cap.scope = seen.scope
  /\ seen.submitted_at <= now
  /\ now < Smaller(seen.retry_until, seen.submitted_at + cap.window)

(* _within_submission_window: the original window, also bounded by the     *)
(* current declaration, with headroom for one provider call.               *)
WithinWindow(seen, cap, now) ==
  /\ seen.submitted_at # None /\ seen.retry_until # None /\ cap.window # None
  /\ cap.scope = seen.scope
  /\ seen.submitted_at <= now
  /\ now + ProviderTimeout < Smaller(seen.retry_until, seen.submitted_at + cap.window)

-----------------------------------------------------------------------------
(* execute_operation: read, reserve, claim, recheck, call, record.         *)

(* A command past its reservation is only looked up: such a call returns   *)
(* the record and changes nothing, so it is no step.                       *)
Execute(w, i) ==
  /\ workers[w].phase = "idle"
  /\ ops[i.id].state \in {"absent", "reserved"}
  /\ Becomes(w, [Idle EXCEPT !.phase = "asking", !.intent = i, !.id = i.id,
                             !.cap = capability, !.now = clock])
  /\ OnlyWorkers

(* A command that is already under way is returned as it is. *)
Reserving(w) ==
  LET self == workers[w]
  IN  /\ self.phase = "asking"
      /\ \/ /\ Submittable(self.cap)
            /\ Reserve(self.intent)
            /\ Becomes(w, [self EXCEPT !.phase = "reserved", !.intent = None])
         \/ /\ Resume(self.intent)
            /\ IF ops[self.id].state = "reserved" /\ Submittable(self.cap)
               THEN Becomes(w, [self EXCEPT !.phase = "reserved", !.intent = None])
               ELSE Return(w)
         \/ /\ ~(Submittable(self.cap) /\ CanReserve(facts, ops, self.intent))
            /\ ops[self.id].state = "absent"
            /\ Return(w)
            /\ UNCHANGED repository
      /\ LocalStep

Deadline(self) == IF self.cap.window = None THEN None ELSE self.now + self.cap.window

(* claim_submission; a claim that is lost or refused ends the call. *)
Granted(w, expected, retry_until, scope) ==
  LET self == workers[w]
  IN  /\ Claim(self.id, expected, self.now, retry_until, scope)
      /\ Becomes(w, [self EXCEPT !.phase = "claimed", !.attempt = expected + 1,
                                 !.seen = Seen(ops'[self.id]), !.now = 0])

Refused(w, expected) ==
  LET self == workers[w]
  IN  /\ ~CanSubmit(facts, ops[self.id], expected, self.now)
      /\ Return(w)
      /\ UNCHANGED repository

Claiming(w) ==
  /\ workers[w].phase = "reserved"
  /\ \/ Granted(w, 0, Deadline(workers[w]), workers[w].cap.scope)
     \/ Refused(w, 0)
  /\ LocalStep

(* Mutant of MaySend: the window is only checked when the claim is made.   *)
MaySendOnClaim(self) == TRUE

MaySend(self) ==
  self.seen.retry_until # None => WithinWindow(self.seen, self.cap, clock)

(* _submit rechecks the window right before the call.  If it closed, the   *)
(* call returns and the attempt stays pending.                             *)
Submit(w) ==
  LET self == workers[w]
  IN  /\ self.phase = "claimed"
      /\ MaySend(self)
      /\ wire' = wire \cup {[id |-> self.id, attempt |-> self.attempt, cap |-> self.cap,
                             until |-> clock + ProviderTimeout]}
      /\ Becomes(w, [self EXCEPT !.phase = "calling", !.seen = None, !.cap = None])
      /\ UNCHANGED <<repository, provider, capability, clock, faults>>

Withhold(w) ==
  /\ workers[w].phase = "claimed"
  /\ ~MaySend(workers[w])
  /\ Return(w)
  /\ OnlyWorkers

(* The call timed out or the connection broke. *)
Unanswered(w) ==
  /\ workers[w].phase = "calling"
  /\ Becomes(w, [workers[w] EXCEPT !.phase = "answered", !.answer = Bare("unknown")])
  /\ OnlyWorkers

-----------------------------------------------------------------------------
(* _record_evidence *)

(* A query hands the committed record on to the retry decision. *)
AfterRecording(self, committed) ==
  IF self.attempt # None THEN Idle
  ELSE [self EXCEPT !.phase = "deciding", !.answer = None,
                    !.seen = [Seen(committed) EXCEPT !.attempts = self.seen.attempts]]

Record(w) ==
  LET self == workers[w]
  IN  /\ self.phase = "answered"
      /\ RecordOutcome(self.id, self.answer, self.attempt)
      /\ Becomes(w, AfterRecording(self, ops'[self.id]))
      /\ LocalStep

(* Evidence that cannot be applied is retained instead; what exactly it    *)
(* claims is abstracted to the fact that it is there.                      *)
Inapplicable(w) ==
  LET self == workers[w]
  IN  /\ self.phase = "answered"
      /\ ~CanPlanOutcome(facts, ops, self.id, self.answer)
      /\ Becomes(w, [self EXCEPT !.phase = "retaining"])
      /\ OnlyWorkers

(* _retain_failure; the call then raises. *)
Retain(w) ==
  LET self == workers[w]
  IN  /\ self.phase = "retaining"
      /\ RecordFailure(self.id, "claim")
      /\ Return(w)
      /\ LocalStep

-----------------------------------------------------------------------------
(* reconcile_operation: query first, then at most one retry.               *)

(* Mutant of Recoverable: flagged operations are left to operators. *)
RecoverableUnflagged(id) ==
  Holding(ops[id]) /\ ~ops[id].reconcile /\ ops[id].state # "reserved"

Recoverable(id) == Unresolved(id) /\ ops[id].state # "reserved"

Reconcile(w, id) ==
  /\ workers[w].phase = "idle"
  /\ Recoverable(id)
  /\ Submittable(capability)
  /\ Becomes(w, [Idle EXCEPT
                  !.phase = IF capability.lookup = "unsupported" THEN "deciding" ELSE "querying",
                  !.id = id, !.cap = capability, !.seen = Seen(ops[id])])
  /\ OnlyWorkers

(* Mutants of NotFoundState: what cannot be found did not happen; the      *)
(* answer is recorded as it came.                                          *)
NotFoundIsRejection(cap)   == "rejected"
NotFoundUntranslated(cap)  == "not_found"

(* Only a provider that excludes later execution turns absence into a      *)
(* refusal.                                                                *)
NotFoundState(cap) ==
  IF cap.lookup = "authoritative_including_absence" THEN "rejected" ELSE "unknown"

(* lookup_operation: the provider says what it did.  Declaring an absence  *)
(* authoritative obliges it never to run the command later.                *)
Query(w) ==
  LET self  == workers[w]
      found == provider[self.id].verdict # None
  IN  /\ self.phase = "querying"
      /\ Becomes(w, [self EXCEPT !.phase  = "answered",
                                 !.answer = Bare(IF found THEN provider[self.id].verdict
                                                 ELSE NotFoundState(self.cap))])
      /\ provider' = IF found \/ self.cap.lookup # "authoritative_including_absence" THEN provider
                     ELSE [provider EXCEPT ![self.id].verdict = "rejected"]
      /\ UNCHANGED <<repository, wire, capability, clock, faults>>

(* A failed query changes nothing and authorizes nothing. *)
QueryFails(w) ==
  /\ workers[w].phase = "querying"
  /\ Return(w)
  /\ OnlyWorkers

(* _retry_is_safe, on the record the query left behind and on facts read   *)
(* once more.  Whether the caller asked to resubmit is chosen here.        *)
RetryIsSafe(self) ==
  /\ ~self.seen.reconcile /\ ~facts.reconcile
  /\ self.seen.state \in {"unknown", "submitting"}
  /\ WithinWindow(self.seen, self.cap, clock)

DecideRetry(w) ==
  LET self == workers[w]
  IN  /\ self.phase = "deciding"
      /\ \/ Return(w)
         \/ /\ RetryIsSafe(self)
            /\ Becomes(w, [self EXCEPT !.phase = "reclaiming", !.now = clock])
      /\ OnlyWorkers

(* The retry is claimed against the attempt counted before the query. *)
Reclaiming(w) ==
  LET self == workers[w]
  IN  /\ self.phase = "reclaiming"
      /\ Granted(w, self.seen.attempts, None, None) \/ Refused(w, self.seen.attempts)
      /\ LocalStep

-----------------------------------------------------------------------------
(* The provider *)

(* The keys a provider recognizes for certain, and those it still may.     *)
Recognizes(call) ==
  \E k \in provider[call.id].keys : k.scope = call.cap.scope /\ clock < k.until
MayRecognize(call) ==
  \E k \in provider[call.id].keys : k.scope = call.cap.scope

(* The intent was proved absent: it can no longer execute. *)
Excluded(id) == provider[id].verdict = "rejected" /\ provider[id].taken = 0

(* The answer reaches the worker if it still waits, unless it gets lost.   *)
Answering(call, verdict) ==
  \/ UNCHANGED workers
  \/ \E w \in Workers :
       /\ workers[w].phase = "calling"
       /\ workers[w].id = call.id /\ workers[w].attempt = call.attempt
       /\ Becomes(w, [workers[w] EXCEPT !.phase = "answered", !.answer = Bare(verdict)])

Repeat(call) ==
  /\ Excluded(call.id) \/ MayRecognize(call)
  /\ Answering(call, provider[call.id].verdict)
  /\ UNCHANGED provider

Take(call, verdict) ==
  LET key == {[scope |-> s, until |-> clock + Retention[s]] : s \in {call.cap.scope} \ {None}}
  IN  /\ ~Excluded(call.id) /\ ~Recognizes(call)
      /\ provider' = [provider EXCEPT ![call.id] =
                       [taken |-> @.taken + 1, verdict |-> verdict, keys |-> @.keys \cup key]]
      /\ Answering(call, verdict)

Arrive(call) ==
  /\ call \in wire
  /\ Repeat(call) \/ \E v \in Verdicts : Take(call, v)
  /\ wire' = wire \ {call}
  /\ UNCHANGED <<repository, capability, clock, faults>>

(* What was accepted is carried out, or turned down after all. *)
Settle(id, verdict) ==
  /\ provider[id].verdict = "provider_pending"
  /\ provider' = [provider EXCEPT ![id].verdict = verdict]
  /\ UNCHANGED <<repository, workers, wire, capability, clock, faults>>

(* Time passes; a request whose call has timed out is gone. *)
Tick ==
  /\ clock < MaxTime
  /\ clock' = clock + 1
  /\ wire' = {call \in wire : call.until > clock}
  /\ UNCHANGED <<repository, workers, provider, capability, faults>>

-----------------------------------------------------------------------------
(* handle_callback and fetch_and_update_status: what the provider says is  *)
(* read first and applied after an await.                                  *)

Executed(id) == provider[id].taken > 0 /\ provider[id].verdict = "succeeded"

ProviderCaptured ==
  SumFunctionOnSet([id \in OpId |-> provider[id].taken * ops[id].amount],
                   {id \in OpId : ops[id].type = "charge" /\ Executed(id)})

(* A total is what the provider captured, and an outcome what it did with  *)
(* the command it names: an instruction is executed in full or not at all. *)
Truthful(u) ==
  /\ u.paid # None /\ ~u.delta => u.paid = ProviderCaptured
  /\ u.outcome # None =>
       /\ u.operation \in OpId
       /\ provider[u.operation].taken > 0
       /\ u.outcome.state = provider[u.operation].verdict
       /\ u.outcome.settled # None => u.outcome.settled = ops[u.operation].amount

Hear(w, u) ==
  /\ workers[w].phase = "idle"
  /\ Truthful(u)
  /\ Becomes(w, [Idle EXCEPT !.phase = "noticed", !.answer = u])
  /\ OnlyWorkers

Apply(w) ==
  LET u == workers[w].answer
  IN  /\ workers[w].phase = "noticed"
      /\ ObserveAgain(u) \/ ObserveImpossible(u) \/ Observe(u)
      /\ Return(w)
      /\ LocalStep

-----------------------------------------------------------------------------
(* Faults *)

Fault == faults < MaxFaults /\ faults' = faults + 1

(* The process dies, a call without cleanup is cancelled, or a cleanup     *)
(* write fails or is stopped: the worker is gone.                          *)
Crash(w) ==
  /\ workers[w].phase # "idle"
  /\ Fault
  /\ Return(w)
  /\ UNCHANGED <<repository, wire, provider, capability, clock>>

(* A write that failed may have landed all the same; one that is refused   *)
(* did not.  Refusals without a fault are Inapplicable.                    *)
Attempted(w) ==
  \/ UNCHANGED repository
  \/ RecordOutcome(workers[w].id, workers[w].answer, workers[w].attempt)

WriteFails(w) ==
  /\ workers[w].phase = "answered"
  /\ CanPlanOutcome(facts, ops, workers[w].id, workers[w].answer)
  /\ Fault
  /\ Attempted(w)
  /\ Becomes(w, [workers[w] EXCEPT !.phase = "retaining"])
  /\ UNCHANGED <<wire, provider, capability, clock>>

(* The plugin returns something that is no outcome of this operation. *)
Malformed(w) ==
  /\ workers[w].phase \in {"calling", "querying"}
  /\ Fault
  /\ Becomes(w, [workers[w] EXCEPT !.phase = "answered",
                                   !.answer = [Bare("unknown") EXCEPT !.settled = 1]])
  /\ UNCHANGED <<repository, wire, provider, capability, clock>>

(* Cancelled while waiting for the provider, or during the outcome write,  *)
(* which is then still open: also one that would have been refused.        *)
CancelWait(w) ==
  /\ workers[w].phase = "calling"
  /\ Fault
  /\ Becomes(w, [workers[w] EXCEPT !.phase = "dropped"])
  /\ UNCHANGED <<repository, wire, provider, capability, clock>>

CancelWrite(w) ==
  /\ workers[w].phase = "answered"
  /\ Fault
  /\ Attempted(w)
  /\ Becomes(w, [workers[w] EXCEPT !.phase = "finishing"])
  /\ UNCHANGED <<wire, provider, capability, clock>>

(* Mutant of CancelledOutcome: a cancelled call is a refused call. *)
CancelledIsRejected == Bare("rejected")

CancelledOutcome == Bare("unknown")

(* _retain_cancelled_submission *)
Drop(w) ==
  LET self == workers[w]
  IN  /\ self.phase = "dropped"
      /\ RecordOutcome(self.id, CancelledOutcome, self.attempt)
      /\ Return(w)
      /\ LocalStep

(* _retain_cancelled_outcome: the outcome once more, or its evidence when  *)
(* that is refused or the write fails.                                     *)
Finish(w) ==
  LET self == workers[w]
  IN  /\ self.phase = "finishing"
      /\ \/ RecordOutcome(self.id, self.answer, self.attempt) /\ UNCHANGED faults
         \/ /\ ~CanPlanOutcome(facts, ops, self.id, self.answer)
            /\ RecordFailure(self.id, "claim")
            /\ UNCHANGED faults
         \/ RecordFailure(self.id, "claim") /\ Fault
      /\ Return(w)
      /\ UNCHANGED <<wire, provider, capability, clock>>

(* The plugin is deployed anew with another declaration. *)
Deploy(cap) ==
  /\ cap # capability
  /\ Fault
  /\ capability' = cap
  /\ UNCHANGED <<repository, workers, wire, provider, clock>>

-----------------------------------------------------------------------------
(* Steps of a worker that has begun a call and is not interrupted. *)
Advance(w) ==
  \/ Reserving(w) \/ Claiming(w) \/ Submit(w) \/ Withhold(w) \/ Unanswered(w)
  \/ Record(w) \/ Inapplicable(w) \/ Retain(w)
  \/ DecideRetry(w) \/ Reclaiming(w)
  \/ Apply(w) \/ Drop(w) \/ Finish(w)

Call(w) ==
  \/ \E i \in Intents : Execute(w, i)
  \/ \E id \in OpId : Reconcile(w, id)
  \/ \E u \in Observations : Hear(w, u)

Interrupt(w) ==
  Crash(w) \/ Malformed(w) \/ WriteFails(w) \/ CancelWait(w) \/ CancelWrite(w)

Environment ==
  \/ \E call \in wire : Arrive(call)
  \/ \E id \in OpId, v \in {"succeeded", "rejected"} : Settle(id, v)
  \/ \E cap \in Capabilities : Deploy(cap)
  \/ Tick

FlowNext ==
  \/ \E w \in Workers : Call(w) \/ Advance(w) \/ Query(w) \/ QueryFails(w) \/ Interrupt(w)
  \/ Environment

(* A task that was not interrupted is scheduled again: asyncio drops none, *)
(* and every wait of the flow is bounded by a timeout.  The application    *)
(* keeps reconciling what list_unresolved_operations returns, queries are  *)
(* not lost forever, and the provider ends what it accepted.               *)
Fairness ==
  /\ \A w \in Workers : WF_flowVars(Advance(w)) /\ SF_flowVars(Query(w))
  /\ \A id \in OpId : SF_flowVars(\E w \in Workers : Reconcile(w, id))
  /\ \A id \in OpId : WF_flowVars(\E v \in {"succeeded", "rejected"} : Settle(id, v))

FlowSpec     == FlowInit /\ [][FlowNext]_flowVars
FairFlowSpec == FlowSpec /\ Fairness

-----------------------------------------------------------------------------
(* Properties *)

(* Every worker, request and provider record has the shape declared.       *)
FlowTypeOK ==
  /\ TypeOK
  /\ workers \in [Workers ->
       [phase : Phases, intent : Optional(Intent), id : Optional(OpId),
        cap : Optional(Capabilities),
        seen : Optional([state : ActiveStates \cup TerminalStates, attempts : 0 .. MaxAttempts,
                         submitted_at : Optional(Int), retry_until : Optional(Int),
                         scope : Optional(Scopes), reconcile : BOOLEAN]),
        attempt : Optional(1 .. MaxAttempts), answer : Optional(Outcome \cup Observation),
        now : 0 .. MaxTime]]
  /\ wire \subseteq [id : OpId, attempt : 1 .. MaxAttempts, cap : Capabilities, until : Nat]
  /\ provider \in [OpId ->
       [taken : Nat, verdict : Optional(EvidenceStates \ {"unknown"}),
        keys : SUBSET [scope : Scopes, until : Nat]]]
  /\ capability \in Capabilities /\ clock \in 0 .. MaxTime /\ faults \in 0 .. MaxFaults

(* The reason for reservations, claims and windows: whatever timeouts,     *)
(* crashes, retries, redeployments and slow claims do, the provider takes  *)
(* an instruction once, even if it forgets keys as soon as it may.         *)
TakenAtMostOnce == \A id \in OpId : provider[id].taken <= 1

(* An intent on record as rejected did not run, and no request still on    *)
(* its way and no worker about to send one can make it run.                *)
RejectionIsFinal ==
  \A id \in OpId : ops[id].state = "rejected" =>
    /\ provider[id].verdict = "rejected"
    /\ \A call \in wire : call.id = id => Excluded(id) \/ Recognizes(call)

(* The books match the provider: no capture is counted that the provider   *)
(* did not make, and once nothing is listed as unresolved none is missing. *)
BooksMatchProvider ==
  \E f \in InitialFacts :
    /\ facts.captured - f.captured <= ProviderCaptured
    /\ (\A id \in OpId : ~Unresolved(id)) => facts.captured - f.captured = ProviderCaptured

(* Two commands together never take more than the payment is about.        *)
NeverOvercaptured == ProviderCaptured <= facts.required

(* A request that may still run, an effect nobody recorded and a worker    *)
(* that may still send are found by list_unresolved_operations after any   *)
(* crash.                                                                  *)
EffectsStayDiscoverable ==
  \A id \in OpId :
    /\ Executed(id) /\ ops[id].state # "succeeded" => Unresolved(id)
    /\ (\E call \in wire : call.id = id /\ ~Excluded(id) /\ ~Recognizes(call)) => Unresolved(id)

(* A worker that may still reach the provider holds its own claim: no      *)
(* query, callback or other retry acknowledges a running producer.         *)
ProducersHoldTheirClaims ==
  \A w \in Workers : workers[w].phase \in {"claimed", "calling"} =>
    workers[w].attempt \in ops[workers[w].id].pending

(* The flow keeps the promise of CommandContract for all commands at once. *)
Record2Knowledge(op) ==
  CASE op.state = "absent"    -> "unasked"
    [] op.state = "succeeded" -> "done"
    [] op.state = "rejected"  -> "refused"
    [] OTHER                  -> "open"

Promise ==
  INSTANCE CommandContract WITH
    Commands <- OpId,
    runs     <- [id \in OpId |-> IF Executed(id) THEN provider[id].taken ELSE 0],
    known    <- [id \in OpId |-> Record2Knowledge(ops[id])]

KeepsPromise == Promise!Spec

(* An operation handed to a provider that can tell what happened ends up   *)
(* decided, whatever was lost, cancelled or crashed on the way.            *)
SubmissionsAreDecided ==
  \A id \in OpId :
    ops[id].state \in {"submitting", "unknown", "provider_pending"}
      ~> ops[id].state \in TerminalStates

=============================================================================
