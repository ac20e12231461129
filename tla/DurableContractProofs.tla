------------------------ MODULE DurableContractProofs -------------------------
(***************************************************************************)
(* What DurableFlow promises about a provider: an instruction is taken     *)
(* once, a worker that may still send holds its claim, and what is on      *)
(* record agrees with what the provider did.                               *)
(*                                                                         *)
(* A step of the flow is quiet, or it claims, sends, delivers a request or *)
(* lets time pass.  Quiet steps are the most, and they leave everything    *)
(* the first promise rests on alone.                                       *)
(*                                                                         *)
(* The last section counts money: what the provider captured is what the   *)
(* books say, or what they will say once the open capture is recorded.     *)
(***************************************************************************)
EXTENDS DurableFlowProofs, PaymentFactsProofs

-----------------------------------------------------------------------------
(* The steps of the flow *)

(* What the step of a worker may say of its own command. *)
Says(w, a) ==
  \/ a = CancelledOutcome
  \/ /\ workers[w].phase \in {"answered", "finishing"}
     /\ a = workers[w].answer

Records(w) ==
  /\ workers[w].id \in OpId
  /\ \E a \in PluginAnswers :
       Says(w, a) /\ RecordOutcome(workers[w].id, a, workers[w].attempt)

Notices(w) ==
  /\ workers[w].phase = "noticed"
  /\ ObserveAgain(workers[w].answer) \/ ObserveImpossible(workers[w].answer)
       \/ Observe(workers[w].answer)

(* The operations of the repository a quiet step may call. *)
QuietCalls(w) ==
  \/ UNCHANGED repository
  \/ \E i \in Intents : Reserve(i)
  \/ Records(w)
  \/ \E id \in OpId : RecordFailure(id, "claim")
  \/ Notices(w)

Others(w) == \A v \in Workers \ {w} : workers'[v] = workers[v]

(* A worker that goes on without sending keeps at most its own attempt and *)
(* what it was told.                                                       *)
GoesOn(self, s) ==
  /\ s.phase \notin {"claimed", "calling"}
  /\ s.attempt # None => s.attempt = self.attempt /\ s.id = self.id
  /\ s.now \in {0, clock, self.now}
  /\ s.phase \in {"answered", "finishing"} =>
       \/ s.answer.state = "unknown"
       \/ /\ self.phase \in {"answered", "finishing"}
          /\ s.answer = self.answer /\ s.id = self.id
  /\ s.phase = "noticed" => Truthful(s.answer)

QuietStep(w) ==
  /\ QuietCalls(w) /\ Others(w) /\ GoesOn(workers[w], workers'[w])
  /\ UNCHANGED <<wire, provider, clock>>

QuietEnvironment ==
  /\ UNCHANGED <<repository, workers, wire, clock>>
  /\ UNCHANGED provider \/ \E id \in OpId, v \in {"succeeded", "rejected"} : Settle(id, v)

(* A query tells the worker what the provider did, or makes it promise. *)
Queried(w) ==
  /\ Query(w) /\ Others(w)
  /\ workers'[w].attempt = None /\ workers'[w].now = workers[w].now
  /\ workers'[w].phase = "answered" /\ workers'[w].id = workers[w].id

(* A claim. *)
Claimed(w) ==
  /\ workers[w].phase \in {"reserved", "reclaiming"}
  /\ \E expected \in 0 .. MaxAttempts, retry_until \in Optional(Deadlines),
        scope \in Optional(Scopes) : Granted(w, expected, retry_until, scope)
  /\ UNCHANGED <<wire, provider, clock>>

-----------------------------------------------------------------------------
(* The invariants *)

(* Workers with an attempt of one operation have different attempts, and   *)
(* none that was not claimed.                                              *)
AttemptsClaimed ==
  \A w \in Workers : workers[w].attempt # None =>
    workers[w].id \in OpId /\ workers[w].attempt <= ops[workers[w].id].attempts

AttemptsDistinct ==
  \A w, v \in Workers :
    /\ w # v /\ workers[w].id = workers[v].id
    /\ workers[w].attempt # None /\ workers[v].attempt # None
    => workers[w].attempt # workers[v].attempt

(* What a worker saw when it claimed is still what is stored. *)
ClaimsAreCurrent ==
  \A w \in Workers : workers[w].phase = "claimed" =>
    LET op == ops[workers[w].id]
        seen == workers[w].seen
    IN  /\ seen.submitted_at = op.submitted_at
        /\ seen.retry_until = op.retry_until
        /\ seen.scope = op.scope

(* A request on its way is the only one of its attempt, its worker no      *)
(* longer sends, and it arrives within the window of its intent.           *)
RequestsAreTimely ==
  \A call \in wire :
    LET op == ops[call.id]
    IN  /\ call.attempt <= op.attempts
        /\ clock <= call.until
        /\ op.retry_until # None =>
             /\ call.cap.scope = op.scope /\ call.cap.window # None
             /\ call.until < op.submitted_at + call.cap.window
        /\ \A other \in wire :
             other.id = call.id /\ other.attempt = call.attempt => other = call
        /\ \A w \in Workers : workers[w].phase = "claimed" /\ workers[w].id = call.id =>
             workers[w].attempt # call.attempt

(* Claims are made in the past, and without a window only once. *)
ClaimsAreDated ==
  /\ \A w \in Workers : workers[w].now <= clock
  /\ \A id \in OpId :
       /\ ops[id].attempts > 0 => ops[id].submitted_at \in Int /\ ops[id].submitted_at <= clock
       /\ ops[id].retry_until = None => ops[id].attempts <= 1

(* What the provider took it still recognizes as long as a request of the  *)
(* same intent may arrive; without a window none is left to arrive.        *)
Remembered(id) ==
  /\ ops[id].attempts > 0
  /\ ops[id].retry_until = None =>
       /\ \A w \in Workers : ~(workers[w].phase = "claimed" /\ workers[w].id = id)
       /\ \A call \in wire : call.id # id
  /\ ops[id].retry_until # None =>
       \E k \in provider[id].keys :
         /\ k.scope = ops[id].scope
         /\ \A cap \in Capabilities : cap.scope = k.scope /\ cap.window # None =>
              ops[id].submitted_at + cap.window <= k.until

TakenIsRemembered == \A id \in OpId : provider[id].taken > 0 => Remembered(id)

HoldersInv ==
  /\ AttemptsClaimed /\ AttemptsDistinct /\ ProducersHoldTheirClaims
  /\ ClaimsAreCurrent /\ ClaimsAreDated

ClaimInv == FlowInv /\ HoldersInv /\ RequestsAreTimely

TakenInv == TakenIsRemembered /\ TakenAtMostOnce

(* What is on record, and what a worker is about to record, agrees with    *)
(* what the provider did.                                                  *)
Agrees(id, state) ==
  /\ state = "succeeded" => Executed(id)
  /\ state = "rejected"  => provider[id].verdict = "rejected"

(* The same of the provider after the step. *)
WillAgree(id, state) ==
  /\ state = "succeeded" => provider'[id].taken > 0 /\ provider'[id].verdict = "succeeded"
  /\ state = "rejected"  => provider'[id].verdict = "rejected"

RecordsAgree == \A id \in OpId : Agrees(id, ops[id].state)

AnswersAgree ==
  \A w \in Workers :
    /\ workers[w].phase \in {"answered", "finishing"} =>
         Agrees(workers[w].id, workers[w].answer.state)
    /\ workers[w].phase = "noticed" /\ workers[w].answer.outcome # None =>
         /\ workers[w].answer.operation \in OpId
         /\ Agrees(workers[w].answer.operation, workers[w].answer.outcome.state)

NoCancellations ==
  \A id \in OpId : ops[id].state # "absent" => ops[id].type # "cancel_refund"

VerdictsAreEarned ==
  \A id \in OpId : provider[id].taken = 0 => provider[id].verdict \in {None, "rejected"}

AgreementInv == RecordsAgree /\ AnswersAgree /\ NoCancellations /\ VerdictsAreEarned

-----------------------------------------------------------------------------
(* Every step is one of those *)

LEMMA BecomesOnly ==
  ASSUME WorkersKnow, NEW w \in Workers, NEW s, Becomes(w, s)
  PROVE  workers'[w] = s /\ Others(w)
BY DEF WorkersKnow, Becomes, Others

(* A worker that returns forgets everything. *)
LEMMA ReturnsQuietly ==
  ASSUME WorkersKnow, NEW w \in Workers, Return(w)
  PROVE  Others(w) /\ GoesOn(workers[w], workers'[w])
<1>1. workers'[w] = Idle /\ Others(w)
  BY BecomesOnly DEF Return
<1> QED
  BY <1>1 DEF GoesOn, Idle

(* A worker that only moves on to another phase keeps its attempt. *)
LEMMA MovesOnQuietly ==
  ASSUME WorkersKnow, NEW w \in Workers, NEW p \in Phases,
         p \notin {"claimed", "calling", "answered", "noticed"},
         p = "finishing" => workers[w].phase = "answered",
         Becomes(w, [workers[w] EXCEPT !.phase = p])
  PROVE  Others(w) /\ GoesOn(workers[w], workers'[w])
<1> DEFINE self == workers[w]
           s    == [self EXCEPT !.phase = p]
<1>1. workers'[w] = s /\ Others(w)
  BY BecomesOnly
<1>2. self \in Worker
  BY DEF WorkersKnow
<1>3. /\ s.phase = p /\ s.attempt = self.attempt /\ s.id = self.id /\ s.now = self.now
      /\ s.answer = self.answer
  BY <1>2 DEF Worker
<1> HIDE DEF s
<1> QED
  BY <1>1, <1>3 DEF GoesOn

LEMMA QuietSteps ==
  ASSUME FlowInv, NEW w \in Workers,
         \/ Call(w) \/ Reserving(w) \/ Withhold(w) \/ Unanswered(w)
         \/ Record(w) \/ Inapplicable(w) \/ Retain(w)
         \/ DecideRetry(w) \/ Apply(w) \/ Drop(w) \/ Finish(w)
         \/ QueryFails(w) \/ Interrupt(w)
  PROVE  QuietStep(w)
<1> DEFINE self == workers[w]
           Told(a) == [self EXCEPT !.phase = "answered", !.answer = a]
<1>1. self \in Worker /\ Knows(self) /\ WorkersKnow
  BY DEF FlowInv, WorkersKnow
<1>2. ASSUME Others(w), GoesOn(self, workers'[w]), OnlyWorkers
      PROVE  QuietStep(w)
  BY <1>2 DEF QuietStep, QuietCalls, OnlyWorkers
<1>3. ASSUME Return(w), OnlyWorkers PROVE QuietStep(w)
  BY <1>1, <1>2, <1>3, ReturnsQuietly
<1>4. ASSUME Return(w), QuietCalls(w), UNCHANGED <<wire, provider, clock>> PROVE QuietStep(w)
  BY <1>1, <1>4, ReturnsQuietly DEF QuietStep
<1>5. ASSUME NEW a, a.state = "unknown", Becomes(w, Told(a)),
             UNCHANGED <<repository, wire, provider, clock>>
      PROVE  QuietStep(w)
  <2> DEFINE s == Told(a)
  <2>1. workers'[w] = s /\ Others(w)
    BY <1>1, <1>5, BecomesOnly
  <2>2. /\ s.phase = "answered" /\ s.attempt = self.attempt /\ s.id = self.id
        /\ s.now = self.now /\ s.answer = a
    BY <1>1 DEF Worker
  <2> HIDE DEF s
  <2> QED
    BY <1>5, <2>1, <2>2 DEF GoesOn, QuietStep, QuietCalls
<1>6. CASE Call(w)
  <2> DEFINE Starts(s) == /\ s.phase \in {"asking", "deciding", "querying"}
                          /\ s.attempt = None /\ s.now \in {0, clock}
  <2>1. ASSUME NEW i \in Intents, Execute(w, i) PROVE QuietStep(w)
    <3> DEFINE s == [Idle EXCEPT !.phase = "asking", !.intent = i, !.id = i.id,
                                 !.cap = capability, !.now = clock]
    <3>1. Starts(s)
      BY DEF Idle
    <3>2. workers'[w] = s /\ Others(w)
      BY <1>1, <2>1, BecomesOnly DEF Execute
    <3> HIDE DEF s
    <3> QED
      BY <1>2, <2>1, <3>1, <3>2 DEF Execute, GoesOn
  <2>2. ASSUME NEW id \in OpId, Reconcile(w, id) PROVE QuietStep(w)
    <3> DEFINE p == IF capability.lookup = "unsupported" THEN "deciding" ELSE "querying"
               s == [Idle EXCEPT !.phase = p, !.id = id, !.cap = capability, !.seen = Seen(ops[id])]
    <3>1. Starts(s)
      BY DEF Idle
    <3>2. workers'[w] = s /\ Others(w)
      BY <1>1, <2>2, BecomesOnly DEF Reconcile
    <3> HIDE DEF s
    <3> QED
      BY <1>2, <2>2, <3>1, <3>2 DEF Reconcile, GoesOn
  <2>3. ASSUME NEW u \in Observations, Hear(w, u) PROVE QuietStep(w)
    <3> DEFINE s == [Idle EXCEPT !.phase = "noticed", !.answer = u]
    <3>1. s.phase = "noticed" /\ s.answer = u /\ s.attempt = None /\ s.now = 0
      BY DEF Idle
    <3>2. workers'[w] = s /\ Others(w)
      BY <1>1, <2>3, BecomesOnly DEF Hear
    <3> HIDE DEF s
    <3> QED
      BY <1>2, <2>3, <3>1, <3>2 DEF Hear, GoesOn
  <2> QED
    BY <1>6, <2>1, <2>2, <2>3 DEF Call
<1>7. CASE Reserving(w)
  <2> DEFINE s == [self EXCEPT !.phase = "reserved", !.intent = None]
  <2>1. /\ s.phase = "reserved" /\ s.attempt = self.attempt /\ s.id = self.id /\ s.now = self.now
    BY <1>1 DEF Worker
  <2>2. Becomes(w, s) \/ Return(w)
    BY <1>7 DEF Reserving
  <2> HIDE DEF s
  <2>3. Others(w) /\ GoesOn(self, workers'[w])
    BY <1>1, <2>1, <2>2, BecomesOnly, ReturnsQuietly DEF GoesOn
  <2>4. self.intent \in Intents
    BY <1>1, <1>7 DEF Knows, Reserving
  <2>5. QuietCalls(w) /\ UNCHANGED <<wire, provider, clock>>
    BY <1>7, <2>4 DEF Reserving, LocalStep, QuietCalls, Resume, repository, vars
  <2> QED
    BY <2>3, <2>5 DEF QuietStep
<1>8. CASE Withhold(w) \/ QueryFails(w)
  BY <1>3, <1>8 DEF Withhold, QueryFails
<1>9. CASE Unanswered(w)
  <2>1. Bare("unknown").state = "unknown"
    BY DEF Bare
  <2>2. Becomes(w, Told(Bare("unknown"))) /\ UNCHANGED <<repository, wire, provider, clock>>
    BY <1>9 DEF Unanswered, OnlyWorkers
  <2> QED
    BY <1>5, <2>1, <2>2
<1>10. ASSUME self.id \in OpId, self.answer \in PluginAnswers,
              self.phase \in {"answered", "finishing"},
              RecordOutcome(self.id, self.answer, self.attempt)
       PROVE  QuietCalls(w)
  BY <1>10 DEF QuietCalls, Records, Says
<1>11. CASE Record(w)
  <2>1. QuietCalls(w) /\ UNCHANGED <<wire, provider, clock>>
    BY <1>1, <1>10, <1>11 DEF Knows, Record, LocalStep
  <2>2. CASE self.attempt # None
    BY <1>4, <1>11, <2>1, <2>2 DEF Record, AfterRecording, Return
  <2>3. CASE self.attempt = None
    <3> DEFINE c == [Seen(ops'[self.id]) EXCEPT !.attempts = self.seen.attempts]
               s == [self EXCEPT !.phase = "deciding", !.answer = None, !.seen = c]
    <3>1. Becomes(w, s)
      BY <1>11, <2>3 DEF Record, AfterRecording
    <3> HIDE DEF c
    <3>2. /\ s.phase = "deciding" /\ s.attempt = self.attempt /\ s.id = self.id
          /\ s.now = self.now
      BY <1>1 DEF Worker
    <3> HIDE DEF s
    <3> QED
      BY <1>1, <2>1, <3>1, <3>2, BecomesOnly DEF GoesOn, QuietStep
  <2> QED
    BY <2>2, <2>3
<1>12. CASE Inapplicable(w)
  BY <1>1, <1>2, <1>12, MovesOnQuietly DEF Inapplicable, Phases
<1>13. CASE Retain(w)
  BY <1>1, <1>4, <1>13 DEF Retain, Knows, QuietCalls, LocalStep
<1>14. CASE DecideRetry(w)
  <2> DEFINE s == [self EXCEPT !.phase = "reclaiming", !.now = clock]
  <2>1. s.phase = "reclaiming" /\ s.attempt = self.attempt /\ s.id = self.id /\ s.now = clock
    BY <1>1 DEF Worker
  <2>2. Becomes(w, s) \/ Return(w)
    BY <1>14 DEF DecideRetry
  <2> HIDE DEF s
  <2> QED
    BY <1>1, <1>2, <1>3, <1>14, <2>1, <2>2, BecomesOnly DEF GoesOn, DecideRetry
<1>15. CASE Apply(w)
  BY <1>4, <1>15 DEF Apply, LocalStep, QuietCalls, Notices
<1>16. CASE Drop(w)
  <2>1. self.id \in OpId /\ CancelledOutcome \in PluginAnswers
    BY <1>1, <1>16 DEF Knows, Drop, CancelledOutcome, PluginAnswers, EvidenceStates
  <2> QED
    BY <1>4, <1>16, <2>1 DEF Drop, LocalStep, QuietCalls, Records, Says
<1>17. CASE Finish(w)
  BY <1>1, <1>4, <1>10, <1>17 DEF Finish, Knows, QuietCalls
<1>18. ASSUME Attempted(w), self.id \in OpId, self.answer \in PluginAnswers,
              self.phase = "answered"
       PROVE  QuietCalls(w)
  BY <1>10, <1>18 DEF Attempted, QuietCalls
<1>19. CASE Crash(w)
  BY <1>4, <1>19 DEF Crash, QuietCalls
<1>20. CASE Malformed(w)
  <2> DEFINE a == [Bare("unknown") EXCEPT !.settled = 1]
  <2>1. a.state = "unknown"
    BY DEF Bare
  <2>2. Becomes(w, Told(a)) /\ UNCHANGED <<repository, wire, provider, clock>>
    BY <1>20 DEF Malformed
  <2> HIDE DEF a, Told
  <2> QED
    BY <1>5, <2>1, <2>2 DEF Told
<1>21. CASE WriteFails(w)
  BY <1>1, <1>18, <1>21, MovesOnQuietly DEF WriteFails, Knows, QuietStep, Phases
<1>22. CASE CancelWait(w)
  BY <1>1, <1>22, MovesOnQuietly DEF CancelWait, QuietStep, QuietCalls, Phases
<1>23. CASE CancelWrite(w)
  BY <1>1, <1>18, <1>23, MovesOnQuietly DEF CancelWrite, Knows, QuietStep, Phases
<1> QED
  BY <1>6, <1>7, <1>8, <1>9, <1>11, <1>12, <1>13, <1>14, <1>15, <1>16, <1>17, <1>19, <1>20,
     <1>21, <1>22, <1>23 DEF Interrupt

LEMMA QuerySteps ==
  ASSUME FlowInv, NEW w \in Workers, Query(w)
  PROVE  Queried(w)
<1> DEFINE self  == workers[w]
           e     == IF provider[self.id].verdict # None THEN provider[self.id].verdict
                    ELSE NotFoundState(self.cap)
           s     == [self EXCEPT !.phase = "answered", !.answer = Bare(e)]
<1>1. self \in Worker /\ Knows(self) /\ WorkersKnow
  BY DEF FlowInv, WorkersKnow
<1>2. Becomes(w, s)
  BY DEF Query
<1> HIDE DEF e
<1>3. s.phase = "answered" /\ s.attempt = self.attempt /\ s.id = self.id /\ s.now = self.now
  BY <1>1 DEF Worker
<1> HIDE DEF s
<1>4. self.attempt = None
  BY <1>1 DEF Knows, Query
<1> QED
  BY <1>1, <1>2, <1>3, <1>4, BecomesOnly DEF Queried

LEMMA ClaimSteps ==
  ASSUME FlowInv, NEW w \in Workers, Claiming(w) \/ Reclaiming(w)
  PROVE  QuietStep(w) \/ Claimed(w)
<1> DEFINE self == workers[w]
<1>1. self \in Worker /\ Knows(self) /\ WorkersKnow
  BY DEF FlowInv, WorkersKnow
<1>2. ASSUME NEW expected, Refused(w, expected), UNCHANGED <<wire, provider, clock>>
      PROVE  QuietStep(w)
  BY <1>1, <1>2, ReturnsQuietly DEF Refused, QuietStep, QuietCalls
<1>3. CASE Claiming(w)
  <2>0. self.now \in 0 .. MaxTime /\ self.cap \in Capabilities
    BY <1>1, <1>3 DEF Knows, Claiming, Worker
  <2>1. Deadline(self) \in Optional(Deadlines)
    BY <2>0, FlowInputsTyped DEF Deadline, Optional
  <2>2. self.cap.scope \in Optional(Scopes)
    BY <2>0, FlowInputsTyped DEF Declaration
  <2>3. 0 \in 0 .. MaxAttempts
    BY InputsTyped
  <2> QED
    BY <1>2, <1>3, <2>1, <2>2, <2>3 DEF Claiming, Claimed, LocalStep
<1>4. CASE Reclaiming(w)
  <2>1. self.seen.attempts \in 0 .. MaxAttempts
    BY <1>1, <1>4 DEF Reclaiming, Knows, SeenRecord
  <2>2. None \in Optional(Deadlines) /\ None \in Optional(Scopes)
    BY DEF Optional
  <2> QED
    BY <1>2, <1>4, <2>1, <2>2 DEF Reclaiming, Claimed, LocalStep
<1> QED
  BY <1>3, <1>4

(* The steps of the flow, as far as the promises tell them apart. *)
LEMMA FlowShapes ==
  ASSUME FlowInv, [FlowNext]_flowVars
  PROVE  \/ \E w \in Workers : QuietStep(w) \/ Queried(w) \/ Claimed(w) \/ Submit(w)
         \/ QuietEnvironment
         \/ \E call \in wire : Arrive(call)
         \/ Tick
<1>1. ASSUME NEW w \in Workers, Call(w) \/ Advance(w) \/ Query(w) \/ QueryFails(w) \/ Interrupt(w)
      PROVE  QuietStep(w) \/ Queried(w) \/ Claimed(w) \/ Submit(w)
  BY <1>1, QuietSteps, QuerySteps, ClaimSteps DEF Advance
<1>2. CASE Environment
  BY <1>2 DEF Environment, QuietEnvironment, Settle, Deploy
<1>3. CASE UNCHANGED flowVars
  BY <1>3 DEF flowVars, QuietEnvironment
<1> QED
  BY <1>1, <1>2, <1>3 DEF FlowNext

-----------------------------------------------------------------------------
(* What an outcome leaves pending *)

(* No outcome acknowledges a producer: only the attempt that is passed     *)
(* with it is retired.                                                     *)
LEMMA OutcomeKeepsPending ==
  ASSUME NEW f, NEW all \in [OpId -> OperationRecord], NEW id \in OpId, NEW o \in Outcome,
         NEW x \in OpId
  PROVE  OutcomePlan(f, all, id, o).ops[x].pending = all[x].pending
<1> DEFINE op == all[id]
           n  == Noted(f, op, o)
           g  == IdentifiedFacts(f, op, o)
           plan == OutcomePlan(f, all, id, o)
<1>1. op \in OperationRecord /\ n \in OperationRecord
  BY NotedTyped
<1>2. ASSUME NEW q \in OperationRecord, NEW h
      PROVE  Disputed(h, q, o).op.pending = q.pending
  BY DEF Disputed, OperationRecord
<1>3. n.pending = op.pending
  BY <1>1 DEF Noted, OperationRecord
<1>4. ASSUME NEW q, q.pending = op.pending, plan.ops = [all EXCEPT ![id] = q]
      PROVE  plan.ops[x].pending = all[x].pending
  <2> HIDE DEF plan
  <2> QED
    BY <1>4
<1>5. CASE Overstated(op, o)
  <2>1. plan.ops = [all EXCEPT ![id] = Disputed(f, op, o).op]
    BY <1>5 DEF OutcomePlan
  <2> QED
    BY <1>1, <1>2, <1>4, <2>1
<1>6. CASE ~Overstated(op, o) /\ OnlyNoted(f, all, id, o)
  <2>1. plan.ops = [all EXCEPT ![id] = n]
    BY <1>6 DEF OutcomePlan
  <2> QED
    BY <1>3, <1>4, <2>1
<1>7. CASE ~Overstated(op, o) /\ ~OnlyNoted(f, all, id, o)
  <2>1. CASE o.state = "succeeded" /\ ~Possible(g, SettlementClaim(g, all, id, o))
    <3>1. plan.ops = [all EXCEPT ![id] = Disputed(g, n, o).op]
      BY <1>7, <2>1 DEF OutcomePlan
    <3> QED
      BY <1>1, <1>2, <1>3, <1>4, <3>1
  <2>2. CASE ~(o.state = "succeeded" /\ ~Possible(g, SettlementClaim(g, all, id, o)))
    <3> DEFINE a == IF o.state = "succeeded" THEN SettledAmount(op, o) ELSE n.settled
               s == NextState(op, o)
               q == [n EXCEPT !.state = s, !.settled = a]
               r == [all[x] EXCEPT !.state = "rejected"]
    <3>1. plan.ops = SettledOps(f, all, id, o)
      BY <1>7, <2>2 DEF OutcomePlan
    <3>2. SettledOps(f, all, id, o)[x] \in {q, r, all[x]}
          /\ (x = id => SettledOps(f, all, id, o)[x] = q)
          /\ (x # id => SettledOps(f, all, id, o)[x] \in {r, all[x]})
      BY DEF SettledOps
    <3>3. q.pending = n.pending /\ r.pending = all[x].pending
      <4> HIDE DEF a, s, n
      <4> QED
        BY <1>1 DEF OperationRecord
    <3> HIDE DEF q, r, n
    <3> QED
      BY <1>3, <3>1, <3>2, <3>3
  <2> QED
    BY <2>1, <2>2
<1> QED
  BY <1>5, <1>6, <1>7

(* Neither does a callback. *)
LEMMA ObservationKeepsPending ==
  ASSUME NEW f, NEW all \in [OpId -> OperationRecord], NEW u \in Observation, NEW x \in OpId
  PROVE  ObservationPlan(f, all, u).ops[x].pending = all[x].pending
<1> DEFINE id == CHOOSE y \in Candidates(all, u) : TRUE
<1>1. ObservationPlan(f, all, u).ops = CorrelatedPlan(f, all, u).ops
  BY DEF ObservationPlan
<1>2. CASE ~Correlated(all, u)
  <2>1. CorrelatedPlan(f, all, u).ops = all
    BY <1>2 DEF CorrelatedPlan, Correlated
  <2> QED
    BY <1>1, <2>1
<1>3. CASE Correlated(all, u)
  <2>1. id \in OpId /\ u.outcome \in Outcome
    BY <1>3, OneCandidate
  <2>2. CorrelatedPlan(f, all, u) = OutcomePlan(AggregatedFacts(f, u), all, id, u.outcome)
    BY <1>3 DEF CorrelatedPlan, Correlated
  <2> HIDE DEF id
  <2> QED
    BY <1>1, <2>1, <2>2, OutcomeKeepsPending
<1> QED
  BY <1>2, <1>3

(* What a quiet step leaves of a record. *)
Steady(op, q) ==
  /\ q.attempts = op.attempts
  /\ q.submitted_at = op.submitted_at
  /\ q.retry_until = op.retry_until
  /\ q.scope = op.scope

(* Apart from the attempt the worker passes with its outcome. *)
StillPending(w, x) ==
  \A n \in ops[x].pending :
    n \in ops'[x].pending \/ (x = workers[w].id /\ n = workers[w].attempt)

LEMMA QuietRecords ==
  ASSUME FlowInv, NEW w \in Workers, QuietCalls(w), NEW x \in OpId
  PROVE  Steady(ops[x], ops'[x]) /\ StillPending(w, x)
<1>1. /\ IndInv /\ FreeIsEmpty /\ WorkersKnow
      /\ ops \in [OpId -> OperationRecord] /\ facts \in PaymentFacts /\ ValidAmounts(facts)
  BY DEF FlowInv, RepositoryInv, IndInv, TypeOK, FundsBounded
<1>2. ASSUME ops' = ops PROVE Steady(ops[x], ops'[x]) /\ StillPending(w, x)
  BY <1>2 DEF Steady, StillPending
<1>3. ASSUME NEW i \in Intents, Reserve(i)
      PROVE  Steady(ops[x], ops'[x]) /\ StillPending(w, x)
  <2>1. /\ i.id \in OpId /\ ops[i.id].state = "absent"
        /\ \A y \in OpId \ {i.id} : ops'[y] = ops[y]
        /\ ops'[i.id].attempts = 0 /\ ops'[i.id].submitted_at = None
        /\ ops'[i.id].retry_until = None /\ ops'[i.id].scope = None
    BY <1>1, <1>3, ReservationHistory
  <2>2. ops[i.id] = Absent
    BY <1>1, <2>1 DEF FreeIsEmpty
  <2>3. CASE x = i.id
    BY <2>1, <2>2, <2>3 DEF Steady, StillPending, Absent
  <2>4. CASE x # i.id
    BY <2>1, <2>4 DEF Steady, StillPending
  <2> QED
    BY <2>3, <2>4
<1>4. ASSUME HistoryEvolves(ops, facts', ops')
      PROVE  Steady(ops[x], ops'[x])
  BY <1>4 DEF HistoryEvolves, Evolves, Kept, Promised, Steady
<1>5. CASE Records(w)
  <2>1. PICK a \in PluginAnswers :
          workers[w].id \in OpId /\ RecordOutcome(workers[w].id, a, workers[w].attempt)
    BY <1>5 DEF Records
  <2> DEFINE id   == workers[w].id
             plan == OutcomePlan(facts, ops, id, a)
  <2>2. a \in Outcomes /\ a \in Outcome /\ CanPlanOutcome(facts, ops, id, a)
    BY <2>1, MalformedRefused, PluginAnswersTyped DEF RecordOutcome
  <2>3. Answered
    BY <1>1, <2>1, <2>2, RecordOutcomeHistory
  <2>4. plan.ops \in [OpId -> OperationRecord]
    BY <1>1, <2>1, <2>2, OutcomeBuilds DEF Follows
  <2>5. plan.ops[x].pending = ops[x].pending
    BY <1>1, <2>1, <2>2, OutcomeKeepsPending
  <2>6. ops' = WithoutAttempt(plan.ops, id, workers[w].attempt)
    BY <2>1 DEF RecordOutcome
  <2> HIDE DEF plan
  <2>7. StillPending(w, x)
    <3> DEFINE p == plan.ops[x]
               q == [p EXCEPT !.pending = @ \ {workers[w].attempt}]
    <3>1. q.pending = p.pending \ {workers[w].attempt}
      BY <2>4 DEF OperationRecord
    <3> HIDE DEF q
    <3>2. ops'[x] = p \/ (x = id /\ ops'[x] = q)
      BY <2>4, <2>6 DEF WithoutAttempt, q
    <3> QED
      BY <2>5, <3>1, <3>2 DEF StillPending
  <2> QED
    BY <1>4, <2>3, <2>7 DEF Answered
<1>6. ASSUME NEW id \in OpId, RecordFailure(id, "claim")
      PROVE  Steady(ops[x], ops'[x]) /\ StillPending(w, x)
  <2> DEFINE e == ops[id].recovery \cup {"claim"}
             q == [ops[id] EXCEPT !.reconcile = TRUE, !.recovery = e]
  <2>1. ops' = [ops EXCEPT ![id] = q]
    BY <1>6 DEF RecordFailure, FailureNoted
  <2> HIDE DEF e
  <2>2. Steady(ops[id], q) /\ q.pending = ops[id].pending
    BY <1>1 DEF Steady, OperationRecord
  <2> HIDE DEF q
  <2>3. Steady(ops[x], ops[x])
    BY DEF Steady
  <2> QED
    BY <1>1, <2>1, <2>2, <2>3 DEF StillPending
<1>7. CASE Notices(w)
  <2> DEFINE u == workers[w].answer
  <2>1. u \in Observations /\ u \in Observation
    BY <1>1, <1>7, InputsTyped DEF Notices, WorkersKnow, Knows
  <2>2. CASE ObserveAgain(u) \/ ObserveImpossible(u)
    BY <1>2, <2>2 DEF ObserveAgain, ObserveImpossible
  <2>3. CASE Observe(u)
    <3>1. /\ CanPlanObservation(facts, ops, u) /\ facts' = ObservationPlan(facts, ops, u).facts
          /\ ops' = ObservationPlan(facts, ops, u).ops
      BY <2>3 DEF Observe, Commit
    <3>2. HistoryEvolves(ops, facts', ops')
      BY <1>1, <2>1, <3>1, ObservationHistory
    <3>3. ops'[x].pending = ops[x].pending
      BY <1>1, <2>1, <3>1, ObservationKeepsPending
    <3> QED
      BY <1>4, <3>2, <3>3 DEF StillPending
  <2> QED
    BY <1>7, <2>2, <2>3 DEF Notices
<1>8. CASE UNCHANGED repository
  BY <1>2, <1>8 DEF repository
<1> QED
  BY <1>3, <1>5, <1>6, <1>7, <1>8 DEF QuietCalls

-----------------------------------------------------------------------------
(* Claims *)

(* A worker that does not claim or send. *)
Tame(self, s) ==
  \/ s = self
  \/ /\ s.phase \notin {"claimed", "calling"}
     /\ s.attempt # None => s.attempt = self.attempt /\ s.id = self.id
     /\ s.now \in {0, clock, self.now}

KeepsClaims ==
  /\ \A x \in OpId : Steady(ops[x], ops'[x])
  /\ \A v \in Workers : Tame(workers[v], workers'[v])
  /\ \A v \in Workers : workers[v].phase \in {"claimed", "calling"} /\ workers'[v] = workers[v] =>
       workers[v].attempt \in ops'[workers[v].id].pending
  /\ clock' \in {clock, clock + 1}

(* A worker that sends has an attempt of an operation. *)
LEMMA ProducersKnow ==
  ASSUME FlowInv, NEW v \in Workers, workers[v].phase \in {"claimed", "calling"}
  PROVE  /\ workers[v].id \in OpId /\ workers[v].attempt \in 1 .. MaxAttempts
         /\ workers[v].attempt # None
<1>1. Knows(workers[v])
  BY DEF FlowInv, WorkersKnow
<1>2. workers[v].id \in OpId
  BY <1>1 DEF Knows
<1>3. workers[v].attempt \in 1 .. MaxAttempts
  BY <1>1 DEF Knows
<1> QED
  BY <1>2, <1>3, NoneIsNoValue

(* Numbers the invariants compare. *)
LEMMA FlowNumbers ==
  ASSUME FlowInv
  PROVE  /\ clock \in Nat
         /\ \A w \in Workers : workers[w].now \in Nat
         /\ \A w \in Workers : workers[w].attempt # None => workers[w].attempt \in 1 .. MaxAttempts
         /\ \A id \in OpId : ops[id].attempts \in Nat /\ ops[id].submitted_at \in Optional(Int)
         /\ \A call \in wire : /\ call.until \in Nat /\ call.attempt \in 1 .. MaxAttempts
                                /\ call.id \in OpId /\ call.cap \in Capabilities
<1>1. \A w \in Workers : workers[w].now \in Nat
  BY DEF FlowInv, WorkersKnow, Worker
<1>2. \A w \in Workers : workers[w].attempt # None => workers[w].attempt \in 1 .. MaxAttempts
  BY DEF FlowInv, WorkersKnow, Worker, Optional
<1>3. \A id \in OpId : ops[id].attempts \in Nat /\ ops[id].submitted_at \in Optional(Int)
  BY DEF FlowInv, RepositoryInv, IndInv, TypeOK, OperationRecord
<1> QED
  BY <1>1, <1>2, <1>3 DEF FlowInv, EnvironmentTyped

LEMMA KeptClaims ==
  ASSUME ClaimInv, FlowInv', KeepsClaims
  PROVE  HoldersInv'
<1>1. /\ FlowInv /\ AttemptsClaimed /\ AttemptsDistinct /\ ProducersHoldTheirClaims
      /\ ClaimsAreCurrent /\ ClaimsAreDated
  BY DEF ClaimInv, HoldersInv
<1>2. \A x \in OpId : Steady(ops[x], ops'[x])
  BY DEF KeepsClaims
<1>3. AttemptsClaimed'
  BY <1>1, <1>2 DEF AttemptsClaimed, KeepsClaims, Tame, Steady
<1>4. AttemptsDistinct'
  BY <1>1 DEF AttemptsDistinct, KeepsClaims, Tame
<1>5. ASSUME NEW v \in Workers, workers'[v].phase \in {"claimed", "calling"}
      PROVE  workers'[v] = workers[v]
  BY <1>5 DEF KeepsClaims, Tame
<1>6. ProducersHoldTheirClaims'
  BY <1>5 DEF ProducersHoldTheirClaims, KeepsClaims
<1>7. ClaimsAreCurrent'
  BY <1>1, <1>2, <1>5, ProducersKnow DEF ClaimsAreCurrent, Steady
<1>8. ClaimsAreDated'
  <2>1. clock \in Nat /\ clock <= clock' /\ clock' \in Nat
    BY <1>1, FlowNumbers DEF KeepsClaims
  <2>2. ASSUME NEW v \in Workers PROVE workers'[v].now <= clock'
    <3>1. workers[v].now \in Nat /\ workers[v].now <= clock
      BY <1>1, FlowNumbers DEF ClaimsAreDated
    <3>2. workers'[v].now \in {0, clock, workers[v].now}
      BY DEF KeepsClaims, Tame
    <3> QED
      BY <2>1, <3>1, <3>2
  <2>3. ASSUME NEW id \in OpId
        PROVE  /\ ops'[id].attempts > 0 => ops'[id].submitted_at \in Int /\ ops'[id].submitted_at <= clock'
               /\ ops'[id].retry_until = None => ops'[id].attempts <= 1
    <3>1. /\ ops[id].attempts > 0 => ops[id].submitted_at \in Int /\ ops[id].submitted_at <= clock
          /\ ops[id].retry_until = None => ops[id].attempts <= 1
      BY <1>1 DEF ClaimsAreDated
    <3> QED
      BY <1>2, <2>1, <3>1 DEF Steady
  <2> QED
    BY <2>2, <2>3 DEF ClaimsAreDated
<1> QED
  BY <1>3, <1>4, <1>6, <1>7, <1>8 DEF HoldersInv

LEMMA KeptRequests ==
  ASSUME ClaimInv, FlowInv', KeepsClaims, wire' \subseteq wire,
         \A call \in wire' : clock' <= call.until
  PROVE  RequestsAreTimely'
<1>1. FlowInv /\ RequestsAreTimely
  BY DEF ClaimInv
<1>2. \A x \in OpId : Steady(ops[x], ops'[x])
  BY DEF KeepsClaims
<1>3. ASSUME NEW v \in Workers, workers'[v].phase = "claimed"
      PROVE  workers'[v] = workers[v]
  BY <1>3 DEF KeepsClaims, Tame
<1>4. ASSUME NEW call \in wire' PROVE call.id \in OpId /\ call \in wire
  BY <1>1, <1>4, FlowNumbers
<1> QED
  BY <1>1, <1>2, <1>3, <1>4 DEF RequestsAreTimely, Steady

(* Most steps keep all claims. *)
LEMMA QuietKeepsClaims ==
  ASSUME ClaimInv, NEW w \in Workers, QuietStep(w) \/ Queried(w)
  PROVE  KeepsClaims
<1>1. FlowInv /\ AttemptsDistinct /\ ProducersHoldTheirClaims /\ clock' = clock
  BY DEF ClaimInv, HoldersInv, QuietStep, Queried, Query
<1>2. \A x \in OpId : Steady(ops[x], ops'[x]) /\ StillPending(w, x)
  BY <1>1, QuietRecords DEF QuietStep, Queried, Query, QuietCalls
<1>3. /\ workers'[w].phase \notin {"claimed", "calling"}
      /\ workers'[w].attempt # None => workers'[w].attempt = workers[w].attempt /\ workers'[w].id = workers[w].id
      /\ workers'[w].now \in {0, clock, workers[w].now}
      /\ \A v \in Workers \ {w} : workers'[v] = workers[v]
  BY DEF QuietStep, GoesOn, Others, Queried
<1>4. \A v \in Workers : Tame(workers[v], workers'[v])
  BY <1>3 DEF Tame
<1>5. ASSUME NEW v \in Workers, workers[v].phase \in {"claimed", "calling"}, workers'[v] = workers[v]
      PROVE  workers[v].attempt \in ops'[workers[v].id].pending
  <2>1. /\ workers[v].id \in OpId /\ workers[v].attempt # None /\ v # w
        /\ workers[v].attempt \in ops[workers[v].id].pending
    BY <1>1, <1>3, <1>5, ProducersKnow DEF ProducersHoldTheirClaims
  <2>2. ~(workers[v].id = workers[w].id /\ workers[v].attempt = workers[w].attempt)
    BY <1>1, <2>1 DEF AttemptsDistinct
  <2> QED
    BY <1>2, <2>1, <2>2 DEF StillPending
<1> QED
  BY <1>1, <1>2, <1>4, <1>5 DEF KeepsClaims

(* An answer reaches at most one worker, which then no longer sends. *)
LEMMA AnsweringTames ==
  ASSUME FlowInv, NEW call, NEW e, Answering(call, e), NEW v \in Workers
  PROVE  Tame(workers[v], workers'[v])
<1>1. CASE UNCHANGED workers
  BY <1>1 DEF Tame
<1>2. ASSUME NEW w \in Workers,
             Becomes(w, [workers[w] EXCEPT !.phase = "answered", !.answer = Bare(e)])
      PROVE  Tame(workers[v], workers'[v])
  <2> DEFINE s == [workers[w] EXCEPT !.phase = "answered", !.answer = Bare(e)]
  <2>1. workers[w] \in Worker /\ WorkersKnow
    BY DEF FlowInv, WorkersKnow
  <2>2. /\ s.phase = "answered" /\ s.attempt = workers[w].attempt /\ s.id = workers[w].id
        /\ s.now = workers[w].now
    BY <2>1 DEF Worker
  <2> HIDE DEF s
  <2>3. workers'[w] = s /\ Others(w)
    BY <1>2, <2>1, BecomesOnly DEF s
  <2> QED
    BY <2>2, <2>3 DEF Tame, Others
<1> QED
  BY <1>1, <1>2 DEF Answering

LEMMA EnvironmentKeepsClaims ==
  ASSUME ClaimInv, QuietEnvironment \/ Tick \/ \E call \in wire : Arrive(call)
  PROVE  KeepsClaims
<1>1. FlowInv /\ ProducersHoldTheirClaims
  BY DEF ClaimInv, HoldersInv
<1>2. /\ UNCHANGED ops /\ clock' \in {clock, clock + 1}
      /\ UNCHANGED workers \/ \E call \in wire, e \in EvidenceStates \cup {None} : Answering(call, e)
  <2>1. CASE QuietEnvironment
    BY <2>1 DEF QuietEnvironment, repository
  <2>2. CASE Tick
    BY <2>2 DEF Tick, repository
  <2>3. ASSUME NEW call \in wire, Arrive(call)
        PROVE  \E e \in EvidenceStates \cup {None} : Answering(call, e)
    <3>1. call.id \in OpId /\ provider \in [OpId -> ProviderRecord]
      BY <1>1 DEF FlowInv, EnvironmentTyped, ProviderTyped
    <3>2. provider[call.id].verdict \in EvidenceStates \cup {None}
      BY <3>1 DEF ProviderRecord, Optional
    <3>3. Verdicts \subseteq EvidenceStates
      BY FlowInputsTyped DEF EvidenceStates, TerminalStates
    <3> QED
      BY <2>3, <3>2, <3>3 DEF Arrive, Repeat, Take
  <2>4. ASSUME NEW call \in wire, Arrive(call) PROVE UNCHANGED ops /\ clock' = clock
    BY <2>4 DEF Arrive, repository
  <2> QED
    BY <2>1, <2>2, <2>3, <2>4
<1>3. \A v \in Workers : Tame(workers[v], workers'[v])
  <2>1. ASSUME NEW v \in Workers PROVE Tame(workers[v], workers[v])
    BY DEF Tame
  <2> QED
    BY <1>1, <1>2, <2>1, AnsweringTames
<1>4. \A x \in OpId : Steady(ops[x], ops'[x])
  BY <1>2 DEF Steady
<1> QED
  BY <1>1, <1>2, <1>3, <1>4, ProducersKnow DEF KeepsClaims, ProducersHoldTheirClaims

(* A claim takes the next attempt of its operation, and moves its window   *)
(* only when it is the first.                                              *)
LEMMA ClaimedRecords ==
  ASSUME ClaimInv, NEW w \in Workers, Claimed(w)
  PROVE  LET id == workers[w].id
             q  == ops'[id]
         IN  /\ id \in OpId /\ \A x \in OpId \ {id} : ops'[x] = ops[x]
             /\ q.attempts = ops[id].attempts + 1 /\ q.pending = ops[id].pending \cup {q.attempts}
             /\ ops[id].attempts > 0 => /\ q.submitted_at = ops[id].submitted_at
                                        /\ q.retry_until = ops[id].retry_until
                                        /\ q.scope = ops[id].scope
                                        /\ q.retry_until # None
             /\ ops[id].attempts = 0 => q.submitted_at = workers[w].now
             /\ Others(w)
             /\ workers'[w].phase = "claimed" /\ workers'[w].id = id
             /\ workers'[w].attempt = q.attempts /\ workers'[w].seen = Seen(q)
             /\ workers'[w].now = 0
             /\ UNCHANGED <<facts, wire, provider, clock>>
             /\ ops[id].state \in ActiveStates /\ q.state = "submitting"
<1> DEFINE self == workers[w]
           id   == self.id
           op   == ops[id]
<1>1. /\ self \in Worker /\ Knows(self) /\ WorkersKnow
      /\ ops \in [OpId -> OperationRecord]
  BY DEF ClaimInv, FlowInv, RepositoryInv, IndInv, TypeOK, WorkersKnow
<1>2. id \in OpId /\ op \in OperationRecord
  BY <1>1 DEF Claimed, Knows
<1>3. PICK expected \in 0 .. MaxAttempts, retry_until \in Optional(Deadlines),
           scope \in Optional(Scopes) : Granted(w, expected, retry_until, scope)
  BY DEF Claimed
<1> DEFINE q == Submission(op, self.now, retry_until, scope)
           s == [self EXCEPT !.phase = "claimed", !.attempt = expected + 1,
                             !.seen = Seen(ops'[id]), !.now = 0]
<1>4. /\ CanSubmit(facts, op, expected, self.now) /\ ops' = [ops EXCEPT ![id] = q]
      /\ UNCHANGED facts /\ Becomes(w, s)
  BY <1>3 DEF Granted, Claim
<1>5. /\ q.attempts = op.attempts + 1
      /\ op.attempts > 0 => /\ q.submitted_at = op.submitted_at
                            /\ q.retry_until = op.retry_until
                            /\ q.scope = op.scope
      /\ op.attempts = 0 => q.submitted_at = self.now
      /\ q.state = "submitting" /\ q.pending = op.pending \cup {op.attempts + 1} /\ Active(op)
  BY <1>2, <1>4, ClaimHistory
<1>6. op.attempts = expected /\ (op.attempts > 0 => op.retry_until # None)
  BY <1>2, <1>4, InputsTyped DEF CanSubmit, OperationRecord
<1> HIDE DEF q
<1>7. ops'[id] = q /\ \A x \in OpId \ {id} : ops'[x] = ops[x]
  BY <1>1, <1>2, <1>4
<1>8. workers'[w] = s /\ Others(w)
  BY <1>1, <1>4, BecomesOnly
<1>9. /\ s.phase = "claimed" /\ s.id = id /\ s.attempt = expected + 1 /\ s.now = 0
      /\ s.seen = Seen(ops'[id])
  BY <1>1 DEF Worker
<1> HIDE DEF s
<1>10. UNCHANGED <<wire, provider, clock>>
  BY DEF Claimed
<1>11. op.state \in ActiveStates
  BY <1>5 DEF Active
<1> QED
  BY <1>2, <1>4, <1>5, <1>6, <1>7, <1>8, <1>9, <1>10, <1>11

LEMMA ClaimedKeepsClaims ==
  ASSUME ClaimInv, FlowInv', NEW w \in Workers, Claimed(w)
  PROVE  HoldersInv' /\ RequestsAreTimely'
<1> DEFINE id == workers[w].id
           op == ops[id]
           q  == ops'[id]
<1>1. /\ FlowInv /\ AttemptsClaimed /\ AttemptsDistinct /\ ProducersHoldTheirClaims
      /\ ClaimsAreCurrent /\ ClaimsAreDated /\ RequestsAreTimely
  BY DEF ClaimInv, HoldersInv
<1>2. /\ id \in OpId /\ \A x \in OpId \ {id} : ops'[x] = ops[x]
      /\ q.attempts = op.attempts + 1 /\ q.pending = op.pending \cup {q.attempts}
      /\ op.attempts > 0 => /\ q.submitted_at = op.submitted_at
                            /\ q.retry_until = op.retry_until
                            /\ q.scope = op.scope
                            /\ q.retry_until # None
      /\ op.attempts = 0 => q.submitted_at = workers[w].now
      /\ Others(w)
      /\ workers'[w].phase = "claimed" /\ workers'[w].id = id
      /\ workers'[w].attempt = q.attempts /\ workers'[w].seen = Seen(q)
      /\ workers'[w].now = 0
      /\ UNCHANGED <<wire, clock>>
  BY ClaimedRecords
<1>3. /\ op.attempts \in Nat /\ clock \in Nat /\ workers[w].now \in Nat
      /\ \A v \in Workers : workers[v].attempt # None => workers[v].attempt \in 1 .. MaxAttempts
      /\ \A call \in wire : call.attempt \in 1 .. MaxAttempts /\ call.id \in OpId
      /\ \A x \in OpId : ops[x].attempts \in Nat
  BY <1>1, <1>2, FlowNumbers
<1>4. ASSUME NEW v \in Workers, v # w PROVE workers'[v] = workers[v]
  BY <1>2, <1>4 DEF Others
<1>5. AttemptsClaimed'
  <2>1. ASSUME NEW v \in Workers, workers'[v].attempt # None
        PROVE  workers'[v].id \in OpId /\ workers'[v].attempt <= ops'[workers'[v].id].attempts
    <3>1. CASE v = w
      BY <1>2, <1>3, <3>1
    <3>2. CASE v # w
      <4>1. /\ workers[v].attempt # None /\ workers[v].id \in OpId
            /\ workers[v].attempt <= ops[workers[v].id].attempts
            /\ workers[v].attempt \in 1 .. MaxAttempts
        BY <1>1, <1>3, <1>4, <2>1, <3>2 DEF AttemptsClaimed
      <4>2. CASE workers[v].id = id
        BY <1>2, <1>3, <1>4, <3>2, <4>1, <4>2
      <4>3. CASE workers[v].id # id
        BY <1>2, <1>4, <3>2, <4>1, <4>3
      <4> QED
        BY <4>2, <4>3
    <3> QED
      BY <3>1, <3>2
  <2> QED
    BY <2>1 DEF AttemptsClaimed
<1>6. ASSUME NEW v \in Workers, v # w, workers[v].id = id, workers[v].attempt # None
      PROVE  /\ workers[v].attempt # q.attempts /\ op.attempts > 0
  <2>1. workers[v].attempt <= op.attempts /\ workers[v].attempt \in 1 .. MaxAttempts
    BY <1>1, <1>3, <1>6 DEF AttemptsClaimed
  <2> QED
    BY <1>2, <1>3, <2>1
<1>7. AttemptsDistinct'
  BY <1>1, <1>2, <1>4, <1>6 DEF AttemptsDistinct
<1>8. ProducersHoldTheirClaims'
  <2>1. ASSUME NEW v \in Workers, workers'[v].phase \in {"claimed", "calling"}
        PROVE  workers'[v].attempt \in ops'[workers'[v].id].pending
    <3>1. CASE v = w
      BY <1>2, <3>1
    <3>2. CASE v # w
      <4>1. workers[v].id \in OpId /\ workers[v].attempt \in ops[workers[v].id].pending
        BY <1>1, <1>4, <2>1, <3>2, ProducersKnow DEF ProducersHoldTheirClaims
      <4> QED
        BY <1>2, <1>4, <3>2, <4>1
    <3> QED
      BY <3>1, <3>2
  <2> QED
    BY <2>1 DEF ProducersHoldTheirClaims
<1>9. ClaimsAreCurrent'
  <2>1. ASSUME NEW v \in Workers, workers'[v].phase = "claimed"
        PROVE  LET p == ops'[workers'[v].id]
                   seen == workers'[v].seen
               IN  /\ seen.submitted_at = p.submitted_at
                   /\ seen.retry_until = p.retry_until
                   /\ seen.scope = p.scope
    <3>1. CASE v = w
      BY <1>2, <3>1 DEF Seen
    <3>2. CASE v # w
      <4>1. /\ workers'[v] = workers[v] /\ workers[v].phase = "claimed"
            /\ workers[v].id \in OpId /\ workers[v].attempt # None
        BY <1>1, <1>4, <2>1, <3>2, ProducersKnow
      <4>2. CASE workers[v].id = id
        BY <1>1, <1>2, <1>6, <3>2, <4>1, <4>2 DEF ClaimsAreCurrent
      <4>3. CASE workers[v].id # id
        BY <1>1, <1>2, <4>1, <4>3 DEF ClaimsAreCurrent
      <4> QED
        BY <4>2, <4>3
    <3> QED
      BY <3>1, <3>2
  <2> QED
    BY <2>1 DEF ClaimsAreCurrent
<1>10. ClaimsAreDated'
  <2>1. \A v \in Workers : workers'[v].now <= clock'
    BY <1>1, <1>2, <1>3, <1>4 DEF ClaimsAreDated
  <2>2. ASSUME NEW x \in OpId
        PROVE  /\ ops'[x].attempts > 0 => ops'[x].submitted_at \in Int /\ ops'[x].submitted_at <= clock'
               /\ ops'[x].retry_until = None => ops'[x].attempts <= 1
    <3>1. CASE x # id
      BY <1>1, <1>2, <3>1 DEF ClaimsAreDated
    <3>2. CASE x = id /\ op.attempts > 0
      BY <1>1, <1>2, <3>2 DEF ClaimsAreDated
    <3>3. CASE x = id /\ op.attempts = 0
      <4>1. workers[w].now <= clock
        BY <1>1 DEF ClaimsAreDated
      <4> QED
        BY <1>2, <1>3, <3>3, <4>1
    <3> QED
      BY <1>3, <3>1, <3>2, <3>3
  <2> QED
    BY <2>1, <2>2 DEF ClaimsAreDated
<1>11. RequestsAreTimely'
  <2>1. ASSUME NEW call \in wire
        PROVE  LET p == ops'[call.id]
               IN  /\ call.attempt <= p.attempts
                   /\ clock <= call.until
                   /\ p.retry_until # None =>
                        /\ call.cap.scope = p.scope /\ call.cap.window # None
                        /\ call.until < p.submitted_at + call.cap.window
                   /\ \A other \in wire :
                        other.id = call.id /\ other.attempt = call.attempt => other = call
                   /\ \A v \in Workers : workers'[v].phase = "claimed" /\ workers'[v].id = call.id =>
                        workers'[v].attempt # call.attempt
    <3>1. /\ call.attempt <= ops[call.id].attempts /\ clock <= call.until
          /\ ops[call.id].retry_until # None =>
               /\ call.cap.scope = ops[call.id].scope /\ call.cap.window # None
               /\ call.until < ops[call.id].submitted_at + call.cap.window
          /\ \A other \in wire :
               other.id = call.id /\ other.attempt = call.attempt => other = call
          /\ \A v \in Workers : workers[v].phase = "claimed" /\ workers[v].id = call.id =>
               workers[v].attempt # call.attempt
      BY <1>1 DEF RequestsAreTimely
    <3>2. call.attempt \in 1 .. MaxAttempts /\ call.id \in OpId
      BY <1>3
    <3>3. CASE call.id = id
      <4>1. op.attempts > 0 /\ call.attempt # q.attempts /\ call.attempt <= q.attempts
        BY <1>2, <1>3, <3>1, <3>2, <3>3
      <4> QED
        BY <1>2, <1>4, <3>1, <3>3, <4>1
    <3>4. CASE call.id # id
      BY <1>2, <1>4, <3>1, <3>2, <3>4
    <3> QED
      BY <3>3, <3>4
  <2> QED
    BY <1>2, <2>1 DEF RequestsAreTimely
<1> QED
  BY <1>5, <1>7, <1>8, <1>9, <1>10, <1>11 DEF HoldersInv

(* A worker sends within the window of its intent, and its attempt once. *)
LEMMA SubmitShape ==
  ASSUME FlowInv, NEW w \in Workers, Submit(w)
  PROVE  LET self == workers[w]
             s    == workers'[w]
         IN  /\ Others(w)
             /\ s.phase = "calling" /\ s.id = self.id /\ s.attempt = self.attempt
             /\ s.now = self.now
             /\ self.phase = "claimed" /\ self.cap \in Capabilities
             /\ MaySend(self) /\ UNCHANGED <<repository, provider, clock>>
             /\ wire' = wire \cup {[id |-> self.id, attempt |-> self.attempt, cap |-> self.cap,
                                    until |-> clock + ProviderTimeout]}
<1> DEFINE self == workers[w]
           s    == [self EXCEPT !.phase = "calling", !.seen = None, !.cap = None]
<1>1. self \in Worker /\ Knows(self) /\ WorkersKnow
  BY DEF FlowInv, WorkersKnow
<1>2. workers'[w] = s /\ Others(w)
  BY <1>1, BecomesOnly DEF Submit
<1>3. s.phase = "calling" /\ s.id = self.id /\ s.attempt = self.attempt /\ s.now = self.now
  BY <1>1 DEF Worker
<1>4. self.phase = "claimed" /\ self.cap \in Capabilities
  BY <1>1 DEF Submit, Knows
<1> HIDE DEF s
<1> QED
  BY <1>2, <1>3, <1>4 DEF Submit

(* A request is sent before the window closes, with time left for it. *)
LEMMA SentInTime ==
  ASSUME ClaimInv, NEW w \in Workers, workers[w].phase = "claimed",
         workers[w].cap \in Capabilities, MaySend(workers[w]),
         ops[workers[w].id].retry_until # None
  PROVE  LET op  == ops[workers[w].id]
             cap == workers[w].cap
         IN  /\ cap.scope = op.scope /\ cap.window # None
             /\ clock + ProviderTimeout < op.submitted_at + cap.window
<1> DEFINE op   == ops[workers[w].id]
           cap  == workers[w].cap
           seen == workers[w].seen
<1>1. seen.submitted_at = op.submitted_at /\ seen.retry_until = op.retry_until
      /\ seen.scope = op.scope
  BY DEF ClaimInv, HoldersInv, ClaimsAreCurrent
<1>2. /\ seen.submitted_at # None /\ cap.window # None /\ cap.scope = seen.scope
      /\ clock + ProviderTimeout < Smaller(seen.retry_until, seen.submitted_at + cap.window)
  BY <1>1 DEF MaySend, WithinWindow
<1>3. op.submitted_at \in Int /\ op.retry_until \in Int /\ clock \in Nat
  <2>1. FlowInv /\ workers[w].id \in OpId
    BY ProducersKnow DEF ClaimInv
  <2>2. ops[workers[w].id] \in OperationRecord
    BY <2>1 DEF FlowInv, RepositoryInv, IndInv, TypeOK
  <2> QED
    BY <1>1, <1>2, <2>1, <2>2, FlowNumbers DEF OperationRecord, Optional
<1>4. cap.window \in Nat
  <2>1. Capabilities \subseteq Declaration
    BY FlowInputsTyped
  <2> QED
    BY <1>2, <2>1 DEF Declaration, Optional
<1>5. ProviderTimeout \in Nat
  BY FlowInputsTyped
<1>6. clock + ProviderTimeout < op.submitted_at + cap.window
  BY <1>1, <1>2, <1>3, <1>4, <1>5 DEF Smaller
<1> QED
  BY <1>1, <1>2, <1>6

LEMMA SubmitKeepsClaims ==
  ASSUME ClaimInv, FlowInv', NEW w \in Workers, Submit(w)
  PROVE  HoldersInv' /\ RequestsAreTimely'
<1> DEFINE self == workers[w]
           new  == [id |-> self.id, attempt |-> self.attempt, cap |-> self.cap,
                    until |-> clock + ProviderTimeout]
<1>1. /\ FlowInv /\ AttemptsClaimed /\ AttemptsDistinct /\ ProducersHoldTheirClaims
      /\ ClaimsAreCurrent /\ ClaimsAreDated /\ RequestsAreTimely
  BY DEF ClaimInv, HoldersInv
<1>2. /\ Others(w)
      /\ workers'[w].phase = "calling" /\ workers'[w].id = self.id
      /\ workers'[w].attempt = self.attempt /\ workers'[w].now = self.now
      /\ self.phase = "claimed" /\ self.cap \in Capabilities
      /\ MaySend(self) /\ UNCHANGED <<ops, clock>>
      /\ wire' = wire \cup {new}
  BY <1>1, SubmitShape DEF repository
<1>3. HoldersInv'
  <2>1. AttemptsClaimed'
    BY <1>1, <1>2 DEF AttemptsClaimed, Others
  <2>2. AttemptsDistinct'
    BY <1>1, <1>2 DEF AttemptsDistinct, Others
  <2>3. ProducersHoldTheirClaims'
    BY <1>1, <1>2 DEF ProducersHoldTheirClaims, Others
  <2>4. ClaimsAreCurrent'
    BY <1>1, <1>2 DEF ClaimsAreCurrent, Others
  <2>5. ClaimsAreDated'
    BY <1>1, <1>2 DEF ClaimsAreDated, Others
  <2> QED
    BY <2>1, <2>2, <2>3, <2>4, <2>5 DEF HoldersInv
<1>4. ASSUME NEW v \in Workers, workers'[v].phase = "claimed"
      PROVE  workers'[v] = workers[v] /\ v # w
  BY <1>2, <1>4 DEF Others
<1>5. self.id \in OpId /\ self.attempt # None
  BY <1>1, <1>2, ProducersKnow
<1>6. clock \in Nat /\ ProviderTimeout \in Nat
  BY <1>1, FlowNumbers, FlowInputsTyped
<1>7. /\ new.id = self.id /\ new.attempt = self.attempt /\ new.cap = self.cap
      /\ new.until = clock + ProviderTimeout
  OBVIOUS
<1> HIDE DEF new
<1>8. ASSUME NEW call \in wire PROVE ~(call.id = new.id /\ call.attempt = new.attempt)
  BY <1>1, <1>2, <1>7 DEF RequestsAreTimely
<1>9. /\ new.attempt <= ops[new.id].attempts /\ clock <= new.until
      /\ ops[new.id].retry_until # None =>
           /\ new.cap.scope = ops[new.id].scope /\ new.cap.window # None
           /\ new.until < ops[new.id].submitted_at + new.cap.window
  BY <1>1, <1>2, <1>5, <1>6, <1>7, SentInTime DEF AttemptsClaimed
<1>10. \A v \in Workers : workers'[v].phase = "claimed" /\ workers'[v].id = new.id =>
         workers'[v].attempt # new.attempt
  <2>1. ASSUME NEW v \in Workers, workers'[v].phase = "claimed", workers'[v].id = new.id
        PROVE  workers'[v].attempt # new.attempt
    <3>1. /\ v # w /\ workers[v].phase = "claimed" /\ workers[v].id = self.id
          /\ workers'[v].attempt = workers[v].attempt
      BY <1>4, <1>7, <2>1
    <3>2. workers[v].attempt # None
      BY <1>1, <3>1, ProducersKnow
    <3> QED
      BY <1>1, <1>5, <1>7, <3>1, <3>2 DEF AttemptsDistinct
  <2> QED
    BY <2>1
<1>11. RequestsAreTimely'
  BY <1>1, <1>2, <1>4, <1>8, <1>9, <1>10 DEF RequestsAreTimely
<1> QED
  BY <1>3, <1>11

(* Time leaves no request on its way that its caller gave up. *)
LEMMA TickKeepsRequests ==
  ASSUME ClaimInv, Tick
  PROVE  wire' \subseteq wire /\ \A call \in wire' : clock' <= call.until
<1>1. clock \in Nat /\ \A call \in wire : call.until \in Nat
  BY FlowNumbers DEF ClaimInv
<1> QED
  BY <1>1 DEF Tick

LEMMA ClaimSafe ==
  ASSUME ClaimInv, [FlowNext]_flowVars
  PROVE  ClaimInv'
<1>1. FlowInv /\ FlowInv' /\ RequestsAreTimely
  BY FlowSteps DEF ClaimInv
<1>2. ASSUME KeepsClaims, wire' \subseteq wire, clock' = clock
      PROVE  ClaimInv'
  BY <1>1, <1>2, KeptClaims, KeptRequests DEF ClaimInv, RequestsAreTimely
<1>3. ASSUME NEW w \in Workers, QuietStep(w) \/ Queried(w) PROVE ClaimInv'
  BY <1>2, <1>3, QuietKeepsClaims DEF QuietStep, Queried, Query
<1>4. ASSUME NEW w \in Workers, Claimed(w) PROVE ClaimInv'
  BY <1>1, <1>4, ClaimedKeepsClaims DEF ClaimInv
<1>5. ASSUME NEW w \in Workers, Submit(w) PROVE ClaimInv'
  BY <1>1, <1>5, SubmitKeepsClaims DEF ClaimInv
<1>6. CASE QuietEnvironment
  BY <1>2, <1>6, EnvironmentKeepsClaims DEF QuietEnvironment
<1>7. ASSUME NEW call \in wire, Arrive(call) PROVE ClaimInv'
  BY <1>2, <1>7, EnvironmentKeepsClaims DEF Arrive
<1>8. CASE Tick
  BY <1>1, <1>8, EnvironmentKeepsClaims, TickKeepsRequests, KeptClaims, KeptRequests DEF ClaimInv
<1> QED
  BY <1>1, <1>3, <1>4, <1>5, <1>6, <1>7, <1>8, FlowShapes

LEMMA ClaimStarts ==
  ASSUME FlowInit, FlowInv
  PROVE  ClaimInv
<1>1. workers = [w \in Workers |-> Idle] /\ wire = {} /\ clock = 0 /\ ops = [id \in OpId |-> Absent]
  BY DEF FlowInit, Init
<1>2. /\ Idle.phase = "idle" /\ Idle.attempt = None /\ Idle.now = 0
  BY DEF Idle
<1>3. Absent.attempts = 0
  BY DEF Absent
<1> HIDE DEF Idle, Absent
<1>4. AttemptsClaimed /\ AttemptsDistinct /\ ProducersHoldTheirClaims /\ ClaimsAreCurrent
  BY <1>1, <1>2 DEF AttemptsClaimed, AttemptsDistinct, ProducersHoldTheirClaims, ClaimsAreCurrent
<1>5. ClaimsAreDated /\ RequestsAreTimely
  BY <1>1, <1>2, <1>3 DEF ClaimsAreDated, RequestsAreTimely
<1> QED
  BY <1>4, <1>5 DEF ClaimInv, HoldersInv

LEMMA ClaimsHold == FlowSpec => []ClaimInv
<1>1. FlowInit /\ FlowInv => ClaimInv
  BY ClaimStarts
<1>2. ClaimInv /\ [FlowNext]_flowVars => ClaimInv'
  BY ClaimSafe
<1> QED
  BY <1>1, <1>2, FlowInvariant, PTL DEF FlowSpec

(* ProducersHoldTheirClaims holds whatever the plugin declares, however    *)
(* many faults happen and whoever else queries, retries or calls back:     *)
(* record_operation_outcome retires no attempt but the caller's own.       *)
THEOREM ProducersKeepTheirClaims == FlowSpec => []ProducersHoldTheirClaims
<1>1. ClaimInv => ProducersHoldTheirClaims
  BY DEF ClaimInv, HoldersInv
<1> QED
  BY <1>1, ClaimsHold, PTL

-----------------------------------------------------------------------------
(* An instruction is taken once *)

LEMMA RecordsTyped ==
  ASSUME FlowInv
  PROVE  /\ provider \in [OpId -> ProviderRecord]
         /\ \A id \in OpId : provider[id].taken \in Nat
         /\ \A id \in OpId : \A k \in provider[id].keys : k.scope \in Scopes /\ k.until \in Nat
<1>1. provider \in [OpId -> ProviderRecord]
  BY DEF FlowInv, EnvironmentTyped, ProviderTyped
<1>2. ASSUME NEW id \in OpId
      PROVE  provider[id].taken \in Nat /\ provider[id].keys \subseteq [scope : Scopes, until : Nat]
  BY <1>1 DEF ProviderRecord
<1> QED
  BY <1>1, <1>2

(* A step that keeps the claims, sends nothing and takes nothing. *)
LEMMA KeptMemory ==
  ASSUME ClaimInv, TakenInv, KeepsClaims, wire' \subseteq wire,
         \A id \in OpId : /\ provider'[id].taken = provider[id].taken
                          /\ provider'[id].keys = provider[id].keys
  PROVE  TakenInv'
<1>1. ASSUME NEW id \in OpId, provider'[id].taken > 0 PROVE Remembered(id)'
  <2>1. Remembered(id)
    BY <1>1 DEF TakenInv, TakenIsRemembered
  <2>2. Steady(ops[id], ops'[id])
    BY DEF KeepsClaims
  <2>3. \A v \in Workers : workers'[v].phase = "claimed" => workers'[v] = workers[v]
    BY DEF KeepsClaims, Tame
  <2> QED
    BY <2>1, <2>2, <2>3 DEF Remembered, Steady
<1>2. TakenAtMostOnce'
  BY DEF TakenInv, TakenAtMostOnce
<1> QED
  BY <1>1, <1>2 DEF TakenInv, TakenIsRemembered

LEMMA ClaimedMemory ==
  ASSUME ClaimInv, TakenInv, NEW w \in Workers, Claimed(w)
  PROVE  TakenInv'
<1> DEFINE me == workers[w].id
<1>1. /\ me \in OpId /\ \A x \in OpId \ {me} : ops'[x] = ops[x]
      /\ ops'[me].attempts = ops[me].attempts + 1
      /\ ops[me].attempts > 0 => /\ ops'[me].submitted_at = ops[me].submitted_at
                                 /\ ops'[me].retry_until = ops[me].retry_until
                                 /\ ops'[me].scope = ops[me].scope
                                 /\ ops'[me].retry_until # None
      /\ Others(w) /\ workers'[w].id = me
      /\ UNCHANGED <<wire, provider>>
  BY ClaimedRecords
<1>2. ops[me].attempts \in Nat
  BY <1>1, FlowNumbers DEF ClaimInv
<1>3. ASSUME NEW id \in OpId, provider'[id].taken > 0 PROVE Remembered(id)'
  <2>1. Remembered(id)
    BY <1>1, <1>3 DEF TakenInv, TakenIsRemembered
  <2>2. CASE id = me
    BY <1>1, <1>2, <2>1, <2>2 DEF Remembered
  <2>3. CASE id # me
    <3>1. ops'[id] = ops[id]
      BY <1>1, <2>3
    <3>2. \A v \in Workers : workers'[v].phase = "claimed" /\ workers'[v].id = id =>
            workers[v].phase = "claimed" /\ workers[v].id = id
      BY <1>1, <2>3 DEF Others
    <3> QED
      BY <1>1, <2>1, <3>1, <3>2 DEF Remembered
  <2> QED
    BY <2>2, <2>3
<1>4. TakenAtMostOnce'
  BY <1>1 DEF TakenInv, TakenAtMostOnce
<1> QED
  BY <1>3, <1>4 DEF TakenInv, TakenIsRemembered

LEMMA SentMemory ==
  ASSUME ClaimInv, TakenInv, NEW w \in Workers, Submit(w)
  PROVE  TakenInv'
<1> DEFINE self == workers[w]
           new  == [id |-> self.id, attempt |-> self.attempt, cap |-> self.cap,
                    until |-> clock + ProviderTimeout]
<1>1. /\ Others(w) /\ workers'[w].phase = "calling" /\ self.phase = "claimed"
      /\ UNCHANGED <<ops, provider>> /\ wire' = wire \cup {new}
  BY SubmitShape DEF ClaimInv, repository
<1>2. new.id = self.id
  OBVIOUS
<1> HIDE DEF new
<1>3. ASSUME NEW id \in OpId, provider'[id].taken > 0 PROVE Remembered(id)'
  <2>1. Remembered(id)
    BY <1>1, <1>3 DEF TakenInv, TakenIsRemembered
  <2>2. \A v \in Workers : workers'[v].phase = "claimed" => workers'[v] = workers[v]
    BY <1>1 DEF Others
  <2> QED
    BY <1>1, <1>2, <2>1, <2>2 DEF Remembered
<1>4. TakenAtMostOnce'
  BY <1>1 DEF TakenInv, TakenAtMostOnce
<1> QED
  BY <1>3, <1>4 DEF TakenInv, TakenIsRemembered

(* A provider still recognizes every request for what it took. *)
LEMMA TakenIsRecognized ==
  ASSUME ClaimInv, TakenInv, NEW call \in wire, provider[call.id].taken > 0
  PROVE  Recognizes(call)
<1> DEFINE op == ops[call.id]
<1>1. /\ FlowInv /\ call.id \in OpId /\ call.cap \in Capabilities /\ call.until \in Nat
      /\ clock \in Nat /\ op.attempts \in Nat
  BY FlowNumbers DEF ClaimInv
<1>2. Remembered(call.id)
  BY <1>1 DEF TakenInv, TakenIsRemembered
<1>3. op.retry_until # None /\ op.attempts > 0
  BY <1>2 DEF Remembered
<1>4. /\ call.cap.scope = op.scope /\ call.cap.window # None
      /\ call.until < op.submitted_at + call.cap.window /\ clock <= call.until
  BY <1>3 DEF ClaimInv, RequestsAreTimely
<1>5. op.submitted_at \in Int
  BY <1>1, <1>3 DEF ClaimInv, HoldersInv, ClaimsAreDated
<1>6. PICK k \in provider[call.id].keys :
        /\ k.scope = op.scope
        /\ \A cap \in Capabilities : cap.scope = k.scope /\ cap.window # None =>
             op.submitted_at + cap.window <= k.until
  BY <1>2, <1>3 DEF Remembered
<1>7. op.submitted_at + call.cap.window <= k.until
  BY <1>1, <1>4, <1>6
<1>8. k.until \in Nat
  BY <1>1, RecordsTyped
<1>9. call.cap.window \in Nat
  <2>1. Capabilities \subseteq Declaration
    BY FlowInputsTyped
  <2> QED
    BY <1>1, <1>4, <2>1 DEF Declaration, Optional
<1>10. clock < k.until
  BY <1>1, <1>4, <1>5, <1>7, <1>8, <1>9
<1> QED
  BY <1>4, <1>6, <1>10 DEF Recognizes

(* What is taken now is remembered for as long as it has to be. *)
LEMMA TakenMemory ==
  ASSUME WindowsAreHonoured, ClaimInv, TakenInv, KeepsClaims,
         NEW call \in wire, NEW verdict, Take(call, verdict), wire' = wire \ {call}
  PROVE  TakenInv'
<1> DEFINE id  == call.id
           op  == ops[id]
           key == {[scope |-> s, until |-> clock + Retention[s]] : s \in {call.cap.scope} \ {None}}
           p   == [taken |-> provider[id].taken + 1, verdict |-> verdict,
                   keys |-> provider[id].keys \cup key]
<1>1. /\ FlowInv /\ id \in OpId /\ call.cap \in Capabilities /\ clock \in Nat
      /\ op.attempts \in Nat /\ call.attempt \in 1 .. MaxAttempts
      /\ provider \in [OpId -> ProviderRecord] /\ \A x \in OpId : provider[x].taken \in Nat
  BY FlowNumbers, RecordsTyped DEF ClaimInv
<1>2. provider' = [provider EXCEPT ![id] = p] /\ ~Recognizes(call)
  BY DEF Take
<1>3. provider[id].taken = 0
  BY <1>1, <1>2, TakenIsRecognized
<1>4. provider'[id] = p /\ \A x \in OpId \ {id} : provider'[x] = provider[x]
  BY <1>1, <1>2
<1>5. p.taken = 1 /\ p.keys = provider[id].keys \cup key
  BY <1>3
<1> HIDE DEF p
<1>6. \A v \in Workers : workers'[v].phase = "claimed" => workers'[v] = workers[v]
  BY DEF KeepsClaims, Tame
<1>7. \A x \in OpId : Steady(ops[x], ops'[x])
  BY DEF KeepsClaims
<1>8. /\ call.attempt <= op.attempts
      /\ op.retry_until # None => call.cap.scope = op.scope /\ call.cap.window # None
      /\ \A other \in wire : other.id = id /\ other.attempt = call.attempt => other = call
      /\ \A w \in Workers : workers[w].phase = "claimed" /\ workers[w].id = id =>
           workers[w].attempt # call.attempt
  BY DEF ClaimInv, RequestsAreTimely
<1>9. op.attempts > 0 /\ op.submitted_at \in Int /\ op.submitted_at <= clock
      /\ (op.retry_until = None => op.attempts <= 1)
  <2>1. op.attempts > 0
    BY <1>1, <1>8
  <2> QED
    BY <1>1, <2>1 DEF ClaimInv, HoldersInv, ClaimsAreDated
<1>10. ASSUME op.retry_until = None
       PROVE  /\ \A v \in Workers : ~(workers'[v].phase = "claimed" /\ workers'[v].id = id)
              /\ \A other \in wire' : other.id # id
  <2>1. call.attempt = 1 /\ op.attempts = 1
    BY <1>1, <1>8, <1>9, <1>10
  <2>2. ASSUME NEW v \in Workers, workers[v].phase = "claimed", workers[v].id = id PROVE FALSE
    <3>1. workers[v].attempt \in 1 .. MaxAttempts /\ workers[v].attempt # None
      BY <1>1, <2>2, ProducersKnow
    <3>2. workers[v].attempt <= 1
      BY <2>1, <2>2, <3>1 DEF ClaimInv, HoldersInv, AttemptsClaimed
    <3>3. workers[v].attempt = 1
      BY <3>1, <3>2
    <3> QED
      BY <1>8, <2>1, <2>2, <3>3
  <2>3. ASSUME NEW other \in wire', other.id = id PROVE FALSE
    <3>1. other \in wire /\ other # call
      BY <2>3
    <3>2. other.attempt \in 1 .. MaxAttempts
      BY <1>1, <3>1, FlowNumbers
    <3>3. other.attempt <= 1
      BY <2>1, <2>3, <3>1 DEF ClaimInv, RequestsAreTimely
    <3>4. other.attempt = 1
      BY <3>2, <3>3
    <3> QED
      BY <1>8, <2>1, <2>3, <3>1, <3>4
  <2> QED
    BY <1>6, <2>2, <2>3
<1>11. ASSUME op.retry_until # None
       PROVE  \E k \in p.keys :
                /\ k.scope = op.scope
                /\ \A cap \in Capabilities : cap.scope = k.scope /\ cap.window # None =>
                     op.submitted_at + cap.window <= k.until
  <2> DEFINE s == call.cap.scope
             k == [scope |-> s, until |-> clock + Retention[s]]
  <2>1. call.cap.scope = op.scope /\ call.cap.window # None
    BY <1>8, <1>11
  <2>2. Capabilities \subseteq Declaration
    BY FlowInputsTyped
  <2>3. s # None /\ Retention[s] \in Nat
    BY <1>1, <2>1, <2>2, FlowInputsTyped DEF Declaration, Optional
  <2>4. k \in p.keys
    BY <1>5, <2>3
  <2>5. k.scope = s /\ k.until = clock + Retention[s]
    OBVIOUS
  <2> HIDE DEF k
  <2>6. ASSUME NEW cap \in Capabilities, cap.scope = k.scope
        PROVE  op.submitted_at + cap.window <= k.until
    <3>1. cap.window <= Retention[s]
      BY <2>3, <2>5, <2>6 DEF WindowsAreHonoured
    <3>2. cap.window \in Nat
      BY <2>2, <2>3, <2>5, <2>6 DEF Declaration, Optional
    <3> QED
      BY <1>1, <1>9, <2>3, <2>5, <3>1, <3>2
  <2> QED
    BY <2>1, <2>4, <2>5, <2>6
<1>12. Remembered(id)'
  <2>1. /\ ops'[id].attempts = op.attempts /\ ops'[id].submitted_at = op.submitted_at
        /\ ops'[id].retry_until = op.retry_until /\ ops'[id].scope = op.scope
    BY <1>1, <1>7 DEF Steady
  <2> QED
    BY <1>4, <1>9, <1>10, <1>11, <2>1 DEF Remembered
<1>13. ASSUME NEW x \in OpId, x # id, provider'[x].taken > 0 PROVE Remembered(x)'
  <2>1. Remembered(x) /\ Steady(ops[x], ops'[x]) /\ provider'[x] = provider[x]
    BY <1>4, <1>7, <1>13 DEF TakenInv, TakenIsRemembered
  <2>2. wire' \subseteq wire
    OBVIOUS
  <2> QED
    BY <1>6, <2>1, <2>2 DEF Remembered, Steady
<1>14. TakenAtMostOnce'
  BY <1>4, <1>5 DEF TakenInv, TakenAtMostOnce
<1> QED
  BY <1>1, <1>12, <1>13, <1>14 DEF TakenInv, TakenIsRemembered

(* Besides Take, only the verdicts of the provider change. *)
LEMMA SettledRecords ==
  ASSUME FlowInv, NEW id \in OpId, NEW v,
         provider' = [provider EXCEPT ![id].verdict = v]
  PROVE  /\ \A x \in OpId : /\ provider'[x].taken = provider[x].taken
                            /\ provider'[x].keys = provider[x].keys
         /\ \A x \in OpId \ {id} : provider'[x] = provider[x]
         /\ provider'[id].verdict = v
<1> DEFINE p == [provider[id] EXCEPT !.verdict = v]
<1>1. provider \in [OpId -> ProviderRecord]
  BY RecordsTyped
<1>2. p.taken = provider[id].taken /\ p.keys = provider[id].keys /\ p.verdict = v
  BY <1>1 DEF ProviderRecord
<1>3. provider' = [provider EXCEPT ![id] = p]
  OBVIOUS
<1> HIDE DEF p
<1>4. provider'[id] = p /\ \A x \in OpId \ {id} : provider'[x] = provider[x]
  BY <1>1, <1>3
<1> QED
  BY <1>2, <1>4

LEMMA TakenSafe ==
  ASSUME WindowsAreHonoured, ClaimInv, TakenInv, [FlowNext]_flowVars
  PROVE  TakenInv'
<1>1. FlowInv
  BY DEF ClaimInv
<1> DEFINE Same == \A id \in OpId : /\ provider'[id].taken = provider[id].taken
                                    /\ provider'[id].keys = provider[id].keys
<1>2. ASSUME NEW w \in Workers, QuietStep(w) PROVE TakenInv'
  <2>1. KeepsClaims /\ wire' = wire /\ Same
    BY <1>2, QuietKeepsClaims DEF QuietStep
  <2> QED
    BY <2>1, KeptMemory
<1>3. ASSUME NEW w \in Workers, Queried(w) PROVE TakenInv'
  <2>1. workers[w].id \in OpId
    BY <1>1, <1>3 DEF FlowInv, WorkersKnow, Knows, Queried, Query
  <2>2. Same
    <3>1. UNCHANGED provider \/ provider' = [provider EXCEPT ![workers[w].id].verdict = "rejected"]
      BY <1>3 DEF Queried, Query
    <3> QED
      BY <1>1, <2>1, <3>1, SettledRecords
  <2>3. KeepsClaims /\ wire' = wire
    BY <1>3, QuietKeepsClaims DEF Queried, Query
  <2> QED
    BY <2>2, <2>3, KeptMemory
<1>4. CASE QuietEnvironment
  <2>1. Same
    BY <1>1, <1>4, SettledRecords DEF QuietEnvironment, Settle
  <2>2. KeepsClaims /\ wire' = wire
    BY <1>4, EnvironmentKeepsClaims DEF QuietEnvironment
  <2> QED
    BY <2>1, <2>2, KeptMemory
<1>5. ASSUME NEW call \in wire, Arrive(call) PROVE TakenInv'
  <2>1. KeepsClaims /\ wire' = wire \ {call}
    BY <1>5, EnvironmentKeepsClaims DEF Arrive
  <2>2. CASE Repeat(call)
    <3>1. Same
      BY <2>2 DEF Repeat
    <3>2. wire' \subseteq wire
      BY <2>1
    <3> QED
      BY <2>1, <3>1, <3>2, KeptMemory
  <2>3. ASSUME NEW v \in Verdicts, Take(call, v) PROVE TakenInv'
    BY <2>1, <2>3, TakenMemory
  <2> QED
    BY <1>5, <2>2, <2>3 DEF Arrive
<1>6. CASE Tick
  <2>1. KeepsClaims /\ wire' \subseteq wire
    BY <1>6, EnvironmentKeepsClaims, TickKeepsRequests
  <2>2. Same
    BY <1>6 DEF Tick
  <2> QED
    BY <2>1, <2>2, KeptMemory
<1> QED
  BY <1>1, <1>2, <1>3, <1>4, <1>5, <1>6, ClaimedMemory, SentMemory, FlowShapes

LEMMA TakenHolds ==
  ASSUME WindowsAreHonoured
  PROVE  FlowSpec => []TakenInv
<1>1. FlowInit => TakenInv
  <2>1. Untouched.taken = 0
    BY DEF Untouched
  <2> HIDE DEF Untouched
  <2> QED
    BY <2>1 DEF FlowInit, TakenInv, TakenIsRemembered, TakenAtMostOnce
<1>2. ClaimInv /\ TakenInv /\ [FlowNext]_flowVars => TakenInv'
  BY TakenSafe
<1> QED
  BY <1>1, <1>2, ClaimsHold, PTL DEF FlowSpec

(* TakenAtMostOnce holds for every schedule of timeouts, crashes, retries  *)
(* and slow claims, and every sequence of deployments that declare no      *)
(* window longer than the provider keeps the keys of its scope, shortened  *)
(* and lengthened ones included: _within_submission_window lets no request *)
(* leave that could arrive after the provider may have forgotten its key.  *)
THEOREM InstructionsAreTakenOnce ==
  ASSUME WindowsAreHonoured
  PROVE  FlowSpec => []TakenAtMostOnce
<1>1. TakenInv => TakenAtMostOnce
  BY DEF TakenInv
<1> QED
  BY <1>1, TakenHolds, PTL

-----------------------------------------------------------------------------
(* What is on record is what the provider did *)

(* An outcome changes the state of the operation it is about, if that is   *)
(* still open, and no other.                                               *)
LEMMA OutcomeStates ==
  ASSUME NEW f, NEW all \in [OpId -> OperationRecord], NEW id \in OpId, NEW o \in Outcome,
         all[id].state # "absent", NEW x \in OpId,
         \A y \in OpId : all[y].state # "absent" => all[y].type # "cancel_refund"
  PROVE  LET next == OutcomePlan(f, all, id, o).ops
         IN  \/ next[x].state = all[x].state
             \/ x = id /\ Active(all[id]) /\ next[x].state = NextState(all[id], o)
<1> DEFINE op   == all[id]
           n    == Noted(f, op, o)
           g    == IdentifiedFacts(f, op, o)
           plan == OutcomePlan(f, all, id, o)
<1>1. op \in OperationRecord /\ n \in OperationRecord
  BY NotedTyped
<1>2. ASSUME NEW q \in OperationRecord, NEW h
      PROVE  Disputed(h, q, o).op.state = q.state
  BY DEF Disputed, OperationRecord
<1>3. n.state = op.state
  BY <1>1 DEF Noted, OperationRecord
<1>4. ~CancelledRefundSettled(all, id, o)
  BY DEF CancelledRefundSettled
<1>5. ASSUME NEW q, q.state = op.state, plan.ops = [all EXCEPT ![id] = q]
      PROVE  plan.ops[x].state = all[x].state
  <2> HIDE DEF plan
  <2> QED
    BY <1>5
<1>6. CASE Overstated(op, o)
  <2>1. plan.ops = [all EXCEPT ![id] = Disputed(f, op, o).op]
    BY <1>6 DEF OutcomePlan
  <2> QED
    BY <1>1, <1>2, <1>5, <2>1
<1>7. CASE ~Overstated(op, o) /\ OnlyNoted(f, all, id, o)
  <2>1. plan.ops = [all EXCEPT ![id] = n]
    BY <1>7 DEF OutcomePlan
  <2> QED
    BY <1>3, <1>5, <2>1
<1>8. CASE ~Overstated(op, o) /\ ~OnlyNoted(f, all, id, o)
  <2>1. CASE o.state = "succeeded" /\ ~Possible(g, SettlementClaim(g, all, id, o))
    <3>1. plan.ops = [all EXCEPT ![id] = Disputed(g, n, o).op]
      BY <1>8, <2>1 DEF OutcomePlan
    <3> QED
      BY <1>1, <1>2, <1>3, <1>5, <3>1
  <2>2. CASE ~(o.state = "succeeded" /\ ~Possible(g, SettlementClaim(g, all, id, o)))
    <3> DEFINE a == IF o.state = "succeeded" THEN SettledAmount(op, o) ELSE n.settled
               s == NextState(op, o)
               q == [n EXCEPT !.state = s, !.settled = a]
    <3>1. plan.ops = SettledOps(f, all, id, o)
      BY <1>8, <2>2 DEF OutcomePlan
    <3>2. ~StopsTarget(all, id, o)
      BY DEF StopsTarget
    <3>3. SettledOps(f, all, id, o)[x] = IF x = id THEN q ELSE all[x]
      BY <3>2 DEF SettledOps
    <3>4. q.state = s
      <4> HIDE DEF a, s, n
      <4> QED
        BY <1>1 DEF OperationRecord
    <3>5. Active(op)
      BY <1>1, <1>4, <1>8 DEF OnlyNoted, Active, OperationRecord
    <3> HIDE DEF q, n
    <3> QED
      BY <3>1, <3>3, <3>4, <3>5
  <2> QED
    BY <2>1, <2>2
<1> QED
  BY <1>6, <1>7, <1>8

(* A callback changes the state of the operation it names. *)
LEMMA ObservationStates ==
  ASSUME NEW f, NEW all \in [OpId -> OperationRecord], NEW u \in Observation, NEW x \in OpId,
         \A y \in OpId : all[y].state # "absent" => all[y].type # "cancel_refund",
         u.outcome # None => u.operation \in OpId
  PROVE  LET next == ObservationPlan(f, all, u).ops
         IN  \/ next[x].state = all[x].state
             \/ /\ u.outcome # None /\ x = u.operation /\ Active(all[x])
                /\ next[x].state = NextState(all[x], u.outcome)
<1> DEFINE id == CHOOSE y \in Candidates(all, u) : TRUE
<1>1. ObservationPlan(f, all, u).ops = CorrelatedPlan(f, all, u).ops
  BY DEF ObservationPlan
<1>2. CASE ~Correlated(all, u)
  <2>1. CorrelatedPlan(f, all, u).ops = all
    BY <1>2 DEF CorrelatedPlan, Correlated
  <2> QED
    BY <1>1, <2>1
<1>3. CASE Correlated(all, u)
  <2>1. id \in Candidates(all, u) /\ id \in OpId /\ u.outcome \in Outcome /\ u.outcome # None
    BY <1>3, OneCandidate DEF Correlated
  <2>2. u.operation # None
    BY <2>1, FlowInputsTyped
  <2>3. id = u.operation /\ all[id].state # "absent"
    BY <2>1, <2>2 DEF Candidates, Reserved
  <2>4. CorrelatedPlan(f, all, u) = OutcomePlan(AggregatedFacts(f, u), all, id, u.outcome)
    BY <1>3 DEF CorrelatedPlan, Correlated
  <2> HIDE DEF id
  <2> QED
    BY <1>1, <2>1, <2>3, <2>4, OutcomeStates
<1> QED
  BY <1>2, <1>3

(* A record changes its state to what the provider is known to have done. *)
Reports ==
  \E id \in OpId :
    /\ Active(ops[id])
    /\ ops'[id].state \in ActiveStates \cup TerminalStates
    /\ Agrees(id, ops'[id].state)
    /\ \A x \in OpId \ {id} : ops'[x].state = ops[x].state

StatesStand == \A x \in OpId : ops'[x].state = ops[x].state

(* What an answer reports of an operation it agrees with. *)
LEMMA AnswerReports ==
  ASSUME NEW id \in OpId, NEW o \in Outcome, Agrees(id, o.state), Active(ops[id]),
         ops[id] \in OperationRecord
  PROVE  /\ NextState(ops[id], o) \in ActiveStates \cup TerminalStates
         /\ Agrees(id, NextState(ops[id], o))
<1>1. o.state \in EvidenceStates
  BY DEF Outcome
<1>2. NextState(ops[id], o) \in {"provider_pending", o.state}
  BY DEF NextState
<1> QED
  BY <1>1, <1>2 DEF EvidenceStates, TerminalStates, ActiveStates, Agrees

LEMMA QuietReports ==
  ASSUME FlowInv, AnswersAgree, NoCancellations, NEW w \in Workers, QuietCalls(w)
  PROVE  StatesStand \/ Reports \/ \E i \in Intents : Reserve(i)
<1>1. /\ ops \in [OpId -> OperationRecord] /\ Knows(workers[w])
      /\ \A y \in OpId : ops[y].state # "absent" => ops[y].type # "cancel_refund"
  BY DEF FlowInv, RepositoryInv, IndInv, TypeOK, WorkersKnow, NoCancellations
<1>2. CASE Records(w)
  <2> DEFINE id == workers[w].id
  <2>1. PICK a \in PluginAnswers :
          Says(w, a) /\ RecordOutcome(id, a, workers[w].attempt)
    BY <1>2 DEF Records
  <2> DEFINE plan == OutcomePlan(facts, ops, id, a)
  <2>2. id \in OpId /\ a \in Outcome /\ CanPlanOutcome(facts, ops, id, a)
    BY <1>2, <2>1, PluginAnswersTyped DEF Records, RecordOutcome
  <2>3. ops[id].state # "absent"
    BY <2>2 DEF CanPlanOutcome
  <2>4. Agrees(id, a.state)
    <3>1. CASE a = CancelledOutcome
      <4>1. a.state = "unknown"
        BY <3>1 DEF CancelledOutcome, Bare
      <4> QED
        BY <4>1 DEF Agrees
    <3>2. CASE workers[w].phase \in {"answered", "finishing"} /\ a = workers[w].answer
      BY <3>2 DEF AnswersAgree
    <3> QED
      BY <2>1, <3>1, <3>2 DEF Says
  <2>5. \A x \in OpId :
          \/ plan.ops[x].state = ops[x].state
          \/ x = id /\ Active(ops[id]) /\ plan.ops[x].state = NextState(ops[id], a)
    BY <1>1, <2>2, <2>3, OutcomeStates
  <2>6. plan.ops \in [OpId -> OperationRecord]
    <3>1. a \in Outcomes
      BY <2>2, MalformedRefused
    <3> QED
      BY <2>2, <3>1, OutcomeBuilds DEF Follows, FlowInv, RepositoryInv, IndInv, TypeOK, FundsBounded
  <2>7. ops' = WithoutAttempt(plan.ops, id, workers[w].attempt)
    BY <2>1 DEF RecordOutcome
  <2> HIDE DEF plan
  <2>8. \A x \in OpId : ops'[x].state = plan.ops[x].state
    <3> DEFINE q == [plan.ops[id] EXCEPT !.pending = @ \ {workers[w].attempt}]
    <3>1. q.state = plan.ops[id].state
      BY <2>2, <2>6 DEF OperationRecord
    <3> HIDE DEF q
    <3>2. \A x \in OpId : ops'[x] = plan.ops[x] \/ (x = id /\ ops'[x] = q)
      BY <2>6, <2>7 DEF WithoutAttempt, q
    <3> QED
      BY <3>1, <3>2
  <2>9. CASE ops'[id].state = ops[id].state
    BY <2>5, <2>8, <2>9 DEF StatesStand
  <2>10. CASE ops'[id].state # ops[id].state
    <3>1. Active(ops[id]) /\ ops'[id].state = NextState(ops[id], a)
      BY <2>2, <2>5, <2>8, <2>10
    <3>2. \A x \in OpId \ {id} : ops'[x].state = ops[x].state
      BY <2>5, <2>8
    <3>3. ops'[id].state \in ActiveStates \cup TerminalStates /\ Agrees(id, ops'[id].state)
      BY <1>1, <2>2, <2>4, <3>1, AnswerReports
    <3> QED
      BY <2>2, <3>1, <3>2, <3>3 DEF Reports
  <2> QED
    BY <2>9, <2>10
<1>3. ASSUME NEW id \in OpId, RecordFailure(id, "claim") PROVE StatesStand
  <2> DEFINE e == ops[id].recovery \cup {"claim"}
             q == [ops[id] EXCEPT !.reconcile = TRUE, !.recovery = e]
  <2>1. ops' = [ops EXCEPT ![id] = q]
    BY <1>3 DEF RecordFailure, FailureNoted
  <2> HIDE DEF e
  <2>2. q.state = ops[id].state
    BY <1>1 DEF OperationRecord
  <2> HIDE DEF q
  <2> QED
    BY <1>1, <2>1, <2>2 DEF StatesStand
<1>4. CASE Notices(w)
  <2> DEFINE u == workers[w].answer
  <2>1. u \in Observation
    BY <1>1, <1>4, InputsTyped DEF Notices, Knows
  <2>2. u.outcome # None => u.operation \in OpId /\ Agrees(u.operation, u.outcome.state)
    BY <1>4 DEF Notices, AnswersAgree
  <2>3. CASE ObserveAgain(u) \/ ObserveImpossible(u)
    BY <2>3 DEF ObserveAgain, ObserveImpossible, StatesStand
  <2>4. CASE Observe(u)
    <3> DEFINE x == u.operation
    <3>1. ops' = ObservationPlan(facts, ops, u).ops
      BY <2>4 DEF Observe, Commit
    <3>2. \A y \in OpId :
            \/ ops'[y].state = ops[y].state
            \/ /\ u.outcome # None /\ y = x /\ Active(ops[y])
               /\ ops'[y].state = NextState(ops[y], u.outcome)
      BY <1>1, <2>1, <2>2, <3>1, ObservationStates
    <3>3. CASE u.outcome # None /\ ops'[x].state # ops[x].state
      <4>1. u.outcome \in Outcome /\ x \in OpId /\ Agrees(x, u.outcome.state)
        BY <2>1, <2>2, <3>3 DEF Observation, Optional
      <4>2. Active(ops[x]) /\ ops'[x].state = NextState(ops[x], u.outcome)
        BY <3>2, <3>3, <4>1
      <4>3. ops'[x].state \in ActiveStates \cup TerminalStates /\ Agrees(x, ops'[x].state)
        BY <1>1, <4>1, <4>2, AnswerReports
      <4> QED
        BY <3>2, <4>1, <4>2, <4>3 DEF Reports
    <3>4. CASE ~(u.outcome # None /\ ops'[x].state # ops[x].state)
      BY <3>2, <3>4 DEF StatesStand
    <3> QED
      BY <3>3, <3>4
  <2> QED
    BY <1>4, <2>3, <2>4 DEF Notices
<1>5. CASE UNCHANGED repository
  BY <1>5 DEF repository, StatesStand
<1> QED
  BY <1>2, <1>3, <1>4, <1>5 DEF QuietCalls

(* A step that changes a state leaves the provider alone, and reports. *)
LEMMA FlowReports ==
  ASSUME ClaimInv, AnswersAgree, NoCancellations, [FlowNext]_flowVars
  PROVE  \/ StatesStand
         \/ Reports /\ UNCHANGED provider
         \/ (\E i \in Intents : Reserve(i)) /\ UNCHANGED provider
<1>1. FlowInv
  BY DEF ClaimInv
<1>2. ASSUME UNCHANGED ops PROVE StatesStand
  BY <1>2 DEF StatesStand
<1>3. ASSUME NEW w \in Workers, QuietStep(w)
      PROVE  /\ UNCHANGED provider
             /\ StatesStand \/ Reports \/ \E i \in Intents : Reserve(i)
  BY <1>1, <1>3, QuietReports DEF QuietStep
<1>4. ASSUME NEW w \in Workers, Claimed(w) PROVE Reports /\ UNCHANGED provider
  <2> DEFINE id == workers[w].id
  <2>1. /\ id \in OpId /\ \A x \in OpId \ {id} : ops'[x] = ops[x]
        /\ ops[id].state \in ActiveStates /\ ops'[id].state = "submitting"
        /\ UNCHANGED provider
    BY <1>4, ClaimedRecords
  <2>2. Agrees(id, ops'[id].state)
    BY <2>1 DEF Agrees
  <2> QED
    BY <2>1, <2>2 DEF Reports, Active, ActiveStates
<1>5. ASSUME \/ \E w \in Workers : Queried(w) \/ Submit(w)
             \/ QuietEnvironment \/ Tick \/ \E call \in wire : Arrive(call)
      PROVE  UNCHANGED ops
  BY <1>5 DEF Queried, Query, Submit, QuietEnvironment, Tick, Arrive, repository
<1> QED
  BY <1>1, <1>2, <1>3, <1>4, <1>5, FlowShapes

-----------------------------------------------------------------------------
(* Verdicts *)

(* The provider decides an open command, or takes one that it neither took *)
(* nor excluded before.                                                    *)
Decides ==
  \E id \in OpId, v \in {"succeeded", "rejected"} :
    /\ provider' = [provider EXCEPT ![id].verdict = v]
    /\ \/ provider[id].verdict = None /\ v = "rejected"
       \/ provider[id].verdict = "provider_pending"

Takes ==
  \E call \in wire, v \in Verdicts :
    /\ Take(call, v)
    /\ provider[call.id].taken = 0 /\ provider[call.id].verdict # "rejected"

LEMMA ProviderSteps ==
  ASSUME ClaimInv, TakenInv, [FlowNext]_flowVars
  PROVE  UNCHANGED provider \/ Decides \/ Takes
<1>1. FlowInv
  BY DEF ClaimInv
<1>2. ASSUME NEW w \in Workers, Queried(w) PROVE UNCHANGED provider \/ Decides
  <2>1. workers[w].id \in OpId
    BY <1>1, <1>2 DEF FlowInv, WorkersKnow, Knows, Queried, Query
  <2> QED
    BY <1>2, <2>1 DEF Queried, Query, Decides
<1>3. ASSUME NEW call \in wire, NEW v \in Verdicts, Take(call, v) PROVE Takes
  <2>1. provider[call.id].taken = 0
    <3>1. call.id \in OpId
      BY <1>1, FlowNumbers
    <3>2. ~(provider[call.id].taken > 0)
      BY <1>3, TakenIsRecognized DEF Take
    <3> QED
      BY <1>1, <3>1, <3>2, RecordsTyped
  <2>2. provider[call.id].verdict # "rejected"
    BY <1>3, <2>1 DEF Take, Excluded
  <2> QED
    BY <1>3, <2>1, <2>2 DEF Takes
<1>4. CASE QuietEnvironment
  BY <1>4 DEF QuietEnvironment, Settle, Decides
<1>5. ASSUME NEW call \in wire, Arrive(call) PROVE UNCHANGED provider \/ Takes
  BY <1>3, <1>5 DEF Arrive, Repeat
<1>6. ASSUME \/ \E w \in Workers : QuietStep(w) \/ Claimed(w) \/ Submit(w)
             \/ Tick
      PROVE  UNCHANGED provider
  BY <1>6 DEF QuietStep, Claimed, Submit, Tick
<1> QED
  BY <1>1, <1>2, <1>4, <1>5, <1>6, FlowShapes

(* What a provider takes it decides upon. *)
LEMMA TakenRecords ==
  ASSUME FlowInv, NEW call \in wire, NEW v, Take(call, v), provider[call.id].taken = 0
  PROVE  /\ call.id \in OpId
         /\ provider'[call.id].taken = 1 /\ provider'[call.id].verdict = v
         /\ \A x \in OpId \ {call.id} : provider'[x] = provider[x]
<1> DEFINE key == {[scope |-> s, until |-> clock + Retention[s]] : s \in {call.cap.scope} \ {None}}
           p   == [taken |-> provider[call.id].taken + 1, verdict |-> v,
                   keys |-> provider[call.id].keys \cup key]
<1>1. provider' = [provider EXCEPT ![call.id] = p]
  BY DEF Take
<1>2. p.taken = 1 /\ p.verdict = v
  OBVIOUS
<1> HIDE DEF p
<1>3. call.id \in OpId /\ provider \in [OpId -> ProviderRecord]
  BY FlowNumbers, RecordsTyped
<1> QED
  BY <1>1, <1>2, <1>3

(* No verdict is taken back, and none is given before its time. *)
LEMMA VerdictsStand ==
  ASSUME ClaimInv, TakenInv, VerdictsAreEarned, [FlowNext]_flowVars
  PROVE  /\ \A id \in OpId : \A s : Agrees(id, s) => WillAgree(id, s)
         /\ VerdictsAreEarned'
<1>1. FlowInv /\ None # "succeeded" /\ None # "rejected"
  BY FlowInputsTyped DEF ClaimInv, EvidenceStates, TerminalStates
<1>2. ASSUME NEW x \in OpId
      PROVE  /\ Executed(x) => Executed(x)'
             /\ provider[x].verdict = "rejected" => provider'[x].verdict = "rejected"
             /\ provider'[x].taken = 0 => provider'[x].verdict \in {None, "rejected"}
  <2>0. /\ provider[x].taken = 0 => provider[x].verdict \in {None, "rejected"}
        /\ provider[x].taken \in Nat
    BY <1>1, RecordsTyped DEF VerdictsAreEarned
  <2>1. CASE UNCHANGED provider
    BY <2>0, <2>1 DEF Executed
  <2>2. CASE Decides
    <3>1. PICK id \in OpId, v \in {"succeeded", "rejected"} :
            /\ provider' = [provider EXCEPT ![id].verdict = v]
            /\ \/ provider[id].verdict = None /\ v = "rejected"
               \/ provider[id].verdict = "provider_pending"
      BY <2>2 DEF Decides
    <3>2. /\ provider'[x].taken = provider[x].taken
          /\ x # id => provider'[x] = provider[x]
          /\ provider'[id].verdict = v
      BY <1>1, <3>1, SettledRecords
    <3>3. CASE x # id
      BY <2>0, <3>2, <3>3 DEF Executed
    <3>4. CASE x = id
      <4>1. provider[x].verdict \notin {"succeeded", "rejected"}
        BY <1>1, <3>1, <3>4
      <4>2. provider'[x].taken = 0 => v = "rejected"
        <5>1. "provider_pending" \notin {None, "rejected"}
          BY FlowInputsTyped DEF EvidenceStates
        <5> QED
          BY <2>0, <3>1, <3>2, <3>4, <5>1
      <4> QED
        BY <3>2, <3>4, <4>1, <4>2 DEF Executed
    <3> QED
      BY <3>3, <3>4
  <2>3. CASE Takes
    <3>1. PICK call \in wire, v \in Verdicts :
            /\ Take(call, v) /\ provider[call.id].taken = 0
            /\ provider[call.id].verdict # "rejected"
      BY <2>3 DEF Takes
    <3>2. /\ provider'[call.id].taken = 1
          /\ x # call.id => provider'[x] = provider[x]
      BY <1>1, <3>1, TakenRecords
    <3> QED
      BY <2>0, <3>1, <3>2 DEF Executed
  <2> QED
    BY <2>1, <2>2, <2>3, ProviderSteps
<1>3. VerdictsAreEarned'
  BY <1>2 DEF VerdictsAreEarned
<1>4. ASSUME NEW id \in OpId, NEW s, Agrees(id, s) PROVE WillAgree(id, s)
  BY <1>2, <1>4 DEF Agrees, WillAgree, Executed
<1> QED
  BY <1>3, <1>4

(* An answer tells the worker what the provider did. *)
LEMMA AnsweringAgrees ==
  ASSUME FlowInv, NEW call \in wire, NEW e, Answering(call, e), WillAgree(call.id, e),
         NEW w \in Workers, workers'[w] # workers[w]
  PROVE  /\ workers'[w].phase = "answered"
         /\ WillAgree(workers'[w].id, workers'[w].answer.state)
<1>1. PICK v \in Workers :
        /\ workers[v].id = call.id
        /\ Becomes(v, [workers[v] EXCEPT !.phase = "answered", !.answer = Bare(e)])
  BY DEF Answering
<1> DEFINE s == [workers[v] EXCEPT !.phase = "answered", !.answer = Bare(e)]
<1>2. workers[v] \in Worker /\ WorkersKnow
  BY DEF FlowInv, WorkersKnow
<1>3. s.phase = "answered" /\ s.id = call.id /\ s.answer.state = e
  BY <1>1, <1>2 DEF Worker, Bare
<1> HIDE DEF s
<1>4. workers'[v] = s /\ w = v
  BY <1>1, <1>2, BecomesOnly DEF s, Others
<1> QED
  BY <1>3, <1>4 DEF Agrees, WillAgree

(* What the workers are about to record keeps agreeing. *)
LEMMA AnswersStayTrue ==
  ASSUME ClaimInv, TakenInv, AnswersAgree, VerdictsAreEarned, [FlowNext]_flowVars
  PROVE  AnswersAgree'
<1>1. FlowInv /\ None # "succeeded" /\ None # "rejected"
  BY FlowInputsTyped DEF ClaimInv, EvidenceStates, TerminalStates
<1> DEFINE
     Fine(w) == /\ workers'[w].phase \in {"answered", "finishing"} =>
                     WillAgree(workers'[w].id, workers'[w].answer.state)
                /\ workers'[w].phase = "noticed" /\ workers'[w].answer.outcome # None =>
                     /\ workers'[w].answer.operation \in OpId
                     /\ WillAgree(workers'[w].answer.operation, workers'[w].answer.outcome.state)
<1>2. \A id \in OpId : \A s : Agrees(id, s) => WillAgree(id, s)
  BY VerdictsStand
<1>3. ASSUME NEW w \in Workers, workers'[w] = workers[w] PROVE Fine(w)
  <2>1. workers[w].phase \in {"answered", "finishing"} => workers[w].id \in OpId
    BY <1>1 DEF FlowInv, WorkersKnow, Knows
  <2> QED
    BY <1>2, <1>3, <2>1 DEF AnswersAgree
<1>4. ASSUME NEW w \in Workers, QuietStep(w), NEW v \in Workers PROVE Fine(v)
  <2>1. CASE v # w
    BY <1>3, <1>4, <2>1 DEF QuietStep, Others
  <2>2. CASE v = w
    <3>1. ASSUME workers'[w].phase \in {"answered", "finishing"}
          PROVE  WillAgree(workers'[w].id, workers'[w].answer.state)
      <4>1. CASE workers'[w].answer.state = "unknown"
        BY <4>1 DEF Agrees, WillAgree
      <4>2. CASE /\ workers[w].phase \in {"answered", "finishing"}
                 /\ workers'[w].answer = workers[w].answer /\ workers'[w].id = workers[w].id
        <5>1. workers[w].id \in OpId
          BY <1>1, <4>2 DEF FlowInv, WorkersKnow, Knows
        <5> QED
          BY <1>2, <4>2, <5>1 DEF AnswersAgree
      <4> QED
        BY <1>4, <3>1, <4>1, <4>2 DEF QuietStep, GoesOn
    <3>2. ASSUME workers'[w].phase = "noticed", workers'[w].answer.outcome # None
          PROVE  /\ workers'[w].answer.operation \in OpId
                 /\ WillAgree(workers'[w].answer.operation, workers'[w].answer.outcome.state)
      <4>1. Truthful(workers'[w].answer) /\ provider' = provider
        BY <1>4, <3>2 DEF QuietStep, GoesOn
      <4> QED
        BY <3>2, <4>1 DEF Truthful, Agrees, WillAgree, Executed
    <3> QED
      BY <2>2, <3>1, <3>2
  <2> QED
    BY <2>1, <2>2
<1>5. ASSUME NEW w \in Workers, Queried(w), NEW v \in Workers PROVE Fine(v)
  <2>1. CASE v # w
    BY <1>3, <1>5, <2>1 DEF Queried, Others
  <2>2. CASE v = w
    <3> DEFINE id == workers[w].id
               e  == IF provider[id].verdict # None THEN provider[id].verdict
                     ELSE NotFoundState(workers[w].cap)
               s  == [workers[w] EXCEPT !.phase = "answered", !.answer = Bare(e)]
    <3>1. id \in OpId /\ workers[w] \in Worker /\ WorkersKnow
      BY <1>1, <1>5 DEF FlowInv, WorkersKnow, Knows, Queried, Query
    <3>2. Becomes(w, s)
      BY <1>5 DEF Queried, Query
    <3>3. WillAgree(id, e)
      <4>1. CASE provider[id].verdict # None
        <5>1. provider' = provider /\ e = provider[id].verdict
          BY <1>5, <4>1 DEF Queried, Query
        <5>2. provider[id].verdict = "succeeded" => Executed(id)
          BY <1>1, <3>1, RecordsTyped DEF VerdictsAreEarned, Executed
        <5> QED
          BY <5>1, <5>2 DEF Agrees, WillAgree, Executed
      <4>2. CASE provider[id].verdict = None /\ workers[w].cap.lookup = "authoritative_including_absence"
        <5>1. provider' = [provider EXCEPT ![id].verdict = "rejected"] /\ e = "rejected"
          BY <1>5, <4>2 DEF Queried, Query, NotFoundState
        <5>2. provider'[id].verdict = "rejected"
          BY <1>1, <3>1, <5>1, SettledRecords
        <5> QED
          BY <5>1, <5>2 DEF Agrees, WillAgree
      <4>3. CASE provider[id].verdict = None /\ workers[w].cap.lookup # "authoritative_including_absence"
        <5>1. e = "unknown"
          BY <4>3 DEF NotFoundState
        <5> QED
          BY <5>1 DEF Agrees, WillAgree
      <4> QED
        BY <4>1, <4>2, <4>3
    <3> HIDE DEF e
    <3>4. s.phase = "answered" /\ s.id = id /\ s.answer.state = e
      BY <3>1 DEF Worker, Bare
    <3> HIDE DEF s
    <3>5. workers'[w] = s
      BY <3>1, <3>2, BecomesOnly
    <3> QED
      BY <2>2, <3>3, <3>4, <3>5 DEF Agrees, WillAgree
  <2> QED
    BY <2>1, <2>2
<1>6. ASSUME NEW w \in Workers, Claimed(w) \/ Submit(w), NEW v \in Workers PROVE Fine(v)
  <2>1. Others(w) /\ workers'[w].phase \in {"claimed", "calling"}
    BY <1>1, <1>6, ClaimedRecords, SubmitShape
  <2>2. CASE v # w
    BY <1>3, <2>1, <2>2 DEF Others
  <2>3. CASE v = w
    BY <2>1, <2>3
  <2> QED
    BY <2>2, <2>3
<1>7. ASSUME NEW call \in wire, Arrive(call), NEW v \in Workers PROVE Fine(v)
  <2>1. PICK e : Answering(call, e) /\ WillAgree(call.id, e)
    <3>1. CASE Repeat(call)
      <4>1. provider' = provider /\ Answering(call, provider[call.id].verdict)
        BY <3>1 DEF Repeat
      <4>2. provider[call.id].verdict = "succeeded" => Executed(call.id)
        BY <1>1, FlowNumbers, RecordsTyped DEF VerdictsAreEarned, Executed
      <4> QED
        BY <4>1, <4>2 DEF Agrees, WillAgree, Executed
    <3>2. ASSUME NEW verdict \in Verdicts, Take(call, verdict)
          PROVE  Answering(call, verdict) /\ WillAgree(call.id, verdict)
      <4>1. provider[call.id].taken = 0
        <5>1. call.id \in OpId /\ ~(provider[call.id].taken > 0)
          BY <1>1, <3>2, TakenIsRecognized, FlowNumbers DEF Take
        <5> QED
          BY <1>1, <5>1, RecordsTyped
      <4>2. provider'[call.id].taken = 1 /\ provider'[call.id].verdict = verdict
        BY <1>1, <3>2, <4>1, TakenRecords
      <4> QED
        BY <3>2, <4>2 DEF Take, Agrees, WillAgree, Executed
    <3> QED
      BY <1>7, <3>1, <3>2 DEF Arrive
  <2>2. CASE workers'[v] = workers[v]
    BY <1>3, <2>2
  <2>3. CASE workers'[v] # workers[v]
    BY <1>1, <2>1, <2>3, AnsweringAgrees
  <2> QED
    BY <2>2, <2>3
<1>8. ASSUME QuietEnvironment \/ Tick, NEW v \in Workers PROVE Fine(v)
  BY <1>3, <1>8 DEF QuietEnvironment, Tick
<1>9. \A v \in Workers : Fine(v)
  BY <1>1, <1>4, <1>5, <1>6, <1>7, <1>8, FlowShapes
<1> QED
  BY <1>9 DEF AnswersAgree, Agrees, WillAgree, Executed

(* Only a reservation fills a free record. *)
LEMMA CancellationsStayOut ==
  ASSUME WithoutCancellations, ClaimInv, AnswersAgree, NoCancellations, [FlowNext]_flowVars
  PROVE  NoCancellations'
<1>1. FlowInv /\ IndInv /\ [Next]_vars
  BY FlowSteps DEF ClaimInv, FlowInv, RepositoryInv
<1>2. ASSUME NEW x \in OpId, ops'[x].state # "absent" PROVE ops'[x].type # "cancel_refund"
  <2>1. CASE ops[x].state # "absent"
    BY <1>1, <2>1, StepGrows DEF NoCancellations, Grows
  <2>2. CASE ops[x].state = "absent"
    <3>1. ops'[x].state # ops[x].state /\ ~Active(ops[x])
      BY <1>2, <2>2 DEF Active, ActiveStates
    <3>2. ~StatesStand /\ ~Reports
      BY <3>1 DEF StatesStand, Reports
    <3>3. PICK i \in Intents : Reserve(i)
      BY <3>2, FlowReports
    <3>4. /\ \A y \in OpId \ {i.id} : ops'[y] = ops[y]
          /\ ops'[i.id].type = i.type
      BY <1>1, <3>3, ReservationHistory
    <3> QED
      BY <3>1, <3>4 DEF WithoutCancellations
  <2> QED
    BY <2>1, <2>2
<1> QED
  BY <1>2 DEF NoCancellations

LEMMA RecordsStayTrue ==
  ASSUME ClaimInv, TakenInv, AgreementInv, [FlowNext]_flowVars
  PROVE  RecordsAgree'
<1>1. /\ \A id \in OpId : \A s : Agrees(id, s) => WillAgree(id, s)
      /\ IndInv
  BY VerdictsStand DEF AgreementInv, ClaimInv, FlowInv, RepositoryInv
<1>2. ASSUME NEW x \in OpId PROVE WillAgree(x, ops'[x].state)
  <2>1. CASE ops'[x].state = ops[x].state
    BY <1>1, <2>1 DEF AgreementInv, RecordsAgree
  <2>2. CASE ops'[x].state # ops[x].state
    <3>1. ~StatesStand
      BY <2>2 DEF StatesStand
    <3>2. CASE Reports
      <4>1. Agrees(x, ops'[x].state)
        BY <2>2, <3>2 DEF Reports
      <4> QED
        BY <1>1, <4>1
    <3>3. ASSUME NEW i \in Intents, Reserve(i) PROVE WillAgree(x, ops'[x].state)
      <4>1. ops'[x].state = "reserved"
        BY <1>1, <2>2, <3>3, ReservationHistory
      <4> QED
        BY <4>1 DEF WillAgree
    <3> QED
      BY <3>1, <3>2, <3>3, FlowReports DEF AgreementInv
  <2> QED
    BY <2>1, <2>2
<1> QED
  BY <1>2 DEF RecordsAgree, Agrees, WillAgree, Executed

LEMMA AgreementStarts == FlowInit => AgreementInv
<1> SUFFICES ASSUME FlowInit PROVE AgreementInv
  OBVIOUS
<1>1. /\ workers = [w \in Workers |-> Idle] /\ ops = [id \in OpId |-> Absent]
      /\ provider = [id \in OpId |-> Untouched]
  BY DEF FlowInit, Init
<1>2. Idle.phase = "idle" /\ Absent.state = "absent" /\ Untouched.verdict = None
  BY DEF Idle, Absent, Untouched
<1> HIDE DEF Idle, Absent, Untouched
<1> QED
  BY <1>1, <1>2 DEF AgreementInv, RecordsAgree, Agrees, AnswersAgree, NoCancellations,
                    VerdictsAreEarned

LEMMA AgreementHolds ==
  ASSUME WindowsAreHonoured, WithoutCancellations
  PROVE  FlowSpec => []AgreementInv
<1>1. ClaimInv /\ TakenInv /\ AgreementInv /\ [FlowNext]_flowVars => AgreementInv'
  <2> SUFFICES ASSUME ClaimInv, TakenInv, AgreementInv, [FlowNext]_flowVars
               PROVE  AgreementInv'
    OBVIOUS
  <2>1. AnswersAgree /\ NoCancellations /\ VerdictsAreEarned
    BY DEF AgreementInv
  <2> QED
    BY <2>1, CancellationsStayOut, RecordsStayTrue, AnswersStayTrue, VerdictsStand
       DEF AgreementInv
<1> QED
  BY <1>1, AgreementStarts, ClaimsHold, TakenHolds, PTL DEF FlowSpec

(* What may still run is open on record. *)
LEMMA OpenWhileRunning ==
  ASSUME ClaimInv, TakenInv, AgreementInv, NEW id \in OpId
  PROVE  /\ provider[id].taken > 0 /\ provider[id].verdict = "provider_pending" => Active(ops[id])
         /\ Executed(id) /\ ops[id].state # "succeeded" => Active(ops[id])
         /\ \A call \in wire : call.id = id /\ ~Excluded(id) /\ ~Recognizes(call) =>
              Active(ops[id]) /\ provider[id].taken = 0
<1>1. /\ FlowInv /\ ops[id] \in OperationRecord
      /\ ops[id].state = "absent" => ops[id].attempts = 0
  BY DEF ClaimInv, FlowInv, RepositoryInv, IndInv, TypeOK, FreeIsEmpty, Absent
<1>2. Active(ops[id]) \/ ops[id].state \in {"absent", "succeeded", "rejected"}
  BY <1>1 DEF OperationRecord, Active, TerminalStates
<1>3. ops[id].attempts > 0 => ops[id].state # "absent"
  BY <1>1
<1>4. provider[id].taken > 0 => ops[id].state # "absent"
  BY <1>3 DEF TakenInv, TakenIsRemembered, Remembered
<1>5. /\ ops[id].state = "succeeded" => Executed(id)
      /\ ops[id].state = "rejected"  => provider[id].verdict = "rejected"
  BY DEF AgreementInv, RecordsAgree, Agrees
<1>6. ASSUME NEW call \in wire, call.id = id, ~Excluded(id), ~Recognizes(call)
      PROVE  Active(ops[id]) /\ provider[id].taken = 0
  <2>1. provider[id].taken = 0
    BY <1>1, <1>6, TakenIsRecognized, RecordsTyped
  <2>2. ops[id].attempts > 0
    <3>1. call.attempt <= ops[id].attempts
      BY <1>6 DEF ClaimInv, RequestsAreTimely
    <3> QED
      BY <1>1, <3>1, FlowNumbers
  <2> QED
    BY <1>2, <1>3, <1>5, <1>6, <2>1, <2>2 DEF Executed, Excluded
<1>7. ASSUME provider[id].taken > 0, provider[id].verdict = "provider_pending"
      PROVE  Active(ops[id])
  BY <1>2, <1>4, <1>5, <1>7 DEF Executed
<1>8. ASSUME Executed(id), ops[id].state # "succeeded"
      PROVE  Active(ops[id])
  BY <1>2, <1>4, <1>5, <1>8 DEF Executed
<1> QED
  BY <1>6, <1>7, <1>8

(* RejectionIsFinal: a lookup turns absence into a rejection only if the   *)
(* provider declares that absence excludes later execution, and a refusal  *)
(* is recorded only if the provider refused; nothing sent before or after  *)
(* makes the intent run.                                                   *)
THEOREM RejectionsAreFinal ==
  ASSUME WindowsAreHonoured, WithoutCancellations
  PROVE  FlowSpec => []RejectionIsFinal
<1>1. ClaimInv /\ TakenInv /\ AgreementInv => RejectionIsFinal
  <2> SUFFICES ASSUME ClaimInv, TakenInv, AgreementInv,
                      NEW id \in OpId, ops[id].state = "rejected"
               PROVE  /\ provider[id].verdict = "rejected"
                      /\ \A call \in wire : call.id = id => Excluded(id) \/ Recognizes(call)
    BY DEF RejectionIsFinal
  <2>1. provider[id].verdict = "rejected"
    BY DEF AgreementInv, RecordsAgree, Agrees
  <2>2. ~Active(ops[id])
    BY DEF Active, ActiveStates
  <2> QED
    BY <2>1, <2>2, OpenWhileRunning
<1> QED
  BY <1>1, ClaimsHold, TakenHolds, AgreementHolds, PTL

(* EffectsStayDiscoverable: whatever call dies in between, an effect that  *)
(* nobody recorded and a request that may still cause one belong to an     *)
(* operation that list_unresolved_operations returns.                      *)
THEOREM EffectsAreDiscoverable ==
  ASSUME WindowsAreHonoured, WithoutCancellations
  PROVE  FlowSpec => []EffectsStayDiscoverable
<1>1. ClaimInv /\ TakenInv /\ AgreementInv => EffectsStayDiscoverable
  BY OpenWhileRunning DEF EffectsStayDiscoverable, Unresolved
<1> QED
  BY <1>1, ClaimsHold, TakenHolds, AgreementHolds, PTL

-----------------------------------------------------------------------------
(* The contract *)

(* The state of CommandContract behind a state of the flow. *)
RunsOf(id)  == IF Executed(id) THEN provider[id].taken ELSE 0
KnownOf(id) == Record2Knowledge(ops[id])

LEMMA KnownStates ==
  ASSUME NEW op \in OperationRecord
  PROVE  /\ Record2Knowledge(op) = "unasked" <=> op.state = "absent"
         /\ Record2Knowledge(op) = "open"    <=> Active(op)
         /\ Record2Knowledge(op) = "done"    <=> op.state = "succeeded"
         /\ Record2Knowledge(op) = "refused" <=> op.state = "rejected"
         /\ \A other \in OperationRecord : other.state = op.state =>
              Record2Knowledge(other) = Record2Knowledge(op)
BY DEF Record2Knowledge, OperationRecord, Active, ActiveStates, TerminalStates

(* A command is run by a step that leaves all records in their states. *)
LEMMA RunSteps ==
  ASSUME ClaimInv, TakenInv, AgreementInv, [FlowNext]_flowVars, ~UNCHANGED provider
  PROVE  \/ \A x \in OpId : RunsOf(x)' = RunsOf(x)
         \/ \E id \in OpId : /\ Active(ops[id]) /\ RunsOf(id) = 0 /\ RunsOf(id)' = 1
                             /\ \A x \in OpId \ {id} : RunsOf(x)' = RunsOf(x)
<1>1. FlowInv /\ \A x \in OpId : provider[x].taken \in {0, 1}
  <2>1. ASSUME NEW x \in OpId PROVE provider[x].taken \in {0, 1}
    BY RecordsTyped DEF ClaimInv, TakenInv, TakenAtMostOnce
  <2> QED
    BY <2>1 DEF ClaimInv
<1>2. CASE Decides
  <2>1. PICK id \in OpId, v \in {"succeeded", "rejected"} :
          /\ provider' = [provider EXCEPT ![id].verdict = v]
          /\ \/ provider[id].verdict = None /\ v = "rejected"
             \/ provider[id].verdict = "provider_pending"
    BY <1>2 DEF Decides
  <2>2. /\ provider'[id].taken = provider[id].taken /\ provider'[id].verdict = v
        /\ \A x \in OpId \ {id} : provider'[x] = provider[x]
    BY <1>1, <2>1, SettledRecords
  <2>3. \A x \in OpId \ {id} : RunsOf(x)' = RunsOf(x)
    BY <2>2 DEF RunsOf, Executed
  <2>4. RunsOf(id) = 0
    <3>1. None # "succeeded"
      BY FlowInputsTyped DEF EvidenceStates, TerminalStates
    <3> QED
      BY <2>1, <3>1 DEF RunsOf, Executed
  <2>5. CASE v = "rejected" \/ provider[id].taken = 0
    <3>1. RunsOf(id)' = 0
      BY <2>2, <2>5 DEF RunsOf, Executed
    <3> QED
      BY <2>3, <2>4, <3>1
  <2>6. CASE v = "succeeded" /\ provider[id].taken = 1
    <3>1. RunsOf(id)' = 1
      BY <2>2, <2>6 DEF RunsOf, Executed
    <3>2. Active(ops[id])
      BY <2>1, <2>6, OpenWhileRunning
    <3> QED
      BY <2>3, <2>4, <3>1, <3>2
  <2> QED
    BY <1>1, <2>5, <2>6
<1>3. CASE Takes
  <2>1. PICK call \in wire, v \in Verdicts :
          /\ Take(call, v) /\ provider[call.id].taken = 0
          /\ provider[call.id].verdict # "rejected"
    BY <1>3 DEF Takes
  <2> DEFINE id == call.id
  <2>2. /\ id \in OpId /\ provider'[id].taken = 1
        /\ \A x \in OpId \ {id} : provider'[x] = provider[x]
    BY <1>1, <2>1, TakenRecords
  <2>3. \A x \in OpId \ {id} : RunsOf(x)' = RunsOf(x)
    BY <2>2 DEF RunsOf, Executed
  <2>4. RunsOf(id) = 0 /\ RunsOf(id)' \in {0, 1}
    BY <2>1, <2>2 DEF RunsOf, Executed
  <2>5. Active(ops[id])
    BY <2>1, <2>2, OpenWhileRunning DEF Take
  <2> QED
    BY <2>2, <2>3, <2>4, <2>5
<1> QED
  BY <1>2, <1>3, ProviderSteps

(* Every step of the flow is a step of the contract, or invisible in it. *)
LEMMA PromiseSteps ==
  ASSUME WithoutCancellations, ClaimInv, ClaimInv', TakenInv, AgreementInv,
         [FlowNext]_flowVars
  PROVE  [Promise!Next]_(<<[id \in OpId |-> RunsOf(id)], [id \in OpId |-> KnownOf(id)]>>)
<1> DEFINE runs  == [id \in OpId |-> RunsOf(id)]
           known == [id \in OpId |-> KnownOf(id)]
<1>1. /\ ops \in [OpId -> OperationRecord] /\ ops' \in [OpId -> OperationRecord]
      /\ IndInv /\ FlowInv
  BY DEF ClaimInv, FlowInv, RepositoryInv, IndInv, TypeOK
<1>2. ASSUME NEW id \in OpId
      PROVE  /\ known[id] = "unasked" <=> ops[id].state = "absent"
             /\ known[id] = "open"    <=> Active(ops[id])
             /\ known'[id] = "open"    <=> Active(ops'[id])
             /\ known'[id] = "done"    <=> ops'[id].state = "succeeded"
             /\ known'[id] = "refused" <=> ops'[id].state = "rejected"
             /\ ops'[id].state = ops[id].state => known'[id] = known[id]
  BY <1>1, <1>2, KnownStates DEF KnownOf
<1>3. ASSUME NEW id \in OpId, NEW k, known'[id] = k,
             \A x \in OpId \ {id} : known'[x] = known[x]
      PROVE  known' = [known EXCEPT ![id] = k]
  BY <1>3
<1>4. ASSUME StatesStand PROVE known' = known
  <2>1. \A x \in OpId : known'[x] = known[x]
    BY <1>2, <1>4 DEF StatesStand
  <2> QED
    BY <2>1
<1>5. UNCHANGED provider => runs' = runs
  BY DEF RunsOf, Executed
<1>6. CASE StatesStand /\ UNCHANGED provider
  BY <1>4, <1>5, <1>6
<1>7. CASE StatesStand /\ ~UNCHANGED provider
  <2>1. CASE \A x \in OpId : RunsOf(x)' = RunsOf(x)
    BY <1>4, <1>7, <2>1
  <2>2. ASSUME NEW id \in OpId, Active(ops[id]), RunsOf(id) = 0, RunsOf(id)' = 1,
               \A x \in OpId \ {id} : RunsOf(x)' = RunsOf(x)
        PROVE  Promise!Run(id)
    <3>1. runs' = [runs EXCEPT ![id] = 1]
      BY <2>2
    <3> QED
      BY <1>2, <1>4, <1>7, <2>2, <3>1 DEF Promise!Run, RunsOf, KnownOf
  <2> QED
    BY <1>7, <2>1, <2>2, RunSteps DEF Promise!Next
<1>8. CASE Reports /\ UNCHANGED provider
  <2>1. PICK id \in OpId :
          /\ Active(ops[id]) /\ ops'[id].state \in ActiveStates \cup TerminalStates
          /\ Agrees(id, ops'[id].state)
          /\ \A x \in OpId \ {id} : ops'[x].state = ops[x].state
    BY <1>8 DEF Reports
  <2>2. known[id] = "open" /\ \A x \in OpId \ {id} : known'[x] = known[x]
    BY <1>2, <2>1
  <2>3. CASE Active(ops'[id])
    <3>1. known'[id] = known[id]
      BY <1>2, <2>2, <2>3
    <3>2. known' = known
      BY <2>2, <3>1
    <3> QED
      BY <1>5, <1>8, <3>2
  <2>4. CASE ops'[id].state = "succeeded"
    <3>1. RunsOf(id) = 1
      <4>1. Executed(id) /\ provider[id].taken <= 1 /\ provider[id].taken \in Nat
        BY <1>1, <2>1, <2>4, RecordsTyped DEF Agrees, TakenInv, TakenAtMostOnce
      <4> QED
        BY <4>1 DEF RunsOf, Executed
    <3>2. known' = [known EXCEPT ![id] = "done"]
      BY <1>2, <1>3, <2>2, <2>4
    <3> QED
      BY <1>5, <1>8, <2>2, <3>1, <3>2 DEF Promise!Confirm, Promise!Learn, Promise!Next, RunsOf, KnownOf
  <2>5. CASE ops'[id].state = "rejected"
    <3>1. RunsOf(id) = 0
      BY <2>1, <2>5 DEF Agrees, RunsOf, Executed
    <3>2. known' = [known EXCEPT ![id] = "refused"]
      BY <1>2, <1>3, <2>2, <2>5
    <3> QED
      BY <1>5, <1>8, <2>2, <3>1, <3>2 DEF Promise!Refuse, Promise!Learn, Promise!Next, RunsOf, KnownOf
  <2> QED
    BY <2>1, <2>3, <2>4, <2>5 DEF Active, TerminalStates
<1>9. ASSUME NEW i \in Intents, Reserve(i), UNCHANGED provider
      PROVE  Promise!Next
  <2>1. /\ i.id \in OpId /\ ops[i.id].state = "absent" /\ ops'[i.id].state = "reserved"
        /\ \A x \in OpId \ {i.id} : ops'[x] = ops[x]
    BY <1>1, <1>9, ReservationHistory
  <2>2. ASSUME NEW x \in OpId PROVE known[x] # "open"
    <3>1. ~Blocks(ops, x, i) /\ i.type # "cancel_refund"
      BY <1>1, <1>9, ReservationHistory DEF CanReserve, WithoutCancellations
    <3> QED
      BY <1>2, <3>1 DEF Blocks, Holding
  <2>3. known[i.id] = "unasked" /\ known'[i.id] = "open"
    BY <1>2, <2>1 DEF Active, ActiveStates
  <2>4. \A x \in OpId \ {i.id} : known'[x] = known[x]
    BY <1>2, <2>1
  <2>5. known' = [known EXCEPT ![i.id] = "open"]
    BY <1>3, <2>1, <2>3, <2>4
  <2> QED
    BY <1>5, <1>9, <2>1, <2>2, <2>3, <2>5 DEF Promise!Ask, Promise!Learn, Promise!Next, RunsOf, KnownOf
<1> QED
  BY <1>6, <1>7, <1>8, <1>9, FlowReports DEF AgreementInv

(* KeepsPromise: whatever happens between an application and a provider,   *)
(* the durable flow implements CommandContract: a command runs at most     *)
(* once and only while it is open, it is reported as done only if it ran   *)
(* and as refused only if it never will, and no other is let in meanwhile. *)
THEOREM FlowKeepsItsPromise ==
  ASSUME WindowsAreHonoured, WithoutCancellations
  PROVE  FlowSpec => KeepsPromise
<1>1. FlowInit => Promise!Init
  <2> SUFFICES ASSUME FlowInit PROVE Promise!Init
    OBVIOUS
  <2>1. ops = [id \in OpId |-> Absent] /\ provider = [id \in OpId |-> Untouched]
    BY DEF FlowInit, Init
  <2>2. Absent.state = "absent" /\ Untouched.taken = 0
    BY DEF Absent, Untouched
  <2> HIDE DEF Absent, Untouched
  <2> QED
    BY <2>1, <2>2 DEF Promise!Init, Executed, Record2Knowledge
<1>2. /\ ClaimInv /\ ClaimInv' /\ TakenInv /\ AgreementInv /\ [FlowNext]_flowVars
      => [Promise!Next]_(<<[id \in OpId |-> IF Executed(id) THEN provider[id].taken ELSE 0],
                           [id \in OpId |-> Record2Knowledge(ops[id])]>>)
  BY PromiseSteps DEF RunsOf, KnownOf
<1> QED
  BY <1>1, <1>2, ClaimsHold, TakenHolds, AgreementHolds, PTL
     DEF FlowSpec, KeepsPromise, Promise!Spec

-----------------------------------------------------------------------------
(* The books *)

(* A capture the provider has made and the books do not show yet, and the  *)
(* total that shows it.                                                    *)
Due(x)      == ops[x].type = "charge" /\ Active(ops[x]) /\ Executed(x)
DueTotal(x) == ops[x].base_captured + ops[x].amount

(* Nothing is added to a total but what the provider captured. *)
Backed(f, g) ==
  \/ g.captured <= f.captured
  \/ g.captured <= ProviderCaptured
  \/ \E x \in OpId : Due(x) /\ g.captured <= DueTotal(x)

(* Captures settle in full. *)
Credited(f, g, next) ==
  /\ SamePromises(ops, next)
  /\ \A x \in OpId : ops[x].type = "charge" /\ next[x].state = "succeeded" =>
       \/ ops[x].state = "succeeded" /\ next[x].settled = ops[x].settled
       \/ next[x].settled = ops[x].amount
  /\ Backed(f, g)

(* What a worker was told of captures is still true when it applies it. *)
NoticesTrue ==
  \A w \in Workers : workers[w].phase = "noticed" =>
    LET u == workers[w].answer
    IN  /\ u.paid # None /\ ~u.delta => u.paid <= ProviderCaptured
        /\ u.outcome # None /\ u.outcome.state = "succeeded" /\ u.outcome.settled # None =>
             u.outcome.settled = ops[u.operation].amount

-----------------------------------------------------------------------------
(* What is credited *)

LEMMA StillCredited ==
  ASSUME NEW f, NEW g, NEW next, Still(f, ops, g, next), f.captured \in Int
  PROVE  Credited(f, g, next)
<1>1. \A x \in OpId : ops[x].type = "charge" /\ next[x].state = "succeeded" =>
        ops[x].state = "succeeded" /\ next[x].settled = ops[x].settled
  BY DEF Still, SameSettled, MonetaryTypes
<1>2. g.captured <= f.captured
  BY DEF Still
<1> QED
  BY <1>1, <1>2 DEF Still, Credited, Backed

(* plan_outcome *)
LEMMA OutcomeCredits ==
  ASSUME ops \in [OpId -> OperationRecord], RefundsKnown(ops), AmountsPositive(ops),
         NEW f \in PaymentFacts, ValidAmounts(f), NEW id \in OpId, NEW o \in Outcome,
         CanPlanOutcome(f, ops, id, o),
         o.state = "succeeded" => Executed(id) /\ (o.settled # None => o.settled = ops[id].amount)
  PROVE  Credited(f, OutcomePlan(f, ops, id, o).facts, OutcomePlan(f, ops, id, o).ops)
<1> DEFINE plan == OutcomePlan(f, ops, id, o)
           g    == plan.facts
           next == plan.ops
           a    == SettledAmount(ops[id], o)
<1>1. \/ Still(f, ops, g, next)
      \/ /\ Settlement(f, ops, g, next, id, a)
         /\ a \in Nat /\ o.state = "succeeded"
         /\ ops[id].type = "charge" => Active(ops[id])
  BY OutcomeMoney
<1>2. f.captured \in Int /\ ops[id].base_captured \in Int
  BY DEF PaymentFacts, OperationRecord
<1> HIDE DEF plan
<1>3. CASE Still(f, ops, g, next)
  BY <1>2, <1>3, StillCredited DEF plan
<1>4. ASSUME Settlement(f, ops, g, next, id, a), a \in Nat, o.state = "succeeded",
             ops[id].type = "charge" => Active(ops[id])
      PROVE  Credited(f, g, next)
  <2>1. a = ops[id].amount
    BY <1>4 DEF SettledAmount
  <2> HIDE DEF a
  <2>2. \A x \in OpId : ops[x].type = "charge" /\ next[x].state = "succeeded" =>
          \/ ops[x].state = "succeeded" /\ next[x].settled = ops[x].settled
          \/ next[x].settled = ops[x].amount
    BY <1>4, <2>1 DEF Settlement, SameSettled, MonetaryTypes
  <2>3. CASE ops[id].type = "charge"
    <3>1. g.captured = Larger(f.captured, ops[id].base_captured + a)
      BY <1>4, <2>3 DEF Settlement
    <3>2. Due(id) /\ DueTotal(id) = ops[id].base_captured + a
      BY <1>4, <2>1, <2>3 DEF Due, DueTotal
    <3>3. g.captured <= f.captured \/ g.captured <= DueTotal(id)
      BY <1>2, <1>4, <3>1, <3>2 DEF Larger
    <3> QED
      BY <1>4, <2>2, <3>2, <3>3 DEF Credited, Backed, Settlement
  <2>4. CASE ops[id].type = "start_refund"
    <3>1. g.captured <= f.captured
      BY <1>2, <1>4, <2>4 DEF Settlement
    <3> QED
      BY <1>4, <2>2, <3>1 DEF Credited, Backed, Settlement
  <2> QED
    BY <1>4, <2>3, <2>4 DEF Settlement, MonetaryTypes
<1> QED
  BY <1>1, <1>3, <1>4 DEF plan

LEMMA BackedTwice ==
  ASSUME NEW f, NEW g, NEW h, Backed(f, g), Backed(g, h),
         f.captured \in Int, g.captured \in Int, h.captured \in Int, ProviderCaptured \in Int,
         \A x \in OpId : Due(x) => DueTotal(x) \in Int
  PROVE  Backed(f, h)
<1>1. CASE h.captured <= g.captured
  <2>1. CASE g.captured <= f.captured
    BY <1>1, <2>1 DEF Backed
  <2>2. CASE g.captured <= ProviderCaptured
    BY <1>1, <2>2 DEF Backed
  <2>3. ASSUME NEW x \in OpId, Due(x), g.captured <= DueTotal(x) PROVE Backed(f, h)
    <3>1. h.captured <= DueTotal(x)
      BY <1>1, <2>3
    <3> QED
      BY <2>3, <3>1 DEF Backed
  <2> QED
    BY <2>1, <2>2, <2>3 DEF Backed
<1> QED
  BY <1>1 DEF Backed

(* plan_observation *)
LEMMA ObservationCredits ==
  ASSUME ops \in [OpId -> OperationRecord], RefundsKnown(ops), AmountsPositive(ops),
         NEW f \in PaymentFacts, ValidAmounts(f), NEW u \in Observation,
         CanPlanObservation(f, ops, u), ProviderCaptured \in Int,
         u.paid # None /\ ~u.delta => u.paid <= ProviderCaptured,
         u.outcome # None => u.operation \in OpId,
         u.outcome # None /\ u.outcome.state = "succeeded" =>
           /\ Executed(u.operation)
           /\ u.outcome.settled # None => u.outcome.settled = ops[u.operation].amount
  PROVE  Credited(f, ObservationPlan(f, ops, u).facts, ObservationPlan(f, ops, u).ops)
<1> DEFINE e    == ScreenedFacts(f, u)
           v    == Aggregate(f, u)
           a    == AggregatedFacts(f, u)
           plan == CorrelatedPlan(f, ops, u)
           g    == plan.facts
           s    == IF ActiveRefund(plan.ops) THEN "refund_started" ELSE g.status
           h    == [g EXCEPT !.status = s]
           id   == CHOOSE x \in Candidates(ops, u) : TRUE
<1>1. ObservationPlan(f, ops, u) = [facts |-> h, ops |-> plan.ops]
  BY DEF ObservationPlan
<1>2. a \in PaymentFacts /\ ValidAmounts(a)
  BY AggregateShows
<1>3. Backed(f, a)
  <2>1. e \in PaymentFacts /\ e.captured = f.captured
    <3>1. ScreeningReasons(f, u) \in SUBSET RetentionReason
      BY DEF ScreeningReasons, RetentionReason
    <3> QED
      BY <3>1, RetentionRestates DEF ScreenedFacts, Restates, SameTotals
  <2>2. v \in Observation /\ CanApplyToFacts(e, v)
    BY AggregateTyped DEF CanPlanObservation
  <2>3. v.paid = IF u.delta THEN None ELSE u.paid
    BY DEF Aggregate, Observation
  <2> HIDE DEF e, v
  <2>4. a.captured = IF v.paid = None THEN f.captured ELSE Larger(f.captured, v.paid)
    BY <2>1, <2>2, ClaimTotals DEF AggregatedFacts, e, v
  <2>5. f.captured \in Int
    BY DEF PaymentFacts
  <2>6. a.captured <= f.captured \/ a.captured <= ProviderCaptured
    BY <2>3, <2>4, <2>5 DEF Larger
  <2> QED
    BY <2>6 DEF Backed
<1> HIDE DEF a
<1>4. plan.facts \in PaymentFacts /\ Credited(f, g, plan.ops)
  <2>0. /\ f.captured \in Int /\ a.captured \in Int
        /\ \A x \in OpId : Due(x) => DueTotal(x) \in Int
    BY <1>2 DEF PaymentFacts, Due, DueTotal, AmountsPositive, MonetaryTypes, OperationRecord
  <2>1. CASE ~Correlated(ops, u)
    <3>1. plan.ops = ops
      BY <2>1 DEF CorrelatedPlan, Correlated
    <3>2. g \in PaymentFacts /\ g.captured = a.captured
      <4>1. CorrelationFailure(ops, u) \in SUBSET RetentionReason
        BY DEF CorrelationFailure, RetentionReason
      <4>2. LET q == Retained(a, u, CorrelationFailure(ops, u))
            IN  q \in PaymentFacts /\ q.captured = a.captured
        BY <1>2, <4>1, RetentionRestates DEF Restates, SameTotals
      <4>3. g = a \/ g = Retained(a, u, CorrelationFailure(ops, u))
        BY <2>1 DEF CorrelatedPlan, a
      <4> HIDE DEF g
      <4> QED
        BY <1>2, <4>2, <4>3
    <3> HIDE DEF plan
    <3>3. Backed(f, g)
      BY <1>3, <3>2 DEF Backed
    <3>4. SamePromises(ops, ops)
      BY DEF SamePromises
    <3> QED
      BY <3>1, <3>2, <3>3, <3>4 DEF Credited
  <2>2. CASE Correlated(ops, u)
    <3>1. id \in Candidates(ops, u) /\ id \in OpId /\ u.outcome \in Outcome /\ u.outcome # None
      BY <2>2, OneCandidate DEF Correlated
    <3>2. CanPlanOutcome(a, ops, id, u.outcome)
      BY <2>2, <3>1 DEF CanPlanObservation, a
    <3>3. plan = OutcomePlan(a, ops, id, u.outcome)
      BY <2>2 DEF CorrelatedPlan, Correlated, a
    <3>4. id = u.operation
      <4>1. u.operation # None
        BY <3>1, FlowInputsTyped
      <4> QED
        BY <3>1, <4>1 DEF Candidates
    <3> HIDE DEF id, plan
    <3>5. g \in PaymentFacts
      BY <1>2, <3>1, <3>2, <3>3, OutcomeBuilds DEF Builds
    <3>6. Credited(a, g, plan.ops)
      BY <1>2, <3>1, <3>2, <3>3, <3>4, OutcomeCredits
    <3>7. g.captured \in Int
      BY <3>5 DEF PaymentFacts
    <3>8. Backed(f, g)
      BY <1>3, <2>0, <3>6, <3>7, BackedTwice DEF Credited
    <3> QED
      BY <3>5, <3>6, <3>8 DEF Credited
  <2> QED
    BY <2>1, <2>2
<1> HIDE DEF plan, s
<1>5. h.captured = g.captured
  BY <1>4 DEF PaymentFacts
<1> HIDE DEF h, g
<1> QED
  BY <1>1, <1>4, <1>5 DEF Credited, Backed

-----------------------------------------------------------------------------
(* What the provider captured in all *)

(* ProviderCaptured of any provider and any records. *)
Carried(prov, id) == prov[id].taken > 0 /\ prov[id].verdict = "succeeded"

ChargesIn(all) == {id \in OpId : all[id].type = "charge"}

CapturedIn(prov, all) ==
  SumFunctionOnSet([id \in OpId |-> prov[id].taken * all[id].amount],
                   {id \in ChargesIn(all) : Carried(prov, id)})

(* An account that can be added up. *)
Accountable(prov, all) ==
  /\ IsFiniteSet(ChargesIn(all))
  /\ \A x \in OpId : prov[x].taken \in {0, 1}
  /\ AmountsPositive(all)

LEMMA CapturedAnywhere ==
  /\ ProviderCaptured = CapturedIn(provider, ops)
  /\ ProviderCaptured' = CapturedIn(provider', ops')
<1>1. /\ {id \in ChargesIn(ops) : Carried(provider, id)} =
           {id \in OpId : ops[id].type = "charge" /\ Executed(id)}
      /\ {id \in ChargesIn(ops') : Carried(provider', id)} =
           {id \in OpId : ops'[id].type = "charge" /\ Executed(id)'}
  BY DEF ChargesIn, Carried, Executed
<1> QED
  BY <1>1 DEF ProviderCaptured, CapturedIn

LEMMA CapturedIsAmount ==
  ASSUME NEW prov, NEW all, Accountable(prov, all)
  PROVE  /\ CapturedIn(prov, all) \in Nat
         /\ ChargesIn(all) = {} => CapturedIn(prov, all) = 0
<1> DEFINE S == {id \in ChargesIn(all) : Carried(prov, id)}
           v == [id \in OpId |-> prov[id].taken * all[id].amount]
<1>1. IsFiniteSet(S)
  BY FS_Subset DEF Accountable
<1>2. \A x \in S : v[x] \in Nat
  BY DEF Accountable, ChargesIn, AmountsPositive, MonetaryTypes
<1>3. CapturedIn(prov, all) = SumFunctionOnSet(v, S)
  BY DEF CapturedIn
<1>4. ChargesIn(all) = {} => S = {}
  OBVIOUS
<1> HIDE DEF S, v
<1> QED
  BY <1>1, <1>2, <1>3, <1>4, SumsAreNatural, SumEmpty

(* Commands that ran alike captured alike. *)
LEMMA CapturedSame ==
  ASSUME NEW p, NEW q, NEW all, NEW next, Accountable(p, all),
         \A x \in OpId : q[x].taken \in {0, 1},
         {x \in ChargesIn(next) : Carried(q, x)} = {x \in ChargesIn(all) : Carried(p, x)},
         \A x \in ChargesIn(all) : next[x].amount = all[x].amount
  PROVE  CapturedIn(q, next) = CapturedIn(p, all)
<1> DEFINE S == {id \in ChargesIn(all) : Carried(p, id)}
           v == [id \in OpId |-> p[id].taken * all[id].amount]
           w == [id \in OpId |-> q[id].taken * next[id].amount]
<1>1. IsFiniteSet(S) /\ S = {id \in ChargesIn(next) : Carried(q, id)}
  BY FS_Subset DEF Accountable
<1>2. \A x \in S : v[x] = w[x]
  <2> SUFFICES ASSUME NEW x \in S PROVE v[x] = w[x]
    OBVIOUS
  <2>1. Carried(p, x) /\ Carried(q, x) /\ x \in OpId
    BY <1>1 DEF ChargesIn
  <2>2. p[x].taken = 1 /\ q[x].taken = 1
    BY <2>1 DEF Accountable, Carried
  <2> QED
    BY <2>1, <2>2
<1>4. CapturedIn(p, all) = SumFunctionOnSet(v, S) /\ CapturedIn(q, next) = SumFunctionOnSet(w, S)
  BY <1>1 DEF CapturedIn
<1> HIDE DEF S, v, w
<1> QED
  BY <1>1, <1>2, <1>4, SumsOfTheSame

(* One more command adds its amount. *)
LEMMA CapturedMore ==
  ASSUME NEW p, NEW q, NEW all, Accountable(p, all), Accountable(q, all),
         NEW e \in ChargesIn(all), ~Carried(p, e), Carried(q, e),
         \A x \in ChargesIn(all) \ {e} : Carried(q, x) <=> Carried(p, x)
  PROVE  CapturedIn(q, all) = CapturedIn(p, all) + all[e].amount
<1> DEFINE S == {id \in ChargesIn(all) : Carried(p, id)}
           v == [id \in OpId |-> p[id].taken * all[id].amount]
           w == [id \in OpId |-> q[id].taken * all[id].amount]
<1>1. IsFiniteSet(S) /\ e \notin S
  BY FS_Subset DEF Accountable
<1>2. \A x \in S : v[x] = w[x]
  BY DEF Accountable, ChargesIn, Carried
<1>3. {id \in ChargesIn(all) : Carried(q, id)} = S \cup {e}
  OBVIOUS
<1>4. w[e] = all[e].amount /\ \A x \in S \cup {e} : w[x] \in Int
  <2>1. \A x \in S \cup {e} : x \in OpId /\ all[x].amount \in Nat
    BY DEF Accountable, ChargesIn, AmountsPositive, MonetaryTypes
  <2>2. \A x \in S \cup {e} : q[x].taken = 1
    BY <2>1 DEF Accountable, Carried
  <2> QED
    BY <2>1, <2>2
<1>5. /\ CapturedIn(p, all) = SumFunctionOnSet(v, S)
      /\ CapturedIn(q, all) = SumFunctionOnSet(w, S \cup {e})
  BY <1>3 DEF CapturedIn
<1> HIDE DEF S, v, w
<1>6. SumFunctionOnSet(v, S) = SumFunctionOnSet(w, S)
  BY <1>1, <1>2, SumsOfTheSame
<1>7. SumFunctionOnSet(w, S \cup {e}) = SumFunctionOnSet(w, S) + w[e]
  BY <1>1, <1>4, SumWith
<1> QED
  BY <1>4, <1>5, <1>6, <1>7

-----------------------------------------------------------------------------
(* The account *)

(* What is known of a flow that keeps its other promises. *)
Sound == ClaimInv /\ TakenInv /\ AgreementInv /\ FreshInv

LatestIn(all, x) == \A y \in ChargesIn(all) : all[y].sequence <= all[x].sequence

RanIn(prov, all, x) == IF Carried(prov, x) THEN all[x].amount ELSE 0

(* The payment was opened with start.  The capture reserved last knows     *)
(* what the provider had captured before it, and the totals say no more    *)
(* than the provider captured.                                             *)
Adds(start, f, all, prov) ==
  /\ IsFiniteSet(ChargesIn(all))
  /\ \A x, y \in ChargesIn(all) : x # y => all[x].sequence # all[y].sequence
  /\ \A x \in ChargesIn(all) :
       /\ all[x].base_captured <= f.captured
       /\ all[x].base_captured + all[x].amount <= f.required
       /\ all[x].state = "succeeded" => all[x].settled = all[x].amount
       /\ LatestIn(all, x) =>
            start.captured + CapturedIn(prov, all) = all[x].base_captured + RanIn(prov, all, x)
  /\ start.captured <= f.captured
  /\ f.captured <= start.captured + CapturedIn(prov, all)

LEMMA SoundNumbers ==
  ASSUME Sound
  PROVE  /\ FlowInv /\ IndInv /\ facts \in PaymentFacts /\ ValidAmounts(facts)
         /\ facts.captured \in Int /\ facts.required \in Int
         /\ ops \in [OpId -> OperationRecord] /\ AmountsPositive(ops) /\ RefundsKnown(ops)
         /\ \A x \in OpId : provider[x].taken \in {0, 1}
         /\ \A x \in OpId : Carried(provider, x) <=> Executed(x)
         /\ \A x \in OpId : provider[x].taken > 0 => ops[x].state # "absent"
         /\ \A x \in ChargesIn(ops) :
              /\ x \in OpId /\ ops[x].type = "charge" /\ ops[x].state # "absent"
              /\ ops[x].amount \in Nat /\ ops[x].base_captured \in Int /\ ops[x].sequence \in Nat
<1>1. /\ FlowInv /\ IndInv /\ facts \in PaymentFacts /\ ValidAmounts(facts)
      /\ ops \in [OpId -> OperationRecord] /\ AmountsPositive(ops) /\ RefundsKnown(ops) /\ FreeIsEmpty
  BY DEF Sound, ClaimInv, FlowInv, RepositoryInv, IndInv, TypeOK, FundsBounded, FreshInv, CountsRefunds
<1>2. facts.captured \in Int /\ facts.required \in Int
  BY <1>1 DEF PaymentFacts
<1>3. ASSUME NEW x \in OpId
      PROVE  /\ provider[x].taken \in {0, 1} /\ (Carried(provider, x) <=> Executed(x))
             /\ provider[x].taken > 0 => ops[x].state # "absent"
  <2>1. provider[x].taken \in Nat /\ provider[x].taken <= 1
    BY <1>1, RecordsTyped DEF Sound, TakenInv, TakenAtMostOnce
  <2>2. provider[x].taken > 0 => ops[x].attempts > 0
    BY DEF Sound, TakenInv, TakenIsRemembered, Remembered
  <2>3. ops[x].state = "absent" => ops[x].attempts = 0
    BY <1>1 DEF FreeIsEmpty, Absent
  <2> QED
    BY <2>1, <2>2, <2>3 DEF Carried, Executed
<1>4. ASSUME NEW x \in ChargesIn(ops)
      PROVE  /\ x \in OpId /\ ops[x].type = "charge" /\ ops[x].state # "absent"
             /\ ops[x].amount \in Nat /\ ops[x].base_captured \in Int /\ ops[x].sequence \in Nat
  <2>1. x \in OpId /\ ops[x].type = "charge"
    BY <1>4 DEF ChargesIn
  <2>2. ops[x].state # "absent"
    <3>1. Absent.type = None
      BY DEF Absent
    <3> QED
      BY <1>1, <2>1, <3>1, NoneIsNoType DEF FreeIsEmpty, OperationType, MonetaryTypes
  <2> QED
    BY <1>1, <2>1, <2>2 DEF AmountsPositive, MonetaryTypes, OperationRecord
<1> QED
  BY <1>1, <1>2, <1>3, <1>4

(* Without a capture in flight the totals are what the provider captured. *)
LEMMA SettledBooks ==
  ASSUME Sound, NEW start \in PaymentFacts, Adds(start, facts, ops, provider),
         \A x \in ChargesIn(ops) : ~Active(ops[x])
  PROVE  facts.captured = start.captured + CapturedIn(provider, ops)
<1>1. start.captured \in Int /\ facts.captured \in Int
  BY SoundNumbers DEF PaymentFacts
<1>2. /\ CapturedIn(provider, ops) \in Nat
      /\ ChargesIn(ops) = {} => CapturedIn(provider, ops) = 0
  <2>1. Accountable(provider, ops)
    BY SoundNumbers DEF Accountable, Adds
  <2> QED
    BY <2>1, CapturedIsAmount
<1>3. CASE ChargesIn(ops) = {}
  BY <1>1, <1>2, <1>3 DEF Adds
<1>4. CASE ChargesIn(ops) # {}
  <2>1. PICK x \in ChargesIn(ops) : LatestIn(ops, x)
    <3> DEFINE S == {ops[y].sequence : y \in ChargesIn(ops)}
    <3>1. PICK y \in ChargesIn(ops) : TRUE
      BY <1>4
    <3>2. PICK n \in Nat : \A z \in OpId : ops[z].sequence <= n
      BY SoundNumbers DEF IndInv, SequencesBounded
    <3>3. S \in SUBSET Nat /\ ops[y].sequence \in S /\ \A m \in S : m <= n
      BY <3>1, <3>2, SoundNumbers
    <3> HIDE DEF S
    <3>4. Max(S) \in S /\ \A m \in S : m <= Max(S)
      BY <3>3, GreatestExists
    <3> QED
      BY <3>4 DEF S, LatestIn
  <2>2. /\ start.captured + CapturedIn(provider, ops) = ops[x].base_captured + RanIn(provider, ops, x)
        /\ ops[x].base_captured <= facts.captured
        /\ facts.captured <= start.captured + CapturedIn(provider, ops)
        /\ ops[x].state = "succeeded" => ops[x].settled = ops[x].amount
    BY <2>1 DEF Adds
  <2>3. /\ x \in OpId /\ ops[x].type = "charge" /\ ops[x].amount \in Nat
        /\ ops[x].base_captured \in Int /\ ops[x].state \in {"succeeded", "rejected"}
    <3>1. ops[x].state \in ActiveStates \cup TerminalStates \cup {"absent"}
      BY SoundNumbers DEF OperationRecord
    <3> QED
      BY <3>1, SoundNumbers DEF Active, TerminalStates
  <2>4. CASE ops[x].state = "succeeded"
    <3>1. facts.captured >= ops[x].base_captured + ops[x].amount
      BY <2>2, <2>3, <2>4 DEF Sound, FreshInv, CountedInv, SettlementsCounted
    <3>2. RanIn(provider, ops, x) \in {0, ops[x].amount}
      BY DEF RanIn
    <3> QED
      BY <1>1, <1>2, <2>2, <2>3, <3>1, <3>2
  <2>5. CASE ops[x].state = "rejected"
    <3>1. ~Carried(provider, x)
      BY <2>3, <2>5 DEF Sound, AgreementInv, RecordsAgree, Agrees, Carried
    <3>2. RanIn(provider, ops, x) = 0
      BY <3>1 DEF RanIn
    <3> QED
      BY <1>1, <1>2, <2>2, <2>3, <3>2
  <2> QED
    BY <2>3, <2>4, <2>5
<1> QED
  BY <1>3, <1>4

(* The same promises: what was captured, and who was last, are the same. *)
LEMMA CreditAdds ==
  ASSUME Sound, NEW start \in PaymentFacts, ValidAmounts(start),
         Adds(start, facts, ops, provider), UNCHANGED provider,
         Credited(facts, facts', ops'),
         facts'.captured \in Int, facts'.captured >= facts.captured, facts'.required = facts.required
  PROVE  /\ Adds(start, facts', ops', provider')
         /\ CapturedIn(provider', ops') = CapturedIn(provider, ops)
<1>1. /\ start.captured \in Int /\ start.captured >= 0
      /\ facts.captured \in Int /\ facts.required \in Int
  BY SoundNumbers DEF PaymentFacts, ValidAmounts
<1>2. Accountable(provider, ops)
  BY SoundNumbers DEF Accountable, Adds
<1>3. /\ ChargesIn(ops') = ChargesIn(ops)
      /\ \A x \in ChargesIn(ops) :
           /\ ops'[x].amount = ops[x].amount /\ ops'[x].base_captured = ops[x].base_captured
           /\ ops'[x].sequence = ops[x].sequence
           /\ ops'[x].state = "succeeded" =>
                \/ ops[x].state = "succeeded" /\ ops'[x].settled = ops[x].settled
                \/ ops'[x].settled = ops[x].amount
  BY DEF Credited, SamePromises, ChargesIn
<1>4. CapturedIn(provider, ops) \in Nat
  BY <1>2, CapturedIsAmount
<1>5. CapturedIn(provider', ops') = CapturedIn(provider, ops)
  BY <1>2, <1>3, SoundNumbers, CapturedSame
<1>6. facts'.captured <= start.captured + CapturedIn(provider, ops)
  <2>1. CASE facts'.captured <= facts.captured
    BY <1>1, <1>4, <2>1 DEF Adds
  <2>2. CASE facts'.captured <= ProviderCaptured
    BY <1>1, <1>4, <2>2, CapturedAnywhere
  <2>3. ASSUME NEW x \in OpId, Due(x), facts'.captured <= DueTotal(x)
        PROVE  facts'.captured <= start.captured + CapturedIn(provider, ops)
    <3>1. x \in ChargesIn(ops) /\ LatestIn(ops, x)
      BY <2>3 DEF Due, ChargesIn, LatestIn, Sound, FreshInv, CountedInv, OpenChargeIsLast
    <3>2. RanIn(provider, ops, x) = ops[x].amount
      BY <2>3, <3>1, SoundNumbers DEF Due, RanIn
    <3>3. start.captured + CapturedIn(provider, ops) = DueTotal(x)
      BY <3>1, <3>2 DEF Adds, DueTotal
    <3> QED
      BY <2>3, <3>3
  <2> QED
    BY <2>1, <2>2, <2>3 DEF Credited, Backed
<1>7. ASSUME NEW x \in ChargesIn(ops)
      PROVE  /\ ops'[x].base_captured <= facts'.captured
             /\ ops'[x].base_captured + ops'[x].amount <= facts'.required
             /\ ops'[x].state = "succeeded" => ops'[x].settled = ops'[x].amount
             /\ LatestIn(ops', x) =>
                  start.captured + CapturedIn(provider, ops)
                    = ops'[x].base_captured + RanIn(provider', ops', x)
  <2>1. LatestIn(ops', x) <=> LatestIn(ops, x)
    BY <1>3 DEF LatestIn
  <2>2. RanIn(provider', ops', x) = RanIn(provider, ops, x)
    BY <1>3 DEF RanIn, Carried
  <2>3. ops[x].base_captured <= facts.captured /\ ops[x].base_captured \in Int
    BY SoundNumbers DEF Adds
  <2> QED
    BY <1>1, <1>3, <2>1, <2>2, <2>3 DEF Adds
<1> QED
  BY <1>1, <1>3, <1>5, <1>6, <1>7 DEF Adds

(* The provider runs a command of which everybody still waits to hear. *)
LEMMA RunAdds ==
  ASSUME Sound, NEW start \in PaymentFacts, Adds(start, facts, ops, provider),
         UNCHANGED <<facts, ops>>, [FlowNext]_flowVars,
         \A x \in OpId : provider'[x].taken \in {0, 1}
  PROVE  /\ Adds(start, facts', ops', provider')
         /\ CapturedIn(provider', ops') >= CapturedIn(provider, ops)
<1> DEFINE C == ChargesIn(ops)
<1>1. start.captured \in Int /\ facts.captured \in Int
  BY SoundNumbers DEF PaymentFacts
<1>2. Accountable(provider, ops) /\ Accountable(provider', ops) /\ C \subseteq OpId
  BY SoundNumbers DEF Accountable, Adds, ChargesIn
<1>3. CapturedIn(provider, ops) \in Nat
  BY <1>2, CapturedIsAmount
<1>4. ASSUME NEW x \in OpId, RunsOf(x)' = RunsOf(x)
      PROVE  Carried(provider', x) <=> Carried(provider, x)
  <2>1. /\ RunsOf(x) = IF Carried(provider, x) THEN provider[x].taken ELSE 0
        /\ RunsOf(x)' = IF Carried(provider', x) THEN provider'[x].taken ELSE 0
    BY DEF RunsOf, Executed, Carried
  <2>2. provider[x].taken \in {0, 1} /\ provider'[x].taken \in {0, 1}
    BY SoundNumbers
  <2> QED
    BY <1>4, <2>1, <2>2 DEF Carried
<1>5. ASSUME \A x \in C : Carried(provider', x) <=> Carried(provider, x)
      PROVE  /\ Adds(start, facts', ops', provider')
             /\ CapturedIn(provider', ops') >= CapturedIn(provider, ops)
  <2>1. CapturedIn(provider', ops) = CapturedIn(provider, ops)
    BY <1>2, <1>5, CapturedSame
  <2>2. \A x \in C : RanIn(provider', ops, x) = RanIn(provider, ops, x)
    BY <1>5 DEF RanIn
  <2> QED
    BY <1>3, <2>1, <2>2 DEF Adds
<1>6. ASSUME NEW id \in C, Active(ops[id]), RunsOf(id) = 0, RunsOf(id)' = 1,
             \A x \in OpId \ {id} : RunsOf(x)' = RunsOf(x)
      PROVE  /\ Adds(start, facts', ops', provider')
             /\ CapturedIn(provider', ops') >= CapturedIn(provider, ops)
  <2>1. ~Carried(provider, id) /\ Carried(provider', id)
    <3>1. /\ RunsOf(id) = IF Carried(provider, id) THEN provider[id].taken ELSE 0
          /\ RunsOf(id)' = IF Carried(provider', id) THEN provider'[id].taken ELSE 0
      BY DEF RunsOf, Executed, Carried
    <3> QED
      BY <1>2, <1>6, <3>1, SoundNumbers DEF Carried
  <2>2. \A x \in C \ {id} : Carried(provider', x) <=> Carried(provider, x)
    BY <1>2, <1>4, <1>6
  <2>3. CapturedIn(provider', ops) = CapturedIn(provider, ops) + ops[id].amount
    BY <1>2, <2>1, <2>2, CapturedMore
  <2>4. /\ ops[id].amount \in Nat /\ ops[id].base_captured \in Int
        /\ ops[id].type = "charge" /\ id \in OpId
        /\ \A x \in C : ops[x].sequence \in Nat
    BY SoundNumbers
  <2>5. LatestIn(ops, id)
    BY <1>2, <1>6, <2>4 DEF LatestIn, Sound, FreshInv, CountedInv, OpenChargeIsLast
  <2>6. \A x \in C : LatestIn(ops, x) => x = id
    <3> SUFFICES ASSUME NEW x \in C, LatestIn(ops, x) PROVE x = id
      OBVIOUS
    <3>1. ops[x].sequence <= ops[id].sequence /\ ops[id].sequence <= ops[x].sequence
      BY <2>5 DEF LatestIn
    <3>2. ops[x].sequence = ops[id].sequence
      BY <2>4, <3>1
    <3> QED
      BY <3>2 DEF Adds
  <2>7. /\ RanIn(provider, ops, id) = 0 /\ RanIn(provider', ops, id) = ops[id].amount
        /\ start.captured + CapturedIn(provider, ops) = ops[id].base_captured + RanIn(provider, ops, id)
    BY <2>1, <2>5 DEF RanIn, Adds
  <2>8. start.captured + CapturedIn(provider', ops) = ops[id].base_captured + RanIn(provider', ops, id)
    BY <1>1, <1>3, <2>3, <2>4, <2>7
  <2>9. facts.captured <= start.captured + CapturedIn(provider', ops)
    BY <1>1, <1>3, <2>3, <2>4 DEF Adds
  <2>10. CapturedIn(provider', ops) >= CapturedIn(provider, ops)
    BY <1>3, <2>3, <2>4
  <2> QED
    BY <2>6, <2>8, <2>9, <2>10 DEF Adds
<1>7. CASE UNCHANGED provider
  BY <1>5, <1>7
<1>8. CASE \A x \in OpId : RunsOf(x)' = RunsOf(x)
  BY <1>2, <1>4, <1>5, <1>8
<1>9. ASSUME NEW id \in OpId, Active(ops[id]), RunsOf(id) = 0, RunsOf(id)' = 1,
             \A x \in OpId \ {id} : RunsOf(x)' = RunsOf(x)
      PROVE  /\ Adds(start, facts', ops', provider')
             /\ CapturedIn(provider', ops') >= CapturedIn(provider, ops)
  BY <1>2, <1>4, <1>5, <1>6, <1>9
<1> QED
  BY <1>7, <1>8, <1>9, RunSteps DEF Sound

(* A capture is reserved when nothing is in flight, on totals that are     *)
(* exact, and for no more than they leave.                                 *)
LEMMA ReserveAdds ==
  ASSUME WithoutCancellations, Sound, NEW start \in PaymentFacts,
         Adds(start, facts, ops, provider),
         NEW i \in Intents, Reserve(i), UNCHANGED provider
  PROVE  /\ Adds(start, facts', ops', provider')
         /\ CapturedIn(provider', ops') = CapturedIn(provider, ops)
<1> DEFINE n == i.id
           C == ChargesIn(ops)
<1>1. start.captured \in Int /\ facts.captured \in Int /\ facts.required \in Int /\ IndInv
  BY SoundNumbers DEF PaymentFacts
<1>2. /\ i \in Intent /\ CanReserve(facts, ops, i) /\ n \in OpId /\ ops[n].state = "absent"
      /\ \A x \in OpId \ {n} : ops'[x] = ops[x]
      /\ ops'[n].state = "reserved" /\ ops'[n].type = i.type
      /\ ops'[n].amount = ResolvedAmount(facts, i)
      /\ ops'[n].base_captured = facts.captured /\ ops'[n].sequence = NextSequence(ops)
      /\ facts'.captured = facts.captured /\ facts'.required = facts.required
  <2>1. facts \in PaymentFacts
    BY SoundNumbers
  <2> QED
    BY <1>1, <2>1, ReservationHistory DEF PaymentFacts
<1>3. \A x \in C : ~Active(ops[x])
  <2> SUFFICES ASSUME NEW x \in C, Active(ops[x]) PROVE FALSE
    OBVIOUS
  <2>1. x \in OpId /\ ~Blocks(ops, x, i) /\ i.type # "cancel_refund"
    BY <1>2 DEF ChargesIn, CanReserve, WithoutCancellations
  <2> QED
    BY <2>1 DEF Blocks, Holding
<1>4. facts.captured = start.captured + CapturedIn(provider, ops)
  BY <1>3, SettledBooks
<1>5. n \notin C /\ ~Carried(provider, n) /\ C \subseteq OpId
      /\ ChargesIn(ops') = C \cup (IF i.type = "charge" THEN {n} ELSE {})
  <2>1. n \notin C
    BY <1>2, SoundNumbers
  <2>2. ~Carried(provider, n)
    BY <1>2, SoundNumbers DEF Carried
  <2> QED
    BY <1>2, <2>1, <2>2 DEF ChargesIn
<1>6. /\ NextSequence(ops) \in Nat /\ \A x \in OpId : ops[x].sequence < NextSequence(ops)
      /\ \A x \in C : ops[x].sequence \in Nat
  BY <1>1, SoundNumbers, NextSequenceAbove DEF IndInv
<1> HIDE DEF n
<1>7. Accountable(provider, ops) /\ CapturedIn(provider, ops) \in Nat
  <2>1. Accountable(provider, ops)
    BY SoundNumbers DEF Accountable, Adds
  <2> QED
    BY <2>1, CapturedIsAmount
<1>8. CapturedIn(provider', ops') = CapturedIn(provider, ops)
  <2>1. {x \in ChargesIn(ops') : Carried(provider', x)} = {x \in C : Carried(provider, x)}
    BY <1>5
  <2>2. \A x \in C : ops'[x].amount = ops[x].amount
    BY <1>2, <1>5
  <2>3. \A x \in OpId : provider'[x].taken \in {0, 1}
    BY SoundNumbers
  <2> QED
    BY <1>7, <2>1, <2>2, <2>3, CapturedSame
<1>9. IsFiniteSet(ChargesIn(ops'))
  BY <1>5, FS_AddElement DEF Adds
<1>10. \A x, y \in ChargesIn(ops') : x # y => ops'[x].sequence # ops'[y].sequence
  <2>1. \A x \in C : ops'[x] = ops[x] /\ ops[x].sequence # NextSequence(ops)
    BY <1>2, <1>5, <1>6
  <2> QED
    BY <1>2, <1>5, <2>1 DEF Adds
<1>11. ASSUME NEW x \in C
       PROVE  /\ ops'[x].base_captured <= facts'.captured
              /\ ops'[x].base_captured + ops'[x].amount <= facts'.required
              /\ ops'[x].state = "succeeded" => ops'[x].settled = ops'[x].amount
              /\ LatestIn(ops', x) =>
                   start.captured + CapturedIn(provider, ops)
                     = ops'[x].base_captured + RanIn(provider', ops', x)
  <2>1. ops'[x] = ops[x]
    BY <1>2, <1>5
  <2>2. LatestIn(ops', x) => LatestIn(ops, x)
    BY <1>2, <1>5 DEF LatestIn
  <2>3. RanIn(provider', ops', x) = RanIn(provider, ops, x)
    BY <2>1 DEF RanIn
  <2> QED
    BY <1>2, <2>1, <2>2, <2>3 DEF Adds
<1>12. ASSUME i.type = "charge"
       PROVE  /\ ops'[n].base_captured <= facts'.captured
              /\ ops'[n].base_captured + ops'[n].amount <= facts'.required
              /\ ops'[n].state # "succeeded"
              /\ start.captured + CapturedIn(provider, ops)
                   = ops'[n].base_captured + RanIn(provider', ops', n)
  <2>1. ResolvedAmount(facts, i) \in 1 .. CapturableAmount(facts)
    BY <1>2, <1>12 DEF CanReserve, CanResolveAmount, MonetaryTypes, AvailableAmount
  <2>2. ResolvedAmount(facts, i) \in Int /\ facts.captured + ResolvedAmount(facts, i) <= facts.required
    <3>1. facts.hold \in Int
      BY SoundNumbers DEF PaymentFacts
    <3>2. CapturableAmount(facts) \in Int /\ CapturableAmount(facts) <= facts.required - facts.captured
      BY <1>1, <3>1 DEF CapturableAmount, Smaller
    <3> QED
      BY <1>1, <2>1, <3>2
  <2>3. RanIn(provider', ops', n) = 0
    BY <1>5 DEF RanIn
  <2> QED
    BY <1>1, <1>2, <1>4, <2>2, <2>3
<1> QED
  BY <1>2, <1>5, <1>8, <1>9, <1>10, <1>11, <1>12 DEF Adds

-----------------------------------------------------------------------------
(* The steps of the flow, as the account sees them *)

(* Retiring an attempt credits nothing. *)
LEMMA RetiredCredits ==
  ASSUME NEW f, NEW g, NEW next \in [OpId -> OperationRecord], NEW id \in OpId, NEW attempt,
         Credited(f, g, next)
  PROVE  Credited(f, g, WithoutAttempt(next, id, attempt))
<1> DEFINE p == next[id]
           q == [p EXCEPT !.pending = p.pending \ {attempt}]
           final == WithoutAttempt(next, id, attempt)
<1>1. CASE attempt = None
  BY <1>1 DEF WithoutAttempt
<1>2. CASE attempt # None
  <2>1. final = [next EXCEPT ![id] = q] /\ p \in OperationRecord
    BY <1>2 DEF WithoutAttempt
  <2>2. /\ q.type = p.type /\ q.state = p.state /\ q.settled = p.settled
        /\ q.amount = p.amount /\ q.base_captured = p.base_captured
        /\ q.base_refunded = p.base_refunded /\ q.sequence = p.sequence
    BY <2>1 DEF OperationRecord
  <2> HIDE DEF q, final
  <2>3. \A x \in OpId :
          /\ final[x].type = next[x].type /\ final[x].state = next[x].state
          /\ final[x].settled = next[x].settled /\ final[x].amount = next[x].amount
          /\ final[x].base_captured = next[x].base_captured
          /\ final[x].base_refunded = next[x].base_refunded
          /\ final[x].sequence = next[x].sequence
    BY <2>1, <2>2
  <2> HIDE DEF p
  <2>4. Credited(f, g, final)
    BY <2>3 DEF Credited, SamePromises
  <2> QED
    BY <2>4 DEF final
<1> QED
  BY <1>1, <1>2

LEMMA QuietCredits ==
  ASSUME Sound, NoticesTrue, ProviderCaptured \in Int, NEW w \in Workers, QuietCalls(w)
  PROVE  Credited(facts, facts', ops') \/ \E i \in Intents : Reserve(i)
<1>1. /\ facts \in PaymentFacts /\ ValidAmounts(facts) /\ facts.captured \in Int /\ IndInv
      /\ ops \in [OpId -> OperationRecord] /\ AmountsPositive(ops) /\ RefundsKnown(ops)
      /\ AnswersAgree /\ Knows(workers[w])
  BY SoundNumbers DEF Sound, AgreementInv, FlowInv, WorkersKnow
<1>2. ASSUME ops' = ops, facts'.captured = facts.captured
      PROVE  Credited(facts, facts', ops')
  BY <1>1, <1>2 DEF Credited, SamePromises, Backed
<1>3. CASE Records(w)
  <2> DEFINE id == workers[w].id
  <2>1. PICK a \in PluginAnswers :
          Says(w, a) /\ RecordOutcome(id, a, workers[w].attempt)
    BY <1>3 DEF Records
  <2> DEFINE plan == OutcomePlan(facts, ops, id, a)
  <2>2. id \in OpId /\ a \in Outcome /\ CanPlanOutcome(facts, ops, id, a)
    BY <1>3, <2>1, PluginAnswersTyped DEF Records, RecordOutcome
  <2>3. a.state = "succeeded" => Executed(id) /\ a.settled = None
    <3>1. a.state = "succeeded" => a.settled = None
      BY <2>1 DEF PluginAnswers, Bare
    <3>2. CASE a = CancelledOutcome
      BY <3>2 DEF CancelledOutcome, Bare
    <3>3. CASE workers[w].phase \in {"answered", "finishing"} /\ a = workers[w].answer
      BY <1>1, <3>1, <3>3 DEF AnswersAgree, Agrees
    <3> QED
      BY <2>1, <3>2, <3>3 DEF Says
  <2>4. Credited(facts, plan.facts, plan.ops)
    BY <1>1, <2>2, <2>3, OutcomeCredits
  <2>5. plan.ops \in [OpId -> OperationRecord]
    BY <1>1, <2>2, OutcomeBuilds DEF Follows
  <2>6. facts' = plan.facts /\ ops' = WithoutAttempt(plan.ops, id, workers[w].attempt)
    BY <2>1 DEF RecordOutcome
  <2> HIDE DEF plan
  <2> QED
    BY <2>2, <2>4, <2>5, <2>6, RetiredCredits
<1>4. ASSUME NEW id \in OpId, RecordFailure(id, "claim") PROVE Credited(facts, facts', ops')
  BY <1>1, <1>4, FailureMoney, StillCredited, FlowInputsTyped
<1>5. CASE Notices(w)
  <2> DEFINE u == workers[w].answer
  <2>1. u \in Observations /\ u \in Observation /\ workers[w].phase = "noticed"
    BY <1>1, <1>5, InputsTyped DEF Notices, Knows
  <2>2. CASE ObserveAgain(u) \/ ObserveImpossible(u)
    <3>1. ops' = ops /\ facts'.captured = facts.captured
      BY <1>1, <2>2 DEF ObserveAgain, ObserveImpossible, Retained, PaymentFacts
    <3> QED
      BY <1>2, <3>1
  <2>3. CASE Observe(u)
    <3>1. /\ CanPlanObservation(facts, ops, u) /\ facts' = ObservationPlan(facts, ops, u).facts
          /\ ops' = ObservationPlan(facts, ops, u).ops
      BY <2>3 DEF Observe, Commit
    <3>2. u.paid # None /\ ~u.delta => u.paid <= ProviderCaptured
      BY <2>1 DEF NoticesTrue
    <3>3. u.outcome # None => u.operation \in OpId
      BY <1>1, <2>1 DEF AnswersAgree
    <3>4. u.outcome # None /\ u.outcome.state = "succeeded" =>
            /\ Executed(u.operation)
            /\ u.outcome.settled # None => u.outcome.settled = ops[u.operation].amount
      BY <1>1, <2>1 DEF AnswersAgree, Agrees, NoticesTrue
    <3> HIDE DEF u
    <3> QED
      BY <1>1, <2>1, <3>1, <3>2, <3>3, <3>4, ObservationCredits
  <2> QED
    BY <1>5, <2>2, <2>3 DEF Notices
<1>6. CASE UNCHANGED repository
  BY <1>2, <1>6 DEF repository
<1> QED
  BY <1>3, <1>4, <1>5, <1>6 DEF QuietCalls

LEMMA FlowCredits ==
  ASSUME Sound, NoticesTrue, ProviderCaptured \in Int, [FlowNext]_flowVars
  PROVE  \/ (\E i \in Intents : Reserve(i)) /\ UNCHANGED provider
         \/ Credited(facts, facts', ops') /\ UNCHANGED provider
         \/ UNCHANGED <<facts, ops>>
<1>1. FlowInv /\ IndInv /\ facts.captured \in Int
  BY SoundNumbers
<1>2. ASSUME NEW w \in Workers, QuietStep(w)
      PROVE  /\ UNCHANGED provider
             /\ Credited(facts, facts', ops') \/ \E i \in Intents : Reserve(i)
  BY <1>2, QuietCredits DEF QuietStep
<1>3. ASSUME NEW w \in Workers, Claimed(w)
      PROVE  Credited(facts, facts', ops') /\ UNCHANGED provider
  <2> DEFINE self == workers[w]
  <2>1. /\ self.id \in OpId /\ self.now \in Times
    <3>1. self \in Worker /\ Knows(self)
      BY <1>1, <1>3 DEF FlowInv, WorkersKnow
    <3>2. self.id \in OpId
      BY <1>3, <3>1 DEF Knows, Claimed
    <3> QED
      BY <3>1, <3>2, FlowInputsTyped DEF Worker
  <2>2. PICK expected \in 0 .. MaxAttempts, retry_until \in Optional(Deadlines),
             scope \in Optional(Scopes) : Claim(self.id, expected, self.now, retry_until, scope)
    BY <1>3 DEF Claimed, Granted
  <2> HIDE DEF self
  <2>3. ClaimedNow
    BY <2>1, <2>2 DEF ClaimedNow
  <2>4. Still(facts, ops, facts', ops')
    BY <1>1, <2>3, ClaimedMoney
  <2> QED
    BY <1>1, <1>3, <2>4, StillCredited DEF Claimed
<1>4. ASSUME \/ \E w \in Workers : Queried(w) \/ Submit(w)
             \/ QuietEnvironment \/ Tick \/ \E call \in wire : Arrive(call)
      PROVE  UNCHANGED <<facts, ops>>
  BY <1>4 DEF Queried, Query, Submit, QuietEnvironment, Tick, Arrive, repository
<1> QED
  BY <1>1, <1>2, <1>3, <1>4, FlowShapes

LEMMA CapturedIsNat ==
  ASSUME Sound, NEW start, Adds(start, facts, ops, provider)
  PROVE  ProviderCaptured \in Nat
<1>1. Accountable(provider, ops)
  BY SoundNumbers DEF Accountable, Adds
<1> QED
  BY <1>1, CapturedIsAmount, CapturedAnywhere

LEMMA AddsStay ==
  ASSUME WithoutCancellations, Sound, NoticesTrue, [FlowNext]_flowVars,
         \A x \in OpId : provider'[x].taken \in {0, 1},
         NEW start \in PaymentFacts, ValidAmounts(start), Adds(start, facts, ops, provider)
  PROVE  /\ Adds(start, facts', ops', provider')
         /\ ProviderCaptured \in Nat /\ ProviderCaptured' >= ProviderCaptured
<1>1. ProviderCaptured \in Nat
  BY CapturedIsNat
<1>2. [Next]_vars /\ IndInv /\ facts \in PaymentFacts
  BY SoundNumbers, FlowSteps
<1>3. facts'.captured \in Int /\ facts'.captured >= facts.captured
  BY <1>2, StepAccumulates
<1>4. facts'.required = facts.required
  <2> DEFINE f == [facts EXCEPT !.reconcile = FALSE]
  <2>1. f.required = facts.required
    BY <1>2 DEF PaymentFacts
  <2>2. Builds(facts, facts') \/ Builds(f, facts')
    BY <1>2, StepBuilds
  <2> HIDE DEF f
  <2> QED
    BY <2>1, <2>2 DEF Builds
<1>5. \/ \E i \in Intents : Reserve(i) /\ UNCHANGED provider
      \/ Credited(facts, facts', ops') /\ UNCHANGED provider
      \/ UNCHANGED <<facts, ops>>
  BY <1>1, FlowCredits
<1>6. /\ Adds(start, facts', ops', provider')
      /\ CapturedIn(provider', ops') >= CapturedIn(provider, ops)
  <2>1. CapturedIn(provider, ops) \in Nat
    BY <1>1, CapturedAnywhere
  <2>2. CASE \E i \in Intents : Reserve(i) /\ UNCHANGED provider
    BY <2>1, <2>2, ReserveAdds
  <2>3. CASE Credited(facts, facts', ops') /\ UNCHANGED provider
    BY <1>3, <1>4, <2>1, <2>3, CreditAdds
  <2>4. CASE UNCHANGED <<facts, ops>>
    BY <2>4, RunAdds
  <2> QED
    BY <1>5, <2>2, <2>3, <2>4
<1> QED
  BY <1>1, <1>6, CapturedAnywhere

(* A worker that is going to apply a notice heard of it before, or hears   *)
(* of it now.                                                              *)
LEMMA NoticedSteps ==
  ASSUME FlowInv, ClaimInv, [FlowNext]_flowVars,
         NEW v \in Workers, workers'[v].phase = "noticed"
  PROVE  workers'[v] = workers[v] \/ Truthful(workers'[v].answer)
<1>1. ASSUME NEW w \in Workers, QuietStep(w)
      PROVE  workers'[v] = workers[v] \/ Truthful(workers'[v].answer)
  <2>1. CASE v = w
    BY <1>1, <2>1 DEF QuietStep, GoesOn
  <2>2. CASE v # w
    BY <1>1, <2>2 DEF QuietStep, Others
  <2> QED
    BY <2>1, <2>2
<1>2. ASSUME NEW w \in Workers, Queried(w)
      PROVE  workers'[v] = workers[v]
  BY <1>2 DEF Queried, Others
<1>3. ASSUME NEW w \in Workers, Claimed(w) \/ Submit(w)
      PROVE  workers'[v] = workers[v]
  <2>1. Others(w) /\ workers'[w].phase \in {"claimed", "calling"}
    BY <1>3, ClaimedRecords, SubmitShape
  <2> QED
    BY <2>1 DEF Others
<1>4. ASSUME NEW call \in wire, Arrive(call)
      PROVE  workers'[v] = workers[v]
  <2>1. PICK e : Answering(call, e)
    BY <1>4 DEF Arrive, Repeat, Take
  <2>2. CASE UNCHANGED workers
    BY <2>2
  <2>3. CASE \E w \in Workers : Becomes(w, [workers[w] EXCEPT !.phase = "answered", !.answer = Bare(e)])
    <3>1. PICK w \in Workers : Becomes(w, [workers[w] EXCEPT !.phase = "answered", !.answer = Bare(e)])
      BY <2>3
    <3> DEFINE s == [workers[w] EXCEPT !.phase = "answered", !.answer = Bare(e)]
    <3>2. s.phase = "answered"
      BY DEF FlowInv, WorkersKnow, Worker
    <3> HIDE DEF s
    <3>3. workers'[w] = s /\ Others(w)
      BY <3>1, BecomesOnly DEF FlowInv, s
    <3> QED
      BY <3>2, <3>3 DEF Others
  <2> QED
    BY <2>1, <2>2, <2>3 DEF Answering
<1>5. ASSUME QuietEnvironment \/ Tick PROVE workers'[v] = workers[v]
  BY <1>5 DEF QuietEnvironment, Tick
<1> QED
  BY <1>1, <1>2, <1>3, <1>4, <1>5, FlowShapes

LEMMA NoticesStayTrue ==
  ASSUME Sound, NoticesTrue, [FlowNext]_flowVars,
         ProviderCaptured \in Nat, ProviderCaptured' \in Nat, ProviderCaptured' >= ProviderCaptured
  PROVE  NoticesTrue'
<1>1. FlowInv /\ ClaimInv /\ IndInv /\ [Next]_vars
  BY SoundNumbers, FlowSteps DEF Sound
<1>2. ASSUME NEW x \in OpId, provider[x].taken > 0 PROVE ops'[x].amount = ops[x].amount
  <2>1. Grows(ops[x], ops'[x])
    BY <1>1, <1>2, SoundNumbers, StepGrows
  <2> QED
    BY <2>1 DEF Grows
<1> SUFFICES ASSUME NEW v \in Workers, workers'[v].phase = "noticed"
             PROVE  LET u == workers'[v].answer
                    IN  /\ u.paid # None /\ ~u.delta => u.paid <= ProviderCaptured'
                        /\ u.outcome # None /\ u.outcome.state = "succeeded"
                             /\ u.outcome.settled # None =>
                             u.outcome.settled = ops'[u.operation].amount
  BY DEF NoticesTrue
<1> DEFINE u == workers'[v].answer
<1>3. /\ u.paid # None /\ ~u.delta => u.paid <= ProviderCaptured
      /\ u.outcome # None /\ u.outcome.state = "succeeded" /\ u.outcome.settled # None =>
           u.operation \in OpId /\ provider[u.operation].taken > 0
             /\ u.outcome.settled = ops[u.operation].amount
  <2>1. CASE workers'[v] = workers[v]
    BY <2>1 DEF NoticesTrue, Sound, AgreementInv, AnswersAgree, Agrees, Executed
  <2>2. CASE Truthful(u)
    BY <2>2 DEF Truthful
  <2> QED
    BY <1>1, <2>1, <2>2, NoticedSteps
<1>4. u.paid # None => u.paid \in Int
  <2>1. u \in Observation
    BY <1>1, FlowSteps, InputsTyped DEF FlowInv, WorkersKnow, Knows
  <2> HIDE DEF u
  <2> QED
    BY <2>1 DEF Observation, Optional
<1> HIDE DEF u
<1>5. /\ u.paid # None /\ ~u.delta => u.paid <= ProviderCaptured'
      /\ u.outcome # None /\ u.outcome.state = "succeeded" /\ u.outcome.settled # None =>
           u.outcome.settled = ops'[u.operation].amount
  BY <1>2, <1>3, <1>4
<1> QED
  BY <1>5 DEF u

BooksInv == NoticesTrue /\ \E f \in InitialFacts : Adds(f, facts, ops, provider)

LEMMA BooksOpen == FlowInit => BooksInv
<1> SUFFICES ASSUME FlowInit PROVE BooksInv
  OBVIOUS
<1>1. /\ facts \in InitialFacts /\ facts.captured \in Int
      /\ ops = [id \in OpId |-> Absent] /\ provider = [id \in OpId |-> Untouched]
      /\ workers = [w \in Workers |-> Idle]
  BY PaymentsOpenValid DEF FlowInit, Init, PaymentFacts
<1>2. Absent.type = None /\ Untouched.taken = 0 /\ Idle.phase = "idle"
  BY DEF Absent, Untouched, Idle
<1> HIDE DEF Absent, Untouched, Idle
<1>3. ChargesIn(ops) = {} /\ AmountsPositive(ops)
  BY <1>1, <1>2, NoneIsNoType DEF ChargesIn, AmountsPositive, OperationType, MonetaryTypes
<1>4. CapturedIn(provider, ops) = 0
  <2>1. Accountable(provider, ops)
    BY <1>1, <1>2, <1>3, FS_EmptySet DEF Accountable
  <2> QED
    BY <1>3, <2>1, CapturedIsAmount
<1>5. Adds(facts, facts, ops, provider)
  BY <1>1, <1>3, <1>4, FS_EmptySet DEF Adds
<1>6. NoticesTrue
  BY <1>1, <1>2 DEF NoticesTrue
<1> QED
  BY <1>1, <1>5, <1>6 DEF BooksInv

LEMMA BooksStay ==
  ASSUME WithoutCancellations, Sound, Sound', BooksInv, [FlowNext]_flowVars
  PROVE  BooksInv'
<1>1. PICK f \in InitialFacts : Adds(f, facts, ops, provider)
  BY DEF BooksInv
<1>2. f \in PaymentFacts /\ ValidAmounts(f) /\ NoticesTrue
  BY PaymentsOpenValid DEF BooksInv
<1>3. \A x \in OpId : provider'[x].taken \in {0, 1}
  <2> SUFFICES ASSUME NEW x \in OpId PROVE provider'[x].taken \in {0, 1}
    OBVIOUS
  <2>1. provider'[x].taken \in Nat
    BY DEF Sound, ClaimInv, FlowInv, EnvironmentTyped, ProviderTyped, ProviderRecord
  <2>2. provider'[x].taken <= 1
    BY DEF Sound, TakenInv, TakenAtMostOnce
  <2> QED
    BY <2>1, <2>2
<1>4. /\ Adds(f, facts', ops', provider')
      /\ ProviderCaptured \in Nat /\ ProviderCaptured' >= ProviderCaptured
  BY <1>1, <1>2, <1>3, AddsStay
<1>5. ProviderCaptured' \in Nat
  <2>1. AmountsPositive(ops')
    BY DEF Sound, FreshInv
  <2>2. Accountable(provider', ops')
    BY <1>3, <1>4, <2>1 DEF Accountable, Adds
  <2> QED
    BY <2>2, CapturedIsAmount, CapturedAnywhere
<1>6. NoticesTrue'
  BY <1>2, <1>4, <1>5, NoticesStayTrue
<1> QED
  BY <1>4, <1>6 DEF BooksInv

LEMMA BooksHold ==
  ASSUME WindowsAreHonoured, WithoutCancellations
  PROVE  FlowSpec => [](Sound /\ BooksInv)
<1>1. FlowSpec => []Sound
  <2>1. ClaimInv /\ TakenInv /\ AgreementInv /\ FreshInv => Sound
    BY DEF Sound
  <2> QED
    BY <2>1, FlowImplementsRepository, FreshHolds, ClaimsHold, TakenHolds, AgreementHolds, PTL
<1>2. Sound /\ Sound' /\ BooksInv /\ [FlowNext]_flowVars => BooksInv'
  BY BooksStay
<1> QED
  BY <1>1, <1>2, BooksOpen, PTL DEF FlowSpec

(* BooksMatchProvider: whatever answers and callbacks get lost, repeated   *)
(* or reordered, a capture is counted only if the provider made it, and    *)
(* one that is missing belongs to an operation listed as unresolved.       *)
THEOREM BooksMatch ==
  ASSUME WindowsAreHonoured, WithoutCancellations
  PROVE  FlowSpec => []BooksMatchProvider
<1>1. Sound /\ BooksInv => BooksMatchProvider
  <2> SUFFICES ASSUME Sound, BooksInv PROVE BooksMatchProvider
    OBVIOUS
  <2>1. PICK f \in InitialFacts : Adds(f, facts, ops, provider)
    BY DEF BooksInv
  <2>2. f \in PaymentFacts /\ f.captured \in Int /\ facts.captured \in Int
    BY PaymentsOpenValid, SoundNumbers DEF PaymentFacts
  <2>3. ProviderCaptured \in Nat /\ ProviderCaptured = CapturedIn(provider, ops)
    BY <2>1, CapturedIsNat, CapturedAnywhere
  <2>4. facts.captured - f.captured <= ProviderCaptured
    BY <2>1, <2>2, <2>3 DEF Adds
  <2>5. ASSUME \A id \in OpId : ~Unresolved(id)
        PROVE  facts.captured - f.captured = ProviderCaptured
    <3>1. \A x \in ChargesIn(ops) : ~Active(ops[x])
      BY <2>5 DEF Unresolved, ChargesIn
    <3>2. facts.captured = f.captured + CapturedIn(provider, ops)
      BY <2>1, <2>2, <3>1, SettledBooks
    <3> QED
      BY <2>2, <2>3, <3>2
  <2> QED
    BY <2>4, <2>5 DEF BooksMatchProvider
<1> QED
  BY <1>1, BooksHold, PTL

(* NeverOvercaptured: each command is reserved on the money left, which is *)
(* known exactly at that time, and runs at most once; so all commands      *)
(* together never take more than the payment is about.                     *)
THEOREM NothingIsOvercaptured ==
  ASSUME WindowsAreHonoured, WithoutCancellations
  PROVE  FlowSpec => []NeverOvercaptured
<1>1. Sound /\ BooksInv => NeverOvercaptured
  <2> SUFFICES ASSUME Sound, BooksInv PROVE NeverOvercaptured
    OBVIOUS
  <2>1. PICK f \in InitialFacts : Adds(f, facts, ops, provider)
    BY DEF BooksInv
  <2>2. /\ f \in PaymentFacts /\ f.captured \in Int /\ f.captured >= 0
        /\ facts.captured \in Int /\ facts.required \in Int /\ facts.captured <= facts.required
    BY PaymentsOpenValid, SoundNumbers DEF PaymentFacts, ValidAmounts
  <2>3. ProviderCaptured \in Nat /\ ProviderCaptured = CapturedIn(provider, ops)
    BY <2>1, CapturedIsNat, CapturedAnywhere
  <2>4. CASE \A x \in ChargesIn(ops) : ~Active(ops[x])
    <3>1. facts.captured = f.captured + CapturedIn(provider, ops)
      BY <2>1, <2>2, <2>4, SettledBooks
    <3> QED
      BY <2>2, <2>3, <3>1 DEF NeverOvercaptured
  <2>5. ASSUME NEW x \in ChargesIn(ops), Active(ops[x]) PROVE NeverOvercaptured
    <3>1. LatestIn(ops, x)
      BY <2>5 DEF LatestIn, ChargesIn, Sound, FreshInv, CountedInv, OpenChargeIsLast
    <3>2. /\ f.captured + CapturedIn(provider, ops) = ops[x].base_captured + RanIn(provider, ops, x)
          /\ ops[x].base_captured + ops[x].amount <= facts.required
      BY <2>1, <3>1 DEF Adds
    <3>3. ops[x].amount \in Nat /\ ops[x].base_captured \in Int
      BY SoundNumbers
    <3>4. RanIn(provider, ops, x) \in {0, ops[x].amount}
      BY DEF RanIn
    <3> QED
      BY <2>2, <2>3, <3>2, <3>3, <3>4 DEF NeverOvercaptured
  <2> QED
    BY <2>4, <2>5
<1> QED
  BY <1>1, BooksHold, PTL

=============================================================================
