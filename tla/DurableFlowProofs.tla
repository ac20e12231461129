--------------------------- MODULE DurableFlowProofs ---------------------------
(***************************************************************************)
(* DurableFlow proved: its workers and providers keep their types, and     *)
(* every step of the flow is a step of DurableRepository or leaves it      *)
(* alone, so that whatever is proved of the repository holds of the flow.  *)
(***************************************************************************)
EXTENDS DurableFlow, DurableRepositoryProofs

-----------------------------------------------------------------------------
(* Types *)

SeenRecord ==
  [state : ActiveStates \cup TerminalStates, attempts : 0 .. MaxAttempts,
   submitted_at : Optional(Int), retry_until : Optional(Int),
   scope : Optional(Scopes), reconcile : BOOLEAN]

Worker ==
  [phase : Phases, intent : Optional(Intent), id : Optional(OpId),
   cap : Optional(Capabilities), seen : Optional(SeenRecord),
   attempt : Optional(1 .. MaxAttempts), answer : Optional(Outcome \cup Observation),
   now : 0 .. MaxTime]

ProviderRecord ==
  [taken : Nat, verdict : Optional(EvidenceStates \ {"unknown"}),
   keys : SUBSET [scope : Scopes, until : Nat]]

(* What a plugin may hand back: a bare state, or nothing that fits. *)
PluginAnswers == {Bare(e) : e \in EvidenceStates} \cup {[Bare("unknown") EXCEPT !.settled = 1]}

(* What a worker knows at each point of its call. *)
Knows(s) ==
  /\ s.phase = "asking" => s.intent \in Intents /\ s.id = s.intent.id
  /\ s.phase \notin {"idle", "noticed"} => s.id \in OpId
  /\ s.phase \in {"asking", "reserved", "claimed", "querying", "deciding", "reclaiming"} =>
       s.cap \in Capabilities
  /\ s.phase \in {"claimed", "querying", "deciding", "reclaiming"} => s.seen \in SeenRecord
  /\ s.phase \in {"querying", "deciding", "reclaiming"} => s.attempt = None
  /\ s.phase \in {"claimed", "calling", "dropped"} => s.attempt \in 1 .. MaxAttempts
  /\ s.phase \in {"answered", "finishing"} => s.answer \in PluginAnswers
  /\ s.phase = "answered" /\ s.attempt = None => s.cap \in Capabilities /\ s.seen \in SeenRecord
  /\ s.phase = "noticed" => s.answer \in Observations

WorkersKnow == workers \in [Workers -> Worker] /\ \A w \in Workers : Knows(workers[w])

ProviderTyped ==
  /\ provider \in [OpId -> ProviderRecord]
  /\ \A id \in OpId : provider[id].keys # {} => provider[id].verdict # None

EnvironmentTyped ==
  /\ wire \subseteq [id : OpId, attempt : 1 .. MaxAttempts, cap : Capabilities, until : Nat]
  /\ ProviderTyped
  /\ capability \in Capabilities /\ clock \in 0 .. MaxTime /\ faults \in 0 .. MaxFaults

AttemptsBounded == \A id \in OpId : ops[id].attempts <= MaxAttempts

RepositoryInv == IndInv /\ FreeIsEmpty /\ AttemptsBounded

FlowInv == RepositoryInv /\ WorkersKnow /\ EnvironmentTyped

-----------------------------------------------------------------------------
(* The repository under the flow *)

(* Only a claim adds an attempt, and none beyond the bound. *)
LEMMA AttemptsStayBounded ==
  ASSUME RepositoryInv, [Next]_vars
  PROVE  RepositoryInv'
<1>1. IndInv' /\ FreeIsEmpty'
  BY NextIndInv, FreeStaysEmpty DEF RepositoryInv
<1>2. ops \in [OpId -> OperationRecord] /\ IndInv /\ AttemptsBounded
  BY DEF IndInv, TypeOK, RepositoryInv
<1>3. ASSUME NEW x \in OpId PROVE ops'[x].attempts <= MaxAttempts
  <2>1. ASSUME NEW i \in Intents, Reserve(i) PROVE ops'[x].attempts <= MaxAttempts
    <3>1. MaxAttempts \in Nat
      BY InputsTyped
    <3>2. i.id \in OpId /\ ops'[i.id].attempts = 0 /\ \A y \in OpId \ {i.id} : ops'[y] = ops[y]
      BY <1>2, <2>1, ReservationHistory
    <3> QED
      BY <1>2, <3>1, <3>2 DEF AttemptsBounded
  <2>2. ASSUME ClaimedNow PROVE ops'[x].attempts <= MaxAttempts
    <3>1. PICK id \in OpId, expected \in 0 .. MaxAttempts, now \in Times :
            \E retry_until \in Optional(Deadlines), scope \in Optional(Scopes) :
              Claim(id, expected, now, retry_until, scope)
      BY <2>2 DEF ClaimedNow
    <3>2. PICK retry_until \in Optional(Deadlines), scope \in Optional(Scopes) :
            Claim(id, expected, now, retry_until, scope)
      BY <3>1
    <3> DEFINE q == Submission(ops[id], now, retry_until, scope)
    <3>3. /\ CanSubmit(facts, ops[id], expected, now) /\ ops[id].attempts < MaxAttempts
          /\ ops' = [ops EXCEPT ![id] = q]
      BY <3>2 DEF Claim
    <3>4. q.attempts = ops[id].attempts + 1
      BY <1>2, <3>3, ClaimHistory
    <3>5. ops[id].attempts \in Nat
      BY <1>2 DEF OperationRecord
    <3> HIDE DEF q
    <3> QED
      BY <1>2, <3>3, <3>4, <3>5, InputsTyped DEF AttemptsBounded
  <2>3. ASSUME Answered PROVE ops'[x].attempts = ops[x].attempts
    BY <2>3 DEF Answered, HistoryEvolves, Evolves, Kept, Promised
  <2>4. ASSUME NEW id \in OpId, NEW r \in Resolutions, DecidedBy(id, r)
        PROVE  ops'[x].attempts = ops[x].attempts
    BY <2>4 DEF DecidedBy, Decided, Evolves, Kept, Promised
  <2> QED
    BY <1>2, <2>1, <2>2, <2>3, <2>4, StepHistory DEF AttemptsBounded
<1> QED
  BY <1>1, <1>3 DEF RepositoryInv, AttemptsBounded

(* The part of a fetched record the flow keeps is typed. *)
LEMMA SeenTyped ==
  ASSUME NEW op \in OperationRecord, op.state # "absent", op.attempts <= MaxAttempts
  PROVE  Seen(op) \in SeenRecord
BY InputsTyped DEF Seen, SeenRecord, OperationRecord

(* A bare state is an outcome the repository accepts as an argument. *)
LEMMA BareTyped ==
  ASSUME NEW e \in EvidenceStates
  PROVE  Bare(e) \in Outcomes /\ Bare(e) \in Outcome
BY FlowInputsTyped, InputsTyped DEF Bare

(* What does not fit is never planned: a settled amount needs a success. *)
LEMMA MalformedRefused ==
  ASSUME NEW f, NEW all, NEW id, NEW a \in PluginAnswers, CanPlanOutcome(f, all, id, a)
  PROVE  a \in Outcomes
<1>1. CASE a = [Bare("unknown") EXCEPT !.settled = 1]
  <2>1. a.settled = 1 /\ a.state = "unknown"
    BY <1>1 DEF Bare
  <2> HIDE DEF Bare
  <2>2. 1 # None
    BY NoneIsNoValue
  <2> QED
    BY <2>1, <2>2 DEF CanPlanOutcome, WellFormedOutcome
<1>2. CASE \E e \in EvidenceStates : a = Bare(e)
  BY <1>2, BareTyped
<1> QED
  BY <1>1, <1>2 DEF PluginAnswers

(* Neither is what the plugin handed back ever anything but an outcome. *)
LEMMA PluginAnswersTyped ==
  ASSUME NEW a \in PluginAnswers
  PROVE  a \in Outcome
<1>1. Bare("unknown") \in Outcome
  BY BareTyped DEF EvidenceStates
<1>2. [Bare("unknown") EXCEPT !.settled = 1] \in Outcome
  BY <1>1 DEF Outcome, Optional
<1> QED
  BY <1>2, BareTyped DEF PluginAnswers

-----------------------------------------------------------------------------
(* The worker that moves keeps what it knows, the others what they knew. *)
Moves(w) == \E s \in Worker : Knows(s) /\ Becomes(w, s)

LEMMA MovesKnow ==
  ASSUME WorkersKnow, NEW w \in Workers, Moves(w)
  PROVE  WorkersKnow'
BY DEF WorkersKnow, Moves, Becomes

(* A worker that returns has nothing left to know. *)
LEMMA ReturnMoves ==
  ASSUME NEW w, Return(w)
  PROVE  Moves(w)
<1>1. Idle \in Worker
  <2>0. MaxTime \in Nat
    BY FlowInputsTyped
  <2>1. 0 \in 0 .. MaxTime
    BY <2>0
  <2>2. "idle" \in Phases
    BY DEF Phases
  <2> QED
    BY <2>1, <2>2 DEF Idle, Worker, Optional
<1>2. Knows(Idle)
  BY DEF Knows, Idle
<1> QED
  BY <1>1, <1>2 DEF Return, Moves

(* A claim that is granted is a step of the repository and leaves its      *)
(* worker with the claimed attempt.                                        *)
LEMMA GrantedMoves ==
  ASSUME FlowInv, NEW w \in Workers, workers[w].phase \in {"reserved", "reclaiming"},
         NEW expected \in 0 .. MaxAttempts, NEW retry_until \in Optional(Deadlines),
         NEW scope \in Optional(Scopes), Granted(w, expected, retry_until, scope)
  PROVE  Next /\ Moves(w)
<1> DEFINE self == workers[w]
           q == Submission(ops[self.id], self.now, retry_until, scope)
           s == [self EXCEPT !.phase = "claimed", !.attempt = expected + 1,
                             !.seen = Seen(ops'[self.id]), !.now = 0]
<1>1. /\ self \in Worker /\ self.id \in OpId /\ self.cap \in Capabilities
      /\ ops \in [OpId -> OperationRecord] /\ AttemptsBounded
      /\ RepositoryInv /\ self.now \in 0 .. MaxTime
  BY DEF FlowInv, WorkersKnow, Knows, Worker, RepositoryInv, IndInv, TypeOK
<1>2. Claim(self.id, expected, self.now, retry_until, scope) /\ Becomes(w, s)
  BY DEF Granted
<1>3. self.now \in Times
  BY <1>1, FlowInputsTyped
<1>4. Next
  BY <1>1, <1>2, <1>3 DEF Next, Operate
<1>5. /\ CanSubmit(facts, ops[self.id], expected, self.now)
      /\ ops[self.id].attempts < MaxAttempts /\ ops' = [ops EXCEPT ![self.id] = q]
  BY <1>2 DEF Claim
<1>6. /\ q.attempts = ops[self.id].attempts + 1 /\ q.state = "submitting"
      /\ ops[self.id].attempts = expected /\ ops'[self.id] = q
  BY <1>1, <1>5, ClaimHistory DEF CanSubmit
<1>7. RepositoryInv'
  BY <1>1, <1>4, AttemptsStayBounded
<1>8. Seen(ops'[self.id]) \in SeenRecord
  <2>1. ops'[self.id] \in OperationRecord /\ ops'[self.id].attempts <= MaxAttempts
    BY <1>1, <1>7 DEF RepositoryInv, IndInv, TypeOK, AttemptsBounded
  <2> HIDE DEF q
  <2> QED
    BY <1>6, <2>1, SeenTyped
<1>9. expected + 1 \in 1 .. MaxAttempts /\ 0 \in 0 .. MaxTime
  BY <1>5, <1>6, InputsTyped, FlowInputsTyped
<1>10. s \in Worker
  BY <1>1, <1>8, <1>9 DEF Worker, Phases, Optional
<1>11. /\ s.phase = "claimed" /\ s.id = self.id /\ s.cap = self.cap
       /\ s.seen \in SeenRecord /\ s.attempt \in 1 .. MaxAttempts
  BY <1>1, <1>8, <1>9 DEF Worker
<1> HIDE DEF s
<1>12. Knows(s)
  BY <1>1, <1>11 DEF Knows
<1> QED
  BY <1>2, <1>4, <1>10, <1>12 DEF Moves

(* An outcome recorded for a worker is a step of the repository. *)
LEMMA RecordedSteps ==
  ASSUME FlowInv, NEW w \in Workers, workers[w].id \in OpId,
         NEW a \in PluginAnswers, RecordOutcome(workers[w].id, a, workers[w].attempt)
  PROVE  Next
<1>1. workers[w].attempt \in Optional(1 .. MaxAttempts)
  BY DEF FlowInv, WorkersKnow, Worker
<1>2. a \in Outcomes
  BY MalformedRefused DEF RecordOutcome
<1> QED
  BY <1>1, <1>2 DEF Next, Operate

(* So is a failure. *)
LEMMA FailureSteps ==
  ASSUME NEW id \in OpId, RecordFailure(id, "claim")
  PROVE  Next
BY FlowInputsTyped DEF Next, Operate

(* What a step of one worker has to show. *)
WorkerSteps(w) == [Next]_vars /\ Moves(w)

(* Asking and claiming: from the first read to the permission to submit. *)
LEMMA ClaimingSteps ==
  ASSUME FlowInv, NEW w \in Workers, Reserving(w) \/ Claiming(w) \/ Reclaiming(w)
  PROVE  WorkerSteps(w)
<1> DEFINE self == workers[w]
           s    == [self EXCEPT !.phase = "reserved", !.intent = None]
<1>1. self \in Worker /\ Knows(self)
  BY DEF FlowInv, WorkersKnow
<1>2. CASE Reserving(w)
  <2>1. self.id \in OpId /\ self.cap \in Capabilities /\ self.intent \in Intents
    BY <1>1, <1>2 DEF Knows, Reserving
  <2>2. s \in Worker
    BY <1>1 DEF Worker, Optional, Phases
  <2>3. s.phase = "reserved" /\ s.id = self.id /\ s.cap = self.cap
    BY <1>1 DEF Worker
  <2>4. Knows(s)
    <3> HIDE DEF s
    <3> QED
      BY <2>1, <2>3 DEF Knows
  <2>5. Becomes(w, s) \/ Return(w)
    BY <1>2 DEF Reserving
  <2>6. Moves(w)
    BY <2>2, <2>4, <2>5, ReturnMoves DEF Moves
  <2>7. [Next]_vars
    BY <1>2, <2>1 DEF Reserving, Next, Operate, vars, repository, Resume
  <2> QED
    BY <2>6, <2>7 DEF WorkerSteps
<1>3. CASE Claiming(w)
  <2>0. self.now \in 0 .. MaxTime /\ self.cap \in Capabilities
    BY <1>1, <1>3 DEF Knows, Claiming, Worker
  <2>1. Deadline(self) \in Optional(Deadlines)
    BY <2>0, FlowInputsTyped DEF Deadline, Optional
  <2>2. self.cap.scope \in Optional(Scopes)
    BY <2>0, FlowInputsTyped DEF Declaration
  <2>3. 0 \in 0 .. MaxAttempts
    BY InputsTyped
  <2>4. CASE Granted(w, 0, Deadline(self), self.cap.scope)
    BY <1>3, <2>1, <2>2, <2>3, <2>4, GrantedMoves DEF WorkerSteps, Claiming
  <2>5. CASE Refused(w, 0)
    BY <2>5, ReturnMoves DEF WorkerSteps, Refused, vars, repository
  <2> QED
    BY <1>3, <2>4, <2>5 DEF Claiming
<1>4. CASE Reclaiming(w)
  <2>1. self.seen.attempts \in 0 .. MaxAttempts
    BY <1>1, <1>4 DEF Reclaiming, Knows, SeenRecord
  <2>2. CASE Granted(w, self.seen.attempts, None, None)
    BY <1>4, <2>1, <2>2, GrantedMoves DEF WorkerSteps, Reclaiming, Optional
  <2>3. CASE Refused(w, self.seen.attempts)
    BY <2>3, ReturnMoves DEF WorkerSteps, Refused, vars, repository
  <2> QED
    BY <1>4, <2>2, <2>3 DEF Reclaiming
<1> QED
  BY <1>2, <1>3, <1>4

(* Calling the provider and giving up on its answer. *)
LEMMA CallingSteps ==
  ASSUME FlowInv, NEW w \in Workers, Submit(w) \/ Withhold(w) \/ Unanswered(w)
  PROVE  WorkerSteps(w) /\ EnvironmentTyped'
<1> DEFINE self == workers[w]
           s    == [self EXCEPT !.phase = "calling", !.seen = None, !.cap = None]
           r    == [self EXCEPT !.phase = "answered", !.answer = Bare("unknown")]
<1>1. self \in Worker /\ Knows(self) /\ EnvironmentTyped
  BY DEF FlowInv, WorkersKnow
<1>2. CASE Submit(w)
  <2>1. self.id \in OpId /\ self.cap \in Capabilities /\ self.attempt \in 1 .. MaxAttempts
    BY <1>1, <1>2 DEF Knows, Submit
  <2>2. s \in Worker
    BY <1>1 DEF Worker, Optional, Phases
  <2>3. s.phase = "calling" /\ s.id = self.id /\ s.attempt = self.attempt
    BY <1>1 DEF Worker
  <2>4. Knows(s)
    <3> HIDE DEF s
    <3> QED
      BY <2>1, <2>3 DEF Knows
  <2>5. clock \in Nat /\ ProviderTimeout \in Nat
    <3>1. ProviderTimeout \in Nat /\ MaxTime \in Nat
      BY FlowInputsTyped
    <3> QED
      BY <1>1, <3>1 DEF EnvironmentTyped
  <2>6. wire' \subseteq [id : OpId, attempt : 1 .. MaxAttempts, cap : Capabilities, until : Nat]
    BY <1>1, <1>2, <2>1, <2>5 DEF Submit, EnvironmentTyped
  <2>7. UNCHANGED <<repository, provider, capability, clock, faults>> /\ Becomes(w, s)
    BY <1>2 DEF Submit
  <2>8. EnvironmentTyped'
    BY <1>1, <2>6, <2>7 DEF EnvironmentTyped, ProviderTyped
  <2> QED
    BY <2>2, <2>4, <2>7, <2>8 DEF WorkerSteps, Moves, vars, repository
<1>3. CASE Withhold(w)
  BY <1>1, <1>3, ReturnMoves
  DEF Withhold, OnlyWorkers, WorkerSteps, EnvironmentTyped, ProviderTyped, vars, repository
<1>4. CASE Unanswered(w)
  <2>1. self.id \in OpId /\ self.attempt \in 1 .. MaxAttempts
    BY <1>1, <1>4 DEF Knows, Unanswered
  <2>2. Bare("unknown") \in PluginAnswers /\ Bare("unknown") \in Outcome
    BY BareTyped DEF PluginAnswers, EvidenceStates
  <2>3. r \in Worker
    BY <1>1, <2>2 DEF Worker, Optional, Phases
  <2>4. r.phase = "answered" /\ r.id = self.id /\ r.attempt = self.attempt /\ r.answer = Bare("unknown")
    BY <1>1 DEF Worker
  <2>5. r.attempt # None
    BY <2>1, <2>4, NoneIsNoValue
  <2>6. Knows(r)
    <3> HIDE DEF r
    <3> QED
      BY <2>1, <2>2, <2>4, <2>5 DEF Knows
  <2> QED
    BY <1>1, <1>4, <2>3, <2>6
    DEF Unanswered, OnlyWorkers, WorkerSteps, Moves, EnvironmentTyped, ProviderTyped, vars, repository
<1> QED
  BY <1>2, <1>3, <1>4

(* Recording what the provider said, or that it could not be recorded. *)
LEMMA RecordingSteps ==
  ASSUME FlowInv, NEW w \in Workers,
         Record(w) \/ Inapplicable(w) \/ Retain(w) \/ Drop(w) \/ Finish(w)
  PROVE  WorkerSteps(w)
<1> DEFINE self == workers[w]
           s    == AfterRecording(self, ops'[self.id])
           r    == [self EXCEPT !.phase = "retaining"]
<1>1. self \in Worker /\ Knows(self) /\ RepositoryInv
  BY DEF FlowInv, WorkersKnow
<1>2. CASE Record(w)
  <2>1. self.id \in OpId /\ self.answer \in PluginAnswers
    BY <1>1, <1>2 DEF Knows, Record
  <2>2. Next /\ RepositoryInv'
    BY <1>1, <1>2, <2>1, RecordedSteps, AttemptsStayBounded DEF Record
  <2>3. Becomes(w, s)
    BY <1>2 DEF Record
  <2>4. CASE self.attempt # None
    BY <2>2, <2>3, <2>4, ReturnMoves DEF AfterRecording, Return, WorkerSteps
  <2>5. CASE self.attempt = None
    <3> DEFINE c == [Seen(ops'[self.id]) EXCEPT !.attempts = self.seen.attempts]
               d == [self EXCEPT !.phase = "deciding", !.answer = None, !.seen = c]
    <3>1. self.cap \in Capabilities /\ self.seen \in SeenRecord
      BY <1>1, <1>2, <2>5 DEF Knows, Record
    <3>2. ops[self.id].state # "absent"
      BY <1>2 DEF Record, RecordOutcome, CanPlanOutcome
    <3>3. ops'[self.id].state # "absent"
      BY <1>1, <2>1, <2>2, <3>2, StepGrows DEF Grows, RepositoryInv
    <3>4. Seen(ops'[self.id]) \in SeenRecord
      BY <2>1, <2>2, <3>3, SeenTyped DEF RepositoryInv, IndInv, TypeOK, AttemptsBounded
    <3>5. c \in SeenRecord
      BY <3>1, <3>4 DEF SeenRecord
    <3> HIDE DEF c
    <3>6. d \in Worker
      BY <1>1, <3>5 DEF Worker, Optional, Phases
    <3>7. /\ d.phase = "deciding" /\ d.id = self.id /\ d.cap = self.cap /\ d.seen = c
          /\ d.attempt = self.attempt
      BY <1>1 DEF Worker
    <3>8. s = d
      BY <2>5 DEF AfterRecording, c
    <3> HIDE DEF d, s
    <3>9. Knows(d)
      BY <2>1, <2>5, <3>1, <3>5, <3>7 DEF Knows
    <3> QED
      BY <2>2, <2>3, <3>6, <3>8, <3>9 DEF WorkerSteps, Moves
  <2> QED
    BY <2>4, <2>5
<1>3. CASE Inapplicable(w)
  <2>1. self.id \in OpId
    BY <1>1, <1>3 DEF Knows, Inapplicable
  <2>2. r \in Worker /\ r.phase = "retaining" /\ r.id = self.id
    BY <1>1 DEF Worker, Phases
  <2>3. Knows(r)
    <3> HIDE DEF r
    <3> QED
      BY <2>1, <2>2 DEF Knows
  <2> QED
    BY <1>3, <2>2, <2>3 DEF Inapplicable, OnlyWorkers, WorkerSteps, Moves, vars, repository
<1>4. CASE Retain(w)
  BY <1>1, <1>4, ReturnMoves, FailureSteps DEF Retain, Knows, WorkerSteps
<1>5. CASE Drop(w)
  <2>1. self.id \in OpId /\ CancelledOutcome \in PluginAnswers
    BY <1>1, <1>5 DEF Knows, Drop, CancelledOutcome, PluginAnswers, EvidenceStates
  <2> QED
    BY <1>5, <2>1, ReturnMoves, RecordedSteps DEF Drop, WorkerSteps
<1>6. CASE Finish(w)
  <2>1. self.id \in OpId /\ self.answer \in PluginAnswers
    BY <1>1, <1>6 DEF Knows, Finish
  <2> QED
    BY <1>6, <2>1, ReturnMoves, RecordedSteps, FailureSteps DEF Finish, WorkerSteps
<1> QED
  BY <1>2, <1>3, <1>4, <1>5, <1>6

(* Looking an operation up and deciding about a retry. *)
LEMMA LookupSteps ==
  ASSUME FlowInv, NEW w \in Workers, Query(w) \/ QueryFails(w) \/ DecideRetry(w)
  PROVE  WorkerSteps(w) /\ ProviderTyped'
<1> DEFINE self  == workers[w]
           p     == provider[self.id]
           found == p.verdict # None
           e     == IF found THEN p.verdict ELSE NotFoundState(self.cap)
           s     == [self EXCEPT !.phase = "answered", !.answer = Bare(e)]
           r     == [self EXCEPT !.phase = "reclaiming", !.now = clock]
<1>1. /\ self \in Worker /\ Knows(self) /\ ProviderTyped
      /\ clock \in 0 .. MaxTime
  BY DEF FlowInv, WorkersKnow, EnvironmentTyped
<1>2. CASE Query(w)
  <2>1. /\ self.id \in OpId /\ self.attempt = None
        /\ self.cap \in Capabilities /\ self.seen \in SeenRecord
    BY <1>1, <1>2 DEF Knows, Query
  <2>2. p \in ProviderRecord
    BY <1>1, <2>1 DEF ProviderTyped
  <2>3. e \in EvidenceStates
    BY <2>2 DEF ProviderRecord, Optional, NotFoundState, EvidenceStates, TerminalStates
  <2> HIDE DEF e, found
  <2>4. Bare(e) \in PluginAnswers /\ Bare(e) \in Outcome
    BY <2>3, BareTyped DEF PluginAnswers
  <2>5. s \in Worker
    BY <1>1, <2>4 DEF Worker, Optional, Phases
  <2>6. /\ s.phase = "answered" /\ s.id = self.id /\ s.attempt = self.attempt
        /\ s.answer = Bare(e) /\ s.cap = self.cap /\ s.seen = self.seen
    BY <1>1 DEF Worker
  <2>7. Becomes(w, s) /\ UNCHANGED repository
    BY <1>2 DEF Query, e, found
  <2> HIDE DEF s
  <2>8. Knows(s)
    BY <2>1, <2>4, <2>6 DEF Knows
  <2>9. ProviderTyped'
    <3> DEFINE q == [p EXCEPT !.verdict = "rejected"]
    <3>1. provider' = provider \/ provider' = [provider EXCEPT ![self.id] = q]
      BY <1>1, <1>2, <2>1 DEF Query, ProviderTyped
    <3>2. q \in ProviderRecord /\ q.verdict = "rejected"
      BY <2>2 DEF ProviderRecord, Optional, EvidenceStates, TerminalStates
    <3>3. "rejected" # None
      BY FlowInputsTyped DEF EvidenceStates, TerminalStates
    <3> HIDE DEF q, p
    <3> QED
      BY <1>1, <2>1, <3>1, <3>2, <3>3 DEF ProviderTyped
  <2> QED
    BY <2>5, <2>7, <2>8, <2>9 DEF WorkerSteps, Moves, vars, repository
<1>3. CASE QueryFails(w)
  BY <1>1, <1>3, ReturnMoves DEF QueryFails, OnlyWorkers, WorkerSteps, ProviderTyped, vars, repository
<1>4. CASE DecideRetry(w)
  <2>1. /\ self.id \in OpId /\ self.attempt = None
        /\ self.cap \in Capabilities /\ self.seen \in SeenRecord
    BY <1>1, <1>4 DEF Knows, DecideRetry
  <2>2. r \in Worker
    BY <1>1 DEF Worker, Phases
  <2>3. /\ r.phase = "reclaiming" /\ r.id = self.id /\ r.attempt = self.attempt
        /\ r.cap = self.cap /\ r.seen = self.seen
    BY <1>1 DEF Worker
  <2>4. Becomes(w, r) \/ Return(w)
    BY <1>4 DEF DecideRetry
  <2>5. UNCHANGED repository /\ ProviderTyped'
    BY <1>1, <1>4 DEF DecideRetry, OnlyWorkers, ProviderTyped
  <2> HIDE DEF r
  <2>6. Knows(r)
    BY <2>1, <2>3 DEF Knows
  <2> QED
    BY <2>2, <2>4, <2>5, <2>6, ReturnMoves DEF WorkerSteps, Moves, vars, repository
<1> QED
  BY <1>2, <1>3, <1>4

(* Calls that begin, and what is heard of the provider meanwhile. *)
LEMMA CallSteps ==
  ASSUME FlowInv, NEW w \in Workers, Call(w) \/ Apply(w)
  PROVE  WorkerSteps(w) /\ UNCHANGED <<wire, provider, capability, clock, faults>>
<1>1. /\ workers[w] \in Worker /\ Knows(workers[w]) /\ RepositoryInv
      /\ capability \in Capabilities /\ clock \in 0 .. MaxTime
      /\ ops \in [OpId -> OperationRecord]
  BY DEF FlowInv, WorkersKnow, EnvironmentTyped, RepositoryInv, IndInv, TypeOK
<1>2. Idle \in Worker
  <2>1. MaxTime \in Nat
    BY FlowInputsTyped
  <2>2. "idle" \in Phases
    BY DEF Phases
  <2> QED
    BY <2>1, <2>2 DEF Idle, Worker, Optional
<1>3. ASSUME NEW i \in Intents, Execute(w, i)
      PROVE  WorkerSteps(w) /\ UNCHANGED <<wire, provider, capability, clock, faults>>
  <2> DEFINE s == [Idle EXCEPT !.phase = "asking", !.intent = i, !.id = i.id,
                               !.cap = capability, !.now = clock]
  <2>1. i \in Intent /\ i.id \in OpId
    BY InputsTyped DEF Intent
  <2>2. s \in Worker
    BY <1>1, <1>2, <2>1 DEF Worker, Optional, Phases
  <2>3. s.phase = "asking" /\ s.intent = i /\ s.id = i.id /\ s.cap = capability
    BY <1>2 DEF Worker
  <2>4. Becomes(w, s) /\ OnlyWorkers
    BY <1>3 DEF Execute
  <2> HIDE DEF s
  <2>5. Knows(s)
    BY <1>1, <2>1, <2>3 DEF Knows
  <2> QED
    BY <2>2, <2>4, <2>5 DEF WorkerSteps, Moves, OnlyWorkers, vars, repository
<1>4. ASSUME NEW id \in OpId, Reconcile(w, id)
      PROVE  WorkerSteps(w) /\ UNCHANGED <<wire, provider, capability, clock, faults>>
  <2> DEFINE p == IF capability.lookup = "unsupported" THEN "deciding" ELSE "querying"
             s == [Idle EXCEPT !.phase = p, !.id = id, !.cap = capability, !.seen = Seen(ops[id])]
  <2>1. ops[id].state # "absent"
    BY <1>1, <1>4
    DEF Reconcile, Recoverable, Unresolved, RepositoryInv, FreeIsEmpty, Absent, Active,
        ActiveStates, ResponsePending
  <2>2. Seen(ops[id]) \in SeenRecord
    BY <1>1, <2>1, SeenTyped DEF RepositoryInv, AttemptsBounded
  <2>3. p \in {"deciding", "querying"}
    OBVIOUS
  <2>4. Becomes(w, s) /\ OnlyWorkers
    BY <1>4 DEF Reconcile
  <2> HIDE DEF p
  <2>5. s \in Worker
    BY <1>1, <1>2, <2>2, <2>3 DEF Worker, Optional, Phases
  <2>6. s.phase = p /\ s.id = id /\ s.cap = capability /\ s.seen = Seen(ops[id]) /\ s.attempt = None
    BY <1>2 DEF Worker, Idle
  <2> HIDE DEF s
  <2>7. Knows(s)
    BY <1>1, <2>2, <2>3, <2>6 DEF Knows
  <2> QED
    BY <2>4, <2>5, <2>7 DEF WorkerSteps, Moves, OnlyWorkers, vars, repository
<1>5. ASSUME NEW u \in Observations, Hear(w, u)
      PROVE  WorkerSteps(w) /\ UNCHANGED <<wire, provider, capability, clock, faults>>
  <2> DEFINE s == [Idle EXCEPT !.phase = "noticed", !.answer = u]
  <2>1. u \in Observation
    BY InputsTyped
  <2>2. s \in Worker /\ s.phase = "noticed" /\ s.answer = u
    BY <1>2, <2>1 DEF Worker, Optional, Phases
  <2>3. Becomes(w, s) /\ OnlyWorkers
    BY <1>5 DEF Hear
  <2> HIDE DEF s
  <2>4. Knows(s)
    BY <2>2 DEF Knows
  <2> QED
    BY <2>2, <2>3, <2>4 DEF WorkerSteps, Moves, OnlyWorkers, vars, repository
<1>6. CASE Apply(w)
  <2>1. workers[w].answer \in Observations
    BY <1>1, <1>6 DEF Knows, Apply
  <2>2. Next
    BY <1>6, <2>1 DEF Apply, Next, Notice
  <2> QED
    BY <1>6, <2>2, ReturnMoves DEF Apply, LocalStep, WorkerSteps
<1> QED
  BY <1>3, <1>4, <1>5, <1>6 DEF Call

(* Faults: whatever was written or lost, the worker knows what it needs. *)
LEMMA InterruptSteps ==
  ASSUME FlowInv, NEW w \in Workers, Interrupt(w)
  PROVE  WorkerSteps(w) /\ UNCHANGED <<wire, provider, capability, clock>> /\ Fault
<1> DEFINE self == workers[w]
           At(p) == [self EXCEPT !.phase = p]
           m == [self EXCEPT !.phase = "answered",
                             !.answer = [Bare("unknown") EXCEPT !.settled = 1]]
<1>1. self \in Worker /\ Knows(self)
  BY DEF FlowInv, WorkersKnow
<1>2. CASE Crash(w)
  BY <1>2, ReturnMoves DEF Crash, WorkerSteps, vars, repository
<1>3. ASSUME Attempted(w), self.id \in OpId, self.answer \in PluginAnswers
      PROVE  [Next]_vars
  BY <1>3, RecordedSteps DEF Attempted, vars, repository
<1>4. ASSUME NEW p \in Phases
      PROVE  /\ At(p) \in Worker /\ At(p).phase = p /\ At(p).id = self.id
             /\ At(p).answer = self.answer /\ At(p).attempt = self.attempt
  BY <1>1 DEF Worker
<1>5. CASE WriteFails(w)
  <2>1. self.id \in OpId /\ self.answer \in PluginAnswers /\ "retaining" \in Phases
    BY <1>1, <1>5 DEF Knows, WriteFails, Phases
  <2>2. At("retaining") \in Worker /\ Knows(At("retaining"))
    <3> HIDE DEF At
    <3> QED
      BY <1>4, <2>1 DEF Knows
  <2> QED
    BY <1>3, <1>5, <2>1, <2>2 DEF WriteFails, WorkerSteps, Moves
<1>6. CASE CancelWait(w)
  <2>1. self.id \in OpId /\ self.attempt \in 1 .. MaxAttempts /\ "dropped" \in Phases
    BY <1>1, <1>6 DEF Knows, CancelWait, Phases
  <2>2. At("dropped") \in Worker /\ Knows(At("dropped"))
    <3> HIDE DEF At
    <3> QED
      BY <1>4, <2>1 DEF Knows
  <2> QED
    BY <1>6, <2>1, <2>2 DEF CancelWait, WorkerSteps, Moves, vars, repository
<1>7. CASE CancelWrite(w)
  <2>1. self.id \in OpId /\ self.answer \in PluginAnswers /\ "finishing" \in Phases
    BY <1>1, <1>7 DEF Knows, CancelWrite, Phases
  <2>2. At("finishing") \in Worker /\ Knows(At("finishing"))
    <3> HIDE DEF At
    <3> QED
      BY <1>4, <2>1 DEF Knows
  <2> QED
    BY <1>3, <1>7, <2>1, <2>2 DEF CancelWrite, WorkerSteps, Moves
<1>8. CASE Malformed(w)
  <2>1. /\ self.id \in OpId
        /\ self.attempt # None \/ (self.cap \in Capabilities /\ self.seen \in SeenRecord)
    <3>1. self.phase = "calling" => self.attempt \in 1 .. MaxAttempts
      BY <1>1 DEF Knows
    <3>2. self.phase = "querying" => self.cap \in Capabilities /\ self.seen \in SeenRecord
      BY <1>1 DEF Knows
    <3>3. self.phase = "calling" \/ self.phase = "querying"
      BY <1>8 DEF Malformed
    <3>4. self.id \in OpId
      BY <1>1, <3>3 DEF Knows
    <3> HIDE DEF self
    <3> QED
      BY <3>1, <3>2, <3>3, <3>4, NoneIsNoValue
  <2> DEFINE a == [Bare("unknown") EXCEPT !.settled = 1]
  <2>2. a \in PluginAnswers /\ a \in Outcome
    BY PluginAnswersTyped DEF PluginAnswers
  <2> HIDE DEF a
  <2>3. m \in Worker
    BY <1>1, <2>2 DEF Worker, Optional, Phases, a
  <2>4. /\ m.phase = "answered" /\ m.id = self.id /\ m.attempt = self.attempt
        /\ m.answer = a /\ m.cap = self.cap /\ m.seen = self.seen
    BY <1>1 DEF Worker, a
  <2>5. Becomes(w, m) /\ UNCHANGED <<repository, wire, provider, capability, clock>> /\ Fault
    BY <1>8 DEF Malformed
  <2> HIDE DEF m
  <2>6. Knows(m)
    BY <2>1, <2>2, <2>4 DEF Knows
  <2> QED
    BY <2>3, <2>5, <2>6 DEF WorkerSteps, Moves, vars, repository
<1> QED
  BY <1>2, <1>5, <1>6, <1>7, <1>8
  DEF Interrupt, Crash, WriteFails, CancelWait, CancelWrite, Malformed

(* A fault is counted within its bound. *)
LEMMA FaultTyped ==
  ASSUME faults \in 0 .. MaxFaults, Fault
  PROVE  faults' \in 0 .. MaxFaults
<1>1. MaxFaults \in Nat
  BY FlowInputsTyped
<1> QED
  BY <1>1 DEF Fault

(* An answer reaches the worker that waits for it, or nobody. *)
LEMMA AnsweringKnows ==
  ASSUME WorkersKnow, NEW call, NEW e \in EvidenceStates, Answering(call, e)
  PROVE  WorkersKnow'
<1>1. CASE UNCHANGED workers
  BY <1>1 DEF WorkersKnow
<1>2. ASSUME NEW w \in Workers, workers[w].phase = "calling",
             Becomes(w, [workers[w] EXCEPT !.phase = "answered", !.answer = Bare(e)])
      PROVE  WorkersKnow'
  <2> DEFINE self == workers[w]
             r    == [self EXCEPT !.phase = "answered", !.answer = Bare(e)]
  <2>1. /\ self \in Worker /\ self.id \in OpId /\ self.attempt \in 1 .. MaxAttempts
    BY <1>2 DEF WorkersKnow, Knows
  <2>2. Bare(e) \in PluginAnswers /\ Bare(e) \in Outcome
    BY BareTyped DEF PluginAnswers
  <2>3. r \in Worker
    BY <2>1, <2>2 DEF Worker, Optional, Phases
  <2>4. /\ r.phase = "answered" /\ r.id = self.id /\ r.attempt = self.attempt
        /\ r.answer = Bare(e)
    BY <2>1 DEF Worker
  <2>5. Becomes(w, r)
    BY <1>2
  <2> HIDE DEF r
  <2>6. Knows(r)
    BY <2>1, <2>2, <2>4, NoneIsNoValue DEF Knows
  <2> QED
    BY <2>3, <2>5, <2>6, MovesKnow DEF Moves
<1> QED
  BY <1>1, <1>2 DEF Answering

(* The provider takes a request or repeats what it said about it. *)
LEMMA ArriveTyped ==
  ASSUME FlowInv, NEW call \in wire, Arrive(call)
  PROVE  WorkersKnow' /\ ProviderTyped'
<1> DEFINE p   == provider[call.id]
           key == {[scope |-> s, until |-> clock + Retention[s]] : s \in {call.cap.scope} \ {None}}
           Taken(v) == [taken |-> p.taken + 1, verdict |-> v, keys |-> p.keys \cup key]
<1>1. /\ call.id \in OpId /\ call.cap \in Capabilities /\ clock \in Nat
      /\ ProviderTyped /\ WorkersKnow
  BY DEF FlowInv, EnvironmentTyped
<1>2. p \in ProviderRecord /\ (p.keys # {} => p.verdict # None)
  BY <1>1 DEF ProviderTyped
<1>3. {"rejected", "succeeded", "provider_pending"} \subseteq EvidenceStates \ {"unknown"}
  BY DEF EvidenceStates, TerminalStates
<1>4. CASE Repeat(call)
  <2>1. p.verdict \in EvidenceStates
    BY <1>2, <1>3, <1>4 DEF Repeat, Excluded, MayRecognize, ProviderRecord, Optional
  <2> QED
    BY <1>1, <1>4, <2>1, AnsweringKnows DEF Repeat, ProviderTyped
<1>5. ASSUME NEW v \in Verdicts, Take(call, v)
      PROVE  WorkersKnow' /\ ProviderTyped'
  <2>1. v \in EvidenceStates \ {"unknown"}
    BY <1>3, FlowInputsTyped
  <2>2. key \subseteq [scope : Scopes, until : Nat]
    <3>1. SUFFICES ASSUME call.cap.scope # None
                   PROVE  call.cap.scope \in Scopes /\ clock + Retention[call.cap.scope] \in Nat
      OBVIOUS
    <3>2. call.cap \in Declaration
      BY <1>1, FlowInputsTyped
    <3>3. call.cap.scope \in Scopes /\ Retention[call.cap.scope] \in Nat
      BY <3>1, <3>2, FlowInputsTyped DEF Declaration, Optional
    <3> QED
      BY <1>1, <3>3
  <2> HIDE DEF key
  <2>3. Taken(v) \in ProviderRecord /\ Taken(v).verdict = v
    BY <1>2, <2>1, <2>2 DEF ProviderRecord, Optional
  <2>4. provider' = [provider EXCEPT ![call.id] = Taken(v)] /\ Answering(call, v)
    BY <1>5 DEF Take, key
  <2>5. v # None
    BY <2>1, FlowInputsTyped
  <2> HIDE DEF Taken, p
  <2>6. ProviderTyped'
    BY <1>1, <2>3, <2>4, <2>5 DEF ProviderTyped
  <2> QED
    BY <1>1, <2>1, <2>4, <2>6, AnsweringKnows
<1> QED
  BY <1>4, <1>5 DEF Arrive

(* The environment changes nothing in the repository. *)
LEMMA EnvironmentSteps ==
  ASSUME FlowInv, Environment
  PROVE  UNCHANGED repository /\ WorkersKnow' /\ EnvironmentTyped'
<1>1. EnvironmentTyped /\ ProviderTyped /\ WorkersKnow
  BY DEF FlowInv, EnvironmentTyped
<1>2. ASSUME NEW call \in wire, Arrive(call)
      PROVE  UNCHANGED repository /\ WorkersKnow' /\ EnvironmentTyped'
  <2>1. WorkersKnow' /\ ProviderTyped'
    BY <1>2, ArriveTyped
  <2> QED
    BY <1>1, <1>2, <2>1 DEF Arrive, EnvironmentTyped
<1>3. ASSUME NEW id \in OpId, NEW v \in {"succeeded", "rejected"}, Settle(id, v)
      PROVE  UNCHANGED repository /\ WorkersKnow' /\ EnvironmentTyped'
  <2> DEFINE p == provider[id]
             q == [p EXCEPT !.verdict = v]
  <2>1. v \in EvidenceStates \ {"unknown"}
    BY DEF EvidenceStates, TerminalStates
  <2>2. p \in ProviderRecord
    BY <1>1 DEF ProviderTyped
  <2>3. q \in ProviderRecord /\ q.verdict = v /\ v # None
    BY <2>1, <2>2, FlowInputsTyped DEF ProviderRecord, Optional
  <2>4. provider' = [provider EXCEPT ![id] = q]
    BY <1>1, <1>3 DEF Settle, ProviderTyped
  <2> HIDE DEF p, q
  <2>5. ProviderTyped'
    BY <1>1, <2>3, <2>4 DEF ProviderTyped
  <2> QED
    BY <1>1, <1>3, <2>5 DEF Settle, EnvironmentTyped, WorkersKnow
<1>4. ASSUME NEW cap \in Capabilities, Deploy(cap)
      PROVE  UNCHANGED repository /\ WorkersKnow' /\ EnvironmentTyped'
  BY <1>1, <1>4, FaultTyped DEF Deploy, EnvironmentTyped, ProviderTyped, WorkersKnow
<1>5. CASE Tick
  <2>1. clock' \in 0 .. MaxTime
    BY <1>1, <1>5, FlowInputsTyped DEF Tick, EnvironmentTyped
  <2> QED
    BY <1>1, <1>5, <2>1 DEF Tick, EnvironmentTyped, ProviderTyped, WorkersKnow
<1> QED
  BY <1>2, <1>3, <1>4, <1>5 DEF Environment

(* Every step of the flow is a step of the repository or leaves it alone. *)
LEMMA FlowSteps ==
  ASSUME FlowInv, [FlowNext]_flowVars
  PROVE  [Next]_vars /\ FlowInv'
<1>1. RepositoryInv /\ WorkersKnow /\ EnvironmentTyped
  BY DEF FlowInv
<1>2. ASSUME [Next]_vars PROVE RepositoryInv'
  BY <1>1, <1>2, AttemptsStayBounded
<1>3. ASSUME NEW w \in Workers, WorkerSteps(w), EnvironmentTyped'
      PROVE  [Next]_vars /\ FlowInv'
  BY <1>1, <1>2, <1>3, MovesKnow DEF WorkerSteps, FlowInv
<1>4. ASSUME UNCHANGED <<wire, provider, capability, clock>>, faults' \in 0 .. MaxFaults
      PROVE  EnvironmentTyped'
  BY <1>1, <1>4 DEF EnvironmentTyped, ProviderTyped
<1>5. faults \in 0 .. MaxFaults
  BY <1>1 DEF EnvironmentTyped
<1>6. ASSUME NEW w \in Workers, Call(w)
      PROVE  [Next]_vars /\ FlowInv'
  BY <1>3, <1>4, <1>5, <1>6, CallSteps
<1>7. ASSUME NEW w \in Workers, Advance(w)
      PROVE  [Next]_vars /\ FlowInv'
  <2>1. CASE Submit(w) \/ Withhold(w) \/ Unanswered(w)
    BY <1>3, <2>1, CallingSteps
  <2>2. CASE Reserving(w) \/ Claiming(w) \/ Reclaiming(w)
    BY <1>3, <1>4, <1>5, <2>2, ClaimingSteps DEF Reserving, Claiming, Reclaiming, LocalStep
  <2>3. CASE Record(w) \/ Inapplicable(w) \/ Retain(w) \/ Drop(w) \/ Finish(w)
    <3>1. UNCHANGED <<wire, provider, capability, clock>> /\ (UNCHANGED faults \/ Fault)
      BY <2>3 DEF Record, Inapplicable, Retain, Drop, Finish, LocalStep, OnlyWorkers
    <3> QED
      BY <1>3, <1>4, <1>5, <2>3, <3>1, RecordingSteps, FaultTyped
  <2>4. CASE DecideRetry(w)
    BY <1>3, <1>4, <1>5, <2>4, LookupSteps DEF DecideRetry, OnlyWorkers
  <2>5. CASE Apply(w)
    BY <1>3, <1>4, <1>5, <2>5, CallSteps
  <2> QED
    BY <1>7, <2>1, <2>2, <2>3, <2>4, <2>5 DEF Advance
<1>8. ASSUME NEW w \in Workers, Query(w) \/ QueryFails(w)
      PROVE  [Next]_vars /\ FlowInv'
  <2>1. WorkerSteps(w) /\ ProviderTyped'
    BY <1>8, LookupSteps
  <2>2. UNCHANGED <<wire, capability, clock, faults>>
    BY <1>8 DEF Query, QueryFails, OnlyWorkers
  <2> QED
    BY <1>1, <1>3, <2>1, <2>2 DEF EnvironmentTyped
<1>9. ASSUME NEW w \in Workers, Interrupt(w)
      PROVE  [Next]_vars /\ FlowInv'
  BY <1>3, <1>4, <1>5, <1>9, InterruptSteps, FaultTyped
<1>10. CASE Environment
  BY <1>1, <1>2, <1>10, EnvironmentSteps DEF FlowInv, vars, repository
<1>11. CASE UNCHANGED flowVars
  <2>1. UNCHANGED vars
    BY <1>11 DEF flowVars, repository, vars
  <2> QED
    BY <1>1, <1>2, <1>4, <1>5, <1>11, <2>1 DEF flowVars, FlowInv, WorkersKnow
<1> QED
  BY <1>6, <1>7, <1>8, <1>9, <1>10, <1>11 DEF FlowNext

(* The flow opens a payment on which nothing was ever asked. *)
LEMMA FlowOpens == FlowInit => FlowInv
<1> SUFFICES ASSUME FlowInit PROVE FlowInv
  OBVIOUS
<1>1. Init
  BY DEF FlowInit
<1>2. MaxAttempts \in Nat /\ MaxTime \in Nat /\ MaxFaults \in Nat
  BY InputsTyped, FlowInputsTyped
<1>3. RepositoryInv
  BY <1>1, <1>2, InitIndInv DEF RepositoryInv, Init, FreeIsEmpty, AttemptsBounded, Absent
<1>4. Idle \in Worker /\ Knows(Idle)
  <2>1. Idle \in Worker
    BY <1>2 DEF Idle, Worker, Optional, Phases
  <2> QED
    BY <2>1 DEF Knows, Idle
<1>5. WorkersKnow
  BY <1>4 DEF FlowInit, WorkersKnow
<1>6. Untouched \in ProviderRecord /\ Untouched.keys = {}
  BY DEF Untouched, ProviderRecord, Optional
<1>7. EnvironmentTyped
  BY <1>2, <1>6 DEF FlowInit, EnvironmentTyped, ProviderTyped
<1> QED
  BY <1>3, <1>5, <1>7 DEF FlowInv

(* The invariant of the flow. *)
THEOREM FlowInvariant == FlowSpec => []FlowInv
BY FlowOpens, FlowSteps, PTL DEF FlowSpec

(* Every worker, request and provider record keeps its declared shape,     *)
(* whatever times out, crashes or is deployed anew in between.             *)
THEOREM FlowTypeCorrect == FlowSpec => []FlowTypeOK
<1>1. FlowInv => FlowTypeOK
  BY DEF FlowInv, FlowTypeOK, RepositoryInv, IndInv, WorkersKnow, Worker, SeenRecord,
         EnvironmentTyped, ProviderTyped, ProviderRecord
<1> QED
  BY <1>1, FlowInvariant, PTL

(* The flow works on the repository through its operations only, with      *)
(* arguments of the declared kinds: seen from the repository, commands,    *)
(* retries, callbacks and crashes are just callers.                        *)
THEOREM FlowImplementsRepository == FlowSpec => Spec
<1>1. FlowInit => Init
  BY DEF FlowInit
<1> QED
  BY <1>1, FlowInvariant, FlowSteps, PTL DEF FlowSpec, Spec

(* So a retry of the flow repeats the request it retries. *)
THEOREM FlowKeepsReservations == FlowSpec => ReservationIsFrozen
BY FlowImplementsRepository, ReservationsStayFrozen

=============================================================================
