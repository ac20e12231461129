# Verification of getpaid-core

TLA+ models of `python-getpaid-core`, the framework-neutral payment engine under
`src/getpaid_core`, with TLC runs on small instances and TLAPS proofs for every
instance. Line numbers refer to the commit this directory belongs to.

Contents: [inventory](#inventory), [modules](#modules), [the repository](#the-repository),
[the durable flow](#the-durable-flow), [recorded money](#recorded-money),
[registry](#registry), [legacy flow and migration](#legacy-flow-and-migration),
[runs](#runs), [proofs](#proofs), [findings](#findings),
[not modelled](#not-modelled), [plan](#plan).

## Inventory

| Part | State it keeps | Operations | What makes it hard | What makes it correct |
|---|---|---|---|---|
| State engine: `fsm.py`, `_amounts.py`, `enums.py` | none; it rewrites one payment: amounts, status, fraud verdict, provider handle, applied events | `apply_payment_update`, `project_payment_status`, eligibility rules | updates carry cumulative totals and event labels that may be old, repeated or disagree | balances stay possible, totals do not go back, the status is a projection of the money |
| Durable planners: `durable/rules.py`, `evidence.py`, `resolution.py`, `records.py` | none; a plan is a pure function of facts, history and input | `plan_reservation`, `plan_submission`, `plan_outcome`, `plan_observation`, `plan_operation_failure`, `plan_resolution` | the same money is reported by responses, callbacks, increments and totals, in any order and contradictorily; a cancelled refund may still run | one mutation at a time, money counted once, evidence kept, later intents keep their baselines |
| Durable repository: `durable/memory.py`, contract in `repository.py` | facts, operations and replay log per payment, a lock per payment | the planners' commits, `get_*` and `list_*` reads | callers are unordered; an operator decides on reads made earlier | facts and history are committed together; a stale decision is refused |
| Durable payment flow: `durable/flow.py`, `provider.py` | none of its own; workers hold a claimed operation across provider calls | `execute_operation`, `reconcile_operation`, callbacks, polling | timeouts, task cancellation, failing writes, a closing idempotency window, a lookup racing a submission, redeployment | no second execution, nothing claimed is lost, refusals are true, everything is decided in the end |
| Compare-and-set retry: `commit_semantic_transition` in `repository.py` | none | replan and commit, up to `attempts` times | every attempt may lose | applied once or reported |
| Recorded money: `recorded_money.py` | append-only history of manual entries | `plan_recorded_money` | corrections of earlier entries, clocks that differ, concurrent recorders | every prefix of the history asserts possible money |
| Registry: `registry.py` | backends, discovery flag, a re-entrant lock | register, unregister, discover, look up | lazy discovery by several threads, plugins that fail half way | no half-filled answer, one class per slug |
| Legacy flow: `flow.py` | the stored payment; each task works on its own copy | create, prepare, charge, release, refund, callbacks | two copies of one payment across an await, failing saves | the books never overstate, moved money is known or alarmed about |
| Migration: `durable/migration.py` | none | `plan_migration` | rows may be ambiguous or mid-operation; the provider goes on | such rows take no commands, old notices do no harm |
| Provider side: `processor.py`, `backends/` | the provider | submit, look up, parse callbacks | not ours | environment of the models |

Interaction: an application command goes through the durable flow, which reserves
the operation in the repository, claims its submission, calls the processor and
records the answer. Callbacks and polling enter through the same repository as
observations. Operators read unresolved work and commit decisions. Everything the
repository stores was planned by `rules.py`, which in turn runs the state engine on
a throw-away view of the facts. The legacy flow runs the state engine on the payment
object itself; the migration turns that payment into the repository's facts.
`PROJECT.json` lists each hard behaviour at its line.

## Modules

| Module | Models | Builds on |
|---|---|---|
| `PaymentFsm` | state engine, as operators | |
| `DurableRules` | planners, as operators | `PaymentFsm` |
| `DurableRepository` | the repository as a state machine | `DurableRules` |
| `DurableRepositoryProofs` | theorems: types and balances, what a record keeps, who excludes whom | `DurableRepository` |
| `PaymentFactsProofs` | theorems: status, captures, handles | `DurableRepositoryProofs` |
| `CommandContract` | abstract: what an application may rely on about its commands | |
| `DurableFlow` | workers, provider, clock and faults over the repository; implements `CommandContract` | `DurableRepository` |
| `DurableFlowProofs` | theorems: the flow implements the repository | `DurableFlow`, `DurableRepositoryProofs` |
| `DurableContractProofs` | theorems: one execution, true refusals, `CommandContract`, books against provider | `DurableFlowProofs`, `PaymentFactsProofs` |
| `RecordedMoney` | recorded money and the compare-and-set retry | `PaymentFsm` |
| `SumTheorems` | lemmas about sums over finite sets, by induction | |
| `RecordedMoneyProofs` | theorems about recorded money | `RecordedMoney`, `SumTheorems` |
| `Registry` | plugin registry | |
| `RegistryProofs` | theorems about it | `Registry` |
| `PaymentFlow` | the released flow with its provider | `PaymentFsm` |
| `Migration` | released flow, cutover and repository in one history | `PaymentFlow`, `DurableRepository` |
| `MigrationProofs` | theorems: the released flow, the cutover and what follows | `Migration`, `PaymentFactsProofs` |
| `MC...` | the inputs of the runs | the module it is named for |

Conventions. `Can...` holds when the code raises nothing, `After...` or `...Plan` is
what it then leaves. A call that raises before it changed anything is no step. Amounts
are whole units (the code compares and adds `Decimal`s, it never divides or rounds
them). One payment and one backend: every identity of the code is scoped by both.
Free text, provider metadata, validators and logging are left out: nothing decides on
them. Definitions commented "Mutant of X" are plausible mistakes in `X` that a checked
property is sensitive to; no specification uses them.

## The repository

Variables `facts`, `ops`, `replay` are the three dictionaries of `memory.py` at one
payment; an identity never reserved is `Absent`; `review` is what each operator last
read, of any operation on record, listed as unresolved or not. One action per repository operation, atomic because the operation holds the
payment's lock for its whole body. Audit fields of a decision (who, why, when) are
part of its identity. A repeated resolution identity commits what is stored and is
left out. `conflicts`, `disputes` and `recovery` are sets because the code never adds
an equal entry twice.

## The durable flow

`workers[w]` is a call in progress: its phase names the await it is suspended at, the
other fields are the local variables the code still needs. Everything between two
awaits is one action, so the provider, the clock, another worker, a cancellation or
the death of the process may come in at each of them.

| Code | Actions |
|---|---|
| `execute_operation` | `Execute`, `Reserving`, `Claiming`, then `_submit` |
| `_submit` | `Submit` or `Withhold` (window closed); `Unanswered` (timeout, broken connection) |
| `_record_evidence` | `Record`; `Inapplicable`, `WriteFails` and then `Retain`; `Malformed` answers |
| cancellation and `_cleanup` | `CancelWait` and `Drop`; `CancelWrite` and `Finish` (the outcome again, or its evidence when that is refused or fails); `Crash` when there is no cleanup or it is stopped |
| `reconcile_operation` | `Reconcile`, `Query` or `QueryFails`, `Record`, `DecideRetry`, `Reclaiming`, `_submit` |
| `handle_callback`, `fetch_and_update_status` | `Hear`, `Apply` |

A failing or cancelled write may have landed all the same (`Attempted`): the
documentation says of it "failed acknowledgement does not prove that either local write
rolled back" (`docs/durable-storage.md`, recovery section).

The provider (`Take`, `Repeat`, `Settle`, `Query`) is honest about the declaration its
plugin makes, and no better. It executes an instruction in full or not at all. It
recognizes a repeated key of one scope for `Retention` of that scope, and declarations name
a window of at most that; afterwards it may recognize the key or not.
It excludes later execution only when it declares an absence authoritative. Requests and
answers get lost. A request that has not arrived when its call timed out never arrives:
the documentation obliges plugins to "honor the request timeout" and the application to
share one accurate clock. `clock` is that clock: `now` plus the time the code measures.
`Deploy` replaces the declaration at any time, also between an attempt and its retry.

What the application may rely on is `CommandContract`: a command runs at most once, is
reported done only if it ran, refused only if it did not and will not, and no command
is let in while another is open. The refinement maps `runs` to what the provider
executed and `known` to the state on record; `KeepsPromise` is the implementation
check. `TakenAtMostOnce` is stronger in one respect: it also counts instructions a
provider took and then turned down.

Fairness (`FairFlowSpec`), used for `SubmissionsAreDecided` only:
weak fairness of each worker's own steps (asyncio drops no task, and every wait in the
flow is bounded by a timeout); strong fairness of `Reconcile` for each operation on the
list of unresolved ones and of answered queries (core has no scheduler, so the
application has to come back; the documentation tells it to list and to reconcile); weak
fairness of `Settle` (a provider ends what it accepted). No fairness of crashes,
deliveries or the clock. The run also fixes a provider that can always tell, because for
the others the documentation promises nothing: an operation in restricted mode stays
uncertain until an operator decides.

## Recorded money

The core stores nothing: the model's store is what `docs/recorded-money.md` asks of an
adapter, reading facts and complete history together and committing entry and facts
together unless another commit came first. `calls` holds, per caller, the plan it is about to commit, as the
version of the history it was made for. `Replan` is the body of the retry loop. Each
plan reads one of `Times`, so clocks differ between callers and between attempts.
`LedgerAddsUp` counts the uncorrected movements afresh, for every prefix of the history,
instead of the code's running sums.

## Registry

One action per step between which a thread may be preempted: the unlocked look at
`_discovered`, taking the lock, the second look, each entry point, placing a class,
finishing. The lock is re-entrant and only ever nested by its owner, so its owner is all
its state. `withdrawn` remembers what was unregistered since the last discovery, because
a late query must neither miss a plugin nor bring back a removed one. `get_by_slug`
reads without the lock, the other queries on a snapshot. Fairness: the interpreter runs
every thread that can run; each thread makes finitely many calls, so a waiting one gets
the lock.

## Legacy flow and migration

`row` is the stored payment, `tasks[t].payment` the copy a task works on. Applying an
answer and saving are one action, because the answer is applied to the task's own copy.
The model does not share one payment object between tasks. The provider captures at once
or later, declines, refunds in parts, and reports later settlements by cumulative
notices, each of which may arrive any number of times and in any order, before and after
the cutover. `trouble` records why nobody may rely on the totals being complete:
calls that overlapped (`overlap`), calls that never returned (`abandoned`),
`ReconciliationRequiredError` (`alarm`), another error (`failure`), and a charge
that was added to a total lacking an earlier settlement (`mixed`). `MovedMoneyIsKnown`
shows that outside these money is never forgotten, even when saving a notice failed. It
speaks about notices only: a poll would heal more.

`Migration` stops the tasks, maps the row and lets only the durable repository write from
then on. One of the openings is a row whose hold was not consumed by its partial
capture, so that an ambiguous record exists.

## Runs

| Run | Question | Bounds | Properties |
|---|---|---|---|
| `commands` | do local commands interfere, is a refund lost or doubled around its cancellation? | an authorized or a paid payment of 2; captures, refunds, a release, a cancellation; answers pending, succeeded (whole or 1), rejected, in any order and repeated | `OneMutationAtATime`, `MoneyIsCountedOnce`, `RefundsAreCounted`, `ConfirmedEffectsStand` |
| `callbacks` | do callbacks damage the totals or the identity of the payment? | totals, locks, releases, refunds, failures, a reused event identity and two provider handles against a capture, a refund and a preparation of ours | `TypeOK`, `FundsBounded`, `StatusTruthful`, `OpenRefundIsShown`, `FundsNeverRegress`, `IdentitiesAreStable` |
| `channels` | is money applied twice or without its operation when several channels report it? | responses, correlated outcomes by identity and by handle, increments, totals, event identities used for two events | `CapturesAreCounted`, `MoneyNeedsFreshEvidence`, `DisputesOutliveEverything` |
| `decisions` | can an operator break what the planners protect? | a capture and a refund, contradictory answers, a response that could not be recorded, decisions that accept the whole or one unit, on earlier reads, on open, settled and rejected operations | `LaterIntentsBuildOnCaptures`, `ConfirmedEffectsStand`, `DisputesOutliveEverything` |
| `retries` | can a command run twice or get lost? | one capture, two workers, two attempts, keys kept for 3, windows of 2 and 3, a call of 1, time up to 3, two key scopes, one fault | `TakenAtMostOnce`, `EffectsStayDiscoverable`, `ProducersHoldTheirClaims`, `KeepsPromise`, `ReservationIsFrozen` |
| `lookups` | is a refusal true, do the books match the provider? | two captures, two workers, providers with either kind of lookup or none, verdicts of all kinds, a callback and a poll, one fault | `FlowTypeOK`, `RejectionIsFinal`, `BooksMatchProvider`, `NeverOvercaptured` |
| `recovery` | is every submission decided in the end? | one capture, two workers, two attempts, one fault, a provider that can always tell | `SubmissionsAreDecided` |
| `recorded_money` | can recorded history become impossible? | two callers, two attempts, two clock readings, nine commands around a required amount of 2 | `LedgerTypeOK`, `LedgerAddsUp`, `LedgerStaysReadable`, `AuditTrailIsOrdered`, `ConflictsAreReal` |
| `registry` | is a view ever half filled? | two threads of three calls, three entry points, one broken, one conflicting with a class of the application | `AnswersAreComplete`, `UnregisteredStaysAway`, `NobodyIsReplaced`, `CallsReturn` |
| `legacy` | what do overlapping tasks and the cutover do to the books? | two tasks, three commands or polls, any number of notices, four openings of a payment of 2 | `LegacyTypeOK`, `BooksNeverOverstate`, `MovedMoneyIsKnown`, `UnsettledRowsTakeNoCommands`, `RedeliveryIsHarmless` |
| `external_refund` | do captures wait for every refund? (violated, see findings) | a refund reported by the provider and one of ours | `CaptureWaitsForRefunds` |
| `cutover` | is everything in flight blocked by the migration? (violated, see findings) | as `legacy` | `InFlightMigratesBlocked` |

Why the bounds are enough. Two units distinguish nothing, part and all of an amount; a
third reported unit is the impossible total. Two operations are enough for a conflict,
three for a cancellation between two refunds. Two attempts make a retry race the first
attempt's late answer. In `retries` a call takes 1 of a window of 2 or 3, so a claim may be
too late to send, a retry may be just in time, and a request may arrive after its
window; a deployment may shorten the window of a scope, lengthen it or change the scope.
In `lookups` time stands still: no property there depends on windows, and
requests may still be lost or answered late. In `recovery` a query always gives an
answer, so no retry is needed there. The runs of the flow admit one fault. A cleanup
that fails after a cancelled write takes two, and so does a malformed answer whose write
is cancelled, the one whose repetition is refused: of `Finish`, these runs take the branch
that records the outcome, and reach the state the other two lead to through `Retain`. The
theorems put no bound on the faults. Three legacy commands are a preparation or a
capture, a second capture and a refund. Tasks, workers and callers are interchangeable,
so symmetry is used where only safety is checked.

Deadlock is checked where the system can always move. `CHECK_DEADLOCK FALSE` is set in
`retries`, `lookups`, `recovery`, `registry`, `legacy` and `cutover`, because there the
clock, the faults or the number of calls are bounded and everything may be done.

## Proofs

Every theorem holds for any payments, histories, inputs, workers, clocks and numbers of
operations (also infinitely many). The listed property of a theorem is also checked by
a run, on a small instance.

| module | theorem | property |
|---|---|---|
| `DurableRepositoryProofs` | `TypeCorrect` | `TypeOK` |
| | `BalancesStayPossible` | `FundsBounded` |
| | `FundsAccumulate` | `FundsNeverRegress` |
| | `MutationsExclude` | `OneMutationAtATime` |
| | `ReservationsStayFrozen` | `ReservationIsFrozen` |
| | `ConfirmationsStand` | `ConfirmedEffectsStand` |
| | `DisputesOutlive` | `DisputesOutliveEverything` |
| `PaymentFactsProofs` | `StatusStaysTruthful` | `StatusTruthful` |
| | `OpenRefundsShow` | `OpenRefundIsShown` |
| | `HandlesStay` | `IdentitiesAreStable` |
| | `CapturesStayCounted` | `CapturesAreCounted` |
| | `RefundsStayCounted` | `RefundsAreCounted` |
| | `BaselinesStayComparable` | `LaterIntentsBuildOnCaptures` |
| | `TotalsAreExact` | `MoneyIsCountedOnce` |
| | `EvidenceIsFresh` | `MoneyNeedsFreshEvidence` |
| `DurableFlowProofs` | `FlowTypeCorrect` | `FlowTypeOK` |
| | `FlowKeepsReservations` | `ReservationIsFrozen` |
| | `FlowImplementsRepository` | `FlowSpec => Spec` |
| `DurableContractProofs` | `ProducersKeepTheirClaims` | `ProducersHoldTheirClaims` |
| | `InstructionsAreTakenOnce` | `TakenAtMostOnce` |
| | `RejectionsAreFinal` | `RejectionIsFinal` |
| | `EffectsAreDiscoverable` | `EffectsStayDiscoverable` |
| | `FlowKeepsItsPromise` | `KeepsPromise`: the flow implements `CommandContract` |
| | `BooksMatch` | `BooksMatchProvider` |
| | `NothingIsOvercaptured` | `NeverOvercaptured` |
| `RecordedMoneyProofs` | `LedgerTypeCorrect` | `LedgerTypeOK` |
| | `RecordedMoneyAddsUp` | `LedgerAddsUp` |
| | `HistoryStaysReadable` | `LedgerStaysReadable` |
| | `AuditTrailStaysOrdered` | `AuditTrailIsOrdered` |
| | `AttemptsAreLostToCommits` | `ConflictsAreReal` |
| `RegistryProofs` | `BackendsAreNotReplaced` | `NobodyIsReplaced` |
| | `LateQueriesBringNothingBack` | `UnregisteredStaysAway` |
| | `AnswersNameEveryPlugin` | `AnswersAreComplete` |
| `MigrationProofs` | `RowsKeepTheirShape` | `LegacyTypeOK` |
| | `BooksNeverRunAhead` | `BooksNeverOverstate` |
| | `UnsettledRowsStayClosed` | `UnsettledRowsTakeNoCommands` |
| | `RedeliveriesAreHarmless` | `RedeliveryIsHarmless` |
| | `MovedMoneyStaysKnown` | `MovedMoneyIsKnown` |

`SumTheorems` holds the lemmas about sums over finite sets the others cite.

### Assumptions

The modules assume of their constants that inputs have the shapes `records.py` and
`provider.py` declare (`InputsTyped`, `FlowInputsTyped`, `RecordedInputsTyped`,
`RegistryInputsTyped`), that payments are opened with possible balances
(`PaymentsOpenValid`), that an operator resolves an intent to a terminal state
(`ResolutionsAreTerminal`), and that an absent value is neither an amount, nor an event,
nor a type, nor a record (`NoneIsNoValue`, `NoneIsNoType`, `NoneIsNoRecord`).

A migrated payment need not have possible balances, so `MigrationProofs` does not use
`PaymentsOpenValid`. `OpeningsTyped` says what a deployment of the released flow may be
found in instead: a row of any balances that claims no more than the provider moved,
whose remembered events are in its totals (they are remembered when they are applied),
and a provider that moved no more than was asked of it. A row that claimed too much
would go on claiming it; nothing in the code could tell.

Some theorems name a hypothesis of their own. Each is evaluated by a run that checks
the property, unless said otherwise:

- `FundsShownAtOpening`, `TotalsShownAtOpening`: payments are opened in a status that
  admits their captured and refunded totals. Without it a payment that opens with
  captured funds as `prepared` could still take a lock.
- `Observations = {}` for `TotalsAreExact`: with provider notices the totals are what the
  provider says, and only `CapturesAreCounted` and `RefundsAreCounted` can be promised.
  The run `commands` has no notices.
- `EvidenceIsTagged` for `EvidenceIsFresh`: a notice without an event identifier cannot
  be recognized when it comes again.
- `WindowsAreHonoured` for the contract and the books: no deployment declares a longer
  window than the provider keeps the keys of its scope. TLC shows two executions
  without it. Deployments may differ in window and in scope.
- `TotalsKnownAtOpening` for `MovedMoneyStaysKnown`: the row a deployment starts with
  lacks nothing the provider moved before.
- `WithoutCancellations` for the contract and the books: the model's provider treats commands as
  independent.

### Arguments

- **Types and balances.** `Builds(p, q)` says what one change of a payment keeps: its
  type, possible balances, totals that do not go back, evidence that is not dropped, and,
  once the status admits the captured funds, a hold that does not grow after a capture.
  Every setter of `fsm.py` builds, so does every accepted event, update, claim (up to
  three updates in sequence) and plan. The inductive invariant adds `SequencesBounded`:
  `NextSequence` is one more than a maximum, which exists only because finitely many
  numbers are in use.
- **History of an operation.** `Evolves` says what one step may do to one record, and
  `Decided` what a planner may: who held a reservation keeps its frozen part, terminal
  records are not reopened, only a confirmed record has a settled amount. A new record
  is reserved only while nothing holds the payment, which gives mutual exclusion.
- **Facts against history.** `Shows` relates the status to the totals, and `CountedInv`
  says that every confirmed charge is below the captured total. For refunds the bound is
  a sum: `ConfirmedTotal` of a refund does not change while it is open (`SameRefunds`),
  because nothing else can be reserved, and is what its confirmation is compared with.
- **Exact totals.** `MoneyInv`: sequence numbers are distinct, the last charge's baseline
  plus its settlement is the captured total, and the first refund's bound is exactly the
  refunded total. With distinct numbers, a sum over all charges is the last baseline plus
  the last settlement.
- **Fresh evidence.** `FreshInv`: what a record has settled is already counted, so a
  repeated confirmation moves nothing, and a notice that was applied is in
  `applied_event_ids`, so it is recognized.
- **The flow implements the repository.** `FlowInv` adds to the repository's invariant
  that a worker knows what it read (`WorkersKnow`): the record it works on exists, its
  attempt is not above the counted attempts, its answer is an outcome of the model.
  Every step of the flow is then one step of `DurableRepository` or leaves it alone, so
  the repository's theorems hold of the flow.
- **One execution.** `ClaimInv`: at most one worker and one request on the wire carry
  the current attempt of a record. `TakenInv`: a key the provider has seen outlives the
  window within which the flow sends again, so a later request is recognized. The
  headroom of one provider call in `WithinWindow` is what makes it so.
- **True refusals.** `AgreementInv` relates record, answer on its way and provider: a
  record is `rejected` only if the provider refused or had proved the intent absent,
  and an executed intent stays open until its effect is recorded. `KeepsPromise` maps
  steps: a reservation is `Ask`, an execution is `Run`, and what is recorded is
  `Confirm` or `Refuse`; every other step stutters.
- **Books against provider.** `BooksInv`, with `Adds`: the charge reserved last knows
  in its baseline what the provider had captured before it, it was reserved on the money
  left then, a confirmed charge settled in full, and the totals say no more than the
  provider captured. By `OpenChargeIsLast` no earlier charge is open, so the books lag
  behind the provider by at most the amount of that one charge, and with everything
  decided they agree. The steps need that a repeated confirmation moves nothing
  (`FreshInv`), that an executed intent stays open until it is recorded (`AgreementInv`)
  and that it runs once (`TakenInv`). `NoticesTrue` covers the await between reading a
  notice and applying it: a total read earlier is at most what the provider has captured.
- **Recorded money.** A plan whose version is current would be made again from the same
  history (`PlansAreFresh`), so a commit is never based on a stale balance. The tallies
  of every prefix agree with its movements that no correction replaced.
- **Registry.** Whoever is in a critical phase holds the lock, and a name that was found
  free under the lock stays free until it is taken.
- **The released flow.** Tasks overwrite each other's rows, so nothing relates the row
  to what a task will save except the provider. `LegacyInv` therefore says of every
  snapshot by itself that it is sound (`Snapshot`: typed, within the provider's totals,
  remembering no event whose total it lacks) and of every update by itself that it is
  justified (`Justified`: it says no more than was moved, under a name that says what it
  says). Applying a justified update to a sound snapshot gives a sound one, and both
  stay so while the provider's totals grow, whichever save comes last.
- **After the cutover.** `MigratedInv`: the facts contain the row, are contained in what
  the provider moved, and contain every total whose event identity the replay log has.
  A remembered event is in the row, hence its second application takes the larger of two
  totals of which the first is not smaller. A record found unsettled starts with the
  reconciliation requirement; planning an observation never ends one, and a reservation
  needs that there is none. No balance is assumed to be possible: a planner that
  applies a claim has validated the facts first (`ApplicableIsSound`).
- **Moved money.** `KnownInv`: without overlaps the task at work has read the row as it
  is, so a charge captured at once either is saved with the provider's total or raises
  the alarm; whatever was settled later was announced under its total. Such a total is
  beyond the books, so neither the row nor the replay log has its name
  (`AnnouncedIsOpen`).
- **Sums.** The library's induction theorems take an operator as a parameter. The sum
  lemmas avoid them: the cases for which a law holds form a set, a smallest
  counterexample exists by well-foundedness of the naturals, and it is refuted.

Only model-checked: the liveness properties `SubmissionsAreDecided` and `CallsReturn`,
because liveness under fairness is out of the prover's reach. Every invariant and every
action property of the passing runs is proved.

## Findings

- `external_refund`: `docs/concepts.md:158` says captures are refused while any refund
  is unresolved. The marker of a refund the provider reported is the status alone, and
  recording the end of a local refund reprojects the status from local refunds only.
  The run reserves a local refund, observes `refund_requested`, records the rejection of
  the local refund and reserves a capture, although the provider's refund is still
  unresolved. The first two steps may come in either order.
- `cutover`: `durable/migration.py:20` says a record left in the middle of a money-moving
  operation migrates blocked. The code reads the status alone, and a charge accepted
  asynchronously on a partly captured payment leaves the status `partially_paid`
  (`fsm.py:345`). Such a payment takes commands while the provider still executes.

Smaller remarks, without a run of their own:

- `durable/records.py:218` says of the terminal states that no further transition is
  accepted; `plan_outcome` moves a refund from rejected to succeeded when its
  cancellation succeeded before its settlement was reported. The code does so on purpose
  and flags the payment; `ConfirmedEffectsStand` states the rule it really follows.
- A blocked migrated payment "still takes observations" (`docs/durable-storage.md`,
  migration section), but one whose balances are impossible refuses every observation
  that carries money, because the state engine validates the balances first.
- `TakenAtMostOnce` needs a provider whose policy for the keys of a scope does not change
  during the life of an intent. The core cannot check that: it bounds a retry by the
  stored deadline and by the declaration in force, but a worker that claimed under the
  old declaration may still send under it. The documentation asks to "keep the provider
  account/configuration stable for the intent's life" (`docs/durable-storage.md`, line
  216), which is what a constant `Retention` says.
- A charge captured at once adds to the total the task has read. If an earlier
  asynchronous settlement has not been reported yet, the sum is too small and the late
  notice, being smaller or equal, does not correct it; the next cumulative total does.

## Not modelled

- `conformance.py`: executable checks for adapters. It keeps no state, and what it asks
  of an adapter is what `DurableRepository` does.
- Exceptions, protocols, exports, validators, buyer and item records: no state, no
  decision the models need. `create_payment` is the initial state of `PaymentFlow`.
- Free provider metadata. One consequence is listed as a hazard: a processor's metadata
  may overwrite the list of applied events of a legacy payment.
- Tasks that share one payment object in memory; a plugin that calls the registry while
  it is imported.
- `Decimal` arithmetic: context precision and exponents (`_sum_exact`,
  `_canonical_amount`) matter only below one unit of the models.

## Plan

All modules of the plan are written and every safety property of the passing runs is
proved. What the development leaves open is the code under
[not modelled](#not-modelled), the hazards `PROJECT.json` lists with a note instead of a
property, and the two findings: when the code changes there, their runs turn into passing
ones and the properties become theorems to prove.
