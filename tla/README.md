# Formal model of hazop-safeguard-coverage

TLA+ modules, TLC runs and TLAPS proofs for the Go backend of
`hazop-safeguard-coverage` (`src/internal`, `src/cmd/server`) and for the parts
of its Vue frontend that matter to the backend's correctness.

## 1. The system

A request goes through router, middleware (request ID, recovery, JWT
authentication, permission, rate limit), handler, service and repository (GORM)
to PostgreSQL or SQLite. Requests run concurrently, one goroutine each. **Every
repository call is an autocommit statement of its own; no transaction spans a
service operation**, and every statement runs under the request's context, so a
client that disconnects, a database error or a stopped server ends an operation
between any two statements. This is the one fact that makes the system hard, and
every module here models operations at that grain.

| Component | State | Operations | What makes it correct |
|---|---|---|---|
| Scenario workflow (`deviation_scenario_service.go`) | rows of `deviation_scenarios` with `version`, audit records | Create, Update, Transition | nobody reviews their own scenario; what is under review does not change; no lost update; a decision is about what its maker saw; the audit trail is the history |
| Coverage evaluations (`coverage_evaluation_service.go`) | rows of `coverage_evaluations` with a unique key, audit records | Run, Confirm, Void, Replay; Compare and List read | one evaluation per key; frozen input, and a verdict that follows from it; an approval by somebody else than the author; runs end |
| Safeguards (`safeguard_service.go`) | rows of `safeguards`: lifecycle, test interval, verification | Create, Update, Verify, Invalidate, Restore | a layer that counts has a sound verification; a stale edit takes no verification back; coverage rises and falls for known causes only |
| Process nodes (`process_node_service.go`) | rows of `process_nodes`: code, status | Create, Update, Deactivate | codes are unique; a node deactivated takes no new scenarios; refusals are true |
| Algorithm (`internal/algorithm`) | none | NewSnapshot, BuildGraph, ResolveIndependence, CalculateScore, Replay | every layer accounted for, one contribution per key whatever the order, no risk understated |
| Tables (`internal/constants`, `middleware/rbac.go`) | none | CanTransition*, HasPermission, route filters | agree with each other and with the services |
| Rate limiter (`middleware/auth.go`) | window per scope and user or address | Middleware | bounded bursts; nobody locked out; clean-up changes no decision |
| Frontend (`hooks/useCoverageRun.ts`, `stores/*.ts`) | loaded lists, polling generation | launch, watch, stop, load | a stopped watcher stays stopped; the newest answer wins |

They interact through the tables: a scenario belongs to a node, a safeguard to a
scenario; a run reads all three into its snapshot; Confirm reads the scenario's
author; every write operation inserts an audit record after the write. The
frontend passes back the version of the row it loaded (scenarios) or a fresh
`Idempotency-Key` (runs).

Hard behaviour: read, check and conditional write are separate steps; reads of
several tables are not one snapshot; a crash between write and audit; a retry
racing or following a run that was cut off; two reviewers at once; the rework
loop, which returns a row to a state it was in before. `PROJECT.json` lists each
hazard at its line.

## 2. Modules

| Module | Models |
|---|---|
| `HazopConstants` | the transition tables and the permission matrix of `internal/constants` |
| `ScenarioRows` | the scenario row and the predicates on it that service and routes use |
| `ReviewProtocol` | abstract specification: every create, edit and decision is one atomic step on the current row |
| `ScenarioWorkflow` | the scenario service, statement by statement; its properties and inductive invariant |
| `ScenarioWorkflowProofs` | TLAPS proofs about `ScenarioWorkflow` |
| `EvaluationRows` | the evaluation row; the evaluator as a partial function of the frozen input |
| `EvaluationLedger` | abstract specification: one entry per key, with frozen input, one verdict, at most one approval |
| `CoverageEvaluation` | Run, Confirm, Void and Replay, statement by statement; its properties and inductive invariant |
| `CoverageEvaluationProofs` | TLAPS proofs about `CoverageEvaluation` |
| `LayerExpiry` | when a verification covers a layer: shared by the lifecycle and the scoring, which each have code for it |
| `SafeguardRows` | the safeguard row, the row a registration inserts, the permission to write |
| `LayerProtocol` | abstract specification: a protection layer moves one decision at a time, its verification is replaced as a whole |
| `SafeguardLifecycle` | the safeguard service, statement by statement, with time; its properties and inductive invariant |
| `SafeguardLifecycleProofs` | TLAPS proofs about `SafeguardLifecycle` |
| `ProcessNodes` | the node service composed with the scenario service's Create; its properties and inductive invariant |
| `ProcessNodesProofs` | TLAPS proofs about `ProcessNodes` |
| `Ordering` | what Go's `sort` package promises |
| `OrderingProofs` | lemmas on it: sorting a finite set by a strict order yields a list of all its members; induction over the natural numbers as a statement about sets |
| `IndependenceScoring` | the algorithm package as operators, evaluated on every list of layers that can be built; its properties and inductive invariant |
| `IndependenceScoringProofs` | TLAPS proofs about `IndependenceScoring` |
| `RateLimiter` | the limiter: clock reading, mutex, decision, clean-up; its properties and inductive invariant |
| `RateLimiterProofs` | TLAPS proofs about `RateLimiter` |
| `MC...` | instances for TLC of the module named after them |

### ScenarioWorkflow

`scenario` is the table, `audits` the audit records of its entity type. Each
request slot `r` has `pc[r]` (how far it has come), `call[r]` (what it asks
for), `seen[r]` (the row its client was looking at) and `read[r]` (the service's
local struct). `received -> checked -> written -> idle` are the points between
statements:

| Action | Code |
|---|---|
| `SubmitCreate`, `SubmitUpdate`, `SubmitTransition` | route filter and handler; the version sent is the one of the page seen |
| `CheckNode` | Create's read of the node: accepted or refused (what it races with is in `ProcessNodes`) |
| `Load` | GetByID and every check on the loaded row: state, role, transition table, author |
| `Insert`, `UpdateWithVersion`, `Transition` | the write, with its WHERE clause and its SET columns |
| `RecordAudit` | recordAudit, its snapshots built from the local struct as in the code |
| `Abort` | the request ends between two statements |

The content columns are `Fields -> Values`; a form is a partial function
(`Patches`), overlaid on the local copy as Update does. Names, timestamps,
comments and validation of single columns are left out: no check depends on
them. The final reload (`Get`) of Update and Transition only reads.

Environment assumption: a client sends a version it has loaded, as
`stores/deviation-scenario.ts:13-24` does; `VersionIdentifiesRow` then makes
the version as good as the row. A client that guesses version numbers can edit
what it has not seen, and is outside the model.

### CoverageEvaluation

`evaluation` is the table, `audits` its audit records; `call[r].id` is the
evaluation a request names, or the one a run got, and `copy[r]` the service's
local struct.

| Action | Code |
|---|---|
| `SubmitRun`, `SubmitAction` | route filter and handler |
| `FindByIdempotencyKey` | first lookup; found: answered with it |
| `Freeze` | the three reads and NewSnapshot: any member of `Snapshots` |
| `Create` | insert; on a unique violation the second lookup's row is the answer |
| `Start`, `Complete`, `Fail` | the conditional updates to running, completed, failed |
| `FinishRun` | audit and answer |
| `Load` | GetByID and Confirm's or Replay's check |
| `Confirm`, `Void` | the conditional updates |
| `RecordStateAudit` | reload and audit record |
| `SetReplayResult`, `RecordReplay` | the unconditional update and its audit record |
| `Abort` | as above, if `CanAbort` |

`Evaluate` is a function of the snapshot: it rejects those outside `Evaluable`
and scores the others. (With snapshots taken from stored rows the present
evaluator has hardly a reason to reject; the code handles the case, so the
model does.) The reload for the audit record and its insertion are one step:
what the reload sees is what is recorded, and records are never read back here.
`Author` is a constant because `created_by` never changes
(`FrozenUnderReview` shows that). Trimming and length of the key are left out:
`Keys` are the accepted ones. The audit record of a replay does not name the
replayer, whom no property is about.

### SafeguardLifecycle

`safeguard` is the table, `now` the clock, which may advance between any two
statements; `copy[r]` is the service's local struct. A row is its lifecycle
state, its test interval, and date and verifier of its verification.
`since[r]` is a history variable that no guard reads: the kinds of writes
(edits, verifications) by others to the layer that request `r` is editing, since
its load. Two properties tell by it a stale edit from one that nobody overtook.

| Action | Code |
|---|---|
| `SubmitCreate`, `SubmitUpdate`, `SubmitVerify`, `SubmitAction` | route filter and handler |
| `Prepare`, `Insert` | Create: validation and the state the date asks for, then the insert |
| `LoadForUpdate` | GetByID, the form laid over the struct, and the check whether the layer has lapsed |
| `Update`, `SyncLifecycle` | the unconditional update by id, then, if the copy had lapsed, active -> expired |
| `LoadForVerify`, `Verify` | the date judged by the interval loaded, then the conditional update with date and verifier |
| `LoadForAction`, `ChangeLifecycle` | Restore's target decided on the row loaded, or Invalidate's; then the conditional update |
| `RecordAudit`, `Abort` | reload, record and answer; the request ends between two statements |
| `Tick` | time passes |

Name, type, key, effectiveness and evidence note are written together with the
interval and decide nothing here.

### ProcessNodes

`node` and `scenarios` are the two tables, `scenarios` as a count per node;
`seen[r]` is a history variable: the statuses the node of request `r` has had
since the request began. All editable columns but the status are one value.

| Action | Code |
|---|---|
| `SubmitCreate`, `SubmitUpdate`, `SubmitDeactivate`, `SubmitScenario` | route filter and handler |
| `GetByCode`, `Insert` | Create: the code looked up, then the insert, which the unique index may still refuse |
| `LoadForUpdate`, `Update` | the form laid over the copy, then every editable column written by id |
| `LoadForDeactivate`, `Deactivate` | 409 if inactive already, then the update on condition that it is active |
| `CheckNode`, `InsertScenario` | the scenario service's Create: the node must be active; then the insert |
| `Answer`, `Abort` | audit record and answer, or the 409; the request ends between two statements |

### IndependenceScoring

One behaviour is one scenario whose list of layers grows by one arbitrary layer
a step, evaluated anew each time; all lists up to `MaxRows` are reached, each in
every order. `NewSnapshot`, `SplitStatements`, `Paths`, `Eligible`,
`ResolveIndependence`, `Remaining`, `Covered` and `Residuals` are the functions
of `evaluator.go`, `graph.go`, `independence.go` and `scoring.go` one by one; the
properties compare what they compute with definitions over sets.

Sorting (`Ordering`) is an arrangement of indices in which no element comes
before a lesser one; which of several such arrangements `sort.Slice` returns is
left open, as its documentation leaves it. So that the order of the database's
list has no influence is not built into the operators: `ByKey`, `Stronger` and
`ById` must leave no choice (`OrderDecidesNothing` proves it of the snapshot,
`OneContributionPerKey` of the deduplication).

Numbers are exact: effectiveness in parts of `Full`, protection in parts of
`Whole`, which is `Full` to the power of `MaxRows` (in the run: tenths and
thousandths), so that each division on the way comes out even. What the
code's float64 makes of a product that should be a whole number is a choice in
`Residuals`: the ceiling may come out one higher (0.7 of 20 leaves 7 instead of
6). Of the single-layer cases with two decimals twelve do, and none comes out
lower; `ResidualRiskSound` allows exactly that. The graph's nodes and edges are
for display and left out, as is the wording of the score steps.

### RateLimiter

`windows` is the map, `stamp[r]` the time request `r` read before it waits for
the mutex; `Decide` is the critical section with the clean-up. `unswept` (the
map, had nothing ever been dropped) and `admitted` (per key, the times at which
requests got through, in their order) are history variables that the properties
are about.

## 3. Runs

All passing runs explore every reachable state. Deadlock is not checked because
each system may stop: nobody is obliged to send a request, and at the bounds
(`MaxVersion`, `MaxScenarios`, `MaxTime`, `MaxRows`) nobody can.

| Run | Instance | Shows |
|---|---|---|
| `scenario_workflow` | administrator and reviewer, two columns, with `Abort` | TypeOK, ReviewedByAnother, VersionIdentifiesRow, AuditTrailConsistent; FrozenUnderReview, DecidesWhatWasSeen, ConflictIsReal; ScenarioWorkflow implements ReviewProtocol |
| `coverage_evaluation` | the scenario's author and two reviewers, two ids, one key, with `Abort` | TypeOK, OneEvaluationPerKey, VerdictFollowsInput, ConfirmedByAnother, RunOwnsItsRow, AuditNamesConfirmer; LifecycleRespected |
| `coverage_ledger` | the author and one reviewer, one id, fair, no `Abort` | CoverageEvaluation implements EvaluationLedger; RunsTerminate |
| `safeguard_lifecycle` | an engineer, one layer, two requests, intervals of one and two ticks, dates up to a tick ahead, with `Abort` | TypeOK, VerificationSound; VerificationSurvivesEdits, NothingElseMakesItCount, NothingElseStopsItCounting; SafeguardLifecycle implements LayerProtocol |
| `process_nodes` | two ids for one code, three requests, with `Abort` | TypeOK, CodesUnique, AnswersAreTrue, LateScenariosRefused; LateEditsKeepDeactivation |
| `scoring` | every list of up to three layers over three keys (one blank), three effectivenesses, verifications on the edge of their second | TypeOK, EveryLayerAccounted, RejectsTheIneffective, OneContributionPerKey, UncoveredPathsReported, ResidualRiskSound; LayersOnlyHelp |
| `rate_limiter` | two keys, two requests, clock readings up to a tick old | TypeOK, BurstBounded; DenialIsEarned, SweepingDecidesNothing |

Violation runs, each with a finding in `PROJECT.json`:

| Run | What the documents say and the code does not keep |
|---|---|
| `scenario_audit_loss` | every write is audited - not one cut off before its audit insert |
| `coverage_stuck` | a run ends completed or failed - not one cut off; its key then answers every retry with the stuck row |
| `coverage_replay` | equal inputs, equal results - a replay of an unfinished evaluation leaves the finished one marked as not reproducible |
| `coverage_audit_states` | before and after snapshots of a write - a confirmation's may show other transitions |
| `safeguard_restore` | a restored layer becomes active by a new verification only - a restoration that loaded the layer before it was invalidated makes it active at once |

More things differ from the documents, or from what one might expect, in ways
that need no run of their own. A stale edit of a node writes the status it
loaded and brings back a node deactivated meanwhile, although
`src/gb-531.md:69` asks for conditional updates; and a scenario may be inserted
on a node deactivated a moment ago. `LateEditsKeepDeactivation` and
`LateScenariosRefused` say how far this goes: only requests under way at the
deactivation can do it. The diagram
in `src/README.md:70-72` has no arrow out of confirmed, while the code and the
transition table let a confirmed evaluation be voided (the model follows the
code). The lookup by `Idempotency-Key` asks neither who calls nor about which
scenario, so any caller's reuse of a key is answered with the row found
(modelled in `FindByIdempotencyKey`). A layer's state may be active although its
verification has lapsed - an interval shortened under a verification in flight,
an update cut off before its second statement - which does no harm, because
restoration and scoring look at the dates (`RejectsTheIneffective`).

A stale edit of a layer takes no verification back, but more is possible than
one might expect, and nothing in the documents excludes it. An edit whose form
leaves the interval out writes the interval it loaded; if another edit has
shortened or lengthened it since, the layer changes back, and one that had
lapsed under the shorter interval protects again. An edit that found the layer
lapsed marks it expired even if it has been verified in between. Of two
verifications the one that commits last stays, be its date the older one.
`NothingElseMakesItCount` and `NothingElseStopsItCounting` say that coverage
rises and falls in these and the ordinary ways only, and that an edit nobody
overtook does neither: both conditions are needed, since TLC finds a
counterexample when the case of the overtaken edit is struck out of either.

`src/README.md:185` documents `VERIFICATION_GRACE_DAYS`, days of grace after a
verification has lapsed. `src/internal/config/config.go:31` loads the value and
no other code reads it, so a verification lapses on its day whatever is
configured; the model has no grace. With the default of
`src/docker-compose.yml:39`, which is 0, there is no difference.

### Bounds

- Two requests at a time (three for nodes, where the second of two writers
  matters to a third who reads). Every race in the code is between one read and one
  write of another request, so two slots with unlimited reuse reach them; a
  slot is free again after its request, and histories are as long as the other
  bounds let them be. The theorems hold for any number.
- One scenario, `MaxVersion = 4`, which is three writes after the creation: a
  row goes through submission, verification and acceptance, or through
  submission, return for rework and resubmission, or it takes an edit in place
  of one of these (an edit after the return, but then no resubmission any more).
  Rows are independent of each other.
- Users: an administrator can be author and reviewer, which makes separation of
  duties a question at all, and a reviewer can only review. In the coverage
  runs the administrator is the author of the scenario; two reviewers race in
  `coverage_evaluation`.
- Two columns with two values in `scenario_workflow`: a lost update needs two
  forms that touch different columns.
- Two evaluation ids and one key in `coverage_evaluation`, so that a second row
  for the key has somewhere to go; one id in the others, since one key can have
  one row only (OneEvaluationPerKey).
- One input the evaluator accepts and one it rejects.
- One layer and `MaxTime = 2` in `safeguard_lifecycle`: layers are independent
  rows, intervals are one or two ticks and dates reach one tick ahead, so that
  within the bound a verification is made, lapses, is replaced by an older or a
  newer one, and an interval is lengthened and shortened under it, also by an
  edit that another one has overtaken.
- One code and two node ids: the race for a code needs two rows that could hold
  it, and nodes with different codes do not meet. Each node takes one scenario,
  the first being as hard to get right as the next.
- Three layers in `scoring`: two in a group and one beside it, three in a group,
  or three groups. The effectivenesses are a weak one, a half and a full one;
  half-second ticks put verifications on both sides of the truncation; one text
  repeats a statement in another spelling and one is empty.
- `rate_limiter`: a window of three ticks, the clock running past two of them,
  so that clean-up happens with a request waiting; more windows than
  `MaxWindows` as soon as both keys have one. `MaxDelay < Minute` is the one
  assumption about scheduling: nobody waits a minute for a mutex that is held
  for a map operation. `MaxCount` stops counting past the limit.
- Symmetry only over requests, columns, values, ids, keys and reviewers, and
  never under a liveness property.

### Fairness

`FairSpec` asks for weak fairness of `Handle(r)` for each request: Go's
scheduler runs every goroutine that can run, and each statement returns. Nothing
is asked of clients (no fairness of submissions) and `Abort` is never obliged to
happen. `coverage_ledger` shows termination without `Abort`; `coverage_stuck`
keeps the same fairness with it and has a stuck row.

## 4. Proofs

The theorems hold for any number of requests, users, rows, columns, keys and
versions, under the named ASSUMEs (`RowsAssumption`, `WorkflowAssumption`,
`EvaluationAssumption`, `ServiceAssumption`, `SafeguardAssumption`,
`LifecycleAssumption`, `NodesAssumption`, `LimiterAssumption`,
`ScoringAssumption`), which TLC evaluates in the runs. Every inductive invariant below is also a definition of
its module, and TLC confirmed it on the instance before it was proved.

`ScenarioWorkflowProofs`: TypeOK, ReviewedByAnother, VersionIdentifiesRow,
AuditTrailConsistent, FrozenUnderReview, DecidesWhatWasSeen, ConflictIsReal and
the refinement ImplementsProtocol. The inductive invariant `IInv` is TypeOK with

- `RequestsOK`: what a request knows at each point, so that a check on the
  loaded row still says something at the write;
- `VersionIdentifiesRow`: no copy of a row anywhere (table, page, local struct,
  audit record) is newer than the table's, and equal versions mean equal rows.
  This carries the argument: the WHERE clause compares versions, so a write that
  matches hits the very row that was loaded and seen, and all checks made on
  that copy are checks on the row;
- `OneRecordPerVersion`: no version is recorded twice, which AuditTrailConsistent
  needs and which depends on requests that have written and not yet recorded;
- `ReviewedByAnother` itself.

The refinement follows: Insert, UpdateWithVersion and Transition map to Create,
Edit and Decide of the current row; every other step stutters.

`CoverageEvaluationProofs`: TypeOK, OneEvaluationPerKey, VerdictFollowsInput,
ConfirmedByAnother, RunOwnsItsRow, AuditNamesConfirmer, LifecycleRespected and
the refinement ImplementsLedger. `TableStep` is the hinge: whatever step is
taken, the table is unchanged, or a run has inserted its frozen row under a free
id and a free key (`Inserted`), or a request has moved the row it names along
one of six ways (`Moves`). The inductive invariant `IInv` is TypeOK with

- `RequestsOK`: what a request knows of its row while it runs. A run's row is in
  the state the run left it in, and holds the input of the run's local copy; a
  reviewer's copy names the same scenario as the row, so that the check of the
  author, made on the copy, is a check on the row, whatever state it is in by
  then;
- `SoleRunner`: no two runs hold one row. Needed for the former: Start and
  Complete compare states only, and would take another run's row as well;
- OneEvaluationPerKey, VerdictFollowsInput and ConfirmedByAnother themselves;
- `ConfirmationsHold`: what the audit trail says of a confirmation, and what a
  request that has confirmed is about to say, is on the row. It is kept because
  a row is confirmed from completed only, where nobody has confirmed it.

The refinement maps a key to the entry of the one row that holds it: an insert
opens the entry, completion and failure judge it, Confirm approves and Void
withdraws; starting, replaying and auditing stutter.

`SafeguardLifecycleProofs`: TypeOK, VerificationSound,
VerificationSurvivesEdits, NothingElseMakesItCount, NothingElseStopsItCounting
and the refinement ImplementsProtocol. `IInv` is TypeOK, VerificationSound and
`RequestsOK`, which says of a request under way what its loaded copy still
guarantees. Its part `EditOK` is about edits that nobody overtook: the interval
to be written is the row's or the form's, and the row to be marked expired has
lapsed. It is inductive because nobody writes the row of an edit under way
without entering `since` (`NothingPassesUnseen`) and what has lapsed stays so;
with it, a gain or a loss by an edit has the interval or the overtaking write as
its cause. `TableStep`
is the hinge again: a step writes at most one row, the row written is sound, and
no row that has a verification loses it. That is why a restoration that decided
on a stale copy to make a layer active does find a verification in the row -
though possibly, as `safeguard_restore` shows, of a layer invalidated since. The
refinement maps Insert to registration, Verify to verification, SyncLifecycle to
expiry, ChangeLifecycle to invalidation or restoration, and Tick to the passing
of time; the write of an edit stutters, as do all reads.

`ProcessNodesProofs`: TypeOK, CodesUnique, AnswersAreTrue, LateScenariosRefused
and LateEditsKeepDeactivation. `IInv` is the first four without further
strengthening than `RequestsOK`: the statuses a request has seen of its node
include the present one, and only grow; a code once in use stays in use, since
no statement deletes a node or changes its code. So a refusal, decided on what a
lookup found earlier, is still true when it is given, and an edit or a scenario
that contradicts a deactivation was loaded before it.

`RateLimiterProofs`: TypeOK, BurstBounded, DenialIsEarned and
SweepingDecidesNothing. The invariant has two parts that carry the argument.

- `WindowsAgree` relates the map to the one never swept: they agree on a key, or
  the map has dropped a window that is over for everybody who still waits for
  the mutex. Being over at the reading of whoever sweeps is not enough, because
  somebody with an older reading may come next; this is where
  `MaxDelay < Minute` is needed.
- `WindowCounts` says where the present window stands among the admissions of
  its key: the last `Recent(k)` of them came after its start; those before came
  at least a minute earlier than a request of this window may have read its
  clock; and those more than a further `Limit` back are older by another minute.
  Opening a window shifts the three ranges by one place, admitting extends the
  first. It bounds bursts without a sum over the history: of 2 * Limit + 1
  admissions in a row the first and the last cannot lie in the same or in
  neighbouring windows.

`OrderingProofs` has what the scoring needs of sorting. An arrangement exists
for every finite set and strict order, by induction on the number of its
members: a finite set has a maximal member, which is put last. The induction is
over the set of numbers for which the claim holds (`Induction`, which follows
from the well-foundedness of < on Nat), because a theorem that takes the claim
as an operator is out of the provers' reach.

`IndependenceScoringProofs`: TypeOK, EveryLayerAccounted, RejectsTheIneffective,
OneContributionPerKey, UncoveredPathsReported, ResidualRiskSound and
LayersOnlyHelp, for any number of layers, keys and values, any clock resolution
and any texts. `IInv` is short - the layers have distinct ids and `result` is
`Evaluate` of the list - and the work is in the operators:

- the snapshot (`SnapshotRows`): its layers are those of the table, each once,
  frozen; and `EligibleFrozen`: truncating both the verification and the
  reference to the second lets the same layers lapse as comparing the stored
  date with the truncated reference does, because intervals are whole seconds
  long. This is RejectsTheIneffective;
- the deduplication (`Resolved`): the retained indices are one per key in
  ascending keys, each the strongest of its group; what the groups ignore and
  what is rejected make up the rest;
- the score (`RemainingPasses`, `MoreLayersPassLess`): what is let through is
  determined by the retained layers in ascending keys. If each layer of one list
  has one in another list with the same key that is at least as effective, the
  other list lets no more through, by induction on the prefixes of both;
- the residual risk (`CeilDivRoundsUp`, `CeilDivMonotone`): rounding up is
  the least multiple that is not less, and keeps the order. A product one below
  a whole number never overtakes one above it, even when float64 rounds only the
  former up, so LayersOnlyHelp holds whichever value float64 yields on either
  side;
- the paths (`StatementsOnce`, `PathsOnce`): statements are kept once in their
  first spelling, and the index arithmetic of the two nested loops is a
  one-to-one numbering of the pairs.

`OrderDecidesNothing` states in addition that two lists of the same layers have
the same snapshot, since two lists that ascend strictly and have the same
members are equal.

Only model-checked: RunsTerminate, which is liveness under fairness, and the
violations, which are counterexamples. Exactness of the fixed-point arithmetic
(`ExactnessAssumption`) is a condition on the instance that TLC evaluates; no
theorem uses it, since the claims proved hold with rounding down as well.

## 5. Plan

Done: the modules of section 2, each with its runs, and proofs of every safety
property and refinement that the passing runs check; the abstract specifications `ReviewProtocol`, `EvaluationLedger`
and `LayerProtocol`, each implemented by its service. What is left, by weight:

1. Composition of `Freeze` with the live tables: scenario, node and safeguards
   are read by three statements. Now `Freeze` may yield any snapshot, torn ones
   included, so every property of `CoverageEvaluation` holds of torn snapshots;
   what is missing is which of them can occur.
2. The scenario timeline, which projects audit records of three entity types
   onto one list.
3. The audit records of safeguards and nodes, on which no property depends yet.
4. Theorems that relate the modules: the sound verifications of
   `SafeguardLifecycle` and the layers that `IndependenceScoring` counts share
   `LayerExpiry`, but no theorem speaks of both.

## 6. Not modelled

- Pages, components and layout; JSON binding and the validation of single
  fields; logging and request IDs; JWT and password hashing (libraries);
  start-up, configuration, migration and seeding, which run before the first
  request and alone.
- Reads that change nothing: List, Compare, the audit queries, the timeline of
  the newest hundred records, the summary of a node by four reads. Nothing is
  decided on what they return, and the documents promise no snapshot.
- Staleness of a confirmation: an evaluation is confirmed for the input frozen
  in it, whatever has become of scenario and safeguards. The documents bind the
  confirmation to the snapshot and promise nothing about later changes, so there
  is no property to state beyond VerdictFollowsInput.
- The evidence note of an invalidation, graph nodes and edges, the text of score
  steps and the Retry-After header: nothing is decided on them.
- Frontend stores and the polling hook. Two loads of a list may be answered out
  of order and leave the older one on the page; the server then refuses the
  versions it sends (DecidesWhatWasSeen, ConflictIsReal), so nothing is decided
  on it. `POST .../run` is answered when the
  evaluation has finished, and the hook takes a fresh key for each launch; so
  with this backend its loop never has anything to wait for.
