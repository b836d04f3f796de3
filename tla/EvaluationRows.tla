--------------------------- MODULE EvaluationRows ---------------------------
(***************************************************************************)
(* The coverage_evaluations row, and what is known of the evaluator: it   *)
(* either rejects a frozen input or gives it a score that depends on      *)
(* nothing else.                                                           *)
(***************************************************************************)
EXTENDS Naturals, HazopConstants

CONSTANTS
    Evaluations,  \* ids the coverage_evaluations table can hold
    Scenarios,    \* scenarios that can be evaluated
    Author,       \* created_by of each scenario; it never changes
    Actors,       \* authenticated users
    RoleOf,       \* the role in each user's token
    Keys,         \* Idempotency-Key headers
    Snapshots,    \* what the three input reads of a run can yield
    Evaluable,    \* the snapshots Evaluate accepts
    Score,        \* coverage_score of each of these
    NoActor       \* a NULL confirmed_by

ASSUME EvaluationAssumption ==
    /\ Author \in [Scenarios -> Actors]
    /\ RoleOf \in [Actors -> Roles]
    /\ Evaluable \subseteq Snapshots
    /\ Score \in [Evaluable -> Nat]
    /\ NoActor \notin Actors

LiveEvaluation ==
    [state       : CoverageStates,
     key         : Keys,
     scenario    : Scenarios,
     evaluatedBy : Actors,
     snapshot    : Snapshots,
     score       : Nat,
     confirmedBy : Actors \cup {NoActor},
     replay      : {"never", "passed", "failed"}]

NoEvaluation == [state |-> "absent"]

Row == LiveEvaluation \cup {NoEvaluation}

\* Mutant: a row inserted without its state.
QueuedRowWithoutState(key, s, actor, snapshot) ==
    [state       |-> "",
     key         |-> key,
     scenario    |-> s,
     evaluatedBy |-> actor,
     snapshot    |-> snapshot,
     score       |-> 0,
     confirmedBy |-> NoActor,
     replay      |-> "never"]

\* The row a run inserts: frozen input, no result yet.
QueuedRow(key, s, actor, snapshot) ==
    [state       |-> "queued",
     key         |-> key,
     scenario    |-> s,
     evaluatedBy |-> actor,
     snapshot    |-> snapshot,
     score       |-> 0,
     confirmedBy |-> NoActor,
     replay      |-> "never"]

Unfinished == {"queued", "running"}

\* Mutant: the evaluator, not the scenario's author, is kept from confirming.
MayConfirmUnlessEvaluator(row, actor) == row.evaluatedBy # actor

MayConfirm(row, actor) == Author[row.scenario] # actor
=============================================================================
