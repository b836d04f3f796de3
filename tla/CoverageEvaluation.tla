------------------------- MODULE CoverageEvaluation -------------------------
(***************************************************************************)
(* The coverage-evaluation service: Run, Confirm, Void and Replay.  Each  *)
(* request is a sequence of autocommit statements and can end after any   *)
(* of them.  Run looks its Idempotency-Key up, freezes the inputs, and    *)
(* drives one row from queued through running to its result; the unique   *)
(* index on the key decides between runs that both found nothing.         *)
(***************************************************************************)
EXTENDS EvaluationRows

CONSTANTS
    Requests,     \* slots for requests in flight
    CanAbort      \* whether requests may be cut off half way

ASSUME ServiceAssumption == CanAbort \in BOOLEAN

VARIABLES
    evaluation,   \* table coverage_evaluations
    audits,       \* rows of audit_logs with entity_type coverage_evaluation
    pc,           \* how far each request has come
    call,         \* what each request asks for
    copy          \* the service's local evaluation struct

vars == <<evaluation, audits, pc, call, copy>>

-----------------------------------------------------------------------------
\* id is the evaluation a request names, or the one a run has created.
Call == [op       : {"none", "run", "confirm", "void", "replay"},
         actor    : Actors \cup {NoActor},
         key      : Keys \cup {"none"},
         scenario : Scenarios \cup {"none"},
         id       : Evaluations \cup {"none"}]

NoCall == [op |-> "none", actor |-> NoActor, key |-> "none",
           scenario |-> "none", id |-> "none"]

Running == {"received", "unknown_key", "frozen", "queued", "running", "stored",
            "checked", "written", "replayed"}

\* Who replayed an evaluation is left out.
AuditRecord == [id     : Evaluations,
                action : {"run", "confirm", "void", "replay"},
                actor  : Actors \cup {NoActor},
                before : CoverageStates \cup {"absent"},
                after  : CoverageStates \cup {"absent"}]

Live(e) == evaluation[e] # NoEvaluation

ByKey(key) == {e \in Evaluations : Live(e) /\ evaluation[e].key = key}

Init ==
    /\ evaluation = [e \in Evaluations |-> NoEvaluation]
    /\ audits = {}
    /\ pc = [r \in Requests |-> "idle"]
    /\ call = [r \in Requests |-> NoCall]
    /\ copy = [r \in Requests |-> NoEvaluation]

End(r) ==
    /\ pc' = [pc EXCEPT ![r] = "idle"]
    /\ call' = [call EXCEPT ![r] = NoCall]
    /\ copy' = [copy EXCEPT ![r] = NoEvaluation]

Goto(r, label) == pc' = [pc EXCEPT ![r] = label]

-----------------------------------------------------------------------------
(* Submitting requests; the routes check the permissions. *)

SubmitRun(r) ==
    /\ pc[r] = "idle"
    /\ \E a \in Actors, k \in Keys, s \in Scenarios :
          /\ HasPermission(RoleOf[a], "evaluation:run")
          /\ call' = [call EXCEPT ![r] =
                        [op |-> "run", actor |-> a, key |-> k, scenario |-> s,
                         id |-> "none"]]
    /\ Goto(r, "received")
    /\ UNCHANGED <<evaluation, audits, copy>>

Permission(op) == IF op = "replay" THEN "evaluation:run" ELSE "evaluation:confirm"

SubmitAction(r) ==
    /\ pc[r] = "idle"
    /\ \E a \in Actors, op \in {"confirm", "void", "replay"}, e \in Evaluations :
          /\ Live(e)
          /\ HasPermission(RoleOf[a], Permission(op))
          /\ call' = [call EXCEPT ![r] =
                        [op |-> op, actor |-> a, key |-> "none",
                         scenario |-> "none", id |-> e]]
    /\ Goto(r, "received")
    /\ UNCHANGED <<evaluation, audits, copy>>

-----------------------------------------------------------------------------
(* Run *)

FindByIdempotencyKey(r) ==
    /\ pc[r] = "received" /\ call[r].op = "run"
    /\ IF ByKey(call[r].key) # {}
       THEN End(r)
       ELSE Goto(r, "unknown_key") /\ UNCHANGED <<call, copy>>
    /\ UNCHANGED <<evaluation, audits>>

\* Scenario, node and safeguards are read one after the other while other
\* services write them: any combination may come out.
Freeze(r) ==
    /\ pc[r] = "unknown_key"
    /\ \E snapshot \in Snapshots :
          copy' = [copy EXCEPT ![r] =
                     QueuedRow(call[r].key, call[r].scenario, call[r].actor, snapshot)]
    /\ Goto(r, "frozen")
    /\ UNCHANGED <<evaluation, audits, call>>

\* Mutant: no unique index.
NeverTaken(key) == FALSE

\* The unique index on idempotency_key.
Taken(key) == ByKey(key) # {}

\* On a unique violation the row found by key is the answer, as it is above:
\* rows are never deleted, so the second lookup cannot miss.
Create(r) ==
    /\ pc[r] = "frozen"
    /\ IF Taken(call[r].key)
       THEN End(r) /\ UNCHANGED evaluation
       ELSE \E e \in Evaluations :
               /\ ~Live(e)
               /\ evaluation' = [evaluation EXCEPT ![e] = copy[r]]
               /\ call' = [call EXCEPT ![r].id = e]
               /\ Goto(r, "queued")
               /\ UNCHANGED copy
    /\ UNCHANGED audits

\* UPDATE ... WHERE id = ? AND evaluation_state IN from.
Matches(row, from) == row.state \in from

Start(r) ==
    LET e == call[r].id
    IN /\ pc[r] = "queued"
       /\ IF Matches(evaluation[e], {"queued"})
          THEN /\ evaluation' = [evaluation EXCEPT ![e].state = "running"]
               /\ Goto(r, "running")
               /\ UNCHANGED <<call, copy>>
          ELSE End(r) /\ UNCHANGED evaluation
       /\ UNCHANGED audits

\* Mutant: the score is left out of the map of updates.
ResultColumnsUnscored(row, snapshot) ==
    [row EXCEPT !.state = "completed", !.snapshot = snapshot]

\* Complete writes the snapshot once more, with the score Evaluate gave it.
ResultColumns(row, snapshot) ==
    [row EXCEPT !.state = "completed", !.snapshot = snapshot,
                !.score = Score[snapshot]]

Complete(r) ==
    LET e == call[r].id
    IN /\ pc[r] = "running" /\ copy[r].snapshot \in Evaluable
       /\ IF Matches(evaluation[e], {"running"})
          THEN /\ evaluation' = [evaluation EXCEPT ![e] =
                                   ResultColumns(@, copy[r].snapshot)]
               /\ Goto(r, "stored")
               /\ UNCHANGED <<call, copy>>
          ELSE End(r) /\ UNCHANGED evaluation
       /\ UNCHANGED audits

\* Mutant: a rejected input returns early and the failure is not stored.
FailUnrecorded(r) ==
    /\ pc[r] = "running" /\ copy[r].snapshot \notin Evaluable
    /\ End(r)
    /\ UNCHANGED <<evaluation, audits>>

Fail(r) ==
    LET e == call[r].id
    IN /\ pc[r] = "running" /\ copy[r].snapshot \notin Evaluable
       /\ IF Matches(evaluation[e], {"running"})
          THEN evaluation' = [evaluation EXCEPT ![e].state = "failed"]
          ELSE UNCHANGED evaluation
       /\ End(r)
       /\ UNCHANGED audits

\* Reload, audit, answer.
FinishRun(r) ==
    /\ pc[r] = "stored"
    /\ audits' = audits \cup
         {[id |-> call[r].id, action |-> "run", actor |-> call[r].actor,
           before |-> "absent", after |-> "completed"]}
    /\ End(r)
    /\ UNCHANGED evaluation

-----------------------------------------------------------------------------
(* Confirm, Void, Replay *)

Acceptable(c, row) ==
    /\ c.op = "confirm" => MayConfirm(row, c.actor)
    /\ c.op = "replay" => row.snapshot \in Evaluable

Load(r) ==
    LET e == call[r].id
    IN /\ pc[r] = "received" /\ call[r].op \in {"confirm", "void", "replay"}
       /\ IF Acceptable(call[r], evaluation[e])
          THEN /\ copy' = [copy EXCEPT ![r] = evaluation[e]]
               /\ Goto(r, "checked")
               /\ UNCHANGED call
          ELSE End(r)
       /\ UNCHANGED <<evaluation, audits>>

\* Mutants: a confirmed evaluation can be confirmed again; a running one voided.
ConfirmableTwice == {"completed", "confirmed"}
VoidableInFlight == {"running", "completed", "failed", "confirmed"}

ConfirmableStates == {"completed"}
VoidableStates == {"completed", "failed", "confirmed"}

Confirm(r) ==
    LET e == call[r].id
    IN /\ pc[r] = "checked" /\ call[r].op = "confirm"
       /\ IF Matches(evaluation[e], ConfirmableStates)
          THEN /\ evaluation' = [evaluation EXCEPT
                                   ![e].state = "confirmed",
                                   ![e].confirmedBy = call[r].actor]
               /\ Goto(r, "written")
               /\ UNCHANGED <<call, copy>>
          ELSE End(r) /\ UNCHANGED evaluation
       /\ UNCHANGED audits

Void(r) ==
    LET e == call[r].id
    IN /\ pc[r] = "checked" /\ call[r].op = "void"
       /\ IF Matches(evaluation[e], VoidableStates)
          THEN /\ evaluation' = [evaluation EXCEPT ![e].state = "voided"]
               /\ Goto(r, "written")
               /\ UNCHANGED <<call, copy>>
          ELSE End(r) /\ UNCHANGED evaluation
       /\ UNCHANGED audits

\* The row is reloaded for the "after" snapshot and the record inserted.
RecordStateAudit(r) ==
    /\ pc[r] = "written"
    /\ audits' = audits \cup
         {[id |-> call[r].id, action |-> call[r].op, actor |-> call[r].actor,
           before |-> copy[r].state, after |-> evaluation[call[r].id].state]}
    /\ End(r)
    /\ UNCHANGED evaluation

\* Evaluate the loaded snapshot again and compare with the loaded score.
ReplayPasses(row) == Score[row.snapshot] = row.score

SetReplayResult(r) ==
    /\ pc[r] = "checked" /\ call[r].op = "replay"
    /\ evaluation' = [evaluation EXCEPT ![call[r].id].replay =
                        IF ReplayPasses(copy[r]) THEN "passed" ELSE "failed"]
    /\ Goto(r, "replayed")
    /\ UNCHANGED <<audits, call, copy>>

RecordReplay(r) ==
    /\ pc[r] = "replayed"
    /\ audits' = audits \cup
         {[id |-> call[r].id, action |-> "replay", actor |-> NoActor,
           before |-> "absent", after |-> "absent"]}
    /\ End(r)
    /\ UNCHANGED evaluation

\* Context cancelled, database error or server crash between two statements.
Abort(r) ==
    /\ CanAbort /\ pc[r] \in Running
    /\ End(r)
    /\ UNCHANGED <<evaluation, audits>>

-----------------------------------------------------------------------------
Handle(r) ==
    \/ FindByIdempotencyKey(r) \/ Freeze(r) \/ Create(r) \/ Start(r)
    \/ Complete(r) \/ Fail(r) \/ FinishRun(r)
    \/ Load(r) \/ Confirm(r) \/ Void(r) \/ RecordStateAudit(r)
    \/ SetReplayResult(r) \/ RecordReplay(r)

Step(r) == SubmitRun(r) \/ SubmitAction(r) \/ Handle(r) \/ Abort(r)

Next == \E r \in Requests : Step(r)

Spec == Init /\ [][Next]_vars

\* Go's scheduler runs every handler that has something left to do; nobody
\* is obliged to send a request, and nothing is obliged to fail.
FairSpec == Spec /\ \A r \in Requests : WF_vars(Handle(r))

-----------------------------------------------------------------------------
(* Properties *)

\* Every row, request and audit record is well formed.
TypeOK ==
    /\ evaluation \in [Evaluations -> Row]
    /\ audits \subseteq AuditRecord
    /\ pc \in [Requests -> Running \cup {"idle"}]
    /\ call \in [Requests -> Call]
    /\ copy \in [Requests -> Row]

\* However many runs with one key race past the lookup, one row comes of them.
OneEvaluationPerKey ==
    \A d, e \in Evaluations :
        Live(d) /\ Live(e) /\ evaluation[d].key = evaluation[e].key => d = e

\* A verdict is the one the frozen input calls for: a completed or confirmed
\* evaluation carries the score of the very snapshot stored beside it, a
\* failed one holds an input the evaluator rejects.
VerdictFollowsInput ==
    \A e \in Evaluations :
        LET row == evaluation[e]
        IN /\ row.state \in {"completed", "confirmed"} =>
                 row.snapshot \in Evaluable /\ row.score = Score[row.snapshot]
           /\ row.state = "failed" => row.snapshot \notin Evaluable

\* A confirmation is somebody's who is not the scenario's author and may
\* confirm, and it is there exactly when the row was confirmed; an
\* evaluation voided afterwards keeps it.
ConfirmedByAnother ==
    \A e \in Evaluations :
        LET row == evaluation[e]
        IN Live(e) =>
             /\ row.state = "confirmed" => row.confirmedBy # NoActor
             /\ row.confirmedBy # NoActor =>
                  /\ row.state \in {"confirmed", "voided"}
                  /\ row.confirmedBy # Author[row.scenario]
                  /\ HasPermission(RoleOf[row.confirmedBy], "evaluation:confirm")

\* Nobody takes the row from under a run: the conflicts "evaluation state
\* changed before it could start" and "while the result was being stored"
\* cannot arise, whoever confirms, voids or replays by then.
RunOwnsItsRow ==
    \A r \in Requests :
        /\ pc[r] = "queued" => evaluation[call[r].id].state = "queued"
        /\ pc[r] = "running" => evaluation[call[r].id].state = "running"

\* The audit trail and the row name the same confirmer: of two reviewers who
\* both loaded the completed evaluation, only the one whose name is on the
\* row gets a record.
AuditNamesConfirmer ==
    \A a \in audits :
        a.action = "confirm" => evaluation[a.id].confirmedBy = a.actor

\* The lists of states the service passes to the repository agree with the
\* transition table of the constants package, which neither of them reads,
\* and no evaluation is ever removed.
LifecycleRespected ==
    [][\A e \in Evaluations : Live(e) /\ evaluation'[e] # evaluation[e] =>
          \/ evaluation'[e].state = evaluation[e].state
          \/ CanTransitionCoverage(evaluation[e].state, evaluation'[e].state)]_vars

\* Every evaluation that was queued gets its verdict.
RunsTerminate ==
    \A e \in Evaluations :
        evaluation[e].state \in Unfinished ~> evaluation[e].state \notin Unfinished

-----------------------------------------------------------------------------
(* Why these hold: the inductive invariant of CoverageEvaluationProofs. *)

\* What a request knows while it runs: whose row it holds, in which state, and
\* that what it checked on its copy is still so.
RequestOK(r) ==
    LET c == call[r]
        e == call[r].id
    IN /\ pc[r] \in Running => c.op # "none" /\ c.actor \in Actors
       /\ pc[r] \in {"unknown_key", "frozen", "queued", "running", "stored"} =>
             c.op = "run"
       /\ pc[r] \in {"checked", "written", "replayed"} => c.op # "run"
       /\ pc[r] \in Running /\ c.op = "run" =>
             c.key \in Keys /\ c.scenario \in Scenarios
       /\ pc[r] = "frozen" =>
             \E snapshot \in Snapshots :
                copy[r] = QueuedRow(c.key, c.scenario, c.actor, snapshot)
       /\ pc[r] \in {"queued", "running"} =>
             /\ e \in Evaluations /\ evaluation[e].state = pc[r]
             /\ copy[r].snapshot = evaluation[e].snapshot
       /\ pc[r] = "stored" => e \in Evaluations /\ Live(e)
       /\ pc[r] \in Running /\ c.op # "run" =>
             /\ e \in Evaluations /\ Live(e)
             /\ HasPermission(RoleOf[c.actor], Permission(c.op))
       /\ pc[r] \in {"checked", "written", "replayed"} =>
             /\ copy[r] \in LiveEvaluation
             /\ copy[r].scenario = evaluation[e].scenario
             /\ Acceptable(c, copy[r])

RequestsOK == \A r \in Requests : RequestOK(r)

\* A row in flight has one runner at most.
SoleRunner ==
    \A q, r \in Requests :
        pc[q] \in {"queued", "running"} /\ pc[r] \in {"queued", "running"}
          /\ call[q].id = call[r].id => q = r

\* A confirmation on record is one the row carries, and so is one about to be
\* recorded.
ConfirmationsHold ==
    /\ AuditNamesConfirmer
    /\ \A a \in audits : a.action = "confirm" => Live(a.id) /\ a.actor \in Actors
    /\ \A r \in Requests :
          pc[r] = "written" /\ call[r].op = "confirm" =>
              evaluation[call[r].id].confirmedBy = call[r].actor

IInv ==
    /\ TypeOK
    /\ RequestsOK
    /\ SoleRunner
    /\ OneEvaluationPerKey
    /\ VerdictFollowsInput
    /\ ConfirmedByAnother
    /\ ConfirmationsHold

-----------------------------------------------------------------------------
(* What the documents say and the code does not keep. *)

\* Replaying a finished evaluation reproduces its result.
ReplayReproduces ==
    \A e \in Evaluations :
        evaluation[e].state \in {"completed", "confirmed"} =>
            evaluation[e].replay # "failed"

\* The snapshots of a confirmation's audit record show the row before and
\* after it.
AuditShowsTransition ==
    \A a \in audits :
        a.action = "confirm" => a.before = "completed" /\ a.after = "confirmed"

-----------------------------------------------------------------------------
(* The service implements the ledger. *)

Standing(state) == IF state \in Unfinished THEN "pending" ELSE state

Entries ==
    [k \in Keys |->
       IF ByKey(k) = {} THEN [standing |-> "blank"]
       ELSE LET row == evaluation[CHOOSE e \in ByKey(k) : TRUE]
            IN [standing |-> Standing(row.state), scenario |-> row.scenario,
                evaluatedBy |-> row.evaluatedBy, snapshot |-> row.snapshot,
                score |-> row.score, approver |-> row.confirmedBy]]

Ledger == INSTANCE EvaluationLedger WITH ledger <- Entries

\* Whatever requests do to each other, every key sees one frozen input, one
\* verdict and at most one approval: the service implements the ledger.
ImplementsLedger == Ledger!Spec
=============================================================================
