---------------------- MODULE CoverageEvaluationProofs ----------------------
(***************************************************************************)
(* Proofs about CoverageEvaluation for any set of users, roles, keys,     *)
(* inputs, evaluations and concurrent requests, cut off or not.           *)
(***************************************************************************)
EXTENDS CoverageEvaluation, TLAPS

-----------------------------------------------------------------------------
(* The rows *)

LEMMA RowFacts ==
    /\ NoEvaluation \notin LiveEvaluation /\ NoEvaluation \in Row
    /\ NoEvaluation.state \notin CoverageStates
    /\ \A row \in Row : row.state \in CoverageStates <=> row \in LiveEvaluation
    /\ \A row \in Row : row # NoEvaluation <=> row \in LiveEvaluation
  <1>1. NoEvaluation.state = "absent" /\ "absent" \notin CoverageStates
    BY DEF NoEvaluation, CoverageStates
  <1>2. \A row \in LiveEvaluation : row.state \in CoverageStates
    BY DEF LiveEvaluation
  <1> QED
    BY <1>1, <1>2 DEF Row

LEMMA QueuedRowType ==
    ASSUME NEW k \in Keys, NEW s \in Scenarios, NEW a \in Actors,
           NEW snapshot \in Snapshots
    PROVE  LET row == QueuedRow(k, s, a, snapshot)
           IN /\ row \in LiveEvaluation
              /\ row.state = "queued" /\ row.key = k /\ row.scenario = s
              /\ row.evaluatedBy = a /\ row.snapshot = snapshot
              /\ row.score = 0 /\ row.confirmedBy = NoActor
  BY DEF QueuedRow, LiveEvaluation, CoverageStates

\* What a run froze and whose row it is stays with the row.
Same(row, new) ==
    /\ new \in LiveEvaluation
    /\ new.key = row.key /\ new.scenario = row.scenario
    /\ new.evaluatedBy = row.evaluatedBy /\ new.snapshot = row.snapshot

LEMMA StateColumn ==
    ASSUME NEW row \in LiveEvaluation, NEW state \in CoverageStates
    PROVE  LET new == [row EXCEPT !.state = state]
           IN /\ Same(row, new) /\ new.state = state
              /\ new.score = row.score /\ new.confirmedBy = row.confirmedBy
  BY DEF LiveEvaluation, Same

LEMMA ConfirmColumns ==
    ASSUME NEW row \in LiveEvaluation, NEW a \in Actors
    PROVE  LET new == [row EXCEPT !.state = "confirmed", !.confirmedBy = a]
           IN /\ Same(row, new) /\ new.state = "confirmed"
              /\ new.score = row.score /\ new.confirmedBy = a
  <1> DEFINE mid == [row EXCEPT !.state = "confirmed"]
             new == [mid EXCEPT !.confirmedBy = a]
  <1>1. /\ Same(row, mid) /\ mid.state = "confirmed" /\ mid.score = row.score
        /\ mid \in LiveEvaluation
    BY StateColumn DEF CoverageStates, Same
  <1> HIDE DEF mid
  <1>2. /\ Same(row, new) /\ new.state = "confirmed"
        /\ new.score = row.score /\ new.confirmedBy = a
    BY <1>1 DEF LiveEvaluation, Same
  <1> QED
    BY <1>2 DEF mid

LEMMA ResultColumn ==
    ASSUME NEW row \in LiveEvaluation, NEW snapshot \in Evaluable,
           snapshot = row.snapshot
    PROVE  LET new == ResultColumns(row, snapshot)
           IN /\ Same(row, new) /\ new.state = "completed"
              /\ new.score = Score[snapshot]
              /\ new.confirmedBy = row.confirmedBy
  <1> DEFINE mid == [row EXCEPT !.state = "completed"]
             low == [mid EXCEPT !.snapshot = snapshot]
             new == [low EXCEPT !.score = Score[snapshot]]
  <1>0. Score[snapshot] \in Nat
    BY EvaluationAssumption
  <1>1. /\ Same(row, mid) /\ mid.state = "completed"
        /\ mid.confirmedBy = row.confirmedBy
    BY StateColumn DEF CoverageStates
  <1> HIDE DEF mid
  <1>2. /\ Same(row, low) /\ low.state = "completed"
        /\ low.confirmedBy = row.confirmedBy
    BY <1>1 DEF LiveEvaluation, Same
  <1> HIDE DEF low
  <1>3. /\ Same(row, new) /\ new.state = "completed"
        /\ new.score = Score[snapshot] /\ new.confirmedBy = row.confirmedBy
    BY <1>0, <1>2 DEF LiveEvaluation, Same
  <1> QED
    BY <1>3 DEF mid, low, ResultColumns

LEMMA ReplayColumn ==
    ASSUME NEW row \in LiveEvaluation, NEW verdict \in {"passed", "failed"}
    PROVE  LET new == [row EXCEPT !.replay = verdict]
           IN /\ Same(row, new) /\ new.state = row.state
              /\ new.score = row.score /\ new.confirmedBy = row.confirmedBy
  BY DEF LiveEvaluation, Same

-----------------------------------------------------------------------------
(* What a step does *)

\* A request that goes away without having written anything.
Ending(r) == End(r) /\ UNCHANGED <<evaluation, audits>>

LEMMA StepCases ==
    ASSUME IInv, NEW r \in Requests, Step(r)
    PROVE  \/ SubmitRun(r) \/ SubmitAction(r) \/ Ending(r)
           \/ FindByIdempotencyKey(r) /\ pc'[r] = "unknown_key"
           \/ Freeze(r)
           \/ Create(r) /\ pc'[r] = "queued"
           \/ Start(r) /\ pc'[r] = "running"
           \/ Complete(r) /\ pc'[r] = "stored"
           \/ Fail(r) /\ evaluation[call[r].id].state = "running"
           \/ FinishRun(r)
           \/ Load(r) /\ pc'[r] = "checked"
           \/ Confirm(r) /\ pc'[r] = "written"
           \/ Void(r) /\ pc'[r] = "written"
           \/ RecordStateAudit(r) \/ SetReplayResult(r) \/ RecordReplay(r)
  <1> USE DEF IInv, TypeOK, Ending, Goto
  <1>1. CASE FindByIdempotencyKey(r)
    BY <1>1 DEF FindByIdempotencyKey
  <1>2. CASE Create(r)
    BY <1>2 DEF Create
  <1>3. CASE Start(r)
    BY <1>3 DEF Start
  <1>4. CASE Complete(r)
    BY <1>4 DEF Complete
  <1>5. CASE Fail(r)
    BY <1>5 DEF Fail, Matches
  <1>6. CASE Load(r)
    BY <1>6 DEF Load
  <1>7. CASE Confirm(r)
    BY <1>7 DEF Confirm
  <1>8. CASE Void(r)
    BY <1>8 DEF Void
  <1>9. CASE Abort(r)
    BY <1>9 DEF Abort
  <1> QED
    BY <1>1, <1>2, <1>3, <1>4, <1>5, <1>6, <1>7, <1>8, <1>9 DEF Step, Handle

\* A step of one request leaves the others' progress and locals alone.
LEMMA OthersUnchanged ==
    ASSUME IInv, NEW r \in Requests, Step(r), NEW q \in Requests, q # r
    PROVE  pc'[q] = pc[q] /\ call'[q] = call[q] /\ copy'[q] = copy[q]
  BY StepCases DEF SubmitRun, SubmitAction, Ending, End, Goto,
     FindByIdempotencyKey, Freeze, Create, Start, Complete, Fail, FinishRun,
     Load, Confirm, Void, RecordStateAudit, SetReplayResult, RecordReplay,
     IInv, TypeOK

\* A run inserts its frozen row under a free id and a free key.
Inserted(r, e) ==
    /\ pc[r] = "frozen" /\ pc'[r] = "queued"
    /\ ~Live(e) /\ ByKey(call[r].key) = {}
    /\ call' = [call EXCEPT ![r].id = e] /\ UNCHANGED copy
    /\ evaluation' = [evaluation EXCEPT ![e] = copy[r]]
    /\ \E snapshot \in Snapshots :
          copy[r] = QueuedRow(call[r].key, call[r].scenario, call[r].actor, snapshot)
    /\ call[r].key \in Keys /\ call[r].scenario \in Scenarios
    /\ call[r].actor \in Actors

\* How a request may change the row it is about.
Moves(r, row, new) ==
    \/ /\ pc[r] = "queued" /\ pc'[r] = "running"
       /\ row.state = "queued" /\ new.state = "running"
       /\ new.score = row.score /\ new.confirmedBy = row.confirmedBy
    \/ /\ pc[r] = "running" /\ pc'[r] = "stored"
       /\ row.state = "running" /\ new.state = "completed"
       /\ row.snapshot \in Evaluable /\ new.score = Score[row.snapshot]
       /\ new.confirmedBy = row.confirmedBy
    \/ /\ pc[r] = "running" /\ pc'[r] = "idle"
       /\ row.state = "running" /\ new.state = "failed"
       /\ row.snapshot \notin Evaluable
       /\ new.score = row.score /\ new.confirmedBy = row.confirmedBy
    \/ /\ pc[r] = "checked" /\ call[r].op = "confirm"
       /\ row.state = "completed" /\ new.state = "confirmed"
       /\ new.score = row.score /\ new.confirmedBy = call[r].actor
       /\ call[r].actor \in Actors /\ call[r].actor # Author[row.scenario]
       /\ HasPermission(RoleOf[call[r].actor], "evaluation:confirm")
    \/ /\ pc[r] = "checked"
       /\ row.state \in {"completed", "failed", "confirmed"}
       /\ new.state = "voided"
       /\ new.score = row.score /\ new.confirmedBy = row.confirmedBy
    \/ /\ pc[r] = "checked"
       /\ new.state = row.state
       /\ new.score = row.score /\ new.confirmedBy = row.confirmedBy

Updated(r) ==
    LET e == call[r].id
    IN /\ e \in Evaluations /\ evaluation[e] \in LiveEvaluation
       /\ \E new \in LiveEvaluation :
             /\ evaluation' = [evaluation EXCEPT ![e] = new]
             /\ Same(evaluation[e], new)
             /\ Moves(r, evaluation[e], new)

LEMMA InsertStep ==
    ASSUME IInv, NEW r \in Requests, Create(r), pc'[r] = "queued"
    PROVE  \E e \in Evaluations : Inserted(r, e)
  <1>1. PICK e \in Evaluations :
           /\ ~Live(e) /\ ByKey(call[r].key) = {}
           /\ evaluation' = [evaluation EXCEPT ![e] = copy[r]]
           /\ call' = [call EXCEPT ![r].id = e] /\ UNCHANGED copy
    BY DEF Create, Taken, End, IInv, TypeOK
  <1>2. pc[r] = "frozen" /\ RequestOK(r)
    BY DEF Create, IInv, RequestsOK
  <1>3. call[r].op = "run" /\ call[r].actor \in Actors
        /\ call[r].key \in Keys /\ call[r].scenario \in Scenarios
    BY <1>2 DEF RequestOK, Running
  <1> QED
    BY <1>1, <1>2, <1>3 DEF Inserted, RequestOK

LEMMA RunStep ==
    ASSUME IInv, NEW r \in Requests,
           \/ Start(r) /\ pc'[r] = "running"
           \/ Complete(r) /\ pc'[r] = "stored"
           \/ Fail(r) /\ evaluation[call[r].id].state = "running"
    PROVE  Updated(r)
  <1> DEFINE e == call[r].id
  <1>1. pc[r] \in {"queued", "running"} /\ RequestOK(r)
    BY DEF IInv, RequestsOK, Start, Complete, Fail
  <1>2. /\ e \in Evaluations /\ evaluation[e].state = pc[r]
        /\ copy[r].snapshot = evaluation[e].snapshot
    BY <1>1 DEF RequestOK
  <1>3. evaluation[e] \in LiveEvaluation
    BY <1>1, <1>2, RowFacts DEF IInv, TypeOK, CoverageStates
  <1>4. CASE Start(r) /\ pc'[r] = "running"
    <2> DEFINE new == [evaluation[e] EXCEPT !.state = "running"]
    <2>1. evaluation' = [evaluation EXCEPT ![e] = new] /\ pc[r] = "queued"
      BY <1>4 DEF Start, End, IInv, TypeOK
    <2>2. /\ Same(evaluation[e], new) /\ new.state = "running"
          /\ new.score = evaluation[e].score
          /\ new.confirmedBy = evaluation[e].confirmedBy
      BY <1>3, StateColumn DEF CoverageStates
    <2> HIDE DEF new
    <2> QED
      BY <1>2, <1>3, <1>4, <2>1, <2>2 DEF Updated, Moves, Same
  <1>5. CASE Complete(r) /\ pc'[r] = "stored"
    <2> DEFINE new == ResultColumns(evaluation[e], copy[r].snapshot)
    <2>1. /\ evaluation' = [evaluation EXCEPT ![e] = new]
          /\ pc[r] = "running" /\ copy[r].snapshot \in Evaluable
      BY <1>5 DEF Complete, End, IInv, TypeOK
    <2>2. /\ Same(evaluation[e], new) /\ new.state = "completed"
          /\ new.score = Score[evaluation[e].snapshot]
          /\ new.confirmedBy = evaluation[e].confirmedBy
      BY <1>2, <1>3, <2>1, ResultColumn
    <2> HIDE DEF new
    <2> QED
      BY <1>2, <1>3, <1>5, <2>1, <2>2 DEF Updated, Moves, Same
  <1>6. CASE Fail(r) /\ evaluation[e].state = "running"
    <2> DEFINE new == [evaluation[e] EXCEPT !.state = "failed"]
    <2>1. /\ evaluation' = [evaluation EXCEPT ![e] = new]
          /\ pc[r] = "running" /\ pc'[r] = "idle"
          /\ copy[r].snapshot \notin Evaluable
      BY <1>6 DEF Fail, Matches, End, IInv, TypeOK
    <2>2. /\ Same(evaluation[e], new) /\ new.state = "failed"
          /\ new.score = evaluation[e].score
          /\ new.confirmedBy = evaluation[e].confirmedBy
      BY <1>3, StateColumn DEF CoverageStates
    <2> HIDE DEF new
    <2> QED
      BY <1>2, <1>3, <1>6, <2>1, <2>2 DEF Updated, Moves, Same
  <1> QED
    BY <1>4, <1>5, <1>6

LEMMA ActionStep ==
    ASSUME IInv, NEW r \in Requests,
           \/ Confirm(r) /\ pc'[r] = "written"
           \/ Void(r) /\ pc'[r] = "written"
           \/ SetReplayResult(r)
    PROVE  Updated(r)
  <1> DEFINE e == call[r].id
  <1>1. pc[r] = "checked" /\ RequestOK(r)
    BY DEF IInv, RequestsOK, Confirm, Void, SetReplayResult
  <1>2. /\ e \in Evaluations /\ Live(e) /\ call[r].actor \in Actors
        /\ copy[r].scenario = evaluation[e].scenario
        /\ Acceptable(call[r], copy[r])
        /\ HasPermission(RoleOf[call[r].actor], Permission(call[r].op))
    BY <1>1 DEF RequestOK, Running
  <1>3. evaluation[e] \in LiveEvaluation
    BY <1>2, RowFacts DEF IInv, TypeOK, Live
  <1>4. CASE Confirm(r) /\ pc'[r] = "written"
    <2> DEFINE new == [evaluation[e] EXCEPT !.state = "confirmed",
                                            !.confirmedBy = call[r].actor]
    <2>1. /\ evaluation' = [evaluation EXCEPT ![e] = new]
          /\ evaluation[e].state = "completed" /\ call[r].op = "confirm"
      BY <1>4 DEF Confirm, Matches, ConfirmableStates, End, IInv, TypeOK
    <2>2. /\ Same(evaluation[e], new) /\ new.state = "confirmed"
          /\ new.score = evaluation[e].score
          /\ new.confirmedBy = call[r].actor
      BY <1>2, <1>3, ConfirmColumns
    <2>3. /\ call[r].actor # Author[evaluation[e].scenario]
          /\ HasPermission(RoleOf[call[r].actor], "evaluation:confirm")
      BY <1>2, <2>1 DEF Acceptable, MayConfirm, Permission
    <2> HIDE DEF new
    <2> QED
      BY <1>1, <1>2, <1>3, <2>1, <2>2, <2>3 DEF Updated, Moves, Same
  <1>5. CASE Void(r) /\ pc'[r] = "written"
    <2> DEFINE new == [evaluation[e] EXCEPT !.state = "voided"]
    <2>1. /\ evaluation' = [evaluation EXCEPT ![e] = new]
          /\ evaluation[e].state \in {"completed", "failed", "confirmed"}
      BY <1>5 DEF Void, Matches, VoidableStates, End, IInv, TypeOK
    <2>2. /\ Same(evaluation[e], new) /\ new.state = "voided"
          /\ new.score = evaluation[e].score
          /\ new.confirmedBy = evaluation[e].confirmedBy
      BY <1>3, StateColumn DEF CoverageStates
    <2> HIDE DEF new
    <2> QED
      BY <1>1, <1>2, <1>3, <2>1, <2>2 DEF Updated, Moves, Same
  <1>6. CASE SetReplayResult(r)
    <2> DEFINE verdict == IF ReplayPasses(copy[r]) THEN "passed" ELSE "failed"
               new == [evaluation[e] EXCEPT !.replay = verdict]
    <2>1. evaluation' = [evaluation EXCEPT ![e] = new]
      BY <1>6 DEF SetReplayResult, IInv, TypeOK
    <2>2. /\ Same(evaluation[e], new) /\ new.state = evaluation[e].state
          /\ new.score = evaluation[e].score
          /\ new.confirmedBy = evaluation[e].confirmedBy
      <3>1. verdict \in {"passed", "failed"}
        OBVIOUS
      <3> HIDE DEF verdict
      <3> QED
        BY <1>3, <3>1, ReplayColumn
    <2> HIDE DEF new
    <2> QED
      BY <1>1, <1>2, <1>3, <2>1, <2>2 DEF Updated, Moves, Same
  <1> QED
    BY <1>4, <1>5, <1>6

\* All that ever happens to the table.
LEMMA TableStep ==
    ASSUME IInv, NEW r \in Requests, Step(r)
    PROVE  \/ UNCHANGED evaluation
           \/ \E e \in Evaluations : Inserted(r, e)
           \/ Updated(r)
  BY StepCases, InsertStep, RunStep, ActionStep
  DEF SubmitRun, SubmitAction, Ending, FindByIdempotencyKey, Freeze, FinishRun,
      Load, RecordStateAudit, RecordReplay

-----------------------------------------------------------------------------
(* The inductive invariant *)

\* An evaluation, once there, keeps its key, its scenario and its input.
LEMMA RowsStay ==
    ASSUME IInv, NEW r \in Requests, Step(r), NEW e \in Evaluations,
           evaluation[e] \in LiveEvaluation
    PROVE  Same(evaluation[e], evaluation'[e])
  <1>1. CASE UNCHANGED evaluation
    BY <1>1 DEF Same
  <1>2. CASE \E d \in Evaluations : Inserted(r, d)
    <2>1. PICK d \in Evaluations : Inserted(r, d)
      BY <1>2
    <2>2. d # e
      BY <2>1, RowFacts DEF Inserted, Live
    <2> QED
      BY <2>1, <2>2 DEF Inserted, Same, IInv, TypeOK
  <1>3. CASE Updated(r)
    BY <1>3 DEF Updated, Same, IInv, TypeOK
  <1> QED
    BY <1>1, <1>2, <1>3, TableStep

LEMMA TableType ==
    ASSUME IInv, NEW r \in Requests, Step(r)
    PROVE  evaluation' \in [Evaluations -> Row]
  <1>0. evaluation \in [Evaluations -> Row]
    BY DEF IInv, TypeOK
  <1>1. CASE \E e \in Evaluations : Inserted(r, e)
    <2>1. copy[r] \in Row
      BY DEF IInv, TypeOK
    <2> QED
      BY <1>0, <1>1, <2>1 DEF Inserted
  <1>2. CASE Updated(r)
    BY <1>0, <1>2 DEF Updated, Row
  <1> QED
    BY <1>0, <1>1, <1>2, TableStep

LEMMA TypeStep ==
    ASSUME IInv, NEW r \in Requests, Step(r)
    PROVE  TypeOK'
  <1> USE DEF Running
  <1>0. TypeOK /\ RequestOK(r)
    BY DEF IInv, RequestsOK
  <1>1. pc' \in [Requests -> Running \cup {"idle"}]
    BY <1>0, StepCases DEF TypeOK, SubmitRun, SubmitAction, Ending, End, Goto,
       FindByIdempotencyKey, Freeze, Create, Start, Complete, Fail, FinishRun,
       Load, Confirm, Void, RecordStateAudit, SetReplayResult, RecordReplay
  <1>2. call' \in [Requests -> Call]
    <2>1. NoCall \in Call
      BY DEF NoCall, Call
    <2>2. CASE SubmitRun(r)
      BY <1>0, <2>2 DEF SubmitRun, TypeOK, Call
    <2>3. CASE SubmitAction(r)
      BY <1>0, <2>3 DEF SubmitAction, TypeOK, Call
    <2>4. CASE Create(r) /\ pc'[r] = "queued"
      <3>1. PICK e \in Evaluations : Inserted(r, e)
        BY <2>4, InsertStep
      <3>2. [call[r] EXCEPT !.id = e] \in Call
        BY <1>0 DEF TypeOK, Call
      <3> QED
        BY <1>0, <3>1, <3>2 DEF Inserted, TypeOK
    <2> QED
      BY <1>0, <2>1, <2>2, <2>3, <2>4, StepCases DEF TypeOK, Ending, End,
         FindByIdempotencyKey, Freeze, Start, Complete, Fail, FinishRun,
         Load, Confirm, Void, RecordStateAudit, SetReplayResult, RecordReplay
  <1>3. copy' \in [Requests -> Row]
    <2>1. NoEvaluation \in Row
      BY RowFacts
    <2>2. CASE Freeze(r)
      <3>1. call[r].actor \in Actors /\ call[r].key \in Keys
            /\ call[r].scenario \in Scenarios
        BY <1>0, <2>2 DEF Freeze, RequestOK
      <3>2. PICK snapshot \in Snapshots :
               copy' = [copy EXCEPT ![r] = QueuedRow(call[r].key,
                          call[r].scenario, call[r].actor, snapshot)]
        BY <2>2 DEF Freeze
      <3>3. QueuedRow(call[r].key, call[r].scenario, call[r].actor, snapshot) \in Row
        BY <3>1, QueuedRowType DEF Row
      <3> QED
        BY <1>0, <3>2, <3>3 DEF TypeOK
    <2>3. CASE Load(r) /\ pc'[r] = "checked"
      <3>1. call[r].id \in Evaluations /\ pc[r] = "received"
        BY <1>0, <2>3 DEF Load, RequestOK
      <3> QED
        BY <1>0, <2>3, <3>1 DEF Load, End, TypeOK
    <2> QED
      BY <1>0, <2>1, <2>2, <2>3, StepCases DEF TypeOK, Ending, End, SubmitRun,
         SubmitAction, FindByIdempotencyKey, Create, Start, Complete, Fail,
         FinishRun, Confirm, Void, RecordStateAudit, SetReplayResult,
         RecordReplay
  <1>4. audits' \subseteq AuditRecord
    <2>1. \A x \in Evaluations, y \in {"run", "confirm", "void", "replay"},
             z \in Actors \cup {NoActor}, b, a \in CoverageStates \cup {"absent"} :
             [id |-> x, action |-> y, actor |-> z, before |-> b, after |-> a]
               \in AuditRecord
      BY DEF AuditRecord
    <2>2. CASE FinishRun(r)
      <3>1. call[r].id \in Evaluations /\ call[r].actor \in Actors
        BY <1>0, <2>2 DEF FinishRun, RequestOK
      <3>2. "completed" \in CoverageStates
        BY DEF CoverageStates
      <3>3. [id |-> call[r].id, action |-> "run", actor |-> call[r].actor,
             before |-> "absent", after |-> "completed"] \in AuditRecord
        BY <2>1, <3>1, <3>2
      <3> QED
        BY <1>0, <2>2, <3>3 DEF FinishRun, TypeOK
    <2>3. CASE RecordStateAudit(r)
      <3>1. /\ call[r].op \in {"confirm", "void", "replay"}
            /\ call[r].id \in Evaluations /\ call[r].actor \in Actors
            /\ copy[r] \in LiveEvaluation /\ Live(call[r].id)
        <4>1. pc[r] = "written"
          BY <2>3 DEF RecordStateAudit
        <4>2. call[r].op # "run" /\ call[r].op # "none" /\ call[r] \in Call
          BY <1>0, <4>1 DEF RequestOK, TypeOK
        <4>3. call[r].op \in {"confirm", "void", "replay"}
          BY <4>2 DEF Call
        <4> QED
          BY <1>0, <4>1, <4>2, <4>3 DEF RequestOK
      <3>2. evaluation[call[r].id].state \in CoverageStates
        BY <1>0, <3>1, RowFacts DEF TypeOK, Live
      <3>3. copy[r].state \in CoverageStates
        BY <3>1 DEF LiveEvaluation
      <3>4. [id |-> call[r].id, action |-> call[r].op, actor |-> call[r].actor,
             before |-> copy[r].state,
             after |-> evaluation[call[r].id].state] \in AuditRecord
        BY <2>1, <3>1, <3>2, <3>3
      <3> QED
        BY <1>0, <2>3, <3>4 DEF RecordStateAudit, TypeOK
    <2>4. CASE RecordReplay(r)
      <3>1. call[r].id \in Evaluations
        BY <1>0, <2>4 DEF RecordReplay, RequestOK
      <3>2. [id |-> call[r].id, action |-> "replay", actor |-> NoActor,
             before |-> "absent", after |-> "absent"] \in AuditRecord
        BY <2>1, <3>1
      <3> QED
        BY <1>0, <2>4, <3>2 DEF RecordReplay, TypeOK
    <2> QED
      BY <1>0, <2>2, <2>3, <2>4, StepCases DEF TypeOK, Ending, SubmitRun,
         SubmitAction, FindByIdempotencyKey, Freeze, Create, Start, Complete,
         Fail, Load, Confirm, Void, SetReplayResult
  <1> QED
    BY <1>1, <1>2, <1>3, <1>4, TableType DEF TypeOK

\* A row in flight changes state only by its own run.
LEMMA InFlightStays ==
    ASSUME IInv, NEW r \in Requests, Step(r), NEW q \in Requests, q # r,
           pc[q] \in {"queued", "running"}
    PROVE  LET e == call[q].id
           IN /\ e \in Evaluations /\ evaluation[e] \in LiveEvaluation
              /\ evaluation'[e].state = pc[q]
              /\ evaluation'[e].snapshot = copy[q].snapshot
  <1> DEFINE e == call[q].id
  <1>1. /\ e \in Evaluations /\ evaluation[e].state = pc[q]
        /\ copy[q].snapshot = evaluation[e].snapshot
    BY DEF IInv, RequestsOK, RequestOK
  <1>2. evaluation[e] \in LiveEvaluation
    BY <1>1, RowFacts DEF IInv, TypeOK, CoverageStates
  <1>3. evaluation'[e].snapshot = copy[q].snapshot
    BY <1>1, <1>2, RowsStay DEF Same
  <1>4. evaluation'[e].state = pc[q]
    <2>1. CASE UNCHANGED evaluation
      BY <1>1, <2>1
    <2>2. CASE \E d \in Evaluations : Inserted(r, d)
      <3>1. PICK d \in Evaluations : Inserted(r, d)
        BY <2>2
      <3>2. d # e
        BY <1>2, <3>1, RowFacts DEF Inserted, Live
      <3> QED
        BY <1>1, <3>1, <3>2 DEF Inserted, IInv, TypeOK
    <2>3. CASE Updated(r) /\ call[r].id # e
      BY <1>1, <2>3 DEF Updated, IInv, TypeOK
    <2>4. CASE Updated(r) /\ call[r].id = e
      <3>1. PICK new \in LiveEvaluation :
               /\ evaluation' = [evaluation EXCEPT ![e] = new]
               /\ Moves(r, evaluation[e], new)
        BY <2>4 DEF Updated
      <3>2. pc[r] \notin {"queued", "running"}
        BY <2>4 DEF IInv, SoleRunner
      <3>3. new.state = evaluation[e].state
        BY <1>1, <3>1, <3>2 DEF Moves
      <3> QED
        BY <1>1, <3>1, <3>3 DEF IInv, TypeOK
    <2> QED
      BY <2>1, <2>2, <2>3, <2>4, TableStep
  <1> QED
    BY <1>1, <1>2, <1>3, <1>4

\* What the other requests know stays true.
LEMMA OtherRequestStep ==
    ASSUME IInv, NEW r \in Requests, Step(r), NEW q \in Requests, q # r
    PROVE  RequestOK(q)'
  <1>1. pc'[q] = pc[q] /\ call'[q] = call[q] /\ copy'[q] = copy[q]
    BY OthersUnchanged
  <1>2. RequestOK(q)
    BY DEF IInv, RequestsOK
  <1>3. \A e \in Evaluations : Live(e) =>
           /\ evaluation'[e] # NoEvaluation
           /\ evaluation'[e].scenario = evaluation[e].scenario
    <2> SUFFICES ASSUME NEW e \in Evaluations, Live(e)
                 PROVE  /\ evaluation'[e] # NoEvaluation
                        /\ evaluation'[e].scenario = evaluation[e].scenario
      OBVIOUS
    <2>1. evaluation[e] \in LiveEvaluation
      BY RowFacts DEF Live, IInv, TypeOK
    <2>2. Same(evaluation[e], evaluation'[e])
      BY <2>1, RowsStay
    <2> QED
      BY <2>2, RowFacts DEF Same, Live
  <1>4. pc[q] \in {"queued", "running"} =>
           /\ call[q].id \in Evaluations
           /\ evaluation'[call[q].id].state = pc[q]
           /\ copy[q].snapshot = evaluation'[call[q].id].snapshot
    BY InFlightStays
  <1>5. pc[q] = "stored" =>
           call[q].id \in Evaluations /\ evaluation'[call[q].id] # NoEvaluation
    BY <1>2, <1>3 DEF RequestOK
  <1>6. pc[q] \in Running /\ call[q].op # "run" =>
           /\ call[q].id \in Evaluations /\ evaluation'[call[q].id] # NoEvaluation
           /\ evaluation'[call[q].id].scenario = evaluation[call[q].id].scenario
           /\ HasPermission(RoleOf[call[q].actor], Permission(call[q].op))
    BY <1>2, <1>3 DEF RequestOK
  <1>7. pc[q] \in {"checked", "written", "replayed"} =>
           /\ copy[q] \in LiveEvaluation
           /\ copy[q].scenario = evaluation'[call[q].id].scenario
           /\ Acceptable(call[q], copy[q])
    BY <1>2, <1>6 DEF RequestOK, Running
  <1>8. /\ pc[q] \in Running => call[q].op # "none" /\ call[q].actor \in Actors
        /\ pc[q] \in {"unknown_key", "frozen", "queued", "running", "stored"} =>
              call[q].op = "run"
        /\ pc[q] \in {"checked", "written", "replayed"} => call[q].op # "run"
        /\ pc[q] \in Running /\ call[q].op = "run" =>
              call[q].key \in Keys /\ call[q].scenario \in Scenarios
        /\ pc[q] = "frozen" =>
              \E snapshot \in Snapshots : copy[q] =
                 QueuedRow(call[q].key, call[q].scenario, call[q].actor, snapshot)
    BY <1>2 DEF RequestOK
  <1> QED
    BY <1>1, <1>4, <1>5, <1>6, <1>7, <1>8 DEF RequestOK, Live

\* What a request knows after its own step.
LEMMA OwnRequestStep ==
    ASSUME IInv, NEW r \in Requests, Step(r)
    PROVE  RequestOK(r)'
  <1> USE DEF Running
  <1>0. TypeOK /\ TypeOK' /\ RequestOK(r)
    BY TypeStep DEF IInv, RequestsOK
  <1>1. CASE pc'[r] = "idle"
    BY <1>1 DEF RequestOK
  <1>2. CASE SubmitRun(r)
    <2>1. pc'[r] = "received"
      BY <1>0, <1>2 DEF SubmitRun, Goto, TypeOK
    <2>2. call'[r].op = "run" /\ call'[r].actor \in Actors
          /\ call'[r].key \in Keys /\ call'[r].scenario \in Scenarios
      BY <1>0, <1>2 DEF SubmitRun, TypeOK
    <2> QED
      BY <2>1, <2>2 DEF RequestOK
  <1>3. CASE SubmitAction(r)
    <2>1. pc'[r] = "received"
      BY <1>0, <1>3 DEF SubmitAction, Goto, TypeOK
    <2>2. /\ call'[r].op \in {"confirm", "void", "replay"}
          /\ call'[r].actor \in Actors /\ call'[r].id \in Evaluations
          /\ Live(call'[r].id)
          /\ HasPermission(RoleOf[call'[r].actor], Permission(call'[r].op))
      BY <1>0, <1>3 DEF SubmitAction, TypeOK
    <2>3. evaluation'[call'[r].id] # NoEvaluation
      BY <1>3, <2>2 DEF SubmitAction, Live
    <2> QED
      BY <2>1, <2>2, <2>3 DEF RequestOK, Live
  <1>4. CASE FindByIdempotencyKey(r) /\ pc'[r] = "unknown_key"
    <2>1. pc[r] = "received" /\ call[r].op = "run" /\ call'[r] = call[r]
      BY <1>0, <1>4 DEF FindByIdempotencyKey, End, TypeOK
    <2> QED
      BY <1>0, <1>4, <2>1 DEF RequestOK
  <1>5. CASE Freeze(r)
    <2>1. pc[r] = "unknown_key" /\ pc'[r] = "frozen" /\ call'[r] = call[r]
      BY <1>0, <1>5 DEF Freeze, Goto, TypeOK
    <2>2. \E snapshot \in Snapshots : copy'[r] =
             QueuedRow(call[r].key, call[r].scenario, call[r].actor, snapshot)
      BY <1>0, <1>5 DEF Freeze, TypeOK
    <2> QED
      BY <1>0, <2>1, <2>2 DEF RequestOK
  <1>6. CASE Create(r) /\ pc'[r] = "queued"
    <2>1. PICK e \in Evaluations : Inserted(r, e)
      BY <1>6, InsertStep
    <2>2. /\ call'[r].id = e /\ call'[r].op = call[r].op
          /\ call'[r].actor = call[r].actor /\ call'[r].key = call[r].key
          /\ call'[r].scenario = call[r].scenario
      BY <1>0, <2>1 DEF Inserted, TypeOK, Call
    <2>3. evaluation'[e] = copy[r] /\ copy'[r] = copy[r]
      BY <1>0, <2>1 DEF Inserted, TypeOK
    <2>4. copy[r].state = "queued"
      BY <2>1 DEF Inserted, QueuedRow
    <2>5. pc[r] = "frozen" /\ call[r].op = "run" /\ call[r].actor \in Actors
          /\ call[r].key \in Keys /\ call[r].scenario \in Scenarios
      BY <1>0, <2>1 DEF Inserted, RequestOK
    <2> QED
      BY <1>6, <2>2, <2>3, <2>4, <2>5 DEF RequestOK
  <1>7. CASE \/ Start(r) /\ pc'[r] = "running"
             \/ Complete(r) /\ pc'[r] = "stored"
    <2>1. call'[r] = call[r] /\ copy'[r] = copy[r]
          /\ pc[r] \in {"queued", "running"}
      BY <1>0, <1>7 DEF Start, Complete, End, TypeOK
    <2>2. PICK new \in LiveEvaluation :
             /\ evaluation' = [evaluation EXCEPT ![call[r].id] = new]
             /\ Same(evaluation[call[r].id], new)
             /\ Moves(r, evaluation[call[r].id], new)
      BY <1>7, RunStep DEF Updated
    <2>3. call[r].id \in Evaluations
          /\ copy[r].snapshot = evaluation[call[r].id].snapshot
      BY <1>0, <2>1 DEF RequestOK
    <2>4. evaluation'[call[r].id] = new /\ new.snapshot = copy[r].snapshot
      BY <1>0, <2>2, <2>3 DEF TypeOK, Same
    <2>5. evaluation'[call[r].id] # NoEvaluation
      BY <2>2, <2>4, RowFacts DEF Live
    <2>6. pc'[r] = "running" => new.state = "running"
      BY <2>1, <2>2 DEF Moves
    <2>7. call[r].op = "run" /\ call[r].actor \in Actors
          /\ call[r].key \in Keys /\ call[r].scenario \in Scenarios
      BY <1>0, <2>1 DEF RequestOK
    <2> QED
      BY <1>7, <2>1, <2>3, <2>4, <2>5, <2>6, <2>7 DEF RequestOK, Live
  <1>8. CASE Load(r) /\ pc'[r] = "checked"
    <2>1. /\ pc[r] = "received" /\ call[r].op \in {"confirm", "void", "replay"}
          /\ Acceptable(call[r], evaluation[call[r].id])
          /\ copy'[r] = evaluation[call[r].id] /\ call'[r] = call[r]
          /\ UNCHANGED evaluation
      BY <1>0, <1>8 DEF Load, End, TypeOK
    <2>2. call[r].id \in Evaluations /\ Live(call[r].id)
          /\ call[r].actor \in Actors
          /\ HasPermission(RoleOf[call[r].actor], Permission(call[r].op))
      BY <1>0, <2>1 DEF RequestOK
    <2>3. evaluation[call[r].id] \in LiveEvaluation
      BY <1>0, <2>2, RowFacts DEF TypeOK, Live
    <2> QED
      BY <1>8, <2>1, <2>2, <2>3 DEF RequestOK, Live
  <1>9. CASE \/ Confirm(r) /\ pc'[r] = "written"
             \/ Void(r) /\ pc'[r] = "written"
             \/ SetReplayResult(r)
    <2>1. /\ pc[r] = "checked" /\ pc'[r] \in {"written", "replayed"}
          /\ call'[r] = call[r] /\ copy'[r] = copy[r]
      BY <1>0, <1>9 DEF Confirm, Void, SetReplayResult, Goto, End, TypeOK
    <2>2. /\ call[r].op # "run" /\ call[r].op # "none"
          /\ call[r].actor \in Actors /\ call[r].id \in Evaluations
          /\ HasPermission(RoleOf[call[r].actor], Permission(call[r].op))
          /\ copy[r] \in LiveEvaluation
          /\ copy[r].scenario = evaluation[call[r].id].scenario
          /\ Acceptable(call[r], copy[r])
      BY <1>0, <2>1 DEF RequestOK
    <2>3. PICK new \in LiveEvaluation :
             /\ evaluation' = [evaluation EXCEPT ![call[r].id] = new]
             /\ Same(evaluation[call[r].id], new)
      BY <1>9, ActionStep DEF Updated
    <2>4. /\ evaluation'[call[r].id] \in LiveEvaluation
          /\ evaluation'[call[r].id].scenario = copy[r].scenario
      BY <1>0, <2>2, <2>3 DEF TypeOK, Same
    <2>5. evaluation'[call[r].id] # NoEvaluation
      BY <2>4, RowFacts DEF Live
    <2> QED
      BY <2>1, <2>2, <2>4, <2>5 DEF RequestOK, Live
  <1> QED
    BY <1>0, <1>1, <1>2, <1>3, <1>4, <1>5, <1>6, <1>7, <1>8, <1>9, StepCases
    DEF Ending, End, Fail, FinishRun, RecordStateAudit, RecordReplay, TypeOK

LEMMA RequestsStep ==
    ASSUME IInv, NEW r \in Requests, Step(r)
    PROVE  RequestsOK'
  BY OtherRequestStep, OwnRequestStep DEF RequestsOK

\* A run that inserts a row takes a free id, which no run in flight holds.
LEMMA SoleRunnerStep ==
    ASSUME IInv, NEW r \in Requests, Step(r)
    PROVE  SoleRunner'
  <1> DEFINE Flying(q) == pc[q] \in {"queued", "running"}
  <1>0. TypeOK
    BY DEF IInv
  <1>1. \A q \in Requests : Flying(q) =>
           call[q].id \in Evaluations /\ Live(call[q].id)
    <2> SUFFICES ASSUME NEW q \in Requests, Flying(q)
                 PROVE  call[q].id \in Evaluations /\ Live(call[q].id)
      OBVIOUS
    <2>1. call[q].id \in Evaluations
          /\ evaluation[call[q].id].state \in CoverageStates
      BY DEF IInv, RequestsOK, RequestOK, CoverageStates
    <2> QED
      BY <2>1, RowFacts DEF Live
  <1>2. \A q \in Requests \ {r} : pc'[q] = pc[q] /\ call'[q] = call[q]
    BY OthersUnchanged
  <1>3. CASE pc'[r] \notin {"queued", "running"}
    BY <1>2, <1>3 DEF IInv, SoleRunner
  <1>4. CASE Create(r) /\ pc'[r] = "queued"
    <2>1. PICK e \in Evaluations : Inserted(r, e)
      BY <1>4, InsertStep
    <2>2. call'[r].id = e /\ ~Live(e)
      BY <1>0, <2>1 DEF Inserted, TypeOK, Call
    <2> QED
      BY <1>1, <1>2, <2>2 DEF IInv, SoleRunner
  <1>5. CASE Start(r) /\ pc'[r] = "running"
    <2>1. pc[r] = "queued" /\ call'[r] = call[r]
      BY <1>0, <1>5 DEF Start, End, TypeOK
    <2> QED
      BY <1>2, <2>1 DEF IInv, SoleRunner
  <1>6. pc'[r] \in {"queued", "running"} =>
           \/ Create(r) /\ pc'[r] = "queued"
           \/ Start(r) /\ pc'[r] = "running"
    BY <1>0, StepCases DEF SubmitRun, SubmitAction, Ending, End, Goto, Freeze,
       Fail, FinishRun, Confirm, RecordStateAudit, SetReplayResult,
       RecordReplay, TypeOK
  <1> QED
    BY <1>3, <1>4, <1>5, <1>6

LEMMA KeysStep ==
    ASSUME IInv, NEW r \in Requests, Step(r)
    PROVE  OneEvaluationPerKey'
  <1>0. TypeOK /\ OneEvaluationPerKey
    BY DEF IInv
  <1>1. CASE UNCHANGED evaluation
    BY <1>0, <1>1 DEF OneEvaluationPerKey, Live
  <1>2. CASE \E e \in Evaluations : Inserted(r, e)
    <2>1. PICK e \in Evaluations : Inserted(r, e)
      BY <1>2
    <2>2. copy[r].key = call[r].key
      BY <2>1, QueuedRowType DEF Inserted
    <2>3. \A d \in Evaluations : Live(d) => evaluation[d].key # call[r].key
      BY <2>1 DEF Inserted, ByKey
    <2>4. /\ evaluation'[e] = copy[r]
          /\ \A d \in Evaluations \ {e} : evaluation'[d] = evaluation[d]
      BY <1>0, <2>1 DEF Inserted, TypeOK
    <2> QED
      BY <1>0, <2>2, <2>3, <2>4 DEF OneEvaluationPerKey, Live
  <1>3. CASE Updated(r)
    <2>1. PICK new \in LiveEvaluation :
             /\ evaluation' = [evaluation EXCEPT ![call[r].id] = new]
             /\ Same(evaluation[call[r].id], new)
      BY <1>3 DEF Updated
    <2>2. Live(call[r].id) /\ call[r].id \in Evaluations
      BY <1>3, RowFacts DEF Updated, Live
    <2>3. /\ evaluation'[call[r].id].key = evaluation[call[r].id].key
          /\ \A d \in Evaluations \ {call[r].id} : evaluation'[d] = evaluation[d]
      BY <1>0, <2>1, <2>2 DEF Same, TypeOK
    <2> QED
      BY <1>0, <2>2, <2>3 DEF OneEvaluationPerKey, Live
  <1> QED
    BY <1>1, <1>2, <1>3, TableStep

\* The two properties of a single row, for a row a step has written.
VerdictOK(row) ==
    /\ row.state \in {"completed", "confirmed"} =>
          row.snapshot \in Evaluable /\ row.score = Score[row.snapshot]
    /\ row.state = "failed" => row.snapshot \notin Evaluable

ConfirmationOK(row) ==
    /\ row.state = "confirmed" => row.confirmedBy # NoActor
    /\ row.confirmedBy # NoActor =>
          /\ row.state \in {"confirmed", "voided"}
          /\ row.confirmedBy # Author[row.scenario]
          /\ HasPermission(RoleOf[row.confirmedBy], "evaluation:confirm")

LEMMA RowsOKStep ==
    ASSUME IInv, NEW r \in Requests, Step(r), NEW e \in Evaluations,
           evaluation'[e] \in LiveEvaluation
    PROVE  VerdictOK(evaluation'[e]) /\ ConfirmationOK(evaluation'[e])
  <1>0. /\ TypeOK
        /\ evaluation[e] \in LiveEvaluation =>
              VerdictOK(evaluation[e]) /\ ConfirmationOK(evaluation[e])
    BY RowFacts DEF IInv, VerdictFollowsInput, ConfirmedByAnother, VerdictOK,
       ConfirmationOK, Live
  <1>1. CASE evaluation'[e] = evaluation[e]
    BY <1>0, <1>1
  <1>2. CASE Inserted(r, e)
    <2>1. evaluation'[e] = copy[r]
      BY <1>0, <1>2 DEF Inserted, TypeOK
    <2>2. copy[r].state = "queued" /\ copy[r].confirmedBy = NoActor
      BY <1>2, QueuedRowType DEF Inserted
    <2> QED
      BY <2>1, <2>2 DEF VerdictOK, ConfirmationOK
  <1>3. CASE Updated(r) /\ call[r].id = e
    <2>1. PICK new \in LiveEvaluation :
             /\ evaluation' = [evaluation EXCEPT ![e] = new]
             /\ Same(evaluation[e], new)
             /\ Moves(r, evaluation[e], new)
      BY <1>3 DEF Updated
    <2>2. evaluation'[e] = new
      BY <1>0, <2>1 DEF TypeOK
    <2>3. VerdictOK(evaluation[e]) /\ ConfirmationOK(evaluation[e])
      BY <1>0, <1>3 DEF Updated
    <2>4. VerdictOK(new)
      BY <2>1, <2>3 DEF VerdictOK, Moves, Same
    <2>5. ConfirmationOK(new)
      BY <2>1, <2>3, EvaluationAssumption DEF ConfirmationOK, Moves, Same
    <2> QED
      BY <2>2, <2>4, <2>5
  <1> QED
    <2>1. \A d \in Evaluations : Inserted(r, d) /\ d # e =>
             evaluation'[e] = evaluation[e]
      BY <1>0 DEF Inserted, TypeOK
    <2>2. Updated(r) /\ call[r].id # e => evaluation'[e] = evaluation[e]
      BY <1>0 DEF Updated, TypeOK
    <2> QED
      BY <1>1, <1>2, <1>3, <2>1, <2>2, TableStep

LEMMA VerdictStep ==
    ASSUME IInv, NEW r \in Requests, Step(r)
    PROVE  VerdictFollowsInput'
  <1> SUFFICES ASSUME NEW e \in Evaluations
               PROVE  VerdictOK(evaluation'[e])
    BY DEF VerdictFollowsInput, VerdictOK
  <1>1. CASE evaluation'[e] \in LiveEvaluation
    BY <1>1, RowsOKStep
  <1>2. CASE evaluation'[e] = NoEvaluation
    BY <1>2 DEF VerdictOK, NoEvaluation
  <1> QED
    BY <1>1, <1>2, TableType DEF Row

LEMMA ConfirmedByStep ==
    ASSUME IInv, NEW r \in Requests, Step(r)
    PROVE  ConfirmedByAnother'
  <1> SUFFICES ASSUME NEW e \in Evaluations, evaluation'[e] # NoEvaluation
               PROVE  ConfirmationOK(evaluation'[e])
    BY DEF ConfirmedByAnother, ConfirmationOK, Live
  <1>1. evaluation'[e] \in LiveEvaluation
    BY TableType DEF Row
  <1> QED
    BY <1>1, RowsOKStep

\* A confirmation, once given, is nobody else's.
LEMMA ConfirmerStays ==
    ASSUME IInv, NEW r \in Requests, Step(r), NEW e \in Evaluations,
           NEW a \in Actors, evaluation[e].confirmedBy = a,
           evaluation[e] \in LiveEvaluation
    PROVE  evaluation'[e].confirmedBy = a
  <1>0. TypeOK /\ evaluation[e].state \in {"confirmed", "voided"}
    BY RowFacts, EvaluationAssumption DEF IInv, ConfirmedByAnother, Live
  <1>1. CASE \E d \in Evaluations : Inserted(r, d)
    <2>1. PICK d \in Evaluations : Inserted(r, d)
      BY <1>1
    <2>2. d # e
      BY <2>1, RowFacts DEF Inserted, Live
    <2> QED
      BY <1>0, <2>1, <2>2 DEF Inserted, TypeOK
  <1>2. CASE Updated(r)
    <2>1. PICK new \in LiveEvaluation :
             /\ evaluation' = [evaluation EXCEPT ![call[r].id] = new]
             /\ Moves(r, evaluation[call[r].id], new)
      BY <1>2 DEF Updated
    <2>2. CASE call[r].id = e
      BY <1>0, <2>1, <2>2 DEF Moves, TypeOK
    <2> QED
      BY <1>0, <2>1, <2>2 DEF TypeOK
  <1> QED
    BY <1>1, <1>2, TableStep

LEMMA ConfirmationsStep ==
    ASSUME IInv, NEW r \in Requests, Step(r)
    PROVE  ConfirmationsHold'
  <1>0. TypeOK /\ ConfirmationsHold /\ RequestsOK
    BY DEF IInv
  <1>1. \A e \in Evaluations, a \in Actors :
           evaluation[e].confirmedBy = a /\ Live(e) =>
              evaluation'[e].confirmedBy = a /\ evaluation'[e] # NoEvaluation
    <2> SUFFICES ASSUME NEW e \in Evaluations, NEW a \in Actors,
                        evaluation[e].confirmedBy = a, Live(e)
                 PROVE  /\ evaluation'[e].confirmedBy = a
                        /\ evaluation'[e] # NoEvaluation
      OBVIOUS
    <2>1. evaluation[e] \in LiveEvaluation
      BY <1>0, RowFacts DEF TypeOK, Live
    <2> QED
      BY <2>1, ConfirmerStays, RowsStay, RowFacts DEF Same
  \* What a request knows when it has written its confirmation.
  <1>2. ASSUME NEW q \in Requests, pc[q] = "written", call[q].op = "confirm"
        PROVE  /\ call[q].id \in Evaluations /\ Live(call[q].id)
               /\ call[q].actor \in Actors
               /\ evaluation[call[q].id].confirmedBy = call[q].actor
    BY <1>0, <1>2 DEF RequestsOK, RequestOK, Running, ConfirmationsHold
  <1>3. \A a \in audits : a.action = "confirm" =>
           /\ evaluation'[a.id] # NoEvaluation /\ a.actor \in Actors
           /\ evaluation'[a.id].confirmedBy = a.actor
    <2> SUFFICES ASSUME NEW a \in audits, a.action = "confirm"
                 PROVE  /\ evaluation'[a.id] # NoEvaluation /\ a.actor \in Actors
                        /\ evaluation'[a.id].confirmedBy = a.actor
      OBVIOUS
    <2>1. a.id \in Evaluations
      BY <1>0 DEF TypeOK, AuditRecord
    <2>2. /\ Live(a.id) /\ a.actor \in Actors
          /\ evaluation[a.id].confirmedBy = a.actor
      BY <1>0 DEF ConfirmationsHold, AuditNamesConfirmer
    <2> QED
      BY <1>1, <2>1, <2>2
  <1>4. \A a \in audits' : a.action = "confirm" =>
           /\ evaluation'[a.id] # NoEvaluation /\ a.actor \in Actors
           /\ evaluation'[a.id].confirmedBy = a.actor
    <2>1. CASE audits' = audits
      BY <1>3, <2>1
    <2>2. CASE RecordStateAudit(r)
      <3> DEFINE a == [id |-> call[r].id, action |-> call[r].op,
                       actor |-> call[r].actor, before |-> copy[r].state,
                       after |-> evaluation[call[r].id].state]
      <3>1. /\ audits' = audits \cup {a} /\ pc[r] = "written"
            /\ UNCHANGED evaluation
        BY <2>2 DEF RecordStateAudit
      <3>2. a.id = call[r].id /\ a.action = call[r].op /\ a.actor = call[r].actor
        OBVIOUS
      <3> HIDE DEF a
      <3> QED
        BY <1>2, <1>3, <3>1, <3>2 DEF Live
    <2>3. CASE FinishRun(r)
      <3> DEFINE a == [id |-> call[r].id, action |-> "run",
                       actor |-> call[r].actor, before |-> "absent",
                       after |-> "completed"]
      <3>1. audits' = audits \cup {a} /\ a.action = "run"
        BY <2>3 DEF FinishRun
      <3> HIDE DEF a
      <3> QED
        BY <1>3, <3>1
    <2>4. CASE RecordReplay(r)
      <3> DEFINE a == [id |-> call[r].id, action |-> "replay",
                       actor |-> NoActor, before |-> "absent",
                       after |-> "absent"]
      <3>1. audits' = audits \cup {a} /\ a.action = "replay"
        BY <2>4 DEF RecordReplay
      <3> HIDE DEF a
      <3> QED
        BY <1>3, <3>1
    <2> QED
      BY <2>1, <2>2, <2>3, <2>4, StepCases DEF SubmitRun, SubmitAction, Ending,
         FindByIdempotencyKey, Freeze, Create, Start, Complete, Fail, Load,
         Confirm, Void, SetReplayResult
  <1>5. ASSUME NEW q \in Requests, pc'[q] = "written", call'[q].op = "confirm"
        PROVE  evaluation'[call'[q].id].confirmedBy = call'[q].actor
    <2>1. CASE q # r
      <3>1. pc[q] = "written" /\ call'[q] = call[q]
        BY <1>5, <2>1, OthersUnchanged
      <3> QED
        BY <1>1, <1>2, <1>5, <3>1
    <2>2. CASE q = r
      <3>1. Confirm(r) \/ Void(r)
        BY <1>0, <1>5, <2>2, StepCases DEF TypeOK, SubmitRun, SubmitAction,
           Ending, End, Goto, FindByIdempotencyKey, Freeze, Create, Start,
           Complete, Fail, FinishRun, Load, RecordStateAudit, SetReplayResult,
           RecordReplay
      <3>2. call'[r] = call[r] /\ pc[r] = "checked"
        BY <1>0, <1>5, <2>2, <3>1 DEF Confirm, Void, End, TypeOK
      <3>3. Confirm(r)
        BY <1>5, <2>2, <3>1, <3>2 DEF Void
      <3>4. call[r].id \in Evaluations /\ evaluation[call[r].id] \in LiveEvaluation
        BY <1>5, <2>2, <3>3, ActionStep DEF Updated
      <3>5. evaluation' = [evaluation EXCEPT ![call[r].id] =
               [evaluation[call[r].id] EXCEPT !.state = "confirmed",
                                              !.confirmedBy = call[r].actor]]
        BY <1>0, <1>5, <2>2, <3>3 DEF Confirm, End, TypeOK
      <3>6. call[r].actor \in Actors
        BY <1>0, <3>2 DEF RequestsOK, RequestOK, Running
      <3>7. evaluation'[call[r].id].confirmedBy = call[r].actor
        BY <1>0, <3>4, <3>5, <3>6, ConfirmColumns DEF TypeOK
      <3> QED
        BY <2>2, <3>2, <3>7
    <2> QED
      BY <2>1, <2>2
  <1>6. AuditNamesConfirmer'
    BY <1>4 DEF AuditNamesConfirmer
  <1> QED
    BY <1>4, <1>5, <1>6 DEF ConfirmationsHold, Live

-----------------------------------------------------------------------------
LEMMA InvInit ==
    Init => IInv
  <1> SUFFICES ASSUME Init
               PROVE  IInv
    OBVIOUS
  <1> USE DEF Init
  <1>1. \A e \in Evaluations : evaluation[e] = NoEvaluation /\ ~Live(e)
    BY DEF Live
  <1>2. TypeOK
    BY RowFacts DEF TypeOK, NoCall, Call
  <1>3. RequestsOK
    BY DEF RequestsOK, RequestOK, Running
  <1>4. SoleRunner
    BY DEF SoleRunner
  <1>5. VerdictFollowsInput
    BY <1>1 DEF VerdictFollowsInput, NoEvaluation
  <1> QED
    BY <1>1, <1>2, <1>3, <1>4, <1>5 DEF IInv, OneEvaluationPerKey,
       ConfirmedByAnother, ConfirmationsHold, AuditNamesConfirmer

LEMMA InvStutter ==
    IInv /\ UNCHANGED vars => IInv'
  <1> SUFFICES ASSUME IInv, UNCHANGED vars
               PROVE  IInv'
    OBVIOUS
  <1> USE DEF vars, Live, IInv
  <1>1. TypeOK'
    BY DEF TypeOK
  <1>2. RequestsOK'
    BY DEF RequestsOK, RequestOK
  <1>3. SoleRunner'
    BY DEF SoleRunner
  <1>4. OneEvaluationPerKey' /\ VerdictFollowsInput' /\ ConfirmedByAnother'
    BY DEF OneEvaluationPerKey, VerdictFollowsInput, ConfirmedByAnother
  <1>5. ConfirmationsHold'
    BY DEF ConfirmationsHold, AuditNamesConfirmer
  <1> QED
    BY <1>1, <1>2, <1>3, <1>4, <1>5

\* The inductive invariant holds of every reachable state.
THEOREM Invariance ==
    Spec => []IInv
  <1>1. IInv /\ [Next]_vars => IInv'
    <2> SUFFICES ASSUME IInv, NEW r \in Requests, Step(r)
                 PROVE  IInv'
      BY InvStutter DEF Next
    <2> QED
      BY TypeStep, RequestsStep, SoleRunnerStep, KeysStep, VerdictStep,
         ConfirmedByStep, ConfirmationsStep DEF IInv
  <1> QED
    BY <1>1, InvInit, PTL DEF Spec

-----------------------------------------------------------------------------
(* The theorems *)

\* Rows, requests and audit records stay well formed.
THEOREM TypeCorrect ==
    Spec => []TypeOK
  BY Invariance, PTL DEF IInv

\* Any number of concurrent runs with one Idempotency-Key leave one row: the
\* unique index is enough, whatever happens between lookup and insert.
THEOREM OneRowPerKey ==
    Spec => []OneEvaluationPerKey
  BY Invariance, PTL DEF IInv

\* No interleaving stores a score that is not its own snapshot's, and none
\* completes what the evaluator rejects.
THEOREM VerdictIsInputs ==
    Spec => []VerdictFollowsInput
  BY Invariance, PTL DEF IInv

\* Nobody confirms an evaluation of a scenario of their own, although the
\* check is made on a copy loaded before the write.
THEOREM ConfirmerSeparation ==
    Spec => []ConfirmedByAnother
  BY Invariance, PTL DEF IInv

\* A run is the only one to move its row until it has stored the verdict.
THEOREM RunnerKeepsRow ==
    Spec => []RunOwnsItsRow
  <1>1. IInv => RunOwnsItsRow
    BY DEF IInv, RequestsOK, RequestOK, RunOwnsItsRow
  <1> QED
    BY <1>1, Invariance, PTL

\* The confirmer on record is the confirmer on the row, for good.
THEOREM ConfirmerOnRecord ==
    Spec => []AuditNamesConfirmer
  <1>1. IInv => AuditNamesConfirmer
    BY DEF IInv, ConfirmationsHold
  <1> QED
    BY <1>1, Invariance, PTL

\* Evaluations move along the transition table of the constants package only.
THEOREM Lifecycle ==
    Spec => LifecycleRespected
  <1> DEFINE Lawful ==
        \A e \in Evaluations : Live(e) /\ evaluation'[e] # evaluation[e] =>
            \/ evaluation'[e].state = evaluation[e].state
            \/ CanTransitionCoverage(evaluation[e].state, evaluation'[e].state)
  <1>1. ASSUME IInv, [Next]_vars
        PROVE  [Lawful]_vars
    <2> SUFFICES ASSUME NEW r \in Requests, Step(r), NEW e \in Evaluations,
                        Live(e), evaluation'[e] # evaluation[e]
                 PROVE  \/ evaluation'[e].state = evaluation[e].state
                        \/ CanTransitionCoverage(evaluation[e].state,
                                                 evaluation'[e].state)
      BY <1>1 DEF Next
    <2>0. TypeOK
      BY <1>1 DEF IInv
    <2>1. ~ \E d \in Evaluations : Inserted(r, d)
      <3> SUFFICES ASSUME NEW d \in Evaluations, Inserted(r, d)
                   PROVE  FALSE
        OBVIOUS
      <3> QED
        BY <2>0 DEF Inserted, TypeOK
    <2>2. Updated(r)
      BY <1>1, <2>1, TableStep
    <2>3. PICK new \in LiveEvaluation :
             /\ evaluation' = [evaluation EXCEPT ![call[r].id] = new]
             /\ Moves(r, evaluation[call[r].id], new)
      BY <2>2 DEF Updated
    <2>4. call[r].id = e /\ evaluation'[e] = new
      BY <2>0, <2>3 DEF TypeOK
    <2> QED
      BY <2>3, <2>4 DEF Moves, CanTransitionCoverage, CoverageTransitions
  <1> QED
    BY <1>1, Invariance, PTL DEF Spec, LifecycleRespected

-----------------------------------------------------------------------------
(* The ledger *)

\* What a key sees of a row, and of a table.
View(row) ==
    [standing |-> Standing(row.state), scenario |-> row.scenario,
     evaluatedBy |-> row.evaluatedBy, snapshot |-> row.snapshot,
     score |-> row.score, approver |-> row.confirmedBy]

Holders(table, k) ==
    {e \in Evaluations : table[e] # NoEvaluation /\ table[e].key = k}

EntryOf(table, k) ==
    IF Holders(table, k) = {} THEN [standing |-> "blank"]
    ELSE View(table[CHOOSE e \in Holders(table, k) : TRUE])

LEMMA ViewColumns ==
    ASSUME NEW row, NEW standing, NEW score, NEW approver
    PROVE  /\ [View(row) EXCEPT !.standing = standing, !.score = score] =
                [standing |-> standing, scenario |-> row.scenario,
                 evaluatedBy |-> row.evaluatedBy, snapshot |-> row.snapshot,
                 score |-> score, approver |-> row.confirmedBy]
           /\ [View(row) EXCEPT !.standing = standing, !.approver = approver] =
                [standing |-> standing, scenario |-> row.scenario,
                 evaluatedBy |-> row.evaluatedBy, snapshot |-> row.snapshot,
                 score |-> row.score, approver |-> approver]
  <1> DEFINE mid == [View(row) EXCEPT !.standing = standing]
  <1>1. mid = [standing |-> standing, scenario |-> row.scenario,
               evaluatedBy |-> row.evaluatedBy, snapshot |-> row.snapshot,
               score |-> row.score, approver |-> row.confirmedBy]
    BY DEF View
  <1> HIDE DEF mid
  <1>2. /\ [mid EXCEPT !.score = score] =
             [standing |-> standing, scenario |-> row.scenario,
              evaluatedBy |-> row.evaluatedBy, snapshot |-> row.snapshot,
              score |-> score, approver |-> row.confirmedBy]
        /\ [mid EXCEPT !.approver = approver] =
             [standing |-> standing, scenario |-> row.scenario,
              evaluatedBy |-> row.evaluatedBy, snapshot |-> row.snapshot,
              score |-> row.score, approver |-> approver]
    BY <1>1
  <1> QED
    BY <1>2 DEF mid

LEMMA EntriesByTable ==
    /\ Entries = [k \in Keys |-> EntryOf(evaluation, k)]
    /\ Entries' = [k \in Keys |-> EntryOf(evaluation', k)]
  BY DEF Entries, EntryOf, Holders, View, ByKey, Live

\* One row written is one entry written.
LEMMA OneEntryWritten ==
    ASSUME NEW t, NEW u, NEW e \in Evaluations,
           u[e] # NoEvaluation, t[e] # NoEvaluation => t[e].key = u[e].key,
           \A d \in Evaluations \ {e} : u[d] = t[d],
           \A d \in Evaluations \ {e} : u[d] # NoEvaluation => u[d].key # u[e].key
    PROVE  /\ EntryOf(u, u[e].key) = View(u[e])
           /\ t[e] # NoEvaluation => EntryOf(t, u[e].key) = View(t[e])
           /\ t[e] = NoEvaluation => EntryOf(t, u[e].key) = [standing |-> "blank"]
           /\ \A k \in Keys \ {u[e].key} : EntryOf(u, k) = EntryOf(t, k)
  <1>1. Holders(u, u[e].key) = {e}
    BY DEF Holders
  <1>2. EntryOf(u, u[e].key) = View(u[e])
    BY <1>1 DEF EntryOf
  <1>3. ASSUME t[e] # NoEvaluation
        PROVE  EntryOf(t, u[e].key) = View(t[e])
    <2>1. Holders(t, u[e].key) = {e}
      BY <1>3 DEF Holders
    <2> QED
      BY <2>1 DEF EntryOf
  <1>4. ASSUME t[e] = NoEvaluation
        PROVE  EntryOf(t, u[e].key) = [standing |-> "blank"]
    <2>1. Holders(t, u[e].key) = {}
      BY <1>4 DEF Holders
    <2> QED
      BY <2>1 DEF EntryOf
  <1>5. ASSUME NEW k \in Keys \ {u[e].key}
        PROVE  EntryOf(u, k) = EntryOf(t, k)
    <2> DEFINE H == Holders(t, k)
               c == CHOOSE d \in H : TRUE
    <2>1. Holders(u, k) = H
      BY <1>5 DEF Holders
    <2>2. CASE H = {}
      BY <2>1, <2>2 DEF EntryOf
    <2>3. CASE H # {}
      <3>1. c \in H
        BY <2>3
      <3>2. c \in Evaluations \ {e}
        BY <1>5, <3>1 DEF Holders
      <3>3. u[c] = t[c]
        BY <3>2
      <3> QED
        BY <2>1, <2>3, <3>3 DEF EntryOf
    <2> QED
      BY <2>2, <2>3
  <1> QED
    BY <1>2, <1>3, <1>4, <1>5

LEMMA SameVocabulary ==
    /\ Ledger!Blank = [standing |-> "blank"]
    /\ \A s, actor, snapshot, standing, score, approver :
          Ledger!Entry(s, actor, snapshot, standing, score, approver) =
            [standing |-> standing, scenario |-> s, evaluatedBy |-> actor,
             snapshot |-> snapshot, score |-> score, approver |-> approver]
    /\ \A role, permission :
          Ledger!HasPermission(role, permission) <=> HasPermission(role, permission)
  BY DEF Ledger!Blank, Ledger!Entry, Ledger!HasPermission, HasPermission,
     Ledger!RolePermissions, RolePermissions

LEMMA InsertOpens ==
    ASSUME IInv, IInv', NEW r \in Requests, NEW e \in Evaluations, Inserted(r, e)
    PROVE  \E k \in Keys : Ledger!Open(k)
  <1> DEFINE k == call[r].key
  <1>0. TypeOK /\ OneEvaluationPerKey'
    BY DEF IInv
  <1>1. PICK snapshot \in Snapshots :
           copy[r] = QueuedRow(k, call[r].scenario, call[r].actor, snapshot)
    BY DEF Inserted
  <1>2. /\ k \in Keys /\ call[r].scenario \in Scenarios
        /\ call[r].actor \in Actors /\ evaluation[e] = NoEvaluation
    BY DEF Inserted, Live
  <1>3. /\ copy[r] \in LiveEvaluation /\ copy[r].key = k
        /\ View(copy[r]) = Ledger!Entry(call[r].scenario, call[r].actor,
                                        snapshot, "pending", 0, NoActor)
    <2>1. /\ copy[r] \in LiveEvaluation
          /\ copy[r].state = "queued" /\ copy[r].key = k
          /\ copy[r].scenario = call[r].scenario
          /\ copy[r].evaluatedBy = call[r].actor
          /\ copy[r].snapshot = snapshot
          /\ copy[r].score = 0 /\ copy[r].confirmedBy = NoActor
      BY <1>1, <1>2, QueuedRowType
    <2> QED
      BY <2>1, SameVocabulary DEF View, Standing, Unfinished
  <1>4. /\ evaluation'[e] = copy[r]
        /\ \A d \in Evaluations \ {e} : evaluation'[d] = evaluation[d]
    BY <1>0 DEF Inserted, TypeOK
  <1>5. \A d \in Evaluations \ {e} :
           evaluation'[d] # NoEvaluation => evaluation'[d].key # evaluation'[e].key
    BY <1>0, <1>3, <1>4, RowFacts DEF OneEvaluationPerKey, Live
  <1>6. /\ EntryOf(evaluation', k) = View(copy[r])
        /\ EntryOf(evaluation, k) = [standing |-> "blank"]
        /\ \A j \in Keys \ {k} : EntryOf(evaluation', j) = EntryOf(evaluation, j)
    BY <1>2, <1>3, <1>4, <1>5, RowFacts, OneEntryWritten
  <1> HIDE DEF k
  <1>7. /\ Entries' = [Entries EXCEPT ![k] = View(copy[r])]
        /\ Entries[k] = Ledger!Blank
    BY <1>2, <1>6, EntriesByTable, SameVocabulary
  <1> QED
    BY <1>1, <1>2, <1>3, <1>7 DEF Ledger!Open

LEMMA UpdateAdvances ==
    ASSUME IInv, IInv', NEW r \in Requests, Updated(r)
    PROVE  [Ledger!Next]_Entries
  <1> DEFINE e == call[r].id
             k == evaluation[e].key
             row == evaluation[e]
  <1>0. TypeOK /\ TypeOK' /\ OneEvaluationPerKey'
    BY DEF IInv
  <1>1. PICK new \in LiveEvaluation :
           /\ evaluation' = [evaluation EXCEPT ![e] = new]
           /\ Same(row, new) /\ Moves(r, row, new)
    BY DEF Updated
  <1>2. e \in Evaluations /\ row \in LiveEvaluation /\ row # NoEvaluation
        /\ k \in Keys
    BY RowFacts DEF Updated, LiveEvaluation
  <1>3. /\ evaluation'[e] = new /\ new # NoEvaluation /\ new.key = k
        /\ \A d \in Evaluations \ {e} : evaluation'[d] = evaluation[d]
    BY <1>0, <1>1, <1>2, RowFacts DEF Same, TypeOK
  <1>4. \A d \in Evaluations \ {e} :
           evaluation'[d] # NoEvaluation => evaluation'[d].key # evaluation'[e].key
    BY <1>0, <1>2, <1>3 DEF OneEvaluationPerKey, Live
  <1>5. /\ EntryOf(evaluation', k) = View(new)
        /\ EntryOf(evaluation, k) = View(row)
        /\ \A j \in Keys \ {k} : EntryOf(evaluation', j) = EntryOf(evaluation, j)
    <2>1. evaluation'[e].key = evaluation[e].key /\ evaluation'[e] # NoEvaluation
      BY <1>3
    <2>2. /\ EntryOf(evaluation', evaluation'[e].key) = View(evaluation'[e])
          /\ EntryOf(evaluation, evaluation'[e].key) = View(evaluation[e])
          /\ \A j \in Keys \ {evaluation'[e].key} :
                EntryOf(evaluation', j) = EntryOf(evaluation, j)
      <3>1. /\ e \in Evaluations /\ evaluation'[e] # NoEvaluation
            /\ evaluation[e] # NoEvaluation
            /\ evaluation[e].key = evaluation'[e].key
            /\ \A d \in Evaluations \ {e} : evaluation'[d] = evaluation[d]
            /\ \A d \in Evaluations \ {e} : evaluation'[d] # NoEvaluation =>
                  evaluation'[d].key # evaluation'[e].key
        BY <1>2, <1>3, <1>4, <2>1
      <3> HIDE DEF e
      <3> QED
        BY <3>1, OneEntryWritten
    <2> QED
      BY <1>3, <2>1, <2>2
  <1> HIDE DEF k
  <1>6. /\ Entries' = [Entries EXCEPT ![k] = View(new)]
        /\ Entries[k] = View(row) /\ Entries = [j \in Keys |-> Entries[j]]
    <2>1. Entries = [j \in Keys |-> Entries[j]] /\ Entries[k] = View(row)
      BY <1>2, <1>5, EntriesByTable
    <2>2. \A j \in Keys : Entries'[j] = IF j = k THEN View(new) ELSE Entries[j]
      BY <1>2, <1>5, EntriesByTable
    <2>3. Entries' = [j \in Keys |-> Entries'[j]]
      BY EntriesByTable
    <2> QED
      BY <2>1, <2>2, <2>3
  <1> HIDE DEF row, e
  <1>7. /\ View(new).scenario = View(row).scenario
        /\ View(new).evaluatedBy = View(row).evaluatedBy
        /\ View(new).snapshot = View(row).snapshot
    BY <1>1 DEF Same, View
  <1>8. CASE View(new) = View(row)
    BY <1>6, <1>8
  <1>9. CASE /\ row.state = "running" /\ new.state = "completed"
             /\ row.snapshot \in Evaluable /\ new.score = Score[row.snapshot]
             /\ new.confirmedBy = row.confirmedBy
    <2>1. View(new) = [View(row) EXCEPT !.standing = "completed",
                                        !.score = Score[row.snapshot]]
      <3>1. View(new) =
               [standing |-> "completed", scenario |-> row.scenario,
                evaluatedBy |-> row.evaluatedBy, snapshot |-> row.snapshot,
                score |-> Score[row.snapshot], approver |-> row.confirmedBy]
        BY <1>1, <1>9 DEF View, Same, Standing, Unfinished
      <3>2. [View(row) EXCEPT !.standing = "completed", !.score = Score[row.snapshot]] =
               [standing |-> "completed", scenario |-> row.scenario,
                evaluatedBy |-> row.evaluatedBy, snapshot |-> row.snapshot,
                score |-> Score[row.snapshot], approver |-> row.confirmedBy]
        BY ViewColumns
      <3> QED
        BY <3>1, <3>2
    <2>2. View(row).standing = "pending" /\ View(row).snapshot = row.snapshot
      BY <1>9 DEF View, Standing, Unfinished
    <2>3. Ledger!Judge(k)
      BY <1>2, <1>6, <1>9, <2>1, <2>2 DEF Ledger!Judge
    <2> QED
      BY <1>2, <2>3 DEF Ledger!Next
  <1>10. CASE /\ row.state = "running" /\ new.state = "failed"
              /\ row.snapshot \notin Evaluable /\ new.score = row.score
              /\ new.confirmedBy = row.confirmedBy
    <2>1. View(new) = [View(row) EXCEPT !.standing = "failed",
                                        !.score = row.score]
      <3>1. View(new) =
               [standing |-> "failed", scenario |-> row.scenario,
                evaluatedBy |-> row.evaluatedBy, snapshot |-> row.snapshot,
                score |-> row.score, approver |-> row.confirmedBy]
        BY <1>1, <1>10 DEF View, Same, Standing, Unfinished
      <3>2. [View(row) EXCEPT !.standing = "failed", !.score = row.score] =
               [standing |-> "failed", scenario |-> row.scenario,
                evaluatedBy |-> row.evaluatedBy, snapshot |-> row.snapshot,
                score |-> row.score, approver |-> row.confirmedBy]
        BY ViewColumns
      <3> QED
        BY <3>1, <3>2
    <2>2. /\ View(row).standing = "pending" /\ View(row).snapshot = row.snapshot
          /\ View(row).score = row.score
      BY <1>10 DEF View, Standing, Unfinished
    <2>3. Ledger!Judge(k)
      BY <1>2, <1>6, <1>10, <2>1, <2>2 DEF Ledger!Judge
    <2> QED
      BY <1>2, <2>3 DEF Ledger!Next
  <1>11. CASE /\ row.state = "completed" /\ new.state = "confirmed"
              /\ new.score = row.score /\ new.confirmedBy = call[r].actor
              /\ call[r].actor \in Actors /\ call[r].actor # Author[row.scenario]
              /\ HasPermission(RoleOf[call[r].actor], "evaluation:confirm")
    <2>1. View(new) = [View(row) EXCEPT !.standing = "confirmed",
                                        !.approver = call[r].actor]
      <3>1. View(new) =
               [standing |-> "confirmed", scenario |-> row.scenario,
                evaluatedBy |-> row.evaluatedBy, snapshot |-> row.snapshot,
                score |-> row.score, approver |-> call[r].actor]
        BY <1>1, <1>11 DEF View, Same, Standing, Unfinished
      <3>2. [View(row) EXCEPT !.standing = "confirmed", !.approver = call[r].actor] =
               [standing |-> "confirmed", scenario |-> row.scenario,
                evaluatedBy |-> row.evaluatedBy, snapshot |-> row.snapshot,
                score |-> row.score, approver |-> call[r].actor]
        BY ViewColumns
      <3> QED
        BY <3>1, <3>2
    <2>2. View(row).standing = "completed" /\ View(row).scenario = row.scenario
      BY <1>11 DEF View, Standing, Unfinished
    <2>3. Ledger!Approve(k)
      BY <1>2, <1>6, <1>11, <2>1, <2>2, SameVocabulary DEF Ledger!Approve
    <2> QED
      BY <1>2, <2>3 DEF Ledger!Next
  <1>12. CASE /\ row.state \in {"completed", "failed", "confirmed"}
              /\ new.state = "voided"
              /\ new.score = row.score /\ new.confirmedBy = row.confirmedBy
    <2>1. View(new) = [View(row) EXCEPT !.standing = "voided"]
      BY <1>1, <1>12 DEF View, Same, Standing, Unfinished
    <2>2. View(row).standing = row.state
      BY <1>12 DEF View, Standing, Unfinished
    <2>3. Ledger!Withdraw(k)
      BY <1>2, <1>6, <1>12, <2>1, <2>2 DEF Ledger!Withdraw
    <2> QED
      BY <1>2, <2>3 DEF Ledger!Next
  <1>13. \/ row.state = "queued" /\ new.state = "running"
         \/ new.state = row.state
         => (new.score = row.score /\ new.confirmedBy = row.confirmedBy
               => View(new) = View(row))
    BY <1>1 DEF View, Same, Standing, Unfinished
  <1> QED
    BY <1>1, <1>8, <1>9, <1>10, <1>11, <1>12, <1>13 DEF Moves

\* Interleaved, repeated and aborted requests implement the atomic ledger.
THEOREM Refinement ==
    Spec => ImplementsLedger
  <1>1. Init => Ledger!Init
    BY SameVocabulary DEF Init, Ledger!Init, Entries, ByKey, Live
  <1>2. ASSUME IInv, IInv', [Next]_vars
        PROVE  [Ledger!Next]_Entries
    <2>1. CASE UNCHANGED evaluation
      BY <2>1, EntriesByTable
    <2>2. ASSUME NEW r \in Requests, Step(r), evaluation' # evaluation
          PROVE  [Ledger!Next]_Entries
      BY <1>2, <2>2, TableStep, InsertOpens, UpdateAdvances DEF Ledger!Next
    <2> QED
      BY <1>2, <2>1, <2>2 DEF Next, vars
  <1> QED
    BY <1>1, <1>2, Invariance, PTL DEF Spec, ImplementsLedger, Ledger!Spec
=============================================================================
