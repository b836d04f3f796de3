----------------------- MODULE ScenarioWorkflowProofs -----------------------
(***************************************************************************)
(* Proofs about ScenarioWorkflow for any set of users, roles, scenarios,  *)
(* columns and concurrent requests.                                       *)
(***************************************************************************)
EXTENDS ScenarioWorkflow, TLAPS

-----------------------------------------------------------------------------
(* The rows *)

LEMMA RowFacts ==
    /\ NoRow \in Row /\ NoRow \notin LiveRow
    /\ NoRow.version = 0 /\ NoRow.state = "absent"
    /\ \A x \in LiveRow : x.version \in Nat \ {0} /\ x.state \in ScenarioStates
    /\ \A x \in Row : x.version \in Nat
    /\ \A x \in Row : x.version = 0 <=> x = NoRow
    /\ \A a \in Actors, content \in Contents : NewRow(a, content) \in LiveRow
  BY DEF NoRow, Row, LiveRow, NewRow, ScenarioStates

\* Overlaying a form on a content yields a content.
LEMMA OverlayType ==
    ASSUME NEW content \in Contents, NEW patch \in Patches
    PROVE  Overlay(content, patch) \in Contents
  <1>1. PICK D \in SUBSET Fields : patch \in [D -> Values]
    BY RowsAssumption
  <1>2. \A f \in Fields :
           (IF f \in DOMAIN patch THEN patch[f] ELSE content[f]) \in Values
    BY <1>1 DEF Contents
  <1> QED
    BY <1>2 DEF Overlay, Contents

\* A row that passes the service's checks is a live one, and only states of
\* the workflow can be asked for.
LEMMA AcceptableIsLive ==
    ASSUME NEW c \in Call, NEW x \in Row, Acceptable(c, x)
    PROVE  x \in LiveRow
  BY RowFacts DEF Acceptable, Editable, MayDecide, CanTransitionScenario,
     ScenarioTransitions, Row, NoRow

\* The recorded struct is the written row when the local copy was current.
LEMMA ChangedByUpdate ==
    ASSUME NEW c, c.op = "update", NEW x, NEW v
    PROVE  Changed(c, x, v) = UpdateColumns(x, v, Overlay(x.content, c.patch))
  <1>1. c.op \notin Targets
    BY DEF Targets
  <1> QED
    BY <1>1 DEF Changed, UpdateColumns

LEMMA ChangedByTransition ==
    ASSUME NEW c, c.op \in Targets, NEW x, NEW v
    PROVE  Changed(c, x, v) = TransitionColumns(x, c.op, v, c.actor)
  <1>1. c.op # "update"
    BY DEF Targets
  <1> QED
    BY <1>1 DEF Changed, TransitionColumns

LEMMA ChangedByCreate ==
    ASSUME NEW c, c.op = "create", NEW x, NEW v
    PROVE  Changed(c, x, v) = x
  <1>1. c.op # "update" /\ c.op \notin Targets
    BY DEF Targets
  <1> QED
    BY <1>1 DEF Changed

\* Both writes yield a live row, one version on, with the same author.
LEMMA UpdatedRow ==
    ASSUME NEW x \in LiveRow, NEW v \in Nat, NEW content \in Contents
    PROVE  LET y == UpdateColumns(x, v, content) IN
              /\ y \in LiveRow /\ y.version = v + 1
              /\ y.createdBy = x.createdBy /\ y.state = x.state
              /\ y.reviewedBy = x.reviewedBy /\ y.content = content
  <1> DEFINE z == [x EXCEPT !.content = content]
             y == [z EXCEPT !.version = v + 1]
  <1>1. z \in LiveRow /\ z.content = content /\ z.createdBy = x.createdBy
        /\ z.state = x.state /\ z.reviewedBy = x.reviewedBy
    BY DEF LiveRow
  <1> HIDE DEF z
  <1>2. y \in LiveRow /\ y.version = v + 1 /\ y.createdBy = z.createdBy
        /\ y.state = z.state /\ y.reviewedBy = z.reviewedBy
        /\ y.content = z.content
    BY <1>1 DEF LiveRow
  <1>3. UpdateColumns(x, v, content) = y
    BY DEF UpdateColumns, z
  <1> QED
    BY <1>1, <1>2, <1>3

LEMMA TransitionedRow ==
    ASSUME NEW x \in LiveRow, NEW v \in Nat, NEW to \in Targets,
           NEW actor \in Actors
    PROVE  LET y == TransitionColumns(x, to, v, actor) IN
              /\ y \in LiveRow /\ y.version = v + 1
              /\ y.createdBy = x.createdBy /\ y.state = to
              /\ y.content = x.content
              /\ y.reviewedBy = IF IsReview(to) THEN actor ELSE x.reviewedBy
  <1> DEFINE w == [x EXCEPT !.state = to]
             z == [w EXCEPT !.version = v + 1]
             y == [z EXCEPT !.reviewedBy =
                     IF IsReview(to) THEN actor ELSE x.reviewedBy]
  <1>1. w \in LiveRow /\ w.state = to /\ w.createdBy = x.createdBy
        /\ w.content = x.content
    BY DEF LiveRow, Targets, ScenarioStates
  <1> HIDE DEF w
  <1>2. z \in LiveRow /\ z.version = v + 1 /\ z.createdBy = w.createdBy
        /\ z.state = w.state /\ z.content = w.content
    BY <1>1 DEF LiveRow
  <1> HIDE DEF z
  <1>3. /\ y \in LiveRow /\ y.createdBy = z.createdBy /\ y.state = z.state
        /\ y.content = z.content /\ y.version = z.version
        /\ y.reviewedBy = IF IsReview(to) THEN actor ELSE x.reviewedBy
    BY <1>2 DEF LiveRow
  <1>4. TransitionColumns(x, to, v, actor) = y
    BY DEF TransitionColumns, w, z
  <1> QED
    BY <1>1, <1>2, <1>3, <1>4

-----------------------------------------------------------------------------
(* Types *)

LEMMA NoCallType == NoCall \in Call
  <1>1. (CHOOSE s \in Scenarios : TRUE) \in Scenarios
    BY RowsAssumption
  <1> QED
    BY <1>1 DEF NoCall, Call

\* Ending a request keeps the request variables well typed.
LEMMA EndType ==
    ASSUME TypeOK, NEW r \in Requests, NEW outcome \in Ended, End(r, outcome)
    PROVE  /\ pc' \in [Requests -> Running \cup Ended]
           /\ call' \in [Requests -> Call]
           /\ seen' \in [Requests -> Row]
           /\ read' \in [Requests -> Row]
  BY NoCallType, RowFacts DEF TypeOK, End

\* What holds of a request whose conditional write succeeds: the version
\* comparison has shown that its page and its local copy are the row.
LEMMA CommitFacts ==
    ASSUME IInv, NEW r \in Requests, pc'[r] = "written",
           UpdateWithVersion(r) \/ Transition(r)
    PROVE  LET s == call[r].id IN
              /\ s \in Scenarios
              /\ call[r].op # "create"
              /\ scenario[s] \in LiveRow
              /\ read[r] = scenario[s] /\ seen[r] = scenario[s]
              /\ scenario' = [scenario EXCEPT ![s] = Local(r)]
              /\ Local(r) \in LiveRow
              /\ Local(r).version = scenario[s].version + 1
              /\ Local(r).createdBy = scenario[s].createdBy
              /\ pc[r] = "checked" /\ pc' = [pc EXCEPT ![r] = "written"]
              /\ UNCHANGED <<audits, call, seen, read>>
  <1> DEFINE s == call[r].id
  <1>1. /\ s \in Scenarios /\ pc[r] = "checked" /\ call[r].op # "create"
        /\ scenario[s] \in Row /\ pc \in [Requests -> Running \cup Ended]
        /\ call[r] \in Call
    BY DEF IInv, TypeOK, Call, UpdateWithVersion, Transition, Targets
  <1>2. /\ read[r] \in LiveRow /\ seen[r] \in LiveRow
        /\ seen[r].version <= read[r].version
        /\ call[r].actor \in Actors
        /\ call[r].op = "update" => call[r].patch \in Patches
    BY <1>1 DEF IInv, RequestsOK, RequestOK, Running
  <1>3. scenario[s].version = seen[r].version /\ ~End(r, "conflict")
    <2>1. CASE UpdateWithVersion(r)
      BY <1>1, <2>1 DEF UpdateWithVersion, UpdateMatches, End
    <2>2. CASE Transition(r)
      BY <1>1, <2>2 DEF Transition, TransitionMatches, End
    <2> QED
      BY <2>1, <2>2
  <1>4. seen[r] \in Copies(s) /\ read[r] \in Copies(s) /\ scenario[s] \in Copies(s)
    BY <1>1 DEF Copies, On, Running
  <1>5. read[r] = scenario[s] /\ seen[r] = scenario[s]
    <2>1. read[r].version <= scenario[s].version
      BY <1>1, <1>4 DEF IInv, VersionIdentifiesRow
    <2>2. read[r].version = scenario[s].version
      BY <1>1, <1>2, <1>3, <2>1, RowFacts
    <2> QED
      BY <1>1, <1>3, <1>4, <2>2 DEF IInv, VersionIdentifiesRow
  <1>6. scenario[s] \in LiveRow /\ scenario[s].version \in Nat
        /\ scenario[s].content \in Contents
    BY <1>2, <1>5 DEF LiveRow
  <1>7. /\ scenario' = [scenario EXCEPT ![s] = Local(r)]
        /\ Local(r) \in LiveRow
        /\ Local(r).version = scenario[s].version + 1
        /\ Local(r).createdBy = scenario[s].createdBy
    <2>1. CASE UpdateWithVersion(r)
      <3>1. Local(r) = UpdateColumns(scenario[s], scenario[s].version,
                          Overlay(scenario[s].content, call[r].patch))
        BY <1>5, <2>1, ChangedByUpdate DEF Local, UpdateWithVersion
      <3>2. Overlay(scenario[s].content, call[r].patch) \in Contents
        BY <1>2, <1>6, <2>1, OverlayType DEF UpdateWithVersion
      <3>3. scenario' = [scenario EXCEPT ![s] = Local(r)]
        BY <1>3, <1>5, <2>1, <3>1 DEF UpdateWithVersion
      <3>4. /\ Local(r) \in LiveRow
            /\ Local(r).version = scenario[s].version + 1
            /\ Local(r).createdBy = scenario[s].createdBy
        <4> DEFINE new == Overlay(scenario[s].content, call[r].patch)
        <4>1. new \in Contents /\ scenario[s] \in LiveRow
              /\ scenario[s].version \in Nat
          BY <1>6, <3>2
        <4>2. Local(r) = UpdateColumns(scenario[s], scenario[s].version, new)
          BY <3>1
        <4> HIDE DEF new, s
        <4> QED
          BY <4>1, <4>2, UpdatedRow
      <3> QED
        BY <3>3, <3>4
    <2>2. CASE Transition(r)
      <3>1. Local(r) = TransitionColumns(scenario[s], call[r].op,
                          scenario[s].version, call[r].actor)
        BY <1>5, <2>2, ChangedByTransition DEF Local, Transition
      <3>2. scenario' = [scenario EXCEPT ![s] = Local(r)]
        BY <1>3, <1>5, <2>2, <3>1 DEF Transition
      <3>3. call[r].op \in Targets
        BY <2>2 DEF Transition
      <3> QED
        BY <1>2, <1>6, <3>1, <3>2, <3>3, TransitionedRow
    <2> QED
      BY <2>1, <2>2
  <1>8. /\ pc' = [pc EXCEPT ![r] = "written"]
        /\ UNCHANGED <<audits, call, seen, read>>
    BY <1>3 DEF UpdateWithVersion, Transition
  <1> QED
    BY <1>1, <1>5, <1>6, <1>7, <1>8

\* A request that inserts writes its new row and keeps a copy of it.
LEMMA InsertFacts ==
    ASSUME IInv, NEW r \in Requests, Insert(r)
    PROVE  \E s \in Scenarios, row \in LiveRow :
              /\ pc[r] = "checked" /\ call[r].op = "create"
              /\ row = NewRow(call[r].actor, call[r].patch)
              /\ scenario[s] = NoRow
              /\ scenario' = [scenario EXCEPT ![s] = row]
              /\ read' = [read EXCEPT ![r] = row]
              /\ call' = [call EXCEPT ![r].id = s]
              /\ pc' = [pc EXCEPT ![r] = "written"]
              /\ UNCHANGED <<audits, seen>>
  <1>1. call[r].actor \in Actors /\ call[r].patch \in Contents
    BY DEF IInv, RequestsOK, RequestOK, Running, Insert
  <1>2. NewRow(call[r].actor, call[r].patch) \in LiveRow
    BY <1>1, RowFacts
  <1> QED
    BY <1>2 DEF Insert

LEMMA SubmitFacts ==
    ASSUME IInv, NEW r \in Requests,
           SubmitCreate(r) \/ SubmitUpdate(r) \/ SubmitTransition(r)
    PROVE  \E c \in Call, page \in Row :
              /\ c.op # "none" /\ c.actor \in Actors
              /\ c.op = "create" => c.patch \in Contents /\ page = NoRow
              /\ c.op = "update" => c.patch \in Patches
              /\ c.op # "create" => page = scenario[c.id] /\ page \in LiveRow
              /\ Submit(r, c, page)
  <1>1. CASE SubmitCreate(r)
    <2>1. PICK a \in Actors, content \in Contents :
             Submit(r, [op |-> "create", actor |-> a, id |-> NoCall.id,
                        patch |-> content], NoRow)
      BY <1>1 DEF SubmitCreate
    <2> DEFINE c == [op |-> "create", actor |-> a, id |-> NoCall.id,
                     patch |-> content]
    <2>2. c \in Call
      BY NoCallType DEF Call
    <2> QED
      BY <2>1, <2>2, RowFacts
  <1>2. CASE SubmitUpdate(r)
    <2>1. PICK a \in Actors, s \in Scenarios, p \in Patches :
             /\ scenario[s].version \in 1 .. MaxVersion - 1
             /\ Submit(r, [op |-> "update", actor |-> a, id |-> s, patch |-> p],
                       scenario[s])
      BY <1>2 DEF SubmitUpdate
    <2> DEFINE c == [op |-> "update", actor |-> a, id |-> s, patch |-> p]
    <2>2. c \in Call
      BY DEF Call
    <2>3. scenario[s] \in Row /\ scenario[s] # NoRow
      BY <2>1, RowFacts, WorkflowAssumption DEF IInv, TypeOK
    <2> QED
      BY <2>1, <2>2, <2>3 DEF Row
  <1>3. CASE SubmitTransition(r)
    <2>1. PICK a \in Actors, s \in Scenarios, to \in Targets :
             /\ scenario[s].version \in 1 .. MaxVersion - 1
             /\ Submit(r, [op |-> to, actor |-> a, id |-> s, patch |-> <<>>],
                       scenario[s])
      BY <1>3 DEF SubmitTransition
    <2> DEFINE c == [op |-> to, actor |-> a, id |-> s, patch |-> <<>>]
    <2>2. c \in Call /\ c.op # "create" /\ c.op # "update" /\ c.op # "none"
      BY DEF Call, Targets
    <2>3. scenario[s] \in Row /\ scenario[s] # NoRow
      BY <2>1, RowFacts, WorkflowAssumption DEF IInv, TypeOK
    <2> QED
      BY <2>1, <2>2, <2>3 DEF Row
  <1> QED
    BY <1>1, <1>2, <1>3

LEMMA LoadFacts ==
    ASSUME IInv, NEW r \in Requests, Load(r), pc'[r] = "checked"
    PROVE  /\ pc[r] = "received" /\ call[r].op # "create"
           /\ call[r].id \in Scenarios
           /\ Acceptable(call[r], scenario[call[r].id])
           /\ scenario[call[r].id] \in LiveRow
           /\ seen[r].version <= scenario[call[r].id].version
           /\ pc' = [pc EXCEPT ![r] = "checked"]
           /\ read' = [read EXCEPT ![r] = scenario[call[r].id]]
           /\ UNCHANGED <<scenario, audits, call, seen>>
  <1>1. /\ pc[r] = "received" /\ call[r].op # "create"
        /\ call[r] \in Call /\ call[r].id \in Scenarios
        /\ scenario[call[r].id] \in Row
    BY DEF Load, IInv, TypeOK, Call
  <1>2. ~End(r, "idle")
    BY DEF IInv, TypeOK, End
  <1>3. Acceptable(call[r], scenario[call[r].id])
    BY <1>2 DEF Load
  <1>4. scenario[call[r].id] \in LiveRow
    BY <1>1, <1>3, AcceptableIsLive
  <1>5. seen[r] \in Copies(call[r].id)
    BY <1>1 DEF Copies, On, Running
  <1>6. seen[r].version <= scenario[call[r].id].version
    BY <1>1, <1>5 DEF IInv, VersionIdentifiesRow
  <1> QED
    BY <1>1, <1>2, <1>3, <1>4, <1>6 DEF Load

\* What each step does to the other requests' variables: nothing.
LEMMA OthersUnchanged ==
    ASSUME IInv, NEW r \in Requests, Step(r), NEW q \in Requests \ {r}
    PROVE  /\ pc'[q] = pc[q] /\ call'[q] = call[q]
           /\ seen'[q] = seen[q] /\ read'[q] = read[q]
  BY DEF IInv, TypeOK, Step, SubmitCreate, SubmitUpdate, SubmitTransition,
     Submit, CheckNode, Load, Insert, UpdateWithVersion, Transition,
     RecordAudit, Abort, End

\* The outcomes of a step, with the failures of the checks and of the
\* conditional writes lumped together.
LEMMA StepCases ==
    ASSUME IInv, NEW r \in Requests, Step(r)
    PROVE  \/ SubmitCreate(r) \/ SubmitUpdate(r) \/ SubmitTransition(r)
           \/ /\ pc[r] = "received" /\ call[r].op = "create"
              /\ pc' = [pc EXCEPT ![r] = "checked"]
              /\ UNCHANGED <<scenario, audits, call, seen, read>>
           \/ Load(r) /\ pc'[r] = "checked"
           \/ Insert(r)
           \/ (UpdateWithVersion(r) \/ Transition(r)) /\ pc'[r] = "written"
           \/ RecordAudit(r)
           \/ /\ \E outcome \in Ended : End(r, outcome)
              /\ UNCHANGED <<scenario, audits>>
  <1> USE DEF IInv, TypeOK, Ended
  <1>1. CASE CheckNode(r)
    BY <1>1 DEF CheckNode
  <1>2. CASE Load(r)
    BY <1>2 DEF Load
  <1>3. CASE UpdateWithVersion(r)
    BY <1>3 DEF UpdateWithVersion
  <1>4. CASE Transition(r)
    BY <1>4 DEF Transition
  <1>5. CASE Abort(r)
    BY <1>5 DEF Abort
  <1> QED
    BY <1>1, <1>2, <1>3, <1>4, <1>5 DEF Step

-----------------------------------------------------------------------------
(* The inductive invariant *)

\* The struct a request is about to record is a well-formed row.
LEMMA LocalType ==
    ASSUME IInv, NEW r \in Requests, pc[r] = "written"
    PROVE  Local(r) \in Row
  <1>1. /\ call[r] \in Call /\ read[r] \in Row /\ call[r].actor \in Actors
        /\ call[r].op # "none"
    BY DEF IInv, TypeOK, RequestsOK, RequestOK, Running
  <1>2. CASE call[r].op = "create"
    BY <1>1, <1>2, ChangedByCreate DEF Local
  <1>3. CASE call[r].op # "create"
    <2>1. /\ read[r] \in LiveRow
          /\ seen[r].version = read[r].version
          /\ call[r].op = "update" => call[r].patch \in Patches
          /\ read[r].content \in Contents /\ read[r].version \in Nat
      BY <1>3 DEF IInv, RequestsOK, RequestOK, LiveRow, Running
    <2>2. CASE call[r].op = "update"
      <3> DEFINE new == Overlay(read[r].content, call[r].patch)
      <3>1. new \in Contents
        BY <2>1, <2>2, OverlayType
      <3>2. Local(r) = UpdateColumns(read[r], read[r].version, new)
        BY <2>1, <2>2, ChangedByUpdate DEF Local
      <3> HIDE DEF new
      <3> QED
        BY <2>1, <3>1, <3>2, UpdatedRow DEF Row
    <2>3. CASE call[r].op \in Targets
      <3>1. Local(r) = TransitionColumns(read[r], call[r].op,
                          read[r].version, call[r].actor)
        BY <2>1, <2>3, ChangedByTransition DEF Local
      <3> QED
        BY <1>1, <2>1, <2>3, <3>1, TransitionedRow DEF Row
    <2> QED
      BY <1>1, <1>3, <2>2, <2>3 DEF Call
  <1> QED
    BY <1>2, <1>3

LEMMA TypeStep ==
    ASSUME IInv, NEW r \in Requests, Step(r)
    PROVE  TypeOK'
  <1> USE DEF Running, Ended
  <1>0. TypeOK
    BY DEF IInv
  <1>1. CASE SubmitCreate(r) \/ SubmitUpdate(r) \/ SubmitTransition(r)
    BY <1>0, <1>1, SubmitFacts DEF Submit, TypeOK
  <1>2. CASE /\ pc' = [pc EXCEPT ![r] = "checked"]
             /\ UNCHANGED <<scenario, audits, call, seen, read>>
    BY <1>0, <1>2 DEF TypeOK
  <1>3. CASE Load(r) /\ pc'[r] = "checked"
    BY <1>0, <1>3, LoadFacts DEF TypeOK, Row
  <1>4. CASE Insert(r)
    <2>1. PICK s \in Scenarios, row \in LiveRow :
             /\ scenario' = [scenario EXCEPT ![s] = row]
             /\ read' = [read EXCEPT ![r] = row]
             /\ call' = [call EXCEPT ![r].id = s]
             /\ pc' = [pc EXCEPT ![r] = "written"]
             /\ UNCHANGED <<audits, seen>>
      BY <1>4, InsertFacts
    <2>2. call' \in [Requests -> Call]
      <3>1. [call[r] EXCEPT !.id = s] \in Call
        BY <1>0 DEF TypeOK, Call
      <3> QED
        BY <1>0, <2>1, <3>1 DEF TypeOK
    <2>3. /\ scenario' \in [Scenarios -> Row] /\ read' \in [Requests -> Row]
          /\ pc' \in [Requests -> Running \cup Ended]
      BY <1>0, <2>1 DEF TypeOK, Row
    <2> QED
      BY <1>0, <2>1, <2>2, <2>3 DEF TypeOK
  <1>5. CASE (UpdateWithVersion(r) \/ Transition(r)) /\ pc'[r] = "written"
    <2>1. LET s == call[r].id IN
             /\ s \in Scenarios /\ Local(r) \in Row
             /\ scenario' = [scenario EXCEPT ![s] = Local(r)]
             /\ pc' = [pc EXCEPT ![r] = "written"]
             /\ UNCHANGED <<audits, call, seen, read>>
      BY <1>5, CommitFacts DEF Row
    <2> QED
      BY <1>0, <2>1 DEF TypeOK
  <1>6. CASE RecordAudit(r)
    <2>1. \A x \in Scenarios, y \in {"create", "update", "transition"},
             z \in Actors, b \in Row, a \in Row :
             [id |-> x, action |-> y, actor |-> z, before |-> b, after |-> a]
               \in AuditRecord
      BY DEF AuditRecord
    <2>2. /\ pc[r] = "written" /\ call[r] \in Call /\ read[r] \in Row
          /\ call[r].actor \in Actors /\ call[r].op # "none"
          /\ End(r, "idle") /\ UNCHANGED scenario
      BY <1>0, <1>6 DEF RecordAudit, TypeOK, IInv, RequestsOK, RequestOK
    <2>3. (IF call[r].op \in Targets THEN "transition" ELSE call[r].op)
             \in {"create", "update", "transition"}
      BY <2>2 DEF Call
    <2>4. (IF call[r].op = "create" THEN NoRow ELSE read[r]) \in Row
      BY <2>2, RowFacts
    <2>5. Local(r) \in Row
      BY <2>2, LocalType
    <2>6. call[r].id \in Scenarios
      BY <2>2 DEF Call
    <2>7. audits' \subseteq AuditRecord
      BY <1>0, <1>6, <2>1, <2>2, <2>3, <2>4, <2>5, <2>6
      DEF RecordAudit, Local, TypeOK
    <2> QED
      BY <1>0, <2>2, <2>7, EndType DEF TypeOK
  <1>7. CASE /\ \E outcome \in Ended : End(r, outcome)
             /\ UNCHANGED <<scenario, audits>>
    BY <1>0, <1>7, EndType DEF TypeOK
  <1> QED
    BY <1>1, <1>2, <1>3, <1>4, <1>5, <1>6, <1>7, StepCases

LEMMA RequestsStep ==
    ASSUME IInv, NEW r \in Requests, Step(r)
    PROVE  RequestsOK'
  <1>1. ASSUME NEW q \in Requests \ {r} PROVE RequestOK(q)'
    <2>1. RequestOK(q) /\ pc'[q] = pc[q] /\ call'[q] = call[q]
          /\ seen'[q] = seen[q] /\ read'[q] = read[q]
      BY OthersUnchanged DEF IInv, RequestsOK
    <2> QED
      BY <2>1 DEF RequestOK
  <1>2. RequestOK(r)'
    <2>0. TypeOK /\ RequestOK(r)
      BY DEF IInv, RequestsOK
    <2> USE DEF Running, Ended
    <2>1. CASE SubmitCreate(r) \/ SubmitUpdate(r) \/ SubmitTransition(r)
      <3>1. PICK c \in Call, page \in Row :
               /\ c.op # "none" /\ c.actor \in Actors
               /\ c.op = "create" => c.patch \in Contents /\ page = NoRow
               /\ c.op = "update" => c.patch \in Patches
               /\ c.op # "create" => page \in LiveRow
               /\ Submit(r, c, page)
        BY <2>1, SubmitFacts
      <3>2. /\ RouteAllows(c.actor, c.op) /\ pc'[r] = "received"
            /\ call'[r] = c /\ seen'[r] = page /\ read'[r] = read[r]
            /\ read[r] = NoRow
        BY <2>0, <3>1 DEF Submit, TypeOK, RequestOK
      <3> QED
        BY <3>1, <3>2 DEF RequestOK, RouteAllows
    <2>2. CASE /\ pc[r] = "received" /\ call[r].op = "create"
               /\ pc' = [pc EXCEPT ![r] = "checked"]
               /\ UNCHANGED <<scenario, audits, call, seen, read>>
      BY <2>0, <2>2 DEF RequestOK, TypeOK
    <2>3. CASE Load(r) /\ pc'[r] = "checked"
      <3>1. /\ pc[r] = "received" /\ call[r].op # "create"
            /\ Acceptable(call[r], scenario[call[r].id])
            /\ scenario[call[r].id] \in LiveRow
            /\ seen[r].version <= scenario[call[r].id].version
            /\ call'[r] = call[r] /\ seen'[r] = seen[r]
            /\ read'[r] = scenario[call[r].id]
        BY <2>0, <2>3, LoadFacts DEF TypeOK
      <3> QED
        BY <2>0, <2>3, <3>1 DEF RequestOK, Acceptable
    <2>4. CASE Insert(r)
      <3>1. PICK s \in Scenarios, row \in LiveRow :
               /\ pc[r] = "checked" /\ call[r].op = "create"
               /\ read' = [read EXCEPT ![r] = row]
               /\ call' = [call EXCEPT ![r].id = s]
               /\ pc' = [pc EXCEPT ![r] = "written"]
               /\ UNCHANGED <<audits, seen>>
        BY <2>4, InsertFacts
      <3>2. /\ pc'[r] = "written" /\ read'[r] \in LiveRow /\ seen'[r] = seen[r]
            /\ call'[r].op = call[r].op /\ call'[r].actor = call[r].actor
            /\ call'[r].patch = call[r].patch
        BY <2>0, <3>1 DEF TypeOK, Call
      <3> QED
        BY <2>0, <3>1, <3>2 DEF RequestOK, RouteAllows
    <2>5. CASE (UpdateWithVersion(r) \/ Transition(r)) /\ pc'[r] = "written"
      <3>1. /\ pc[r] = "checked" /\ call[r].op # "create"
            /\ read[r] = seen[r] /\ read[r] \in LiveRow
            /\ call'[r] = call[r] /\ seen'[r] = seen[r] /\ read'[r] = read[r]
        BY <2>5, CommitFacts
      <3> QED
        BY <2>0, <2>5, <3>1 DEF RequestOK, Acceptable
    <2>6. CASE \E outcome \in Ended : End(r, outcome)
      BY <2>0, <2>6 DEF RequestOK, TypeOK, End
    <2>7. CASE RecordAudit(r)
      BY <2>6, <2>7 DEF RecordAudit
    <2> QED
      BY <2>1, <2>2, <2>3, <2>4, <2>5, <2>6, <2>7, StepCases
  <1> QED
    BY <1>1, <1>2 DEF RequestsOK

\* Membership in Copies, spelt out.
LEMMA CopiesDef ==
    ASSUME NEW s, NEW x
    PROVE  x \in Copies(s) <=>
              \/ x = NoRow \/ x = scenario[s]
              \/ \E q \in Requests :
                    /\ pc[q] \in Running /\ call[q].id = s
                    /\ \/ x = seen[q] \/ x = read[q]
                       \/ pc[q] = "written" /\ x = Local(q)
              \/ \E a \in audits : a.id = s /\ (x = a.before \/ x = a.after)
  BY DEF Copies, On, WrittenOn, AuditsOf

\* The table after a step: as it was, or one row has moved on by a version
\* and kept its author, or a row has appeared.
LEMMA TableStep ==
    ASSUME IInv, NEW r \in Requests, Step(r), NEW s \in Scenarios
    PROVE  \/ scenario'[s] = scenario[s]
           \/ /\ scenario'[s] \in LiveRow
              /\ scenario'[s].version > scenario[s].version
              /\ scenario[s] = NoRow
                 \/ scenario'[s].createdBy = scenario[s].createdBy
  <1>0. scenario \in [Scenarios -> Row] /\ scenario[s].version \in Nat
    BY RowFacts DEF IInv, TypeOK
  <1>1. CASE UNCHANGED scenario
    BY <1>1
  <1>2. CASE Insert(r)
    <2>1. PICK t \in Scenarios, row \in LiveRow :
             scenario[t] = NoRow /\ scenario' = [scenario EXCEPT ![t] = row]
      BY <1>2, InsertFacts
    <2> QED
      BY <1>0, <2>1, RowFacts
  <1>3. CASE (UpdateWithVersion(r) \/ Transition(r)) /\ pc'[r] = "written"
    <2>1. PICK t \in Scenarios :
             /\ scenario' = [scenario EXCEPT ![t] = Local(r)]
             /\ Local(r) \in LiveRow
             /\ Local(r).version = scenario[t].version + 1
             /\ Local(r).createdBy = scenario[t].createdBy
      BY <1>3, CommitFacts
    <2>2. CASE s = t
      BY <1>0, <2>1, <2>2
    <2>3. CASE s # t
      BY <1>0, <2>1, <2>3
    <2> QED
      BY <2>2, <2>3
  <1> QED
    BY <1>1, <1>2, <1>3, StepCases DEF SubmitCreate, SubmitUpdate,
       SubmitTransition, Submit, Load, RecordAudit

\* What the stepping request holds afterwards about a scenario.
LEMMA OwnCopies ==
    ASSUME IInv, NEW r \in Requests, Step(r), NEW s \in Scenarios,
           pc'[r] \in Running, call'[r].id = s,
           NEW x, x = seen'[r] \/ x = read'[r] \/ (pc'[r] = "written" /\ x = Local(r)')
    PROVE  x \in Copies(s) \cup {scenario'[s]}
  <1> USE DEF Running
  <1>0. TypeOK /\ RequestOK(r)
    BY DEF IInv, RequestsOK
  <1>1. CASE SubmitCreate(r) \/ SubmitUpdate(r) \/ SubmitTransition(r)
    <2>1. PICK c \in Call, page \in Row :
             /\ c.op = "create" => page = NoRow
             /\ c.op # "create" => page = scenario[c.id]
             /\ Submit(r, c, page)
      BY <1>1, SubmitFacts
    <2>2. /\ pc'[r] = "received" /\ call'[r] = c /\ seen'[r] = page
          /\ read'[r] = NoRow /\ scenario' = scenario
      BY <1>0, <2>1 DEF Submit, TypeOK, RequestOK, Ended
    <2> QED
      BY <2>1, <2>2, CopiesDef
  <1>2. CASE /\ pc[r] = "received" /\ call[r].op = "create"
             /\ pc' = [pc EXCEPT ![r] = "checked"]
             /\ UNCHANGED <<scenario, audits, call, seen, read>>
    BY <1>0, <1>2, CopiesDef DEF TypeOK
  <1>3. CASE Load(r) /\ pc'[r] = "checked"
    <2>1. /\ pc[r] = "received" /\ call'[r] = call[r] /\ seen'[r] = seen[r]
          /\ read'[r] = scenario[s]
      BY <1>0, <1>3, LoadFacts DEF TypeOK
    <2> QED
      BY <1>3, <2>1, CopiesDef
  <1>4. CASE Insert(r)
    <2>1. PICK t \in Scenarios, row \in LiveRow :
             /\ pc[r] = "checked" /\ call[r].op = "create"
             /\ scenario' = [scenario EXCEPT ![t] = row]
             /\ read' = [read EXCEPT ![r] = row]
             /\ call' = [call EXCEPT ![r].id = t]
             /\ UNCHANGED <<audits, seen>>
      BY <1>4, InsertFacts
    <2>2. /\ t = s /\ call'[r].op = "create" /\ read'[r] = row
          /\ scenario'[s] = row /\ seen'[r] = NoRow
      BY <1>0, <2>1 DEF TypeOK, Call, RequestOK
    <2>3. Changed(call'[r], read'[r], seen'[r].version) = row
      BY <2>2, ChangedByCreate
    <2> QED
      BY <2>2, <2>3, CopiesDef DEF Local
  <1>5. CASE (UpdateWithVersion(r) \/ Transition(r)) /\ pc'[r] = "written"
    <2>1. /\ pc[r] = "checked" /\ read[r] = scenario[call[r].id]
          /\ seen[r] = scenario[call[r].id]
          /\ call[r].id \in Scenarios
          /\ scenario' = [scenario EXCEPT ![call[r].id] = Local(r)]
          /\ UNCHANGED <<call, seen, read>>
      BY <1>5, CommitFacts
    <2>2. Local(r)' = Local(r) /\ scenario'[s] = Local(r) /\ call[r].id = s
      BY <1>0, <2>1 DEF Local, TypeOK
    <2> QED
      BY <2>1, <2>2, CopiesDef
  <1>6. CASE \E outcome \in Ended : End(r, outcome)
    BY <1>0, <1>6 DEF End, Ended, TypeOK
  <1>7. CASE RecordAudit(r)
    BY <1>0, <1>7 DEF RecordAudit, End, TypeOK
  <1> QED
    BY <1>1, <1>2, <1>3, <1>4, <1>5, <1>6, <1>7, StepCases

\* New audit records describe rows that were copies already.
LEMMA AuditStep ==
    ASSUME IInv, NEW r \in Requests, Step(r)
    PROVE  \/ UNCHANGED audits
           \/ \E a : /\ audits' = audits \cup {a}
                     /\ pc[r] = "written" /\ pc'[r] = "idle"
                     /\ a.id = call[r].id /\ a.after = Local(r)
                     /\ a.before \in {NoRow, read[r]}
                     /\ UNCHANGED scenario
  <1>1. CASE RecordAudit(r)
    BY <1>1 DEF RecordAudit, Local, End, IInv, TypeOK
  <1>2. CASE Insert(r)
    BY <1>2, InsertFacts
  <1>3. CASE ~RecordAudit(r) /\ ~Insert(r)
    BY <1>3 DEF Step, SubmitCreate, SubmitUpdate, SubmitTransition, Submit,
       CheckNode, Load, UpdateWithVersion, Transition, Abort
  <1> QED
    BY <1>1, <1>2, <1>3

LEMMA CopiesStep ==
    ASSUME IInv, NEW r \in Requests, Step(r), NEW s \in Scenarios
    PROVE  Copies(s)' \subseteq Copies(s) \cup {scenario'[s]}
  <1> SUFFICES ASSUME NEW x \in Copies(s)', x # NoRow, x # scenario'[s]
               PROVE  x \in Copies(s)
    BY CopiesDef
  <1>1. CASE \E q \in Requests :
                /\ pc'[q] \in Running /\ call'[q].id = s
                /\ \/ x = seen'[q] \/ x = read'[q]
                   \/ pc'[q] = "written" /\ x = Local(q)'
    <2>1. PICK q \in Requests :
             /\ pc'[q] \in Running /\ call'[q].id = s
             /\ \/ x = seen'[q] \/ x = read'[q]
                \/ pc'[q] = "written" /\ x = Local(q)'
      BY <1>1
    <2>2. CASE q = r
      BY <2>1, <2>2, OwnCopies
    <2>3. CASE q # r
      <3>1. /\ pc'[q] = pc[q] /\ call'[q] = call[q]
            /\ seen'[q] = seen[q] /\ read'[q] = read[q]
        BY <2>3, OthersUnchanged
      <3>2. Local(q)' = Local(q)
        BY <3>1 DEF Local
      <3> QED
        BY <2>1, <3>1, <3>2, CopiesDef
    <2> QED
      BY <2>2, <2>3
  <1>2. CASE \E a \in audits' : a.id = s /\ (x = a.before \/ x = a.after)
    <2>1. PICK a \in audits' : a.id = s /\ (x = a.before \/ x = a.after)
      BY <1>2
    <2>2. CASE a \in audits
      BY <2>1, <2>2, CopiesDef
    <2>3. CASE a \notin audits
      <3>1. /\ pc[r] = "written" /\ call[r].id = s /\ a.after = Local(r)
            /\ a.before \in {NoRow, read[r]}
        BY <2>1, <2>3, AuditStep
      <3> QED
        BY <2>1, <3>1, CopiesDef DEF Running
    <2> QED
      BY <2>2, <2>3
  <1>3. \/ \E q \in Requests :
              /\ pc'[q] \in Running /\ call'[q].id = s
              /\ \/ x = seen'[q] \/ x = read'[q]
                 \/ pc'[q] = "written" /\ x = Local(q)'
        \/ \E a \in audits' : a.id = s /\ (x = a.before \/ x = a.after)
    BY DEF Copies, On, WrittenOn, AuditsOf
  <1> QED
    BY <1>1, <1>2, <1>3

LEMMA CopiesAreRows ==
    ASSUME IInv, NEW s \in Scenarios, NEW x \in Copies(s)
    PROVE  x \in Row
  <1>1. /\ NoRow \in Row /\ scenario[s] \in Row
        /\ \A q \in Requests : seen[q] \in Row /\ read[q] \in Row
        /\ \A a \in audits : a.before \in Row /\ a.after \in Row
    BY RowFacts DEF IInv, TypeOK, AuditRecord
  <1>2. \A q \in Requests : pc[q] = "written" => Local(q) \in Row
    BY LocalType
  <1> QED
    BY <1>1, <1>2, CopiesDef

LEMMA VersionStep ==
    ASSUME IInv, NEW r \in Requests, Step(r)
    PROVE  VersionIdentifiesRow'
  <1> SUFFICES ASSUME NEW s \in Scenarios, NEW x \in Copies(s)'
               PROVE  /\ x.version <= scenario'[s].version
                      /\ x # NoRow => x.createdBy = scenario'[s].createdBy
                      /\ \A y \in Copies(s)' : x.version = y.version => x = y
    BY DEF VersionIdentifiesRow
  <1>1. /\ \A y \in Copies(s) : /\ y.version <= scenario[s].version
                                /\ y # NoRow => y.createdBy = scenario[s].createdBy
        /\ \A y, z \in Copies(s) : y.version = z.version => y = z
        /\ NoRow \in Copies(s) /\ scenario[s] \in Copies(s)
    BY CopiesDef DEF IInv, VersionIdentifiesRow
  <1>2. scenario[s] \in Row /\ scenario'[s] \in Row
    BY TypeStep DEF IInv, TypeOK
  <1>3. scenario[s].version \in Nat /\ scenario'[s].version \in Nat
    BY <1>2, RowFacts
  <1>4. Copies(s)' \subseteq Copies(s) \cup {scenario'[s]}
    BY CopiesStep
  <1>5. CASE scenario'[s] = scenario[s]
    BY <1>1, <1>4, <1>5
  <1>6. CASE /\ scenario'[s] \in LiveRow
             /\ scenario'[s].version > scenario[s].version
             /\ scenario[s] = NoRow
                \/ scenario'[s].createdBy = scenario[s].createdBy
    <2>2. \A y \in Copies(s) : y.version \in Nat
      BY CopiesAreRows, RowFacts
    <2>3. \A y \in Copies(s) : y.version < scenario'[s].version
      BY <1>1, <1>3, <1>6, <2>2
    <2>4. \A y \in Copies(s) : y # NoRow => y.createdBy = scenario'[s].createdBy
      <3>1. CASE scenario[s] = NoRow
        BY <1>1, <2>2, <3>1, CopiesAreRows, RowFacts
      <3>2. CASE scenario'[s].createdBy = scenario[s].createdBy
        BY <1>1, <3>2
      <3> QED
        BY <1>6, <3>1, <3>2
    <2> QED
      BY <1>1, <1>3, <1>4, <2>2, <2>3, <2>4
  <1> QED
    BY <1>5, <1>6, TableStep

\* A request that has just written holds the row it wrote, which is newer
\* than every copy there was.
LEMMA FreshWrite ==
    ASSUME IInv, NEW r \in Requests, Step(r), pc'[r] = "written"
    PROVE  LET s == call'[r].id IN
              /\ s \in Scenarios /\ UNCHANGED audits
              /\ Local(r)' = scenario'[s]
              /\ \A x \in Copies(s) : x.version # scenario'[s].version
  <1> DEFINE s == call'[r].id
  <1>0. TypeOK /\ RequestOK(r)
    BY DEF IInv, RequestsOK
  <1>1. CASE Insert(r)
    <2>1. PICK t \in Scenarios, row \in LiveRow :
             /\ pc[r] = "checked" /\ call[r].op = "create"
             /\ scenario[t] = NoRow
             /\ scenario' = [scenario EXCEPT ![t] = row]
             /\ read' = [read EXCEPT ![r] = row]
             /\ call' = [call EXCEPT ![r].id = t]
             /\ UNCHANGED <<audits, seen>>
      BY <1>1, InsertFacts
    <2>2. /\ t = s /\ call'[r].op = "create" /\ read'[r] = row
          /\ scenario'[s] = row
      BY <1>0, <2>1 DEF TypeOK, Call
    <2>3. Local(r)' = scenario'[s]
      BY <2>2, ChangedByCreate DEF Local
    <2>4. \A x \in Copies(s) : x.version <= 0 /\ x.version \in Nat
      BY <2>1, <2>2, CopiesAreRows, RowFacts DEF IInv, VersionIdentifiesRow
    <2>5. row.version \in Nat \ {0}
      BY RowFacts
    <2> QED
      BY <2>1, <2>2, <2>3, <2>4, <2>5
  <1>2. CASE UpdateWithVersion(r) \/ Transition(r)
    <2>1. LET t == call[r].id IN
             /\ t \in Scenarios /\ scenario[t] \in LiveRow
             /\ scenario' = [scenario EXCEPT ![t] = Local(r)]
             /\ Local(r).version = scenario[t].version + 1
             /\ UNCHANGED <<audits, call, seen, read>>
      BY <1>2, CommitFacts
    <2>2. s \in Scenarios /\ call[r].id = s /\ scenario'[s] = Local(r)
      BY <1>0, <2>1 DEF TypeOK
    <2>3. Local(r)' = Local(r)
      BY <2>1 DEF Local
    <2>4. scenario[s].version \in Nat
      BY <2>1, <2>2, RowFacts DEF Row
    <2>5. \A x \in Copies(s) : x.version <= scenario[s].version /\ x.version \in Nat
      BY <2>2, CopiesAreRows, RowFacts DEF IInv, VersionIdentifiesRow
    <2> QED
      BY <2>1, <2>2, <2>3, <2>4, <2>5
  <1>3. Insert(r) \/ UpdateWithVersion(r) \/ Transition(r)
    BY <1>0 DEF Step, SubmitCreate, SubmitUpdate, SubmitTransition, Submit,
       CheckNode, Load, RecordAudit, Abort, End, TypeOK, Ended, Running
  <1> QED
    BY <1>1, <1>2, <1>3

LEMMA RecordStep ==
    ASSUME IInv, NEW r \in Requests, Step(r)
    PROVE  OneRecordPerVersion'
  <1> SUFFICES ASSUME NEW s \in Scenarios
               PROVE  /\ \A a, b \in AuditsOf(s)' :
                            a.after.version = b.after.version => a = b
                      /\ \A a \in AuditsOf(s)', q \in WrittenOn(s)' :
                            a.after.version # Local(q)'.version
                      /\ \A p, q \in WrittenOn(s)' :
                            Local(p)'.version = Local(q)'.version => p = q
    BY DEF OneRecordPerVersion
  <1>0. /\ \A a, b \in AuditsOf(s) : a.after.version = b.after.version => a = b
        /\ \A a \in AuditsOf(s), q \in WrittenOn(s) :
              a.after.version # Local(q).version
        /\ \A p, q \in WrittenOn(s) : Local(p).version = Local(q).version => p = q
    BY DEF IInv, OneRecordPerVersion
  <1>1. \A q \in WrittenOn(s)' \ {r} :
           q \in WrittenOn(s) /\ Local(q)' = Local(q)
    <2> SUFFICES ASSUME NEW q \in WrittenOn(s)' \ {r}
                 PROVE  q \in WrittenOn(s) /\ Local(q)' = Local(q)
      OBVIOUS
    <2>1. q \in Requests /\ pc'[q] = "written" /\ call'[q].id = s
      BY DEF WrittenOn, On
    <2>2. /\ pc'[q] = pc[q] /\ call'[q] = call[q]
          /\ seen'[q] = seen[q] /\ read'[q] = read[q]
      BY <2>1, OthersUnchanged
    <2> QED
      BY <2>1, <2>2 DEF WrittenOn, On, Local, Running
  <1>2. \A q \in WrittenOn(s) : Local(q) \in Copies(s)
    BY CopiesDef DEF WrittenOn, On
  <1>3. \A a \in AuditsOf(s) : a.after \in Copies(s)
    BY CopiesDef DEF AuditsOf
  <1>4. CASE UNCHANGED audits
    <2>1. AuditsOf(s)' = AuditsOf(s)
      BY <1>4 DEF AuditsOf
    <2>2. r \in WrittenOn(s)' =>
             \A x \in Copies(s) : x.version # Local(r)'.version
      BY FreshWrite DEF WrittenOn, On
    <2> QED
      BY <1>0, <1>1, <1>2, <1>3, <2>1, <2>2
  <1>5. CASE ~UNCHANGED audits
    <2>1. PICK a : /\ audits' = audits \cup {a}
                   /\ pc[r] = "written" /\ pc'[r] = "idle"
                   /\ a.id = call[r].id /\ a.after = Local(r)
      BY <1>5, AuditStep
    <2>2. r \notin WrittenOn(s)'
      BY <2>1 DEF WrittenOn, On
    <2>3. a.id = s => r \in WrittenOn(s)
      BY <2>1 DEF WrittenOn, On, Running
    <2>4. AuditsOf(s)' = IF a.id = s THEN AuditsOf(s) \cup {a} ELSE AuditsOf(s)
      BY <2>1 DEF AuditsOf
    <2>5. CASE a.id = s
      BY <1>0, <1>1, <2>1, <2>2, <2>3, <2>4, <2>5
    <2>6. CASE a.id # s
      BY <1>0, <1>1, <2>2, <2>4, <2>6
    <2> QED
      BY <2>5, <2>6
  <1> QED
    BY <1>4, <1>5

LEMMA ReviewedStep ==
    ASSUME IInv, NEW r \in Requests, Step(r)
    PROVE  ReviewedByAnother'
  <1> SUFFICES ASSUME NEW s \in Scenarios,
                      scenario'[s].state \in {"verified", "accepted"}
               PROVE  scenario'[s].reviewedBy \in Actors \ {scenario'[s].createdBy}
    BY DEF ReviewedByAnother
  <1>0. /\ scenario \in [Scenarios -> Row]
        /\ scenario[s].state \in {"verified", "accepted"} =>
             scenario[s].reviewedBy \in Actors \ {scenario[s].createdBy}
    BY DEF IInv, TypeOK, ReviewedByAnother
  <1>1. CASE UNCHANGED scenario
    BY <1>0, <1>1
  <1>2. CASE Insert(r)
    BY <1>0, <1>2, InsertFacts DEF NewRow
  <1>3. CASE (UpdateWithVersion(r) \/ Transition(r)) /\ pc'[r] = "written"
    <2> DEFINE t == call[r].id
    <2>1. /\ t \in Scenarios /\ call[r].op # "create"
          /\ scenario[t] \in LiveRow
          /\ read[r] = scenario[t] /\ seen[r] = scenario[t]
          /\ scenario' = [scenario EXCEPT ![t] = Local(r)]
          /\ Local(r).createdBy = scenario[t].createdBy
          /\ pc[r] = "checked"
      BY <1>3, CommitFacts
    <2>2. /\ Acceptable(call[r], scenario[t]) /\ call[r].actor \in Actors
          /\ call[r].op = "update" => call[r].patch \in Patches
          /\ scenario[t].version \in Nat /\ scenario[t].content \in Contents
      BY <2>1 DEF IInv, RequestsOK, RequestOK, Running, LiveRow
    <2>3. CASE s # t
      BY <1>0, <2>1, <2>3
    <2>4. CASE s = t /\ UpdateWithVersion(r)
      <3> DEFINE new == Overlay(scenario[s].content, call[r].patch)
      <3>1. new \in Contents
        BY <2>2, <2>4, OverlayType DEF UpdateWithVersion
      <3>2. scenario'[s] = UpdateColumns(scenario[s], scenario[s].version, new)
        BY <1>0, <2>1, <2>4, ChangedByUpdate DEF Local, UpdateWithVersion
      <3>3. scenario[s] \in LiveRow /\ scenario[s].version \in Nat
        BY <2>1, <2>2, <2>4
      <3> HIDE DEF new, t
      <3>4. /\ scenario'[s].state = scenario[s].state
            /\ scenario'[s].createdBy = scenario[s].createdBy
            /\ scenario'[s].reviewedBy = scenario[s].reviewedBy
        BY <3>1, <3>2, <3>3, UpdatedRow
      <3> QED
        BY <1>0, <3>4
    <2>5. CASE s = t /\ Transition(r)
      <3>1. call[r].op \in Targets
        BY <2>5 DEF Transition
      <3>2. scenario'[s] = TransitionColumns(scenario[s], call[r].op,
                              scenario[s].version, call[r].actor)
        BY <1>0, <2>1, <2>5, <3>1, ChangedByTransition DEF Local
      <3>3. /\ scenario'[s].state = call[r].op
            /\ scenario'[s].createdBy = scenario[s].createdBy
            /\ IsReview(call[r].op) => scenario'[s].reviewedBy = call[r].actor
        BY <2>1, <2>2, <2>5, <3>1, <3>2, TransitionedRow
      <3>4. IsReview(call[r].op)
        BY <3>3 DEF IsReview
      <3>5. scenario[s].createdBy # call[r].actor
        BY <2>2, <2>5, <3>1, <3>4
        DEF Acceptable, MayDecide, ReviewerSeparated, Targets
      <3> QED
        BY <2>2, <3>3, <3>4, <3>5
    <2> QED
      BY <1>3, <2>3, <2>4, <2>5
  <1> QED
    BY <1>1, <1>2, <1>3, StepCases DEF SubmitCreate, SubmitUpdate,
       SubmitTransition, Submit, Load, RecordAudit

LEMMA InvInit == Init => IInv
  <1> SUFFICES ASSUME Init PROVE IInv
    OBVIOUS
  <1> USE DEF Init
  <1>1. TypeOK
    BY RowFacts, NoCallType DEF TypeOK, Ended
  <1>2. RequestsOK
    BY DEF RequestsOK, RequestOK, Running
  <1>3. \A s \in Scenarios : Copies(s) = {NoRow}
    BY DEF Copies, On, WrittenOn, AuditsOf, Running
  <1>4. VersionIdentifiesRow
    BY <1>3, RowFacts DEF VersionIdentifiesRow
  <1>5. OneRecordPerVersion
    BY DEF OneRecordPerVersion, AuditsOf, WrittenOn, On, Running
  <1>6. ReviewedByAnother
    BY RowFacts DEF ReviewedByAnother
  <1> QED
    BY <1>1, <1>2, <1>4, <1>5, <1>6 DEF IInv

LEMMA InvStutter == IInv /\ UNCHANGED vars => IInv'
  BY DEF vars, IInv, TypeOK, RequestsOK, RequestOK, VersionIdentifiesRow,
     OneRecordPerVersion, ReviewedByAnother, Copies, On, WrittenOn, AuditsOf,
     Local

\* Everything the workflow guarantees rests on this: each conjunct survives
\* every step of every request.
THEOREM Invariance == Spec => []IInv
  <1>1. IInv /\ [Next]_vars => IInv'
    <2> SUFFICES ASSUME IInv, Next PROVE IInv'
      BY InvStutter
    <2>1. PICK r \in Requests : Step(r)
      BY DEF Next
    <2> QED
      BY <2>1, TypeStep, RequestsStep, VersionStep, RecordStep, ReviewedStep
      DEF IInv
  <1> QED
    BY InvInit, <1>1, PTL DEF Spec

-----------------------------------------------------------------------------
(* What the invariant gives *)

\* Type correctness of the table, the audit log and the requests.
THEOREM TypeCorrect == Spec => []TypeOK
  BY Invariance, PTL DEF IInv

\* The reviewer of a verified or accepted scenario is never its author.
THEOREM ReviewerSeparation == Spec => []ReviewedByAnother
  BY Invariance, PTL DEF IInv

\* Equal versions mean equal rows, among all copies anybody holds.
THEOREM VersionIdentity == Spec => []VersionIdentifiesRow
  BY Invariance, PTL DEF IInv

\* The audit records of a scenario fit the table and each other.
THEOREM AuditConsistency == Spec => []AuditTrailConsistent
  <1>1. IInv => AuditTrailConsistent
    <2> SUFFICES ASSUME IInv, NEW a \in audits
                 PROVE  /\ a.after.version <= scenario[a.id].version
                        /\ a.after.version = scenario[a.id].version =>
                              a.after = scenario[a.id]
                        /\ \A b \in audits : a.id = b.id =>
                              /\ a.after.version = b.before.version =>
                                    a.after = b.before
                              /\ a.after.version = b.after.version => a = b
      BY DEF AuditTrailConsistent
    <2>1. a.id \in Scenarios
      BY DEF IInv, TypeOK, AuditRecord
    <2>2. a.after \in Copies(a.id) /\ scenario[a.id] \in Copies(a.id)
      BY CopiesDef
    <2>3. \A b \in audits : a.id = b.id => b.before \in Copies(a.id)
      BY CopiesDef
    <2>4. \A b \in audits : a.id = b.id /\ a.after.version = b.after.version
             => a = b
      BY <2>1 DEF IInv, OneRecordPerVersion, AuditsOf
    <2> QED
      BY <2>1, <2>2, <2>3, <2>4 DEF IInv, VersionIdentifiesRow
  <1> QED
    BY Invariance, <1>1, PTL

\* A decision or an edit takes effect only on the row its client was looking at.
THEOREM NoBlindDecision == Spec => DecidesWhatWasSeen
  <1>1. IInv /\ [Next]_vars =>
           [\A r \in Requests : Commits(r) /\ call[r].op # "create" =>
               scenario[call[r].id] = seen[r]]_vars
    <2> SUFFICES ASSUME IInv, Next, NEW r \in Requests,
                        Commits(r), call[r].op # "create"
                 PROVE  scenario[call[r].id] = seen[r]
      OBVIOUS
    <2>1. PICK q \in Requests : Step(q)
      BY DEF Next
    <2>2. q = r
      BY <2>1, OthersUnchanged DEF Commits
    <2>3. UpdateWithVersion(r) \/ Transition(r)
      BY <2>1, <2>2 DEF Commits, Step, SubmitCreate, SubmitUpdate,
         SubmitTransition, Submit, CheckNode, Load, Insert, RecordAudit, Abort,
         Ended, Running, End, IInv, TypeOK
    <2> QED
      BY <2>3, CommitFacts DEF Commits
  <1> QED
    BY Invariance, <1>1, PTL DEF Spec, DecidesWhatWasSeen

\* The protocol's own copy of the row vocabulary is the workflow's.
LEMMA SameVocabulary ==
    /\ Protocol!NoRow = NoRow
    /\ Protocol!Contents = Contents
    /\ Protocol!Targets = Targets
    /\ \A a, content : Protocol!NewRow(a, content) = NewRow(a, content)
    /\ \A content, patch : Protocol!Overlay(content, patch) = Overlay(content, patch)
    /\ \A x : Protocol!Editable(x) <=> Editable(x)
    /\ \A op : Protocol!IsReview(op) <=> IsReview(op)
    /\ \A a : Protocol!MayWrite(a) <=> MayWrite(a)
    /\ \A a : Protocol!MayTransition(a) <=> MayTransition(a)
    /\ \A x, to, a : Protocol!MayDecide(x, to, a) <=> MayDecide(x, to, a)
  <1>1. Protocol!NoRow = NoRow /\ Protocol!Contents = Contents
        /\ Protocol!Targets = Targets
    BY DEF Protocol!NoRow, NoRow, Protocol!Contents, Contents,
       Protocol!Targets, Targets
  <1>2. /\ \A a, content : Protocol!NewRow(a, content) = NewRow(a, content)
        /\ \A content, patch : Protocol!Overlay(content, patch) = Overlay(content, patch)
    BY DEF Protocol!NewRow, NewRow, Protocol!Overlay, Overlay
  <1>3. /\ \A x : Protocol!Editable(x) <=> Editable(x)
        /\ \A op : Protocol!IsReview(op) <=> IsReview(op)
    BY DEF Protocol!Editable, Editable, Protocol!IsReview, IsReview
  <1>4. \A a, p : Protocol!HasPermission(a, p) <=> HasPermission(a, p)
    BY DEF Protocol!HasPermission, HasPermission, Protocol!RolePermissions,
       RolePermissions
  <1>5. /\ \A a : Protocol!MayWrite(a) <=> MayWrite(a)
        /\ \A a : Protocol!MayTransition(a) <=> MayTransition(a)
    BY <1>4 DEF Protocol!MayWrite, MayWrite, Protocol!MayTransition, MayTransition
  <1>6. \A from, to : Protocol!CanTransitionScenario(from, to)
                         <=> CanTransitionScenario(from, to)
    BY DEF Protocol!CanTransitionScenario, CanTransitionScenario,
       Protocol!ScenarioTransitions, ScenarioTransitions
  <1>7. \A x, to, a : Protocol!MayDecide(x, to, a) <=> MayDecide(x, to, a)
    BY <1>3, <1>6 DEF Protocol!MayDecide, MayDecide,
       Protocol!ReviewerSeparated, ReviewerSeparated
  <1> QED
    BY <1>1, <1>2, <1>3, <1>5, <1>7

\* What a committed update or transition does, in the terms of the protocol.
LEMMA CommitIsAtomic ==
    ASSUME IInv, NEW r \in Requests, pc'[r] = "written",
           UpdateWithVersion(r) \/ Transition(r)
    PROVE  LET s == call[r].id
               a == call[r].actor
           IN  /\ s \in Scenarios /\ a \in Actors
               /\ \/ Protocol!Edit(s, a)
                  \/ \E to \in Targets : Protocol!Decide(s, a, to)
  <1> DEFINE s == call[r].id
             a == call[r].actor
  <1>1. /\ s \in Scenarios /\ call[r].op # "create"
        /\ scenario[s] \in LiveRow
        /\ read[r] = scenario[s] /\ seen[r] = scenario[s]
        /\ scenario' = [scenario EXCEPT ![s] = Local(r)]
        /\ pc[r] = "checked"
    BY CommitFacts
  <1>2. /\ a \in Actors /\ RouteAllows(a, call[r].op)
        /\ Acceptable(call[r], scenario[s])
        /\ call[r].op = "update" => call[r].patch \in Patches
    BY <1>1 DEF IInv, RequestsOK, RequestOK, Running
  <1>3. CASE UpdateWithVersion(r)
    <2>1. Local(r) = UpdateColumns(scenario[s], scenario[s].version,
                        Overlay(scenario[s].content, call[r].patch))
      BY <1>1, <1>3, ChangedByUpdate DEF Local, UpdateWithVersion
    <2>2. scenario' = [scenario EXCEPT
                         ![s].content = Overlay(@, call[r].patch),
                         ![s].version = @ + 1]
      BY <1>1, <2>1 DEF UpdateColumns, IInv, TypeOK
    <2>3. call[r].patch \in Patches /\ Editable(scenario[s]) /\ MayWrite(a)
      BY <1>2, <1>3 DEF UpdateWithVersion, Acceptable, RouteAllows
    <2>4. Protocol!Edit(s, a)
      BY <2>2, <2>3, SameVocabulary DEF Protocol!Edit
    <2> QED
      BY <1>1, <1>2, <2>4
  <1>4. CASE Transition(r)
    <2>1. call[r].op \in Targets /\ call[r].op # "update"
      BY <1>4 DEF Transition, Targets
    <2>2. Local(r) = TransitionColumns(scenario[s], call[r].op,
                        scenario[s].version, a)
      BY <1>1, <2>1, ChangedByTransition DEF Local
    <2>3. scenario' = [scenario EXCEPT
                         ![s].state = call[r].op,
                         ![s].version = @ + 1,
                         ![s].reviewedBy = IF IsReview(call[r].op) THEN a ELSE @]
      BY <1>1, <2>2 DEF TransitionColumns, IInv, TypeOK
    <2>4. MayTransition(a) /\ MayDecide(scenario[s], call[r].op, a)
      BY <1>1, <1>2, <2>1 DEF Acceptable, RouteAllows
    <2>5. Protocol!Decide(s, a, call[r].op)
      BY <2>3, <2>4, SameVocabulary DEF Protocol!Decide
    <2> QED
      BY <1>1, <1>2, <2>1, <2>5
  <1> QED
    BY <1>3, <1>4

\* The interleaved requests implement the atomic review protocol.
THEOREM Refinement == Spec => ImplementsProtocol
  <1>1. Init => Protocol!Init
    BY SameVocabulary DEF Init, Protocol!Init
  <1>2. IInv /\ [Next]_vars => [Protocol!Next]_scenario
    <2> SUFFICES ASSUME IInv, NEW r \in Requests, Step(r), scenario' # scenario
                 PROVE  Protocol!Next
      BY DEF Next, vars
    <2>1. CASE Insert(r)
      <3>1. PICK s \in Scenarios :
               /\ scenario[s] = NoRow
               /\ scenario' = [scenario EXCEPT ![s] =
                                 NewRow(call[r].actor, call[r].patch)]
        BY <2>1 DEF Insert
      <3>2. /\ call[r].actor \in Actors /\ call[r].patch \in Contents
            /\ MayWrite(call[r].actor)
        BY <2>1 DEF Insert, IInv, RequestsOK, RequestOK, Running, RouteAllows
      <3>3. Protocol!Create(s, call[r].actor)
        BY <3>1, <3>2, SameVocabulary DEF Protocol!Create
      <3> QED
        BY <3>2, <3>3 DEF Protocol!Next
    <2>2. CASE (UpdateWithVersion(r) \/ Transition(r)) /\ pc'[r] = "written"
      BY <2>2, CommitIsAtomic, SameVocabulary DEF Protocol!Next
    <2> QED
      BY <2>1, <2>2, StepCases DEF SubmitCreate, SubmitUpdate,
         SubmitTransition, Submit, Load, RecordAudit
  <1> QED
    BY <1>1, <1>2, Invariance, PTL DEF Spec, ImplementsProtocol, Protocol!Spec

LEMMA StepOfCommit ==
    ASSUME IInv, NEW r \in Requests, Step(r), pc[r] = "checked",
           call[r].op # "create", pc'[r] \in {"written", "conflict"}
    PROVE  UpdateWithVersion(r) \/ Transition(r)
  BY DEF Step, SubmitCreate, SubmitUpdate, SubmitTransition, Submit, CheckNode,
     Load, Insert, RecordAudit, Abort, Ended, Running, End, IInv, TypeOK

\* Content and authorship are fixed while a scenario is under review.
THEOREM ReviewFreezesContent == Spec => FrozenUnderReview
  <1> DEFINE Frozen(s) ==
               scenario[s] # NoRow =>
                 /\ scenario'[s].content # scenario[s].content =>
                       Editable(scenario[s]) /\ Editable(scenario'[s])
                 /\ scenario'[s].createdBy = scenario[s].createdBy
  <1>1. ASSUME IInv, Next, NEW s \in Scenarios PROVE Frozen(s)
    <2>0. scenario \in [Scenarios -> Row]
      BY <1>1 DEF IInv, TypeOK
    <2>1. PICK r \in Requests : Step(r)
      BY <1>1 DEF Next
    <2>2. CASE UNCHANGED scenario
      BY <2>2
    <2>3. CASE Insert(r)
      BY <1>1, <2>0, <2>3, InsertFacts
    <2>4. CASE (UpdateWithVersion(r) \/ Transition(r)) /\ pc'[r] = "written"
      <3> DEFINE t == call[r].id
      <3>1. t \in Scenarios /\ (\/ Protocol!Edit(t, call[r].actor)
                                \/ \E to \in Targets :
                                      Protocol!Decide(t, call[r].actor, to))
        BY <1>1, <2>4, CommitIsAtomic
      <3>2. scenario' = [scenario EXCEPT ![t] = Local(r)]
            /\ Local(r).createdBy = scenario[t].createdBy
            /\ scenario[t] \in LiveRow
        BY <1>1, <2>4, CommitFacts
      <3>3. CASE s # t
        BY <2>0, <3>1, <3>2, <3>3
      <3>4. CASE s = t /\ Protocol!Edit(t, call[r].actor)
        <4>1. PICK patch \in Patches :
                 scenario' = [scenario EXCEPT
                                ![s].content = Protocol!Overlay(@, patch),
                                ![s].version = @ + 1]
          BY <3>4 DEF Protocol!Edit
        <4>2. Editable(scenario[s])
          BY <3>4, SameVocabulary DEF Protocol!Edit
        <4>3. scenario'[s].state = scenario[s].state
          BY <2>0, <3>2, <3>4, <4>1 DEF LiveRow
        <4> QED
          BY <2>0, <3>1, <3>2, <3>4, <4>2, <4>3 DEF Editable
      <3>5. CASE s = t /\ \E to \in Targets : Protocol!Decide(t, call[r].actor, to)
        <4>1. PICK to \in Targets : Protocol!Decide(s, call[r].actor, to)
          BY <3>5
        <4>2. scenario'[s].content = scenario[s].content
          BY <2>0, <3>2, <3>5, <4>1 DEF Protocol!Decide, LiveRow
        <4> QED
          BY <2>0, <3>1, <3>2, <3>5, <4>2
      <3> QED
        BY <3>1, <3>3, <3>4, <3>5
    <2> QED
      BY <1>1, <2>1, <2>2, <2>3, <2>4, StepCases DEF SubmitCreate, SubmitUpdate,
         SubmitTransition, Submit, Load, RecordAudit
  <1>2. IInv /\ [Next]_vars =>
           [\A s \in Scenarios : scenario[s] # NoRow =>
              /\ scenario'[s].content # scenario[s].content =>
                    Editable(scenario[s]) /\ Editable(scenario'[s])
              /\ scenario'[s].createdBy = scenario[s].createdBy]_vars
    BY <1>1
  <1> QED
    BY Invariance, <1>2, PTL DEF Spec, FrozenUnderReview

\* A conditional write fails only because somebody else has moved the row on.
THEOREM ConflictsAreReal == Spec => ConflictIsReal
  <1>1. ASSUME IInv, Next, NEW r \in Requests,
               pc[r] = "checked", pc'[r] = "conflict"
        PROVE  scenario[call[r].id].version > seen[r].version
    <2>0. PICK q \in Requests : Step(q)
      BY <1>1 DEF Next
    <2>1. q = r
      BY <1>1, <2>0, OthersUnchanged
    <2>2. call[r].op # "create"
      BY <1>1, <2>0, <2>1 DEF Step, SubmitCreate, SubmitUpdate, SubmitTransition,
         Submit, CheckNode, Load, Insert, UpdateWithVersion, Transition,
         RecordAudit, Abort, Ended, Running, End, IInv, TypeOK, Targets
    <2>3. UpdateWithVersion(r) \/ Transition(r)
      BY <1>1, <2>0, <2>1, <2>2, StepOfCommit
    <2> DEFINE s == call[r].id
    <2>4. /\ s \in Scenarios /\ Acceptable(call[r], read[r])
          /\ read[r] \in LiveRow /\ seen[r] \in LiveRow
          /\ seen[r].version <= read[r].version
      BY <1>1, <2>2 DEF IInv, TypeOK, Call, RequestsOK, RequestOK, Running
    <2>5. read[r] \in Copies(s) /\ scenario[s] \in Copies(s)
          /\ seen[r] \in Copies(s)
      BY <1>1, CopiesDef DEF Running
    <2>6. read[r].version <= scenario[s].version /\ scenario[s] \in Row
      BY <1>1, <2>4, <2>5 DEF IInv, VersionIdentifiesRow, TypeOK
    <2>7. scenario[s].version # seen[r].version
      <3> SUFFICES ASSUME scenario[s].version = seen[r].version PROVE FALSE
        OBVIOUS
      <3>1. read[r].version = scenario[s].version
        BY <2>4, <2>6, RowFacts
      <3>2. read[r] = scenario[s]
        BY <1>1, <2>4, <2>5, <3>1 DEF IInv, VersionIdentifiesRow
      <3>3. CASE UpdateWithVersion(r)
        <4>1. UpdateMatches(scenario[s], seen[r].version)
          BY <2>4, <3>2, <3>3 DEF UpdateWithVersion, UpdateMatches, Acceptable
        <4> QED
          BY <1>1, <3>3, <4>1 DEF UpdateWithVersion, IInv, TypeOK
      <3>4. CASE Transition(r)
        <4>1. TransitionMatches(scenario[s], read[r].state, seen[r].version)
          BY <3>2 DEF TransitionMatches
        <4> QED
          BY <1>1, <3>4, <4>1 DEF Transition, IInv, TypeOK
      <3> QED
        BY <2>3, <3>3, <3>4
    <2> QED
      BY <2>4, <2>6, <2>7, RowFacts
  <1>2. IInv /\ [Next]_vars =>
           [\A r \in Requests : pc[r] = "checked" /\ pc'[r] = "conflict" =>
               scenario[call[r].id].version > seen[r].version]_vars
    BY <1>1
  <1> QED
    BY Invariance, <1>2, PTL DEF Spec, ConflictIsReal
=============================================================================
