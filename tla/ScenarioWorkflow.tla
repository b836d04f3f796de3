-------------------------- MODULE ScenarioWorkflow --------------------------
(***************************************************************************)
(* The deviation-scenario service: Create, Update and Transition requests *)
(* run concurrently, each as a sequence of separate autocommit statements *)
(* (read, compare-and-swap write, audit insert).  No transaction spans    *)
(* them, and a request can end after any of them: the client disconnects  *)
(* (every statement runs under the request's context), the database       *)
(* reports an error, or the server dies.                                  *)
(*                                                                         *)
(* A client submits an edit or a decision from a page it loaded earlier   *)
(* and sends that page's version, as the stores of src/frontend do.       *)
(***************************************************************************)
EXTENDS ScenarioRows

CONSTANTS
    Requests,     \* slots for requests in flight
    MaxVersion    \* bound: no form is submitted from this version on

ASSUME WorkflowAssumption == MaxVersion \in Nat

VARIABLES
    scenario,   \* table deviation_scenarios
    audits,     \* rows of audit_logs with entity_type deviation_scenario
    pc,         \* how far each request has come, or how it ended
    call,       \* what each request asks for
    seen,       \* the row its client was looking at
    read        \* the service's local copy, as loaded from the table

vars == <<scenario, audits, pc, call, seen, read>>

-----------------------------------------------------------------------------
\* op is the endpoint; a transition is named by the state it asks for.
Call == [op    : {"none", "create", "update"} \cup Targets,
         actor : Actors \cup {NoActor},
         id    : Scenarios,
         patch : Patches \cup Contents \cup {<<>>}]

NoCall == [op    |-> "none", actor |-> NoActor,
           id    |-> CHOOSE s \in Scenarios : TRUE, patch |-> <<>>]

Running == {"received", "checked", "written"}
Ended   == {"idle", "conflict"}      \* idle: never used, or ended otherwise

AuditRecord == [id     : Scenarios,
                action : {"create", "update", "transition"},
                actor  : Actors,
                before : Row,
                after  : Row]

-----------------------------------------------------------------------------
RouteAllows(actor, op) ==
    IF op \in {"create", "update"} THEN MayWrite(actor) ELSE MayTransition(actor)

\* What Update and Transition require of the row they loaded.
Acceptable(c, row) ==
    IF c.op = "update" THEN Editable(row)
    ELSE MayDecide(row, c.op, c.actor)

\* Mutant: the local copy misses the reviewer that the table received.
ChangedWithoutReviewer(c, row, version) ==
    CASE c.op = "update" ->
           [row EXCEPT !.content = Overlay(@, c.patch), !.version = version + 1]
      [] c.op \in Targets -> [row EXCEPT !.state = c.op, !.version = version + 1]
      [] OTHER -> row

\* The struct recorded as "after": the local copy with the change applied.
Changed(c, row, version) ==
    CASE c.op = "update" ->
           [row EXCEPT !.content = Overlay(@, c.patch), !.version = version + 1]
      [] c.op \in Targets ->
           [row EXCEPT !.state      = c.op,
                       !.version    = version + 1,
                       !.reviewedBy = IF IsReview(c.op) THEN c.actor ELSE @]
      [] OTHER -> row

\* Mutants: the update filters on the id alone, forgets rework, or trusts the
\* state alone; the transition trusts the state alone.
UpdateMatchesAlways(row, version) == row.state # "absent"
UpdateMatchesDraft(row, version) == row.version = version /\ row.state = "draft"
UpdateMatchesAnyVersion(row, version) == Editable(row)
TransitionMatchesAnyVersion(row, from, version) == row.state = from

\* The WHERE clauses of UpdateWithVersion and of Transition.
UpdateMatches(row, version) == row.version = version /\ Editable(row)

TransitionMatches(row, from, version) ==
    row.state = from /\ row.version = version

\* Their SET clauses: every content column from the local copy, or the state.
UpdateColumns(row, version, content) ==
    [row EXCEPT !.content = content, !.version = version + 1]

TransitionColumns(row, to, version, actor) ==
    [row EXCEPT !.state      = to,
                !.version    = version + 1,
                !.reviewedBy = IF IsReview(to) THEN actor ELSE @]

-----------------------------------------------------------------------------
Init ==
    /\ scenario = [s \in Scenarios |-> NoRow]
    /\ audits = {}
    /\ pc = [r \in Requests |-> "idle"]
    /\ call = [r \in Requests |-> NoCall]
    /\ seen = [r \in Requests |-> NoRow]
    /\ read = [r \in Requests |-> NoRow]

\* The request ends and its locals are gone.
End(r, outcome) ==
    /\ pc' = [pc EXCEPT ![r] = outcome]
    /\ call' = [call EXCEPT ![r] = NoCall]
    /\ seen' = [seen EXCEPT ![r] = NoRow]
    /\ read' = [read EXCEPT ![r] = NoRow]

Submit(r, c, page) ==
    /\ pc[r] \in Ended
    /\ RouteAllows(c.actor, c.op)
    /\ pc' = [pc EXCEPT ![r] = "received"]
    /\ call' = [call EXCEPT ![r] = c]
    /\ seen' = [seen EXCEPT ![r] = page]
    /\ UNCHANGED <<scenario, audits, read>>

SubmitCreate(r) ==
    /\ \E s \in Scenarios : scenario[s] = NoRow
    /\ \E a \in Actors, content \in Contents :
          Submit(r, [op |-> "create", actor |-> a, id |-> NoCall.id,
                     patch |-> content], NoRow)

SubmitUpdate(r) ==
    \E a \in Actors, s \in Scenarios, p \in Patches :
       /\ scenario[s].version \in 1 .. MaxVersion - 1
       /\ Submit(r, [op |-> "update", actor |-> a, id |-> s, patch |-> p],
                 scenario[s])

SubmitTransition(r) ==
    \E a \in Actors, s \in Scenarios, to \in Targets :
       /\ scenario[s].version \in 1 .. MaxVersion - 1
       /\ Submit(r, [op |-> to, actor |-> a, id |-> s, patch |-> <<>>],
                 scenario[s])

\* Create loads the process node: found and active, or refused.
CheckNode(r) ==
    /\ pc[r] = "received" /\ call[r].op = "create"
    /\ \/ /\ pc' = [pc EXCEPT ![r] = "checked"]
          /\ UNCHANGED <<call, seen, read>>
       \/ End(r, "idle")
    /\ UNCHANGED <<scenario, audits>>

\* Update and Transition load the row and check it.  Rows are never deleted.
Load(r) ==
    /\ pc[r] = "received" /\ call[r].op # "create"
    /\ IF Acceptable(call[r], scenario[call[r].id])
       THEN /\ pc' = [pc EXCEPT ![r] = "checked"]
            /\ read' = [read EXCEPT ![r] = scenario[call[r].id]]
            /\ UNCHANGED <<call, seen>>
       ELSE End(r, "idle")
    /\ UNCHANGED <<scenario, audits>>

Insert(r) ==
    /\ pc[r] = "checked" /\ call[r].op = "create"
    /\ \E s \in Scenarios :
          /\ scenario[s] = NoRow
          /\ scenario' = [scenario EXCEPT ![s] =
                            NewRow(call[r].actor, call[r].patch)]
          /\ read' = [read EXCEPT ![r] = NewRow(call[r].actor, call[r].patch)]
          /\ call' = [call EXCEPT ![r].id = s]
    /\ pc' = [pc EXCEPT ![r] = "written"]
    /\ UNCHANGED <<audits, seen>>

UpdateWithVersion(r) ==
    LET c == call[r]
        row == scenario[c.id]
    IN /\ pc[r] = "checked" /\ c.op = "update"
       /\ IF UpdateMatches(row, seen[r].version)
          THEN /\ scenario' = [scenario EXCEPT ![c.id] =
                    UpdateColumns(row, seen[r].version,
                                  Overlay(read[r].content, c.patch))]
               /\ pc' = [pc EXCEPT ![r] = "written"]
               /\ UNCHANGED <<call, seen, read>>
          ELSE End(r, "conflict") /\ UNCHANGED scenario
       /\ UNCHANGED audits

Transition(r) ==
    LET c == call[r]
        row == scenario[c.id]
    IN /\ pc[r] = "checked" /\ c.op \in Targets
       /\ IF TransitionMatches(row, read[r].state, seen[r].version)
          THEN /\ scenario' = [scenario EXCEPT ![c.id] =
                    TransitionColumns(row, c.op, seen[r].version, c.actor)]
               /\ pc' = [pc EXCEPT ![r] = "written"]
               /\ UNCHANGED <<call, seen, read>>
          ELSE End(r, "conflict") /\ UNCHANGED scenario
       /\ UNCHANGED audits

RecordAudit(r) ==
    LET c == call[r]
        action == IF c.op \in Targets THEN "transition" ELSE c.op
        before == IF c.op = "create" THEN NoRow ELSE read[r]
    IN /\ pc[r] = "written"
       /\ audits' = audits \cup
            {[id |-> c.id, action |-> action, actor |-> c.actor,
              before |-> before,
              after |-> Changed(c, read[r], seen[r].version)]}
       /\ End(r, "idle")
       /\ UNCHANGED scenario

\* Context cancelled, database error or server crash between two statements.
Abort(r) ==
    /\ pc[r] \in Running
    /\ End(r, "idle")
    /\ UNCHANGED <<scenario, audits>>

Step(r) ==
    \/ SubmitCreate(r) \/ SubmitUpdate(r) \/ SubmitTransition(r)
    \/ CheckNode(r) \/ Load(r)
    \/ Insert(r) \/ UpdateWithVersion(r) \/ Transition(r)
    \/ RecordAudit(r)
    \/ Abort(r)

Next == \E r \in Requests : Step(r)

Spec == Init /\ [][Next]_vars

-----------------------------------------------------------------------------
(* Properties *)

\* Every row, request and audit record is well formed.
TypeOK ==
    /\ scenario \in [Scenarios -> Row]
    /\ audits \subseteq AuditRecord
    /\ pc \in [Requests -> Running \cup Ended]
    /\ call \in [Requests -> Call]
    /\ seen \in [Requests -> Row]
    /\ read \in [Requests -> Row]

\* A scenario that counts as verified or accepted carries a reviewer, and the
\* reviewer is not its author, however requests interleave (Transition's
\* check of the loaded row against the later conditional write).
ReviewedByAnother ==
    \A s \in Scenarios :
        scenario[s].state \in {"verified", "accepted"} =>
            scenario[s].reviewedBy \in Actors \ {scenario[s].createdBy}

\* What is being reviewed cannot change under the reviewers: content changes
\* only while the row is and stays a draft or in rework, and creation alone
\* sets the author.  An Update that loaded a draft may race its submission.
FrozenUnderReview ==
    [][\A s \in Scenarios : scenario[s] # NoRow =>
          /\ scenario'[s].content # scenario[s].content =>
                Editable(scenario[s]) /\ Editable(scenario'[s])
          /\ scenario'[s].createdBy = scenario[s].createdBy]_vars

Commits(r) == pc[r] = "checked" /\ pc'[r] = "written"

\* A decision or an edit lands only on the very row its client was looking
\* at: no lost update, and no approval of content the reviewer never saw,
\* even when the state has gone round the rework loop and come back.
DecidesWhatWasSeen ==
    [][\A r \in Requests : Commits(r) /\ call[r].op # "create" =>
          scenario[call[r].id] = seen[r]]_vars

\* A 409 from the conditional write is never spurious: somebody else really
\* committed to the row after the client loaded it.
ConflictIsReal ==
    [][\A r \in Requests : pc[r] = "checked" /\ pc'[r] = "conflict" =>
          scenario[call[r].id].version > seen[r].version]_vars

\* The audit trail tells the row's true history although its snapshots are
\* built from the service's own copy: the record of the current version is
\* the row itself, and records of adjacent versions join up.
AuditTrailConsistent ==
    \A a \in audits :
        /\ a.after.version <= scenario[a.id].version
        /\ a.after.version = scenario[a.id].version => a.after = scenario[a.id]
        /\ \A b \in audits : a.id = b.id =>
              /\ a.after.version = b.before.version => a.after = b.before
              /\ a.after.version = b.after.version => a = b

-----------------------------------------------------------------------------
(* Why these hold: the inductive invariant of ScenarioWorkflowProofs. *)

\* What a request knows while it runs.
RequestOK(r) ==
    /\ pc[r] \notin {"checked", "written"} => read[r] = NoRow
    /\ pc[r] \in Running =>
          /\ call[r].op # "none" /\ call[r].actor \in Actors
          /\ RouteAllows(call[r].actor, call[r].op)
          /\ call[r].op = "create" => call[r].patch \in Contents /\ seen[r] = NoRow
          /\ call[r].op = "update" => call[r].patch \in Patches
          /\ call[r].op # "create" => seen[r] \in LiveRow
    /\ pc[r] = "checked" /\ call[r].op = "create" => read[r] = NoRow
    /\ pc[r] \in {"checked", "written"} /\ call[r].op # "create" =>
          /\ Acceptable(call[r], read[r])
          /\ read[r] \in LiveRow
          /\ seen[r].version <= read[r].version
          /\ pc[r] = "written" => seen[r].version = read[r].version
    /\ pc[r] = "written" /\ call[r].op = "create" => read[r] \in LiveRow

RequestsOK == \A r \in Requests : RequestOK(r)

\* The row as a request that has written it will record it.
Local(r) == Changed(call[r], read[r], seen[r].version)

On(s) == {r \in Requests : pc[r] \in Running /\ call[r].id = s}

WrittenOn(s) == {r \in On(s) : pc[r] = "written"}

AuditsOf(s) == {a \in audits : a.id = s}

\* Every copy of a row that a client, a request or the audit log holds.
Copies(s) ==
    {NoRow, scenario[s]}
    \cup {seen[r] : r \in On(s)}
    \cup {read[r] : r \in On(s)}
    \cup {Local(r) : r \in WrittenOn(s)}
    \cup {a.before : a \in AuditsOf(s)}
    \cup {a.after : a \in AuditsOf(s)}

\* The version number identifies the row: no copy is newer than the table,
\* and two copies with one version are equal.  This is what makes comparing
\* versions in the WHERE clause as good as comparing whole rows.
VersionIdentifiesRow ==
    \A s \in Scenarios : \A x \in Copies(s) :
        /\ x.version <= scenario[s].version
        /\ x # NoRow => x.createdBy = scenario[s].createdBy
        /\ \A y \in Copies(s) : x.version = y.version => x = y

\* One write, one record: a version is recorded once, and not before its
\* writer gets to it.
OneRecordPerVersion ==
    \A s \in Scenarios :
        /\ \A a, b \in AuditsOf(s) : a.after.version = b.after.version => a = b
        /\ \A a \in AuditsOf(s), r \in WrittenOn(s) :
              a.after.version # Local(r).version
        /\ \A q, r \in WrittenOn(s) : Local(q).version = Local(r).version => q = r

IInv ==
    /\ TypeOK
    /\ RequestsOK
    /\ VersionIdentifiesRow
    /\ OneRecordPerVersion
    /\ ReviewedByAnother

\* What the requirements promise of every write: once no request is working
\* on a scenario, the write that produced its current version is on record.
EveryWriteAudited ==
    \A s \in Scenarios :
        \/ scenario[s] = NoRow
        \/ \E r \in Requests : pc[r] = "written" /\ call[r].id = s
        \/ \E a \in audits : a.id = s /\ a.after.version = scenario[s].version

\* Seen from outside, the interleaved requests are atomic operations on the
\* current row: the workflow implements the review protocol.
Protocol == INSTANCE ReviewProtocol

ImplementsProtocol == Protocol!Spec
=============================================================================
