---------------------------- MODULE ProcessNodes ----------------------------
(***************************************************************************)
(* The process-node service - Create, Update, Deactivate - together with   *)
(* the one operation of another service that reads its table, the          *)
(* creation of a scenario on a node.  Each request is a sequence of        *)
(* autocommit statements that other requests come between and that can end *)
(* after any of them.                                                      *)
(*                                                                         *)
(* The columns an edit may change besides the status are one value, data.  *)
(***************************************************************************)
EXTENDS Naturals, HazopConstants

CONSTANTS
    Nodes,         \* ids the process_nodes table can hold
    Codes,         \* node codes, as normalised
    Data,          \* name, unit, medium, design values and owner of a node
    Actors,        \* authenticated users
    RoleOf,        \* the role in each user's token
    Requests,      \* slots for requests in flight
    MaxScenarios,  \* bound: scenarios a node takes
    None           \* NULL, or a column a form leaves out

ASSUME NodesAssumption ==
    /\ Nodes # {} /\ Codes # {} /\ Data # {}
    /\ RoleOf \in [Actors -> Roles]
    /\ MaxScenarios \in Nat
    /\ None \notin Nodes \cup Codes \cup Data

VARIABLES
    node,          \* table process_nodes
    scenarios,     \* table deviation_scenarios: how many on each node
    pc,            \* how far each request has come
    call,          \* what each request asks for
    copy,          \* the service's local struct
    seen           \* history: the statuses a request's node had meanwhile

vars == <<node, scenarios, pc, call, copy, seen>>

-----------------------------------------------------------------------------
(* Rows and requests *)

Statuses == {"active", "inactive"}

LiveNode == [code : Codes, status : Statuses, data : Data]

NoNode == [code |-> None, status |-> "absent", data |-> None]

Active(row) == row.status = "active"

\* Mutant: the check of the node only finds out that it exists.
Exists(row) == row.status # "absent"

\* What the creation of a scenario asks of the node.
TakesScenarios(row) == Active(row)

\* Mutant: a new node has no status.
NewNodeWithoutStatus(code, data) == [code |-> code, status |-> None, data |-> data]

NewNode(code, data) == [code |-> code, status |-> "active", data |-> data]

Call == [op     : {"none", "create", "update", "deactivate", "add_scenario"},
         id     : Nodes \cup {None},
         code   : Codes \cup {None},
         status : Statuses \cup {None},
         data   : Data \cup {None}]

NoCall == [op |-> "none", id |-> None, code |-> None, status |-> None, data |-> None]

Permission(op) == IF op = "add_scenario" THEN "scenario:write" ELSE "node:write"

\* "conflict": a 409 is the answer.  "written": the row is committed.
Running == {"received", "checked", "written", "conflict"}

Live(n) == node[n] # NoNode

CodesInUse == {node[n].code : n \in {m \in Nodes : Live(m)}}

Init ==
    /\ node = [n \in Nodes |-> NoNode]
    /\ scenarios = [n \in Nodes |-> 0]
    /\ pc = [r \in Requests |-> "idle"]
    /\ call = [r \in Requests |-> NoCall]
    /\ copy = [r \in Requests |-> NoNode]
    /\ seen = [r \in Requests |-> {}]

Goto(r, label) == pc' = [pc EXCEPT ![r] = label]

\* A statement puts row into the table; whoever works on that node goes on
\* with a row that may no longer be what it read.
Put(n, row) ==
    /\ node' = [node EXCEPT ![n] = row]
    /\ seen' = [r \in Requests |->
                  IF call[r].id = n THEN seen[r] \cup {row.status} ELSE seen[r]]

End(r) ==
    /\ Goto(r, "idle")
    /\ call' = [call EXCEPT ![r] = NoCall]
    /\ copy' = [copy EXCEPT ![r] = NoNode]
    /\ seen' = [seen EXCEPT ![r] = {}]
    /\ UNCHANGED <<node, scenarios>>

-----------------------------------------------------------------------------
(* Submitting requests *)

Submit(r, c) ==
    /\ pc[r] = "idle"
    /\ \E a \in Actors : HasPermission(RoleOf[a], Permission(c.op))
    /\ c.id # None => Live(c.id)
    /\ call' = [call EXCEPT ![r] = c]
    /\ seen' = [seen EXCEPT ![r] = IF c.id = None THEN {} ELSE {node[c.id].status}]
    /\ Goto(r, "received")
    /\ UNCHANGED <<node, scenarios, copy>>

SubmitCreate(r) ==
    \E c \in Codes, d \in Data :
       Submit(r, [op |-> "create", id |-> None, code |-> c, status |-> None, data |-> d])

SubmitUpdate(r) ==
    \E n \in Nodes, status \in Statuses \cup {None}, d \in Data \cup {None} :
       Submit(r, [op |-> "update", id |-> n, code |-> None, status |-> status, data |-> d])

SubmitDeactivate(r) ==
    \E n \in Nodes :
       Submit(r, [op |-> "deactivate", id |-> n, code |-> None, status |-> None,
                  data |-> None])

SubmitScenario(r) ==
    \E n \in Nodes :
       /\ scenarios[n] < MaxScenarios
       /\ Submit(r, [op |-> "add_scenario", id |-> n, code |-> None, status |-> None,
                     data |-> None])

-----------------------------------------------------------------------------
(* Create *)

\* Mutant: the table has no unique index on node_code.
NoIndex(code) == FALSE

\* The unique index on node_code.
IndexRejects(code) == code \in CodesInUse

GetByCode(r) ==
    /\ pc[r] = "received" /\ call[r].op = "create"
    /\ Goto(r, IF call[r].code \in CodesInUse THEN "conflict" ELSE "checked")
    /\ UNCHANGED <<node, scenarios, call, copy, seen>>

Insert(r) ==
    LET c == call[r]
    IN /\ pc[r] = "checked" /\ c.op = "create"
       /\ \/ /\ IndexRejects(c.code)
             /\ Goto(r, "conflict")
             /\ UNCHANGED <<node, seen>>
          \/ /\ ~IndexRejects(c.code)
             /\ \E n \in Nodes : ~Live(n) /\ Put(n, NewNode(c.code, c.data))
             /\ Goto(r, "written")
       /\ UNCHANGED <<scenarios, call, copy>>

-----------------------------------------------------------------------------
(* Update *)

\* Mutant: a status the form leaves out is taken for active.
OverlayActive(row, c) ==
    [row EXCEPT !.status = IF c.status = None THEN "active" ELSE c.status,
                !.data   = IF c.data = None THEN @ ELSE c.data]

Overlay(row, c) ==
    [row EXCEPT !.status = IF c.status = None THEN @ ELSE c.status,
                !.data   = IF c.data = None THEN @ ELSE c.data]

LoadForUpdate(r) ==
    /\ pc[r] = "received" /\ call[r].op = "update"
    /\ copy' = [copy EXCEPT ![r] = Overlay(node[call[r].id], call[r])]
    /\ Goto(r, "checked")
    /\ UNCHANGED <<node, scenarios, call, seen>>

\* Every editable column is written, under no condition but the id.
Update(r) ==
    LET n == call[r].id
    IN /\ pc[r] = "checked" /\ call[r].op = "update"
       /\ Put(n, [node[n] EXCEPT !.status = copy[r].status, !.data = copy[r].data])
       /\ Goto(r, "written")
       /\ UNCHANGED <<scenarios, call, copy>>

-----------------------------------------------------------------------------
(* Deactivate *)

LoadForDeactivate(r) ==
    LET row == node[call[r].id]
    IN /\ pc[r] = "received" /\ call[r].op = "deactivate"
       /\ \/ /\ row.status = "inactive"
             /\ Goto(r, "conflict")
             /\ UNCHANGED copy
          \/ /\ row.status # "inactive"
             /\ copy' = [copy EXCEPT ![r] = row]
             /\ Goto(r, "checked")
       /\ UNCHANGED <<node, scenarios, call, seen>>

\* Mutant: only the row the request loaded is deactivated.
DeactivateMatchesCopy(row, struct) == row = struct

\* The WHERE clause.
DeactivateMatches(row, struct) == row.status = "active"

Deactivate(r) ==
    LET n == call[r].id
    IN /\ pc[r] = "checked" /\ call[r].op = "deactivate"
       /\ \/ /\ DeactivateMatches(node[n], copy[r])
             /\ Put(n, [node[n] EXCEPT !.status = "inactive"])
             /\ Goto(r, "written")
          \/ /\ ~DeactivateMatches(node[n], copy[r])
             /\ Goto(r, "conflict")
             /\ UNCHANGED <<node, seen>>
       /\ UNCHANGED <<scenarios, call, copy>>

-----------------------------------------------------------------------------
(* The scenario service's Create *)

CheckNode(r) ==
    /\ pc[r] = "received" /\ call[r].op = "add_scenario"
    /\ Goto(r, IF TakesScenarios(node[call[r].id]) THEN "checked" ELSE "conflict")
    /\ UNCHANGED <<node, scenarios, call, copy, seen>>

InsertScenario(r) ==
    /\ pc[r] = "checked" /\ call[r].op = "add_scenario"
    /\ scenarios[call[r].id] < MaxScenarios
    /\ scenarios' = [scenarios EXCEPT ![call[r].id] = @ + 1]
    /\ Goto(r, "written")
    /\ UNCHANGED <<node, call, copy, seen>>

-----------------------------------------------------------------------------
\* Audit record, summary and answer, none of which is read back here; the
\* 409 is answered.
Answer(r) == pc[r] \in {"written", "conflict"} /\ End(r)

\* Context cancelled, database error or server crash between two statements.
Abort(r) == pc[r] \in Running /\ End(r)

Step(r) ==
    \/ SubmitCreate(r) \/ SubmitUpdate(r) \/ SubmitDeactivate(r) \/ SubmitScenario(r)
    \/ GetByCode(r) \/ Insert(r)
    \/ LoadForUpdate(r) \/ Update(r)
    \/ LoadForDeactivate(r) \/ Deactivate(r)
    \/ CheckNode(r) \/ InsertScenario(r)
    \/ Answer(r) \/ Abort(r)

Next == \E r \in Requests : Step(r)

Spec == Init /\ [][Next]_vars

-----------------------------------------------------------------------------
(* Properties *)

\* Every row and request is well formed.
TypeOK ==
    /\ node \in [Nodes -> LiveNode \cup {NoNode}]
    /\ scenarios \in [Nodes -> 0 .. MaxScenarios]
    /\ pc \in [Requests -> Running \cup {"idle"}]
    /\ call \in [Requests -> Call]
    /\ copy \in [Requests -> LiveNode \cup {NoNode}]
    /\ seen \in [Requests -> SUBSET Statuses]

\* Two creations that both found a code free do not both get it.
CodesUnique ==
    \A m, n \in Nodes :
        Live(m) /\ Live(n) /\ node[m].code = node[n].code => m = n

\* A 409 is never the mere trace of another request: a creation is refused for
\* a code in use, a scenario for a node that was inactive, and a deactivation
\* that fails - or succeeds - saw the node inactive while it ran, so that an
\* edit it raced with does not cost its effect.
AnswersAreTrue ==
    \A r \in Requests :
        /\ pc[r] = "conflict" /\ call[r].op = "create" => call[r].code \in CodesInUse
        /\ pc[r] = "conflict" /\ call[r].op = "add_scenario" => "inactive" \in seen[r]
        /\ pc[r] \in {"conflict", "written"} /\ call[r].op = "deactivate" =>
             "inactive" \in seen[r]

\* The node is read before the scenario is inserted and may be deactivated in
\* between; but a scenario is only ever added by a request during which the
\* node was active, never by one that began after the deactivation.
LateScenariosRefused ==
    \A r \in Requests :
        pc[r] = "written" /\ call[r].op = "add_scenario" => "active" \in seen[r]

\* Update writes the status it loaded, so that a stale edit brings a node
\* back.  That is as far as it goes: the edit had begun while the node was
\* active, or it asks for the reactivation.
LateEditsKeepDeactivation ==
    [][\A n \in Nodes :
          node[n].status = "inactive" /\ node'[n].status = "active" =>
             \E r \in Requests :
                /\ pc[r] = "checked" /\ pc'[r] = "written"
                /\ call[r].op = "update" /\ call[r].id = n
                /\ call[r].status = "active" \/ "active" \in seen[r]]_vars
-----------------------------------------------------------------------------
(* The inductive invariant *)

\* What a request knows while it runs.  The row it works on exists, and the
\* status the row has now is among those it saw; what it concluded from the
\* row it read is still true of one of them.
RequestOK(r) ==
    LET c == call[r]
    IN /\ pc[r] = "idle" <=> c.op = "none"
       /\ c.op \in {"none", "create"} => c.id = None
       /\ c.op = "create" => c.code \in Codes /\ c.data \in Data
       /\ c.op \in {"update", "deactivate", "add_scenario"} =>
             c.id \in Nodes /\ Live(c.id) /\ node[c.id].status \in seen[r]
       /\ pc[r] = "checked" /\ c.op = "add_scenario" => "active" \in seen[r]
       /\ pc[r] = "checked" /\ c.op = "update" =>
             /\ copy[r] \in LiveNode
             /\ Active(copy[r]) => c.status = "active" \/ "active" \in seen[r]

RequestsOK == \A r \in Requests : RequestOK(r)

IInv ==
    TypeOK /\ RequestsOK /\ CodesUnique /\ AnswersAreTrue /\ LateScenariosRefused
=============================================================================
