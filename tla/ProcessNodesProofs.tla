------------------------- MODULE ProcessNodesProofs -------------------------
(***************************************************************************)
(* Proofs about ProcessNodes for any set of nodes, codes, users and        *)
(* concurrent requests.                                                    *)
(***************************************************************************)
EXTENDS ProcessNodes, TLAPS

-----------------------------------------------------------------------------
(* Rows and statements *)

LEMMA NodeFacts ==
    /\ NoNode \notin LiveNode /\ NoCall \in Call
    /\ \A x \in LiveNode :
          x.code \in Codes /\ x.status \in Statuses /\ x.data \in Data
    /\ \A code \in Codes, data \in Data :
          NewNode(code, data) \in LiveNode /\ NewNode(code, data).code = code
  BY DEF NoNode, LiveNode, NoCall, Call, NewNode, Statuses

\* A form laid over a row is a row again, with the same code, and it is active
\* only if the form says so or the row was.
LEMMA OverlayFacts ==
    ASSUME NEW row \in LiveNode, NEW c \in Call
    PROVE  /\ Overlay(row, c) \in LiveNode
           /\ Active(Overlay(row, c)) =>
                 c.status = "active" \/ row.status = "active"
  <1> DEFINE status == IF c.status = None THEN row.status ELSE c.status
             data == IF c.data = None THEN row.data ELSE c.data
             x == [row EXCEPT !.status = status]
             y == [x EXCEPT !.data = data]
  <1>1. status \in Statuses /\ data \in Data
    BY NodeFacts DEF Call
  <1>2. status = "active" => c.status = "active" \/ row.status = "active"
    OBVIOUS
  <1>3. Overlay(row, c) = y
    BY DEF Overlay
  <1> HIDE DEF status, data
  <1>4. x \in LiveNode /\ x.status = status
    BY <1>1 DEF LiveNode
  <1> HIDE DEF x
  <1>5. y \in LiveNode /\ y.status = status
    BY <1>1, <1>4 DEF LiveNode
  <1> QED
    BY <1>2, <1>3, <1>5 DEF Active

\* The row an update leaves behind.
LEMMA UpdatedNode ==
    ASSUME NEW row \in LiveNode, NEW struct \in LiveNode
    PROVE  LET y == [row EXCEPT !.status = struct.status, !.data = struct.data] IN
              y \in LiveNode /\ y.code = row.code /\ y.status = struct.status
  <1> DEFINE x == [row EXCEPT !.status = struct.status]
             y == [x EXCEPT !.data = struct.data]
  <1>1. x \in LiveNode /\ x.code = row.code /\ x.status = struct.status
    BY NodeFacts DEF LiveNode
  <1> HIDE DEF x
  <1>2. y \in LiveNode /\ y.code = x.code /\ y.status = x.status
    BY <1>1, NodeFacts DEF LiveNode
  <1> QED
    BY <1>1, <1>2 DEF x

\* A row is put into the table: under a free id and a free code, or over a row
\* with the same code.
Replaced(n, row) ==
    /\ row \in LiveNode
    /\ Live(n) => row.code = node[n].code
    /\ ~Live(n) => row.code \notin CodesInUse
    /\ Put(n, row)

LEMMA InsertFacts ==
    ASSUME IInv, NEW r \in Requests, Insert(r), pc'[r] # "conflict"
    PROVE  /\ \E n \in Nodes : Replaced(n, NewNode(call[r].code, call[r].data))
           /\ pc' = [pc EXCEPT ![r] = "written"]
           /\ UNCHANGED <<scenarios, call, copy>>
  <1>1. pc[r] = "checked" /\ call[r].op = "create"
        /\ call[r].code \in Codes /\ call[r].data \in Data
    BY DEF Insert, IInv, RequestsOK, RequestOK
  <1>2. pc \in [Requests -> Running \cup {"idle"}]
    BY DEF IInv, TypeOK
  <1>3. /\ call[r].code \notin CodesInUse
        /\ \E n \in Nodes : ~Live(n) /\ Put(n, NewNode(call[r].code, call[r].data))
        /\ pc' = [pc EXCEPT ![r] = "written"]
        /\ UNCHANGED <<scenarios, call, copy>>
    BY <1>2 DEF Insert, IndexRejects, Goto
  <1> QED
    BY <1>1, <1>3, NodeFacts DEF Replaced

LEMMA UpdateFacts ==
    ASSUME IInv, NEW r \in Requests, Update(r)
    PROVE  LET n == call[r].id
               row == [node[n] EXCEPT !.status = copy[r].status,
                                      !.data = copy[r].data] IN
              /\ n \in Nodes /\ Live(n) /\ Replaced(n, row)
              /\ row.status = copy[r].status
              /\ pc' = [pc EXCEPT ![r] = "written"]
              /\ UNCHANGED <<scenarios, call, copy>>
  <1> DEFINE n == call[r].id
             row == [node[n] EXCEPT !.status = copy[r].status,
                                    !.data = copy[r].data]
  <1>1. /\ n \in Nodes /\ Live(n) /\ copy[r] \in LiveNode
        /\ Put(n, row) /\ pc' = [pc EXCEPT ![r] = "written"]
        /\ UNCHANGED <<scenarios, call, copy>>
    BY DEF Update, IInv, RequestsOK, RequestOK, Goto
  <1>2. node[n] \in LiveNode
    BY <1>1 DEF IInv, TypeOK, Live
  <1>3. row \in LiveNode /\ row.code = node[n].code /\ row.status = copy[r].status
    BY <1>1, <1>2, UpdatedNode
  <1> HIDE DEF row
  <1>4. Replaced(n, row)
    BY <1>1, <1>3 DEF Replaced
  <1> QED
    BY <1>1, <1>3, <1>4 DEF row

LEMMA DeactivateFacts ==
    ASSUME IInv, NEW r \in Requests, Deactivate(r)
    PROVE  LET n == call[r].id
               row == [node[n] EXCEPT !.status = "inactive"] IN
              /\ n \in Nodes /\ Live(n) /\ node[n].status \in seen[r]
              /\ UNCHANGED <<scenarios, call, copy>>
              /\ \/ /\ Replaced(n, row) /\ row.status = "inactive"
                    /\ pc' = [pc EXCEPT ![r] = "written"]
                 \/ /\ node[n].status = "inactive"
                    /\ pc' = [pc EXCEPT ![r] = "conflict"]
                    /\ UNCHANGED <<node, seen>>
  <1> DEFINE n == call[r].id
             row == [node[n] EXCEPT !.status = "inactive"]
  <1>1. /\ n \in Nodes /\ Live(n) /\ node[n].status \in seen[r]
        /\ UNCHANGED <<scenarios, call, copy>>
    BY DEF Deactivate, IInv, RequestsOK, RequestOK
  <1>2. node[n] \in LiveNode
    BY <1>1 DEF IInv, TypeOK, Live
  <1>3. row \in LiveNode /\ row.code = node[n].code /\ row.status = "inactive"
    BY <1>2 DEF LiveNode, Statuses
  <1>4. \/ Put(n, row) /\ pc' = [pc EXCEPT ![r] = "written"]
        \/ /\ node[n].status # "active" /\ pc' = [pc EXCEPT ![r] = "conflict"]
           /\ UNCHANGED <<node, seen>>
    BY DEF Deactivate, DeactivateMatches, Goto
  <1>5. node[n].status # "active" => node[n].status = "inactive"
    BY <1>2, NodeFacts DEF Statuses
  <1> HIDE DEF row
  <1>6. Put(n, row) => Replaced(n, row)
    BY <1>1, <1>3 DEF Replaced
  <1> QED
    BY <1>1, <1>3, <1>4, <1>5, <1>6 DEF row

-----------------------------------------------------------------------------
(* Steps *)

\* A step changes nobody else's place, call or copy.
LEMMA OthersUnchanged ==
    ASSUME TypeOK, NEW r \in Requests, Step(r), NEW q \in Requests \ {r}
    PROVE  pc'[q] = pc[q] /\ call'[q] = call[q] /\ copy'[q] = copy[q]
  BY DEF TypeOK, Step, SubmitCreate, SubmitUpdate, SubmitDeactivate,
     SubmitScenario, Submit, GetByCode, Insert, LoadForUpdate, Update,
     LoadForDeactivate, Deactivate, CheckNode, InsertScenario, Answer, Abort,
     End, Goto

\* Whoever submits, the call and what it has seen are well formed.
LEMMA SubmitFacts ==
    ASSUME IInv, NEW r \in Requests,
           SubmitCreate(r) \/ SubmitUpdate(r) \/ SubmitDeactivate(r) \/ SubmitScenario(r)
    PROVE  \E c \in Call :
              /\ Submit(r, c) /\ c.op # "none"
              /\ c.op = "create" => c.code \in Codes /\ c.data \in Data /\ c.id = None
              /\ c.op # "create" => c.id \in Nodes
  <1>1. CASE SubmitCreate(r)
    BY <1>1 DEF SubmitCreate, Call
  <1>2. CASE SubmitUpdate(r)
    BY <1>2 DEF SubmitUpdate, Call
  <1>3. CASE SubmitDeactivate(r)
    BY <1>3 DEF SubmitDeactivate, Call
  <1>4. CASE SubmitScenario(r)
    BY <1>4 DEF SubmitScenario, Call
  <1> QED
    BY <1>1, <1>2, <1>3, <1>4

\* What a step does to the table: nothing, and then nobody else sees anything
\* new, or it puts one row there.
LEMMA TableStep ==
    ASSUME IInv, NEW r \in Requests, Step(r)
    PROVE  \/ node' = node /\ \A q \in Requests \ {r} : seen'[q] = seen[q]
           \/ \E n \in Nodes, row \in LiveNode :
                 Replaced(n, row) /\ pc'[r] = "written" /\ pc[r] = "checked"
  <1> USE DEF IInv, TypeOK
  <1>1. CASE Insert(r) /\ pc'[r] # "conflict"
    <2>1. pc'[r] = "written"
      BY <1>1, InsertFacts
    <2> QED
      BY <1>1, <2>1, InsertFacts DEF Replaced, Insert
  <1>2. CASE Update(r)
    <2> DEFINE n == call[r].id
               row == [node[n] EXCEPT !.status = copy[r].status, !.data = copy[r].data]
    <2>1. n \in Nodes /\ Replaced(n, row) /\ pc' = [pc EXCEPT ![r] = "written"]
      BY <1>2, UpdateFacts
    <2> HIDE DEF row, n
    <2> QED
      BY <1>2, <2>1 DEF Replaced, Update
  <1>3. CASE Deactivate(r)
    <2> DEFINE n == call[r].id
               row == [node[n] EXCEPT !.status = "inactive"]
    <2>1. /\ n \in Nodes
          /\ \/ Replaced(n, row) /\ pc' = [pc EXCEPT ![r] = "written"]
             \/ UNCHANGED <<node, seen>>
      BY <1>3, DeactivateFacts
    <2> HIDE DEF row, n
    <2> QED
      BY <1>3, <2>1 DEF Replaced, Deactivate
  <1>4. CASE Insert(r) /\ pc'[r] = "conflict"
    BY <1>4 DEF Insert, Goto
  <1>5. CASE \/ SubmitCreate(r) \/ SubmitUpdate(r) \/ SubmitDeactivate(r)
             \/ SubmitScenario(r)
    <2>1. PICK c \in Call : Submit(r, c)
      BY <1>5, SubmitFacts
    <2> QED
      BY <2>1 DEF Submit
  <1>6. CASE \/ GetByCode(r) \/ LoadForUpdate(r) \/ LoadForDeactivate(r)
             \/ CheckNode(r) \/ InsertScenario(r)
    BY <1>6 DEF GetByCode, LoadForUpdate, LoadForDeactivate, CheckNode, InsertScenario
  <1>7. CASE Answer(r) \/ Abort(r)
    BY <1>7 DEF Answer, Abort, End
  <1> QED
    BY <1>1, <1>2, <1>3, <1>4, <1>5, <1>6, <1>7 DEF Step

\* What a new row leaves as it was: nothing disappears, no code gets free, a
\* request has seen what it saw, and the current status of its node.
LEMMA PutFacts ==
    ASSUME TypeOK, NEW n \in Nodes, NEW row \in LiveNode, Replaced(n, row)
    PROVE  /\ node' \in [Nodes -> LiveNode \cup {NoNode}]
           /\ seen' \in [Requests -> SUBSET Statuses]
           /\ node' = [node EXCEPT ![n] = row]
           /\ \A m \in Nodes : Live(m) => Live(m)' /\ node'[m].code = node[m].code
           /\ \A q \in Requests : seen[q] \subseteq seen'[q]
           /\ \A q \in Requests : call[q].id = n => row.status \in seen'[q]
  <1>1. /\ node' = [node EXCEPT ![n] = row]
        /\ \A q \in Requests : seen'[q] =
              IF call[q].id = n THEN seen[q] \cup {row.status} ELSE seen[q]
        /\ seen' \in [Requests -> SUBSET Statuses]
    BY NodeFacts DEF Replaced, Put, TypeOK
  <1>2. \A m \in Nodes : Live(m) => Live(m)' /\ node'[m].code = node[m].code
    BY <1>1, NodeFacts DEF Replaced, Live, TypeOK
  <1> QED
    BY <1>1, <1>2 DEF TypeOK

\* Codes in use stay in use.
LEMMA CodesStay ==
    ASSUME TypeOK,
           \A m \in Nodes : Live(m) => Live(m)' /\ node'[m].code = node[m].code
    PROVE  CodesInUse \subseteq CodesInUse'
  <1> SUFFICES ASSUME NEW m \in Nodes, Live(m) PROVE node[m].code \in CodesInUse'
    BY DEF CodesInUse
  <1>1. Live(m)' /\ node'[m].code = node[m].code
    OBVIOUS
  <1> QED
    BY <1>1 DEF CodesInUse

\* Every step but the ones that write the table, by what it does to a request.
LEMMA QuietStep ==
    ASSUME IInv, NEW r \in Requests, Step(r),
           ~(Insert(r) /\ pc'[r] # "conflict"), ~Update(r), ~Deactivate(r)
    PROVE  /\ node' = node
           /\ \/ /\ \E c \in Call : Submit(r, c) /\ c.op # "none"
                        /\ (c.op = "create" =>
                              c.code \in Codes /\ c.data \in Data /\ c.id = None)
                        /\ (c.op # "create" => c.id \in Nodes)
              \/ /\ call' = call /\ seen' = seen /\ copy' = copy
                 /\ scenarios' = scenarios
                 /\ \/ /\ call[r].op = "create" /\ pc[r] = "received"
                       /\ \/ pc' = [pc EXCEPT ![r] = "checked"]
                          \/ /\ pc' = [pc EXCEPT ![r] = "conflict"]
                             /\ call[r].code \in CodesInUse
                    \/ /\ call[r].op = "create" /\ pc[r] = "checked"
                       /\ pc' = [pc EXCEPT ![r] = "conflict"]
                       /\ call[r].code \in CodesInUse
                    \/ /\ call[r].op = "deactivate" /\ pc[r] = "received"
                       /\ pc' = [pc EXCEPT ![r] = "conflict"]
                       /\ node[call[r].id].status = "inactive"
                    \/ /\ call[r].op = "add_scenario" /\ pc[r] = "received"
                       /\ \/ /\ pc' = [pc EXCEPT ![r] = "checked"]
                             /\ node[call[r].id].status = "active"
                          \/ /\ pc' = [pc EXCEPT ![r] = "conflict"]
                             /\ node[call[r].id].status # "active"
              \/ /\ call[r].op \in {"update", "deactivate"} /\ pc[r] = "received"
                 /\ pc' = [pc EXCEPT ![r] = "checked"]
                 /\ call' = call /\ seen' = seen /\ scenarios' = scenarios
                 /\ copy' = [copy EXCEPT ![r] =
                       IF call[r].op = "update" THEN Overlay(node[call[r].id], call[r])
                       ELSE node[call[r].id]]
              \/ InsertScenario(r)
              \/ End(r)
  <1>0. TypeOK /\ pc \in [Requests -> Running \cup {"idle"}]
    BY DEF IInv, TypeOK
  <1>1. CASE \/ SubmitCreate(r) \/ SubmitUpdate(r) \/ SubmitDeactivate(r)
             \/ SubmitScenario(r)
    <2>1. PICK c \in Call :
              /\ Submit(r, c) /\ c.op # "none"
              /\ c.op = "create" => c.code \in Codes /\ c.data \in Data /\ c.id = None
              /\ c.op # "create" => c.id \in Nodes
      BY <1>1, SubmitFacts
    <2> QED
      BY <2>1 DEF Submit
  <1>2. CASE GetByCode(r)
    BY <1>2 DEF GetByCode, Goto
  <1>3. CASE Insert(r) /\ pc'[r] = "conflict"
    BY <1>0, <1>3 DEF Insert, Goto, IndexRejects
  <1>4. CASE LoadForUpdate(r)
    BY <1>4 DEF LoadForUpdate, Goto
  <1>5. CASE LoadForDeactivate(r)
    BY <1>5 DEF LoadForDeactivate, Goto
  <1>6. CASE CheckNode(r)
    BY <1>6 DEF CheckNode, Goto, TakesScenarios, Active
  <1>7. CASE InsertScenario(r)
    BY <1>7 DEF InsertScenario
  <1>8. CASE Answer(r) \/ Abort(r)
    BY <1>8 DEF Answer, Abort, End
  <1> QED
    BY <1>1, <1>2, <1>3, <1>4, <1>5, <1>6, <1>7, <1>8 DEF Step

-----------------------------------------------------------------------------
(* The invariant is inductive *)

LEMMA TypeStep ==
    ASSUME IInv, NEW r \in Requests, Step(r)
    PROVE  TypeOK'
  <1>0. TypeOK /\ RequestOK(r)
    BY DEF IInv, RequestsOK
  <1>1. CASE Insert(r) /\ pc'[r] # "conflict"
    <2>1. PICK n \in Nodes, row \in LiveNode : Replaced(n, row)
      BY <1>1, InsertFacts DEF Replaced
    <2> QED
      BY <1>0, <1>1, <2>1, InsertFacts, PutFacts DEF TypeOK, Running
  <1>2. CASE Update(r)
    <2> DEFINE n == call[r].id
               row == [node[n] EXCEPT !.status = copy[r].status, !.data = copy[r].data]
    <2>1. /\ n \in Nodes /\ Replaced(n, row) /\ row \in LiveNode
          /\ pc' = [pc EXCEPT ![r] = "written"] /\ UNCHANGED <<scenarios, call, copy>>
      BY <1>2, UpdateFacts DEF Replaced
    <2> HIDE DEF row, n
    <2> QED
      BY <1>0, <2>1, PutFacts DEF TypeOK, Running
  <1>3. CASE Deactivate(r)
    <2> DEFINE n == call[r].id
               row == [node[n] EXCEPT !.status = "inactive"]
    <2>1. /\ n \in Nodes /\ UNCHANGED <<scenarios, call, copy>>
          /\ \/ Replaced(n, row) /\ pc' = [pc EXCEPT ![r] = "written"]
             \/ pc' = [pc EXCEPT ![r] = "conflict"] /\ UNCHANGED <<node, seen>>
      BY <1>3, DeactivateFacts
    <2> HIDE DEF row, n
    <2>2. CASE Replaced(n, row) /\ pc' = [pc EXCEPT ![r] = "written"]
      BY <1>0, <2>1, <2>2, PutFacts DEF TypeOK, Running, Replaced
    <2>3. CASE pc' = [pc EXCEPT ![r] = "conflict"] /\ UNCHANGED <<node, seen>>
      BY <1>0, <2>1, <2>3 DEF TypeOK, Running
    <2> QED
      BY <2>1, <2>2, <2>3
  <1>4. CASE ~(Insert(r) /\ pc'[r] # "conflict") /\ ~Update(r) /\ ~Deactivate(r)
    <2>1. CASE \E c \in Call : Submit(r, c) /\ c.op # "none"
                        /\ (c.op # "create" => c.id \in Nodes)
                        /\ (c.op = "create" => c.id = None)
      <3>1. PICK c \in Call : Submit(r, c) /\ c.op # "none"
                        /\ (c.op # "create" => c.id \in Nodes)
                        /\ (c.op = "create" => c.id = None)
        BY <2>1
      <3>2. (IF c.id = None THEN {} ELSE {node[c.id].status}) \in SUBSET Statuses
        <4>1. c.id # None => c.id \in Nodes /\ Live(c.id)
          BY <3>1 DEF Submit
        <4> QED
          BY <1>0, <4>1, NodeFacts DEF TypeOK, Live
      <3> QED
        BY <1>0, <3>1, <3>2 DEF TypeOK, Submit, Goto, Running
    <2>2. CASE InsertScenario(r)
      <3>1. call[r].id \in Nodes
        BY <1>0, <2>2 DEF RequestOK, InsertScenario
      <3>2. /\ scenarios[call[r].id] \in 0 .. MaxScenarios
            /\ scenarios[call[r].id] < MaxScenarios
        BY <1>0, <2>2, <3>1 DEF InsertScenario, TypeOK
      <3>3. scenarios[call[r].id] + 1 \in 0 .. MaxScenarios
        BY <3>2, NodesAssumption
      <3> QED
        BY <1>0, <2>2, <3>1, <3>3 DEF TypeOK, InsertScenario, Goto, Running
    <2>3. CASE End(r)
      BY <1>0, <2>3, NodeFacts DEF TypeOK, End, Goto
    <2>4. CASE /\ call[r].op \in {"update", "deactivate"} /\ pc[r] = "received"
               /\ pc' = [pc EXCEPT ![r] = "checked"]
               /\ call' = call /\ seen' = seen /\ scenarios' = scenarios /\ node' = node
               /\ copy' = [copy EXCEPT ![r] =
                     IF call[r].op = "update" THEN Overlay(node[call[r].id], call[r])
                     ELSE node[call[r].id]]
      <3>1. call[r] \in Call /\ node[call[r].id] \in LiveNode
        BY <1>0, <2>4 DEF TypeOK, RequestOK, Live
      <3>2. (IF call[r].op = "update" THEN Overlay(node[call[r].id], call[r])
             ELSE node[call[r].id]) \in LiveNode
        BY <3>1, OverlayFacts
      <3> QED
        BY <1>0, <2>4, <3>2 DEF TypeOK, Running
    <2>5. CASE /\ UNCHANGED <<node, call, seen, copy, scenarios>>
               /\ \E label \in {"checked", "conflict"} : pc' = [pc EXCEPT ![r] = label]
      BY <1>0, <2>5 DEF TypeOK, Running
    <2> QED
      BY <1>4, <2>1, <2>2, <2>3, <2>4, <2>5, QuietStep
  <1> QED
    BY <1>1, <1>2, <1>3, <1>4

\* What a request knows survives a new row in the table.
LEMMA KnowledgeSurvives ==
    ASSUME TypeOK, NEW n \in Nodes, NEW row \in LiveNode, Replaced(n, row),
           NEW q \in Requests, RequestOK(q),
           pc'[q] = pc[q] /\ call'[q] = call[q] /\ copy'[q] = copy[q]
    PROVE  RequestOK(q)'
  <1>1. /\ node' = [node EXCEPT ![n] = row]
        /\ \A m \in Nodes : Live(m) => Live(m)'
        /\ seen[q] \subseteq seen'[q]
        /\ call[q].id = n => row.status \in seen'[q]
    BY PutFacts
  <1>2. call[q].op \in {"update", "deactivate", "add_scenario"} =>
           /\ call[q].id \in Nodes /\ Live(call[q].id)'
           /\ node'[call[q].id].status \in seen'[q]
    BY <1>1 DEF RequestOK, TypeOK
  <1> QED
    BY <1>1, <1>2 DEF RequestOK

LEMMA RequestsStep ==
    ASSUME IInv, NEW r \in Requests, Step(r)
    PROVE  RequestsOK'
  <1>0. TypeOK /\ RequestOK(r) /\ pc \in [Requests -> Running \cup {"idle"}]
        /\ call \in [Requests -> Call] /\ copy \in [Requests -> LiveNode \cup {NoNode}]
    BY DEF IInv, RequestsOK, TypeOK
  <1>1. ASSUME NEW q \in Requests \ {r} PROVE RequestOK(q)'
    <2>1. RequestOK(q) /\ pc'[q] = pc[q] /\ call'[q] = call[q] /\ copy'[q] = copy[q]
      BY <1>0, OthersUnchanged DEF IInv, RequestsOK
    <2>2. CASE node' = node /\ seen'[q] = seen[q]
      BY <2>1, <2>2 DEF RequestOK, Live
    <2>3. CASE \E n \in Nodes, row \in LiveNode : Replaced(n, row)
      BY <1>0, <2>1, <2>3, KnowledgeSurvives
    <2> QED
      BY <2>2, <2>3, TableStep
  <1>2. RequestOK(r)'
    <2>1. CASE Insert(r) /\ pc'[r] # "conflict"
      <3>1. /\ call' = call /\ pc'[r] = "written"
            /\ call[r].op = "create"
        BY <1>0, <2>1, InsertFacts DEF Insert
      <3> QED
        BY <1>0, <3>1 DEF RequestOK
    <2>2. CASE Update(r)
      <3> DEFINE n == call[r].id
                 row == [node[n] EXCEPT !.status = copy[r].status, !.data = copy[r].data]
      <3>1. /\ n \in Nodes /\ Replaced(n, row) /\ row \in LiveNode
            /\ pc'[r] = "written" /\ call' = call
        BY <1>0, <2>2, UpdateFacts DEF Replaced
      <3> HIDE DEF row
      <3>2. Live(n)' /\ node'[n] = row /\ row.status \in seen'[r]
        BY <1>0, <3>1, PutFacts, NodeFacts DEF Live, TypeOK
      <3> QED
        BY <1>0, <2>2, <3>1, <3>2 DEF RequestOK, Update
    <2>3. CASE Deactivate(r)
      <3> DEFINE n == call[r].id
                 row == [node[n] EXCEPT !.status = "inactive"]
      <3>1. /\ n \in Nodes /\ Live(n) /\ call' = call /\ call[r].op = "deactivate"
            /\ node[n].status \in seen[r]
            /\ \/ Replaced(n, row) /\ pc'[r] = "written"
               \/ pc'[r] = "conflict" /\ UNCHANGED <<node, seen>>
        BY <1>0, <2>3, DeactivateFacts DEF Deactivate
      <3> HIDE DEF row
      <3>2. CASE Replaced(n, row) /\ pc'[r] = "written"
        <4>1. row \in LiveNode
          BY <3>2 DEF Replaced
        <4>2. Live(n)' /\ node'[n] = row /\ row.status \in seen'[r]
          BY <1>0, <3>1, <3>2, <4>1, PutFacts, NodeFacts DEF Live, TypeOK
        <4> QED
          BY <3>1, <3>2, <4>2 DEF RequestOK
      <3>3. CASE pc'[r] = "conflict" /\ UNCHANGED <<node, seen>>
        BY <3>1, <3>3 DEF RequestOK, Live
      <3> QED
        BY <3>1, <3>2, <3>3
    <2>4. CASE ~(Insert(r) /\ pc'[r] # "conflict") /\ ~Update(r) /\ ~Deactivate(r)
      <3>0. node' = node
        BY <2>4, QuietStep
      <3>1. CASE \E c \in Call : Submit(r, c) /\ c.op # "none"
                        /\ (c.op = "create" =>
                              c.code \in Codes /\ c.data \in Data /\ c.id = None)
                        /\ (c.op # "create" => c.id \in Nodes)
        <4>1. PICK c \in Call : Submit(r, c) /\ c.op # "none"
                        /\ (c.op = "create" =>
                              c.code \in Codes /\ c.data \in Data /\ c.id = None)
                        /\ (c.op # "create" => c.id \in Nodes)
          BY <3>1
        <4>2. call'[r] = c /\ pc'[r] = "received"
              /\ (c.op # "create" => Live(c.id) /\ seen'[r] = {node[c.id].status})
          BY <1>0, <4>1, NodesAssumption DEF Submit, Goto, TypeOK
        <4> QED
          BY <3>0, <4>1, <4>2 DEF RequestOK, Live
      <3>2. CASE InsertScenario(r)
        BY <1>0, <3>2 DEF RequestOK, InsertScenario, Goto, Live
      <3>3. CASE End(r)
        <4>1. pc'[r] = "idle" /\ call'[r] = NoCall
          BY <1>0, <3>3 DEF End, Goto
        <4> QED
          BY <4>1 DEF RequestOK, NoCall
      <3>4. CASE /\ call[r].op \in {"update", "deactivate"} /\ pc[r] = "received"
                 /\ pc' = [pc EXCEPT ![r] = "checked"]
                 /\ call' = call /\ seen' = seen
                 /\ copy' = [copy EXCEPT ![r] =
                       IF call[r].op = "update" THEN Overlay(node[call[r].id], call[r])
                       ELSE node[call[r].id]]
        <4>1. call[r].op = "update" =>
                 /\ Overlay(node[call[r].id], call[r]) \in LiveNode
                 /\ Active(Overlay(node[call[r].id], call[r])) =>
                       call[r].status = "active" \/ "active" \in seen[r]
          <5> SUFFICES ASSUME call[r].op = "update"
                       PROVE  /\ Overlay(node[call[r].id], call[r]) \in LiveNode
                              /\ Active(Overlay(node[call[r].id], call[r])) =>
                                    call[r].status = "active" \/ "active" \in seen[r]
            OBVIOUS
          <5>1. node[call[r].id] \in LiveNode /\ node[call[r].id].status \in seen[r]
            BY <1>0 DEF TypeOK, RequestOK, Live
          <5> QED
            BY <1>0, <5>1, OverlayFacts
        <4> QED
          BY <1>0, <3>0, <3>4, <4>1 DEF RequestOK, Live
      <3>5. CASE /\ UNCHANGED <<call, seen, copy>>
                 /\ \/ pc' = [pc EXCEPT ![r] = "conflict"]
                    \/ pc' = [pc EXCEPT ![r] = "checked"] /\ call[r].op = "create"
                    \/ /\ pc' = [pc EXCEPT ![r] = "checked"]
                       /\ call[r].op = "add_scenario"
                       /\ node[call[r].id].status = "active"
                 /\ call[r].op # "none"
        BY <1>0, <3>0, <3>5 DEF RequestOK, Live
      <3> QED
        BY <2>4, <3>1, <3>2, <3>3, <3>4, <3>5, QuietStep
    <2> QED
      BY <2>1, <2>2, <2>3, <2>4
  <1> QED
    BY <1>1, <1>2 DEF RequestsOK

\* A row keeps its code, and a new row has a code nobody had.
LEMMA CodesStep ==
    ASSUME IInv, NEW r \in Requests, Step(r)
    PROVE  CodesUnique'
  <1>0. TypeOK /\ CodesUnique
    BY DEF IInv
  <1>1. CASE node' = node
    BY <1>0, <1>1 DEF CodesUnique, Live
  <1>2. CASE \E n \in Nodes, row \in LiveNode : Replaced(n, row)
    <2>1. PICK n \in Nodes, row \in LiveNode : Replaced(n, row)
      BY <1>2
    <2>2. node' = [node EXCEPT ![n] = row]
      BY <1>0, <2>1, PutFacts
    <2>3. CASE Live(n)
      BY <1>0, <2>1, <2>2, <2>3 DEF CodesUnique, Live, Replaced, TypeOK
    <2>4. CASE ~Live(n)
      <3>1. \A m \in Nodes : Live(m) => node[m].code # row.code
        BY <2>1, <2>4 DEF Replaced, CodesInUse
      <3> QED
        BY <1>0, <2>2, <2>4, <3>1 DEF CodesUnique, Live, TypeOK
    <2> QED
      BY <2>3, <2>4
  <1> QED
    BY <1>1, <1>2, TableStep

\* What a request has seen and which codes are in use only grows.
LEMMA Growing ==
    ASSUME IInv, NEW r \in Requests, Step(r)
    PROVE  /\ CodesInUse \subseteq CodesInUse'
           /\ \A q \in Requests \ {r} : seen[q] \subseteq seen'[q]
  <1>0. TypeOK
    BY DEF IInv
  <1>1. CASE node' = node /\ \A q \in Requests \ {r} : seen'[q] = seen[q]
    BY <1>1 DEF CodesInUse, Live
  <1>2. CASE \E n \in Nodes, row \in LiveNode : Replaced(n, row)
    BY <1>0, <1>2, PutFacts, CodesStay
  <1> QED
    BY <1>1, <1>2, TableStep

\* What is true of an answer given stays true.
LEMMA AnswersStep ==
    ASSUME IInv, NEW r \in Requests, Step(r)
    PROVE  AnswersAreTrue' /\ LateScenariosRefused'
  <1> DEFINE Answered(q) ==
        /\ pc[q] = "conflict" /\ call[q].op = "create" => call[q].code \in CodesInUse
        /\ pc[q] = "conflict" /\ call[q].op = "add_scenario" => "inactive" \in seen[q]
        /\ pc[q] \in {"conflict", "written"} /\ call[q].op = "deactivate" =>
             "inactive" \in seen[q]
        /\ pc[q] = "written" /\ call[q].op = "add_scenario" => "active" \in seen[q]
  <1>0. TypeOK /\ RequestOK(r) /\ pc \in [Requests -> Running \cup {"idle"}]
        /\ call \in [Requests -> Call]
    BY DEF IInv, RequestsOK, TypeOK
  <1>1. \A q \in Requests : Answered(q)
    BY DEF IInv, AnswersAreTrue, LateScenariosRefused
  <1>2. ASSUME NEW q \in Requests \ {r} PROVE Answered(q)'
    <2>1. Answered(q)
      BY <1>1
    <2>2. CodesInUse \subseteq CodesInUse' /\ seen[q] \subseteq seen'[q]
      BY Growing
    <2>3. pc'[q] = pc[q] /\ call'[q] = call[q]
      BY <1>0, OthersUnchanged
    <2> QED
      BY <2>1, <2>2, <2>3
  <1>3. Answered(r)'
    <2>0. Answered(r) /\ CodesInUse \subseteq CodesInUse'
      BY <1>1, Growing
    <2>1. CASE Insert(r) /\ pc'[r] # "conflict"
      <3>1. call' = call /\ pc'[r] = "written" /\ call[r].op = "create"
        BY <1>0, <2>1, InsertFacts DEF Insert
      <3> QED
        BY <3>1
    <2>2. CASE Update(r)
      <3>1. call' = call /\ call[r].op = "update"
        BY <2>2 DEF Update
      <3> QED
        BY <3>1
    <2>3. CASE Deactivate(r)
      <3> DEFINE n == call[r].id
                 row == [node[n] EXCEPT !.status = "inactive"]
      <3>1. /\ n \in Nodes /\ call' = call /\ call[r].op = "deactivate"
            /\ node[n].status \in seen[r] /\ row.status = "inactive"
            /\ \/ Replaced(n, row)
               \/ node[n].status = "inactive" /\ seen' = seen
        <4>1. /\ n \in Nodes /\ call' = call /\ call[r].op = "deactivate"
              /\ node[n].status \in seen[r]
              /\ \/ Replaced(n, row) /\ row.status = "inactive"
                 \/ node[n].status = "inactive" /\ UNCHANGED <<node, seen>>
          BY <1>0, <2>3, DeactivateFacts DEF Deactivate
        <4>2. node[n] \in LiveNode
          BY <1>0, <2>3, <4>1 DEF RequestOK, TypeOK, Live
        <4>3. row.status = "inactive"
          BY <4>2 DEF LiveNode
        <4> QED
          BY <4>1, <4>3
      <3> HIDE DEF row
      <3>2. "inactive" \in seen'[r]
        <4>1. CASE Replaced(n, row)
          <5>1. row \in LiveNode
            BY <4>1 DEF Replaced
          <5> QED
            BY <1>0, <3>1, <4>1, <5>1, PutFacts
        <4>2. CASE node[n].status = "inactive" /\ seen' = seen
          BY <3>1, <4>2
        <4> QED
          BY <3>1, <4>1, <4>2
      <3> QED
        BY <3>1, <3>2
    <2>4. CASE ~(Insert(r) /\ pc'[r] # "conflict") /\ ~Update(r) /\ ~Deactivate(r)
      <3>1. CASE \E c \in Call : Submit(r, c)
        <4>1. pc'[r] = "received"
          BY <1>0, <3>1 DEF Submit, Goto
        <4> QED
          BY <4>1
      <3>2. CASE InsertScenario(r)
        <4>1. /\ call' = call /\ seen' = seen /\ pc'[r] = "written"
              /\ call[r].op = "add_scenario" /\ pc[r] = "checked"
          BY <1>0, <3>2 DEF InsertScenario, Goto
        <4> QED
          BY <1>0, <4>1 DEF RequestOK
      <3>3. CASE End(r)
        <4>1. pc'[r] = "idle"
          BY <1>0, <3>3 DEF End, Goto
        <4> QED
          BY <4>1
      <3>4. CASE pc' = [pc EXCEPT ![r] = "checked"]
        <4>1. pc'[r] = "checked"
          BY <1>0, <3>4
        <4> QED
          BY <4>1
      <3>5. CASE /\ call' = call /\ seen' = seen
                 /\ pc' = [pc EXCEPT ![r] = "conflict"]
                 /\ \/ call[r].op = "create" /\ call[r].code \in CodesInUse
                    \/ /\ call[r].op = "deactivate" /\ pc[r] = "received"
                       /\ node[call[r].id].status = "inactive"
                    \/ /\ call[r].op = "add_scenario" /\ pc[r] = "received"
                       /\ node[call[r].id].status # "active"
        <4>1. CASE call[r].op = "create" /\ call[r].code \in CodesInUse
          BY <2>0, <3>5, <4>1
        <4>2. CASE call[r].op \in {"deactivate", "add_scenario"}
          <5>1. node[call[r].id] \in LiveNode /\ node[call[r].id].status \in seen[r]
            BY <1>0, <4>2 DEF RequestOK, TypeOK, Live
          <5>2. "inactive" \in seen'[r]
            BY <3>5, <4>2, <5>1, NodeFacts DEF Statuses
          <5> QED
            BY <1>0, <3>5, <4>2, <5>2
        <4> QED
          BY <3>5, <4>1, <4>2
      <3> QED
        BY <2>4, <3>1, <3>2, <3>3, <3>4, <3>5, QuietStep
    <2> QED
      BY <2>1, <2>2, <2>3, <2>4
  <1>4. \A q \in Requests : Answered(q)'
    BY <1>2, <1>3
  <1> QED
    BY <1>4 DEF AnswersAreTrue, LateScenariosRefused

LEMMA InvInit == Init => IInv
  <1> SUFFICES ASSUME Init PROVE IInv
    OBVIOUS
  <1>1. TypeOK
    BY NodeFacts, NodesAssumption DEF Init, TypeOK
  <1>2. RequestsOK
    BY DEF Init, RequestsOK, RequestOK, NoCall
  <1>3. CodesUnique /\ AnswersAreTrue /\ LateScenariosRefused
    BY DEF Init, CodesUnique, AnswersAreTrue, LateScenariosRefused, Live
  <1> QED
    BY <1>1, <1>2, <1>3 DEF IInv

LEMMA InvStutter == IInv /\ UNCHANGED vars => IInv'
  BY DEF vars, IInv, TypeOK, RequestsOK, RequestOK, CodesUnique, AnswersAreTrue,
     LateScenariosRefused, Live, CodesInUse

\* The invariant holds of every behaviour.
THEOREM Invariance == Spec => []IInv
  <1>1. IInv /\ [Next]_vars => IInv'
    <2> SUFFICES ASSUME IInv, Next PROVE IInv'
      BY InvStutter
    <2>1. PICK r \in Requests : Step(r)
      BY DEF Next
    <2> QED
      BY <2>1, TypeStep, RequestsStep, CodesStep, AnswersStep DEF IInv
  <1> QED
    BY InvInit, <1>1, PTL DEF Spec

-----------------------------------------------------------------------------
(* What the invariant gives *)

\* Type correctness of the tables and the requests.
THEOREM TypeCorrect == Spec => []TypeOK
  BY Invariance, PTL DEF IInv

\* No two nodes have one code, however creations interleave.
THEOREM CodeUniqueness == Spec => []CodesUnique
  BY Invariance, PTL DEF IInv

\* A conflict that is answered was one, for every request.
THEOREM AnswerTruth == Spec => []AnswersAreTrue
  BY Invariance, PTL DEF IInv

\* A scenario is added by a request during which its node was active.
THEOREM LateScenarioRefusal == Spec => []LateScenariosRefused
  BY Invariance, PTL DEF IInv

\* A node is brought back only by an edit that began while it was active, or
\* that asks for it.
THEOREM DeactivationKept == Spec => LateEditsKeepDeactivation
  <1> DEFINE Kept ==
        \A n \in Nodes :
          node[n].status = "inactive" /\ node'[n].status = "active" =>
             \E r \in Requests :
                /\ pc[r] = "checked" /\ pc'[r] = "written"
                /\ call[r].op = "update" /\ call[r].id = n
                /\ call[r].status = "active" \/ "active" \in seen[r]
  <1>1. IInv /\ [Next]_vars => [Kept]_vars
    <2> SUFFICES ASSUME IInv, Next, NEW n \in Nodes,
                        node[n].status = "inactive", node'[n].status = "active"
                 PROVE  \E r \in Requests :
                           /\ pc[r] = "checked" /\ pc'[r] = "written"
                           /\ call[r].op = "update" /\ call[r].id = n
                           /\ call[r].status = "active" \/ "active" \in seen[r]
      BY DEF Kept
    <2>1. PICK r \in Requests : Step(r)
      BY DEF Next
    <2>2. TypeOK /\ RequestOK(r) /\ pc \in [Requests -> Running \cup {"idle"}]
      BY DEF IInv, RequestsOK, TypeOK
    <2>3. Live(n)
      BY DEF Live, NoNode
    <2>4. CASE Insert(r) /\ pc'[r] # "conflict"
      <3>1. PICK m \in Nodes : ~Live(m) /\ node' = [node EXCEPT ![m] =
                NewNode(call[r].code, call[r].data)]
        BY <2>4 DEF Insert, Put, Goto
      <3> QED
        BY <2>2, <2>3, <3>1 DEF TypeOK
    <2>5. CASE Update(r)
      <3> DEFINE m == call[r].id
                 row == [node[m] EXCEPT !.status = copy[r].status, !.data = copy[r].data]
      <3>1. /\ m \in Nodes /\ node' = [node EXCEPT ![m] = row]
            /\ row.status = copy[r].status /\ pc'[r] = "written"
        BY <2>2, <2>5, UpdateFacts DEF Replaced, Put
      <3> HIDE DEF row
      <3>2. m = n /\ Active(copy[r])
        BY <2>2, <3>1 DEF TypeOK, Active
      <3> QED
        BY <2>2, <2>5, <3>1, <3>2 DEF RequestOK, Update
    <2>6. CASE Deactivate(r)
      <3> DEFINE m == call[r].id
                 row == [node[m] EXCEPT !.status = "inactive"]
      <3>1. /\ m \in Nodes
            /\ \/ node' = [node EXCEPT ![m] = row] /\ row.status = "inactive"
               \/ node' = node
        BY <2>6, DeactivateFacts DEF Replaced, Put
      <3> HIDE DEF row
      <3> QED
        BY <2>2, <3>1 DEF TypeOK
    <2>7. CASE ~(Insert(r) /\ pc'[r] # "conflict") /\ ~Update(r) /\ ~Deactivate(r)
      BY <2>1, <2>7, QuietStep
    <2> QED
      BY <2>4, <2>5, <2>6, <2>7
  <1>2. Spec => [][Kept]_vars
    BY Invariance, <1>1, PTL DEF Spec
  <1> QED
    BY <1>2 DEF LateEditsKeepDeactivation
=============================================================================
