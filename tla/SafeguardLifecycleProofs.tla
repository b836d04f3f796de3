---------------------- MODULE SafeguardLifecycleProofs ----------------------
(***************************************************************************)
(* Proofs about SafeguardLifecycle for any set of layers, users, intervals *)
(* and concurrent requests.                                                *)
(***************************************************************************)
EXTENDS SafeguardLifecycle, TLAPS

-----------------------------------------------------------------------------
(* Rows *)

LEMMA LayerFacts ==
    /\ NoLayer \in Layer /\ NoLayer \notin LiveLayer /\ NoCall \in Call
    /\ NoLayer.state = "absent" /\ NoLayer.verifiedAt = None
    /\ Dates \subseteq Nat
    /\ \A x \in LiveLayer :
          /\ x.state \in LayerStates /\ x.interval \in Intervals
          /\ x.interval \in Nat
          /\ x.verifiedAt \in Nat \cup {None} /\ x.verifiedBy \in Actors \cup {None}
    /\ \A x \in Layer : x \in LiveLayer <=> x # NoLayer
    /\ \A x \in Layer : x.state \in LayerStates => x \in LiveLayer
  <1>1. NoLayer.state = "absent" /\ NoLayer.verifiedAt = None /\ NoLayer \in Layer
    BY DEF NoLayer, Layer
  <1>2. \A x \in LiveLayer :
          /\ x.state \in LayerStates /\ x.interval \in Intervals
          /\ x.verifiedAt \in Nat \cup {None} /\ x.verifiedBy \in Actors \cup {None}
    BY DEF LiveLayer
  <1>3. NoLayer \notin LiveLayer
    BY <1>1, <1>2 DEF LayerStates
  <1>4. Intervals \subseteq Nat
    BY SafeguardAssumption
  <1>5. NoCall \in Call
    BY DEF NoCall, Call
  <1>6. Dates \subseteq Nat
    BY DEF Dates
  <1>7. \A x \in Layer : x \in LiveLayer <=> x # NoLayer
    BY <1>3 DEF Layer
  <1>8. "absent" \notin LayerStates
    BY DEF LayerStates
  <1> QED
    BY <1>1, <1>2, <1>3, <1>4, <1>5, <1>6, <1>7, <1>8

\* What was not of the future does not become so, and a sound layer stays sound.
LEMMA TimeHelps ==
    ASSUME NEW t \in Nat, NEW u \in Nat, t <= u
    PROVE  /\ \A date \in Nat : ~InFuture(date, t) => ~InFuture(date, u)
           /\ \A x \in LiveLayer : Sound(x, t) => Sound(x, u)
  <1>1. \A date \in Nat : ~InFuture(date, t) => ~InFuture(date, u)
    BY SafeguardAssumption DEF InFuture
  <1> QED
    BY <1>1, LayerFacts DEF Sound

LEMMA NewLayerFacts ==
    ASSUME NEW interval \in Intervals, NEW date \in Nat \cup {None},
           NEW actor \in Actors, MayWrite(actor), NEW t \in Nat,
           date # None => ~InFuture(date, t)
    PROVE  LET x == NewLayer(interval, date, actor, t) IN
              x \in LiveLayer /\ Sound(x, t) /\ Registered(x)
  <1> DEFINE state == IF date = None THEN "pending"
                      ELSE IF Lapsed(date, interval, t) THEN "expired" ELSE "active"
             by == IF date = None THEN None ELSE actor
             x == [state |-> state, interval |-> interval, verifiedAt |-> date,
                   verifiedBy |-> by]
  <1>1. /\ state \in LayerStates /\ by \in Actors \cup {None}
        /\ date = None => state = "pending" /\ by = None
        /\ date # None => state \in {"active", "expired"} /\ by = actor
    BY DEF LayerStates
  <1>2. NewLayer(interval, date, actor, t) = x
    BY DEF NewLayer
  <1> HIDE DEF state, by
  <1>3. x \in LiveLayer /\ Sound(x, t) /\ Registered(x)
    BY <1>1 DEF LiveLayer, Sound, Registered
  <1> QED
    BY <1>2, <1>3

\* Neither an edit nor a change of the state touches the verification.
LEMMA EditedLayer ==
    ASSUME NEW x \in LiveLayer, NEW struct, struct.interval \in Intervals
    PROVE  LET y == UpdateColumns(x, struct) IN
              /\ y \in LiveLayer /\ y.state = x.state
              /\ y.verifiedAt = x.verifiedAt /\ y.verifiedBy = x.verifiedBy
              /\ y.interval = struct.interval
  BY DEF UpdateColumns, LiveLayer

LEMMA MovedLayer ==
    ASSUME NEW x \in LiveLayer, NEW state \in LayerStates
    PROVE  LET y == [x EXCEPT !.state = state] IN
              /\ y \in LiveLayer /\ y.state = state /\ y.interval = x.interval
              /\ y.verifiedAt = x.verifiedAt /\ y.verifiedBy = x.verifiedBy
  BY DEF LiveLayer

LEMMA OverlaidLayer ==
    ASSUME NEW x \in LiveLayer, NEW interval \in Intervals \cup {None}
    PROVE  LET y == Overlay(x, interval) IN
              /\ y \in LiveLayer /\ y.verifiedAt = x.verifiedAt
              /\ y.interval = IF interval = None THEN x.interval ELSE interval
  <1>1. (IF interval = None THEN x.interval ELSE interval) \in Intervals
    BY LayerFacts
  <1> QED
    BY <1>1 DEF Overlay, LiveLayer

LEMMA VerifiedLayer ==
    ASSUME NEW x \in LiveLayer, NEW c \in Call, c.date \in Nat,
           c.actor \in Actors, MayWrite(c.actor), NEW t \in Nat,
           ~InFuture(c.date, t)
    PROVE  Verified(x, c) \in LiveLayer /\ Sound(Verified(x, c), t)
  <1>1. c.date # None
    BY SafeguardAssumption
  <1> QED
    BY <1>1 DEF Verified, LiveLayer, Sound, LayerStates

-----------------------------------------------------------------------------
(* Steps that write the table *)

LEMMA InsertFacts ==
    ASSUME IInv, NEW r \in Requests, Insert(r)
    PROVE  /\ pc[r] = "checked" /\ call[r].op = "create"
           /\ copy[r] \in LiveLayer /\ Sound(copy[r], now) /\ Registered(copy[r])
           /\ \E s \in Safeguards :
                 /\ ~Live(s)
                 /\ safeguard' = [safeguard EXCEPT ![s] = copy[r]]
                 /\ call' = [call EXCEPT ![r].id = s]
           /\ pc' = [pc EXCEPT ![r] = "written"]
           /\ UNCHANGED <<now, copy, since>>
  BY DEF Insert, IInv, RequestsOK, RequestOK, Goto

LEMMA UpdateFacts ==
    ASSUME IInv, NEW r \in Requests, Update(r)
    PROVE  LET s == call[r].id
               row == UpdateColumns(safeguard[s], copy[r]) IN
              /\ pc[r] \in {"checked", "expiring"} /\ call[r].op = "update"
              /\ s \in Safeguards /\ Live(s) /\ safeguard[s] \in LiveLayer
              /\ copy[r].interval \in Intervals
              /\ safeguard' = [safeguard EXCEPT ![s] = row]
              /\ row \in LiveLayer /\ Sound(row, now)
              /\ row.state = safeguard[s].state
              /\ row.verifiedAt = safeguard[s].verifiedAt
              /\ row.verifiedBy = safeguard[s].verifiedBy
              /\ row.interval = copy[r].interval
              /\ pc' = [pc EXCEPT ![r] = IF pc[r] = "expiring" THEN "syncing"
                                         ELSE "written"]
              /\ Overtake(r) /\ UNCHANGED <<now, call, copy>>
  <1> DEFINE s == call[r].id
             row == UpdateColumns(safeguard[s], copy[r])
  <1>1. /\ pc[r] \in {"checked", "expiring"} /\ call[r].op = "update"
        /\ s \in Safeguards /\ Live(s) /\ copy[r].interval \in Intervals
        /\ safeguard' = [safeguard EXCEPT ![s] = row]
        /\ pc' = [pc EXCEPT ![r] = IF pc[r] = "expiring" THEN "syncing" ELSE "written"]
        /\ Overtake(r) /\ UNCHANGED <<now, call, copy>>
    BY DEF Update, IInv, RequestsOK, RequestOK, Goto
  <1>2. safeguard[s] \in LiveLayer /\ Sound(safeguard[s], now)
    BY <1>1, LayerFacts DEF IInv, TypeOK, VerificationSound, Live
  <1>3. /\ row \in LiveLayer /\ row.state = safeguard[s].state
        /\ row.verifiedAt = safeguard[s].verifiedAt
        /\ row.verifiedBy = safeguard[s].verifiedBy
        /\ row.interval = copy[r].interval
    BY <1>1, <1>2, EditedLayer
  <1> HIDE DEF row
  <1>4. Sound(row, now)
    BY <1>2, <1>3 DEF Sound
  <1> QED
    BY <1>1, <1>2, <1>3, <1>4 DEF row

\* The request moves its layer to state, or finds it in another one than it
\* starts from.
Moves(r, state) ==
    LET s == call[r].id
        row == [safeguard[s] EXCEPT !.state = state] IN
       /\ safeguard[s] \in LiveLayer
       /\ row \in LiveLayer /\ Sound(row, now)
       /\ row.state = state /\ row.interval = safeguard[s].interval
       /\ row.verifiedAt = safeguard[s].verifiedAt
       /\ row.verifiedBy = safeguard[s].verifiedBy
       /\ safeguard' = [safeguard EXCEPT ![s] = row]

LEMMA MoveFacts ==
    ASSUME IInv, NEW r \in Requests, call[r].id \in Safeguards,
           safeguard[call[r].id].state \in LayerStates,
           NEW state \in LayerStates,
           state \in {"active", "expired"} => safeguard[call[r].id].verifiedAt # None,
           safeguard' = [safeguard EXCEPT ![call[r].id] = [@ EXCEPT !.state = state]]
    PROVE  Moves(r, state)
  <1> DEFINE s == call[r].id
             row == [safeguard[s] EXCEPT !.state = state]
  <1>1. safeguard[s] \in LiveLayer /\ Sound(safeguard[s], now)
    BY LayerFacts DEF IInv, TypeOK, VerificationSound
  <1>2. /\ row \in LiveLayer /\ row.state = state
        /\ row.interval = safeguard[s].interval
        /\ row.verifiedAt = safeguard[s].verifiedAt
        /\ row.verifiedBy = safeguard[s].verifiedBy
    BY <1>1, MovedLayer
  <1>3. safeguard' = [safeguard EXCEPT ![s] = row]
    OBVIOUS
  <1> HIDE DEF row
  <1>4. Sound(row, now)
    BY <1>1, <1>2 DEF Sound
  <1> QED
    BY <1>1, <1>2, <1>3, <1>4 DEF Moves, row

LEMMA SyncFacts ==
    ASSUME IInv, NEW r \in Requests, SyncLifecycle(r)
    PROVE  /\ call[r].id \in Safeguards /\ call[r].op = "update"
           /\ \/ safeguard' = safeguard
              \/ safeguard[call[r].id].state = "active" /\ Moves(r, "expired")
           /\ pc[r] = "syncing" /\ pc' = [pc EXCEPT ![r] = "written"]
           /\ UNCHANGED <<now, call, copy, since>>
  <1> DEFINE s == call[r].id
  <1>1. /\ s \in Safeguards /\ call[r].op = "update" /\ pc[r] = "syncing"
        /\ pc' = [pc EXCEPT ![r] = "written"] /\ UNCHANGED <<now, call, copy, since>>
        /\ safeguard' = [safeguard EXCEPT ![s] =
              IF Matches(@, {"active"}) THEN [@ EXCEPT !.state = "expired"] ELSE @]
    BY DEF SyncLifecycle, IInv, RequestsOK, RequestOK, Goto
  <1>2. CASE safeguard[s].state = "active"
    <2>1. safeguard[s].verifiedAt # None
      BY <1>1, <1>2 DEF IInv, VerificationSound, Sound
    <2>2. safeguard' = [safeguard EXCEPT ![s] = [@ EXCEPT !.state = "expired"]]
      BY <1>1, <1>2 DEF Matches
    <2>3. Moves(r, "expired")
      BY <1>1, <1>2, <2>1, <2>2, MoveFacts DEF LayerStates
    <2> QED
      BY <1>1, <1>2, <2>3
  <1>3. CASE safeguard[s].state # "active"
    BY <1>1, <1>3 DEF Matches, IInv, TypeOK
  <1> QED
    BY <1>1, <1>2, <1>3

LEMMA VerifyFacts ==
    ASSUME IInv, NEW r \in Requests, Verify(r)
    PROVE  LET s == call[r].id
               row == Verified(safeguard[s], call[r]) IN
              /\ s \in Safeguards /\ Live(s) /\ safeguard[s] \in LiveLayer
              /\ call[r].op = "verify" /\ call[r].actor \in Actors
              /\ MayWrite(call[r].actor) /\ call[r].date \in Nat
              /\ ~InFuture(call[r].date, now)
              /\ row \in LiveLayer /\ Sound(row, now)
              /\ safeguard' = [safeguard EXCEPT ![s] = row]
              /\ pc[r] = "checked" /\ pc' = [pc EXCEPT ![r] = "written"]
              /\ Overtake(r) /\ UNCHANGED <<now, call, copy>>
  <1> DEFINE s == call[r].id
             row == Verified(safeguard[s], call[r])
  <1>1. /\ s \in Safeguards /\ Live(s) /\ call[r].op = "verify"
        /\ call[r].actor \in Actors /\ MayWrite(call[r].actor)
        /\ call[r].date \in Nat /\ ~InFuture(call[r].date, now)
        /\ pc[r] = "checked" /\ call[r] \in Call /\ now \in Nat
    BY DEF Verify, IInv, TypeOK, RequestsOK, RequestOK
  <1>2. safeguard[s] \in LiveLayer
    BY <1>1, LayerFacts DEF IInv, TypeOK, Live
  <1>3. row \in LiveLayer /\ Sound(row, now)
    BY <1>1, <1>2, VerifiedLayer
  <1>4. Matches(safeguard[s], LayerStates)
    BY <1>2, LayerFacts DEF Matches
  <1>5. /\ safeguard' = [safeguard EXCEPT ![s] = row]
        /\ pc' = [pc EXCEPT ![r] = "written"]
        /\ Overtake(r) /\ UNCHANGED <<now, call, copy>>
    BY <1>4 DEF Verify, Goto
  <1> QED
    BY <1>1, <1>2, <1>3, <1>5

LEMMA ChangeFacts ==
    ASSUME IInv, NEW r \in Requests, ChangeLifecycle(r)
    PROVE  LET s == call[r].id IN
              /\ s \in Safeguards /\ call[r].op \in {"invalidate", "restore"}
              /\ pc[r] = "checked" /\ now' = now
              /\ \/ End(r) /\ UNCHANGED safeguard
                 \/ /\ pc' = [pc EXCEPT ![r] = "written"]
                    /\ UNCHANGED <<call, copy, since>>
                    /\ safeguard[s].state \in From(call[r].op)
                    /\ \/ call[r].op = "invalidate" /\ Moves(r, "invalid")
                       \/ call[r].op = "restore" /\ Moves(r, "pending")
                       \/ /\ call[r].op = "restore" /\ Moves(r, "active")
                          /\ safeguard[s].verifiedAt # None
  <1> DEFINE s == call[r].id
  <1>1. /\ s \in Safeguards /\ call[r].op \in {"invalidate", "restore"}
        /\ pc[r] = "checked" /\ now' = now
        /\ call[r].op = "invalidate" => copy[r].state = "invalid"
        /\ call[r].op = "restore" =>
              /\ copy[r].state \in {"active", "pending"}
              /\ copy[r].state = "active" => safeguard[s].verifiedAt # None
    BY DEF ChangeLifecycle, IInv, RequestsOK, RequestOK
  <1>2. CASE ~Matches(safeguard[s], From(call[r].op))
    BY <1>1, <1>2 DEF ChangeLifecycle
  <1>3. CASE Matches(safeguard[s], From(call[r].op))
    <2>1. /\ safeguard[s].state \in From(call[r].op)
          /\ safeguard[s].state \in LayerStates
          /\ pc' = [pc EXCEPT ![r] = "written"] /\ UNCHANGED <<call, copy, since>>
          /\ safeguard' = [safeguard EXCEPT ![s] = [@ EXCEPT !.state = copy[r].state]]
      BY <1>3 DEF ChangeLifecycle, Matches, From, LayerStates, Goto
    <2>2. Moves(r, copy[r].state)
      BY <1>1, <2>1, MoveFacts DEF LayerStates
    <2> QED
      BY <1>1, <2>1, <2>2
  <1> QED
    BY <1>1, <1>2, <1>3

-----------------------------------------------------------------------------
(* Steps *)

\* A step changes nobody else's place, call or copy, and takes no time.
LEMMA OthersUnchanged ==
    ASSUME TypeOK, NEW r \in Requests, Step(r)
    PROVE  /\ now' = now
           /\ \A q \in Requests \ {r} :
                 pc'[q] = pc[q] /\ call'[q] = call[q] /\ copy'[q] = copy[q]
  BY DEF TypeOK, Step, SubmitCreate, SubmitUpdate, SubmitVerify, SubmitAction,
     Submit, Prepare, Insert, LoadForUpdate, Update, SyncLifecycle, LoadForVerify,
     Verify, LoadForAction, ChangeLifecycle, RecordAudit, Abort, Keep, End, Goto

LEMMA SubmitFacts ==
    ASSUME IInv, NEW r \in Requests,
           SubmitCreate(r) \/ SubmitUpdate(r) \/ SubmitVerify(r) \/ SubmitAction(r)
    PROVE  \E c \in Call :
              /\ Submit(r, c) /\ c.op # "none" /\ c.actor \in Actors
              /\ c.op = "create" => c.interval \in Intervals
              /\ c.op = "verify" => c.date \in Nat
              /\ c.op # "create" => c.id \in Safeguards /\ Live(c.id)
  <1>1. CASE SubmitCreate(r)
    BY <1>1, LayerFacts DEF SubmitCreate, Call
  <1>2. CASE SubmitUpdate(r)
    BY <1>2 DEF SubmitUpdate, Call
  <1>3. CASE SubmitVerify(r)
    BY <1>3, LayerFacts DEF SubmitVerify, Call
  <1>4. CASE SubmitAction(r)
    BY <1>4 DEF SubmitAction, Call
  <1> QED
    BY <1>1, <1>2, <1>3, <1>4

\* What an edit's load keeps: the interval the form asks for, or the row's, and
\* on its way to mark the layer expired, a verification that has lapsed.
EditLoaded(r, struct, label) ==
    LET c == call[r]
        row == safeguard[c.id]
    IN /\ struct.interval = IF c.interval = None THEN row.interval ELSE c.interval
       /\ label = "expiring" =>
             /\ struct.verifiedAt = row.verifiedAt /\ row.verifiedAt # None
             /\ Lapsed(row.verifiedAt, struct.interval, now)

\* What the steps do that only read the table: one struct is kept, or the
\* request ends.
LEMMA LoadStep ==
    ASSUME IInv, NEW r \in Requests,
           \/ Prepare(r) \/ LoadForUpdate(r) \/ LoadForVerify(r) \/ LoadForAction(r)
           \/ RecordAudit(r) \/ Abort(r)
    PROVE  /\ safeguard' = safeguard /\ now' = now
           /\ \/ End(r)
              \/ /\ pc[r] = "received" /\ UNCHANGED <<call, since>>
                 /\ \E struct \in LiveLayer, label \in {"checked", "expiring"} :
                       /\ copy' = [copy EXCEPT ![r] = struct]
                       /\ pc' = [pc EXCEPT ![r] = label]
                       /\ label = "expiring" => call[r].op = "update"
                       /\ \/ /\ call[r].op = "create"
                             /\ Sound(struct, now) /\ Registered(struct)
                          \/ call[r].op = "update" /\ EditLoaded(r, struct, label)
                          \/ call[r].op = "verify" /\ ~InFuture(call[r].date, now)
                          \/ call[r].op = "invalidate" /\ struct.state = "invalid"
                          \/ /\ call[r].op = "restore"
                             /\ struct.state \in {"active", "pending"}
                             /\ struct.state = "active" =>
                                   safeguard[call[r].id].verifiedAt # None
  <1>0. TypeOK /\ RequestOK(r) /\ call[r] \in Call /\ now \in Nat
    BY DEF IInv, TypeOK, RequestsOK
  <1>1. call[r].op \in {"update", "verify", "invalidate", "restore"} =>
           safeguard[call[r].id] \in LiveLayer
    BY <1>0, LayerFacts DEF RequestOK, TypeOK, Live
  <1>2. CASE Prepare(r)
    <2> DEFINE c == call[r]
               struct == NewLayer(c.interval, c.date, c.actor, now)
    <2>1. CASE Keep(r, struct, "checked") /\ (c.date # None => ~InFuture(c.date, now))
      <3>1. /\ c.interval \in Intervals /\ c.date \in Nat \cup {None}
            /\ c.actor \in Actors /\ MayWrite(c.actor) /\ c.op = "create"
            /\ pc[r] = "received"
        BY <1>0, <1>2 DEF Prepare, RequestOK, Call
      <3>2. struct \in LiveLayer /\ Sound(struct, now) /\ Registered(struct)
        BY <1>0, <2>1, <3>1, NewLayerFacts
      <3> HIDE DEF struct
      <3> QED
        BY <1>2, <2>1, <3>1, <3>2 DEF Prepare, Keep, Goto
    <2> QED
      BY <1>2, <2>1 DEF Prepare
  <1>3. CASE LoadForUpdate(r)
    <2> DEFINE row == safeguard[call[r].id]
               struct == Overlay(row, call[r].interval)
               marked == [struct EXCEPT !.state = "expired"]
    <2>1. pc[r] = "received" /\ call[r].op = "update" /\ safeguard' = safeguard
          /\ now' = now /\ call' = call /\ since' = since
          /\ \/ Keep(r, marked, "expiring") /\ FoundLapsed(struct)
             \/ Keep(r, struct, "checked")
      BY <1>3 DEF LoadForUpdate, Keep
    <2>2. /\ struct \in LiveLayer /\ struct.verifiedAt = row.verifiedAt
          /\ struct.interval = IF call[r].interval = None THEN row.interval
                               ELSE call[r].interval
      BY <1>0, <1>1, <2>1, OverlaidLayer DEF Call
    <2> HIDE DEF struct
    <2>3. /\ marked \in LiveLayer /\ marked.interval = struct.interval
          /\ marked.verifiedAt = struct.verifiedAt
      BY <2>2, MovedLayer DEF LayerStates
    <2> HIDE DEF marked
    <2>4. CASE Keep(r, marked, "expiring") /\ FoundLapsed(struct)
      <3>1. EditLoaded(r, marked, "expiring")
        BY <2>2, <2>3, <2>4 DEF EditLoaded, FoundLapsed
      <3> QED
        BY <2>1, <2>3, <2>4, <3>1 DEF Keep, Goto
    <2>5. CASE Keep(r, struct, "checked")
      <3>1. EditLoaded(r, struct, "checked")
        BY <2>2 DEF EditLoaded
      <3> QED
        BY <2>1, <2>2, <2>5, <3>1 DEF Keep, Goto
    <2> QED
      BY <2>1, <2>4, <2>5
  <1>4. CASE LoadForVerify(r)
    BY <1>1, <1>4 DEF LoadForVerify, Keep, Goto
  <1>5. CASE LoadForAction(r)
    <2> DEFINE layer == safeguard[call[r].id]
               state == IF call[r].op = "restore" THEN RestoredState(layer)
                        ELSE "invalid"
               struct == [layer EXCEPT !.state = state]
    <2>1. /\ pc[r] = "received" /\ call[r].op \in {"invalidate", "restore"}
          /\ Keep(r, struct, "checked") /\ safeguard' = safeguard /\ now' = now
      BY <1>5 DEF LoadForAction
    <2>2. /\ state \in LayerStates
          /\ call[r].op = "invalidate" => state = "invalid"
          /\ call[r].op = "restore" =>
                /\ state \in {"active", "pending"}
                /\ state = "active" => layer.verifiedAt # None
      BY DEF RestoredState, IsEffectiveAt, LayerStates
    <2> HIDE DEF state
    <2>3. struct \in LiveLayer /\ struct.state = state
      BY <1>1, <2>1, <2>2, MovedLayer
    <2> HIDE DEF struct
    <2> QED
      BY <2>1, <2>2, <2>3 DEF Keep, Goto
  <1>6. CASE RecordAudit(r) \/ Abort(r)
    BY <1>6 DEF RecordAudit, Abort
  <1> QED
    BY <1>2, <1>3, <1>4, <1>5, <1>6

\* What a step does to the table: nothing, or it writes one sound row, and no
\* verification is lost.
LEMMA TableStep ==
    ASSUME IInv, NEW r \in Requests, Step(r)
    PROVE  \/ safeguard' = safeguard
           \/ \E s \in Safeguards, row \in LiveLayer :
                 /\ Sound(row, now)
                 /\ safeguard[s].verifiedAt # None => row.verifiedAt # None
                 /\ safeguard' = [safeguard EXCEPT ![s] = row]
  <1>1. CASE SubmitCreate(r) \/ SubmitUpdate(r) \/ SubmitVerify(r) \/ SubmitAction(r)
    <2>1. PICK c \in Call : Submit(r, c)
      BY <1>1, SubmitFacts
    <2> QED
      BY <2>1 DEF Submit
  <1>2. CASE \/ Prepare(r) \/ LoadForUpdate(r) \/ LoadForVerify(r) \/ LoadForAction(r)
             \/ RecordAudit(r) \/ Abort(r)
    BY <1>2, LoadStep
  <1>3. CASE Insert(r)
    BY <1>3, InsertFacts, LayerFacts DEF Live
  <1>4. CASE Update(r)
    <2> DEFINE s == call[r].id
               row == UpdateColumns(safeguard[s], copy[r])
    <2>1. /\ s \in Safeguards /\ row \in LiveLayer /\ Sound(row, now)
          /\ row.verifiedAt = safeguard[s].verifiedAt
          /\ safeguard' = [safeguard EXCEPT ![s] = row]
      BY <1>4, UpdateFacts
    <2> HIDE DEF row, s
    <2> QED
      BY <2>1
  <1>5. ASSUME NEW state, Moves(r, state), call[r].id \in Safeguards
        PROVE  \E s \in Safeguards, row \in LiveLayer :
                 /\ Sound(row, now)
                 /\ safeguard[s].verifiedAt # None => row.verifiedAt # None
                 /\ safeguard' = [safeguard EXCEPT ![s] = row]
    <2> DEFINE s == call[r].id
               row == [safeguard[s] EXCEPT !.state = state]
    <2>1. /\ s \in Safeguards /\ row \in LiveLayer /\ Sound(row, now)
          /\ row.verifiedAt = safeguard[s].verifiedAt
          /\ safeguard' = [safeguard EXCEPT ![s] = row]
      BY <1>5 DEF Moves
    <2> HIDE DEF row, s
    <2> QED
      BY <2>1
  <1>6. CASE SyncLifecycle(r)
    BY <1>5, <1>6, SyncFacts
  <1>7. CASE Verify(r)
    <2> DEFINE s == call[r].id
               row == Verified(safeguard[s], call[r])
    <2>1. /\ s \in Safeguards /\ row \in LiveLayer /\ Sound(row, now)
          /\ row.verifiedAt # None
          /\ safeguard' = [safeguard EXCEPT ![s] = row]
      BY <1>7, VerifyFacts, SafeguardAssumption DEF Verified
    <2> HIDE DEF row, s
    <2> QED
      BY <2>1
  <1>8. CASE ChangeLifecycle(r)
    BY <1>5, <1>8, ChangeFacts
  <1> QED
    BY <1>1, <1>2, <1>3, <1>4, <1>6, <1>7, <1>8 DEF Step

\* No layer disappears and none loses its verification.
LEMMA LayersStay ==
    ASSUME IInv, NEW r \in Requests, Step(r)
    PROVE  \A s \in Safeguards :
              /\ Live(s) => Live(s)'
              /\ safeguard[s].verifiedAt # None => safeguard'[s].verifiedAt # None
  BY TableStep, LayerFacts DEF Live, IInv, TypeOK

-----------------------------------------------------------------------------
(* The invariant is inductive *)

\* What a step does to the request that takes it.
LEMMA StepCases ==
    ASSUME IInv, NEW r \in Requests, Step(r)
    PROVE  \/ SubmitCreate(r) \/ SubmitUpdate(r) \/ SubmitVerify(r) \/ SubmitAction(r)
           \/ /\ pc[r] = "received" /\ UNCHANGED <<call, since>>
              /\ \E struct \in LiveLayer, label \in {"checked", "expiring"} :
                    /\ copy' = [copy EXCEPT ![r] = struct]
                    /\ pc' = [pc EXCEPT ![r] = label]
                    /\ label = "expiring" => call[r].op = "update"
                    /\ \/ /\ call[r].op = "create"
                          /\ Sound(struct, now) /\ Registered(struct)
                       \/ call[r].op = "update" /\ EditLoaded(r, struct, label)
                       \/ call[r].op = "verify" /\ ~InFuture(call[r].date, now)
                       \/ call[r].op = "invalidate" /\ struct.state = "invalid"
                       \/ /\ call[r].op = "restore"
                          /\ struct.state \in {"active", "pending"}
                          /\ struct.state = "active" =>
                                safeguard[call[r].id].verifiedAt # None
           \/ Insert(r)
           \/ /\ Update(r) /\ pc[r] = "expiring" /\ call' = call /\ copy' = copy
              /\ pc' = [pc EXCEPT ![r] = "syncing"]
           \/ /\ call[r].op # "none" /\ call' = call /\ copy' = copy
              /\ pc' = [pc EXCEPT ![r] = "written"]
           \/ End(r)
  <1>1. CASE \/ Prepare(r) \/ LoadForUpdate(r) \/ LoadForVerify(r)
             \/ LoadForAction(r) \/ RecordAudit(r) \/ Abort(r)
    BY <1>1, LoadStep
  <1>2. CASE Update(r)
    BY <1>2, UpdateFacts
  <1>3. CASE SyncLifecycle(r)
    BY <1>3, SyncFacts
  <1>4. CASE Verify(r)
    BY <1>4, VerifyFacts
  <1>5. CASE ChangeLifecycle(r)
    BY <1>5, ChangeFacts
  <1> QED
    BY <1>1, <1>2, <1>3, <1>4, <1>5 DEF Step

\* What a step writes to the history: it keeps it, clears the request's own,
\* or enters an edit or a verification.
LEMMA HistoryStep ==
    ASSUME IInv, NEW r \in Requests, Step(r)
    PROVE  \/ since' = since
           \/ End(r)
           \/ Overtake(r) /\ call[r].op \in {"update", "verify"}
  <1>1. CASE SubmitCreate(r) \/ SubmitUpdate(r) \/ SubmitVerify(r) \/ SubmitAction(r)
    <2>1. PICK c \in Call : Submit(r, c)
      BY <1>1, SubmitFacts
    <2> QED
      BY <2>1 DEF Submit
  <1>2. CASE \/ Prepare(r) \/ LoadForUpdate(r) \/ LoadForVerify(r)
             \/ LoadForAction(r) \/ RecordAudit(r) \/ Abort(r)
    BY <1>2, LoadStep
  <1>3. CASE Insert(r)
    BY <1>3, InsertFacts
  <1>4. CASE Update(r)
    BY <1>4, UpdateFacts
  <1>5. CASE SyncLifecycle(r)
    BY <1>5, SyncFacts
  <1>6. CASE Verify(r)
    BY <1>6, VerifyFacts
  <1>7. CASE ChangeLifecycle(r)
    BY <1>7, ChangeFacts
  <1> QED
    BY <1>1, <1>2, <1>3, <1>4, <1>5, <1>6, <1>7 DEF Step

LEMMA TypeStep ==
    ASSUME IInv, NEW r \in Requests, Step(r)
    PROVE  TypeOK'
  <1> USE DEF Running
  <1>0. TypeOK
    BY DEF IInv
  <1>1. now' \in Nat /\ safeguard' \in [Safeguards -> Layer]
    BY <1>0, OthersUnchanged, TableStep DEF TypeOK, Layer
  <1>2. /\ pc' \in [Requests -> Running \cup {"idle"}]
        /\ call' \in [Requests -> Call] /\ copy' \in [Requests -> Layer]
    <2>1. CASE \/ SubmitCreate(r) \/ SubmitUpdate(r) \/ SubmitVerify(r)
               \/ SubmitAction(r)
      <3>1. PICK c \in Call : Submit(r, c)
        BY <2>1, SubmitFacts
      <3> QED
        BY <1>0, <3>1 DEF TypeOK, Submit, Goto
    <2>2. CASE /\ call' = call
               /\ \E struct \in LiveLayer, label \in {"checked", "expiring"} :
                     /\ copy' = [copy EXCEPT ![r] = struct]
                     /\ pc' = [pc EXCEPT ![r] = label]
      BY <1>0, <2>2 DEF TypeOK, Layer
    <2>3. CASE Insert(r)
      <3>1. PICK s \in Safeguards : call' = [call EXCEPT ![r].id = s]
        BY <2>3, InsertFacts
      <3>2. [call[r] EXCEPT !.id = s] \in Call
        BY <1>0 DEF TypeOK, Call
      <3>3. pc' = [pc EXCEPT ![r] = "written"] /\ copy' = copy
        BY <2>3, InsertFacts
      <3> QED
        BY <1>0, <3>1, <3>2, <3>3 DEF TypeOK
    <2>4. CASE /\ call' = call /\ copy' = copy
               /\ \E label \in {"syncing", "written"} : pc' = [pc EXCEPT ![r] = label]
      BY <1>0, <2>4 DEF TypeOK
    <2>5. CASE End(r)
      BY <1>0, <2>5, LayerFacts DEF TypeOK, End
    <2> QED
      BY <2>1, <2>2, <2>3, <2>4, <2>5, StepCases
  <1>3. since' \in [Requests -> SUBSET {"update", "verify"}]
    BY <1>0, HistoryStep DEF TypeOK, End, Overtake
  <1> QED
    BY <1>1, <1>2, <1>3 DEF TypeOK

\* Nobody writes the row of an edit under way without entering its history.
LEMMA NothingPassesUnseen ==
    ASSUME IInv, NEW r \in Requests, Step(r), NEW q \in Requests \ {r},
           NEW s \in Safeguards, Live(s), Editing(q, s)
    PROVE  /\ since[q] \subseteq since'[q]
           /\ \/ safeguard'[s].interval = safeguard[s].interval
              \/ "update" \in since'[q]
           /\ \/ safeguard'[s].verifiedAt = safeguard[s].verifiedAt
              \/ "verify" \in since'[q]
  <1>0. /\ safeguard \in [Safeguards -> Layer]
        /\ since \in [Requests -> SUBSET {"update", "verify"}]
    BY DEF IInv, TypeOK
  <1>1. since[q] \subseteq since'[q]
    BY <1>0, HistoryStep DEF End, Overtake
  <1>2. CASE safeguard' = safeguard
    BY <1>1, <1>2
  <1>3. CASE Insert(r)
    <2>1. safeguard'[s] = safeguard[s]
      BY <1>0, <1>3, InsertFacts
    <2> QED
      BY <1>1, <2>1
  <1>4. CASE Update(r)
    <2> DEFINE t == call[r].id
               row == UpdateColumns(safeguard[t], copy[r])
    <2>1. /\ t \in Safeguards /\ row.verifiedAt = safeguard[t].verifiedAt
          /\ safeguard' = [safeguard EXCEPT ![t] = row]
          /\ Overtake(r) /\ call[r].op = "update"
      BY <1>4, UpdateFacts
    <2>2. s = t => "update" \in since'[q]
      BY <2>1 DEF Overtake
    <2> HIDE DEF row, t
    <2>3. safeguard'[s].verifiedAt = safeguard[s].verifiedAt
      BY <1>0, <2>1
    <2>4. s # t => safeguard'[s] = safeguard[s]
      BY <1>0, <2>1
    <2> QED
      BY <1>1, <2>2, <2>3, <2>4
  <1>5. CASE Verify(r)
    <2> DEFINE t == call[r].id
               row == Verified(safeguard[t], call[r])
    <2>1. /\ t \in Safeguards /\ row.interval = safeguard[t].interval
          /\ safeguard' = [safeguard EXCEPT ![t] = row]
          /\ Overtake(r) /\ call[r].op = "verify"
      BY <1>5, VerifyFacts DEF Verified
    <2>2. s = t => "verify" \in since'[q]
      BY <2>1 DEF Overtake
    <2> HIDE DEF row, t
    <2>3. safeguard'[s].interval = safeguard[s].interval
      BY <1>0, <2>1
    <2>4. s # t => safeguard'[s] = safeguard[s]
      BY <1>0, <2>1
    <2> QED
      BY <1>1, <2>2, <2>3, <2>4
  <1>6. ASSUME NEW state, Moves(r, state), call[r].id \in Safeguards
        PROVE  /\ safeguard'[s].interval = safeguard[s].interval
               /\ safeguard'[s].verifiedAt = safeguard[s].verifiedAt
    <2> DEFINE t == call[r].id
               row == [safeguard[t] EXCEPT !.state = state]
    <2>1. /\ row.interval = safeguard[t].interval
          /\ row.verifiedAt = safeguard[t].verifiedAt
          /\ safeguard' = [safeguard EXCEPT ![t] = row] /\ t \in Safeguards
      BY <1>6 DEF Moves
    <2> HIDE DEF row, t
    <2> QED
      BY <1>0, <2>1
  <1>7. CASE SyncLifecycle(r)
    BY <1>1, <1>2, <1>6, <1>7, SyncFacts
  <1>8. CASE ChangeLifecycle(r)
    BY <1>1, <1>2, <1>6, <1>8, ChangeFacts
  <1>9. CASE SubmitCreate(r) \/ SubmitUpdate(r) \/ SubmitVerify(r) \/ SubmitAction(r)
    <2>1. PICK c \in Call : Submit(r, c)
      BY <1>9, SubmitFacts
    <2> QED
      BY <1>2, <2>1 DEF Submit
  <1>10. CASE \/ Prepare(r) \/ LoadForUpdate(r) \/ LoadForVerify(r)
              \/ LoadForAction(r) \/ RecordAudit(r) \/ Abort(r)
    BY <1>2, <1>10, LoadStep
  <1> QED
    BY <1>2, <1>3, <1>4, <1>5, <1>7, <1>8, <1>9, <1>10 DEF Step

\* What an edit that nobody overtook knows stays so.
LEMMA EditStep ==
    ASSUME IInv, NEW r \in Requests, Step(r), NEW q \in Requests
    PROVE  (call[q].op = "update" => EditOK(q))'
  <1>0. /\ TypeOK /\ now' = now
        /\ pc \in [Requests -> Running \cup {"idle"}]
        /\ call \in [Requests -> Call] /\ copy \in [Requests -> Layer]
        /\ safeguard \in [Safeguards -> Layer]
    BY OthersUnchanged DEF IInv, TypeOK
  <1>1. ASSUME pc'[q] \notin {"checked", "expiring", "syncing"}
        PROVE  (call[q].op = "update" => EditOK(q))'
    BY <1>1 DEF EditOK
  <1>2. CASE q # r
    <2> SUFFICES ASSUME call'[q].op = "update",
                        pc'[q] \in {"checked", "expiring", "syncing"}
                 PROVE  EditOK(q)'
      BY <1>1
    <2> DEFINE s == call[q].id
    <2>1. /\ pc'[q] = pc[q] /\ call'[q] = call[q] /\ copy'[q] = copy[q]
          /\ call[q].op = "update" /\ s \in Safeguards /\ Live(s) /\ EditOK(q)
      BY <1>0, <1>2, OthersUnchanged DEF IInv, RequestsOK, RequestOK
    <2>2. Editing(q, s)
      BY <2>1 DEF Editing
    <2>3. /\ since[q] \subseteq since'[q]
          /\ \/ safeguard'[s].interval = safeguard[s].interval
             \/ "update" \in since'[q]
          /\ \/ safeguard'[s].verifiedAt = safeguard[s].verifiedAt
             \/ "verify" \in since'[q]
      BY <1>2, <2>1, <2>2, NothingPassesUnseen
    <2>4. /\ since'[q] = {} => since[q] = {}
          /\ "update" \notin since'[q] => "update" \notin since[q]
      BY <2>3
    <2> QED
      BY <1>0, <2>1, <2>3, <2>4 DEF EditOK
  <1>3. CASE q = r
    <2>1. CASE \/ SubmitCreate(r) \/ SubmitUpdate(r) \/ SubmitVerify(r)
               \/ SubmitAction(r)
      <3>1. PICK c \in Call : Submit(r, c)
        BY <2>1, SubmitFacts
      <3> QED
        BY <1>0, <1>1, <1>3, <3>1 DEF Submit, Goto
    <2>2. CASE \/ Prepare(r) \/ LoadForUpdate(r) \/ LoadForVerify(r)
               \/ LoadForAction(r) \/ RecordAudit(r) \/ Abort(r)
      <3>1. CASE End(r)
        BY <1>0, <1>1, <1>3, <3>1 DEF End
      <3>2. CASE ~End(r)
        <4> SUFFICES ASSUME call'[r].op = "update" PROVE EditOK(r)'
          BY <1>3
        <4>1. safeguard' = safeguard /\ call' = call /\ since' = since
          BY <2>2, <3>2, LoadStep
        <4>2. PICK struct \in LiveLayer, label \in {"checked", "expiring"} :
                 /\ copy' = [copy EXCEPT ![r] = struct]
                 /\ pc' = [pc EXCEPT ![r] = label]
                 /\ EditLoaded(r, struct, label)
          BY <2>2, <3>2, <4>1, LoadStep
        <4>3. copy'[r] = struct /\ pc'[r] = label
          BY <1>0, <4>2
        <4> QED
          BY <1>0, <4>1, <4>2, <4>3 DEF EditOK, EditLoaded
      <3> QED
        BY <3>1, <3>2
    <2>3. CASE Insert(r)
      BY <1>0, <1>1, <1>3, <2>3, InsertFacts
    <2>4. CASE Update(r) /\ pc[r] = "expiring"
      <3> DEFINE s == call[r].id
                 row == UpdateColumns(safeguard[s], copy[r])
      <3>1. /\ call[r].op = "update" /\ s \in Safeguards
            /\ row.interval = copy[r].interval
            /\ row.verifiedAt = safeguard[s].verifiedAt
            /\ safeguard' = [safeguard EXCEPT ![s] = row]
            /\ pc' = [pc EXCEPT ![r] = "syncing"]
            /\ Overtake(r) /\ UNCHANGED <<now, call, copy>>
        BY <2>4, UpdateFacts
      <3>2. EditOK(r)
        BY <3>1 DEF IInv, RequestsOK, RequestOK
      <3> HIDE DEF row
      <3>3. /\ safeguard'[s] = row /\ pc'[r] = "syncing" /\ since'[r] = since[r]
            /\ call'[r] = call[r] /\ copy'[r] = copy[r]
        BY <1>0, <3>1 DEF Overtake
      <3> QED
        BY <1>0, <1>3, <2>4, <3>1, <3>2, <3>3 DEF EditOK
    <2>5. CASE Update(r) /\ pc[r] # "expiring"
      BY <1>0, <1>1, <1>3, <2>5, UpdateFacts
    <2>6. CASE SyncLifecycle(r)
      BY <1>0, <1>1, <1>3, <2>6, SyncFacts
    <2>7. CASE Verify(r)
      BY <1>0, <1>1, <1>3, <2>7, VerifyFacts
    <2>8. CASE ChangeLifecycle(r)
      <3>1. pc'[r] \in {"idle", "written"}
        BY <1>0, <2>8, ChangeFacts DEF End
      <3> QED
        BY <1>1, <1>3, <3>1
    <2> QED
      BY <2>1, <2>2, <2>3, <2>4, <2>5, <2>6, <2>7, <2>8 DEF Step
  <1> QED
    BY <1>2, <1>3

LEMMA RequestsStep ==
    ASSUME IInv, NEW r \in Requests, Step(r)
    PROVE  RequestsOK'
  <1>0. /\ TypeOK /\ RequestOK(r) /\ now' = now
        /\ pc \in [Requests -> Running \cup {"idle"}]
        /\ call \in [Requests -> Call] /\ copy \in [Requests -> Layer]
        /\ \A s \in Safeguards :
              /\ Live(s) => Live(s)'
              /\ safeguard[s].verifiedAt # None => safeguard'[s].verifiedAt # None
        /\ \A q \in Requests : (call[q].op = "update" => EditOK(q))'
    BY OthersUnchanged, LayersStay, EditStep DEF IInv, TypeOK, RequestsOK
  <1>1. ASSUME NEW q \in Requests \ {r} PROVE RequestOK(q)'
    <2>1. RequestOK(q) /\ pc'[q] = pc[q] /\ call'[q] = call[q] /\ copy'[q] = copy[q]
      BY <1>0, OthersUnchanged DEF IInv, RequestsOK
    <2> QED
      BY <1>0, <2>1 DEF RequestOK
  <1>2. RequestOK(r)'
    <2>1. CASE \/ SubmitCreate(r) \/ SubmitUpdate(r) \/ SubmitVerify(r)
               \/ SubmitAction(r)
      <3>1. PICK c \in Call :
                /\ Submit(r, c) /\ c.op # "none" /\ c.actor \in Actors
                /\ c.op = "create" => c.interval \in Intervals
                /\ c.op = "verify" => c.date \in Nat
                /\ c.op # "create" => c.id \in Safeguards /\ Live(c.id)
        BY <2>1, SubmitFacts
      <3>2. call'[r] = c /\ pc'[r] = "received" /\ MayWrite(c.actor)
        BY <1>0, <3>1 DEF Submit, Goto
      <3> QED
        BY <1>0, <3>1, <3>2 DEF RequestOK
    <2>2. CASE /\ pc[r] = "received" /\ call' = call
               /\ \E struct \in LiveLayer, label \in {"checked", "expiring"} :
                    /\ copy' = [copy EXCEPT ![r] = struct]
                    /\ pc' = [pc EXCEPT ![r] = label]
                    /\ label = "expiring" => call[r].op = "update"
                    /\ \/ /\ call[r].op = "create"
                          /\ Sound(struct, now) /\ Registered(struct)
                       \/ call[r].op = "update"
                       \/ call[r].op = "verify" /\ ~InFuture(call[r].date, now)
                       \/ call[r].op = "invalidate" /\ struct.state = "invalid"
                       \/ /\ call[r].op = "restore"
                          /\ struct.state \in {"active", "pending"}
                          /\ struct.state = "active" =>
                                safeguard[call[r].id].verifiedAt # None
      <3>1. PICK struct \in LiveLayer, label \in {"checked", "expiring"} :
                    /\ copy' = [copy EXCEPT ![r] = struct]
                    /\ pc' = [pc EXCEPT ![r] = label]
                    /\ label = "expiring" => call[r].op = "update"
                    /\ \/ /\ call[r].op = "create"
                          /\ Sound(struct, now) /\ Registered(struct)
                       \/ call[r].op = "update"
                       \/ call[r].op = "verify" /\ ~InFuture(call[r].date, now)
                       \/ call[r].op = "invalidate" /\ struct.state = "invalid"
                       \/ /\ call[r].op = "restore"
                          /\ struct.state \in {"active", "pending"}
                          /\ struct.state = "active" =>
                                safeguard[call[r].id].verifiedAt # None
        BY <2>2
      <3>2. /\ copy'[r] = struct /\ pc'[r] = label /\ call'[r] = call[r]
            /\ struct.interval \in Intervals
        BY <1>0, <2>2, <3>1, LayerFacts
      <3> QED
        BY <1>0, <2>2, <3>1, <3>2 DEF RequestOK
    <2>3. CASE Insert(r)
      <3>1. PICK s \in Safeguards : call' = [call EXCEPT ![r].id = s]
        BY <2>3, InsertFacts
      <3>2. /\ pc'[r] = "written" /\ call[r].op = "create"
            /\ call'[r].op = "create" /\ call'[r].actor = call[r].actor
            /\ call'[r].interval = call[r].interval
        BY <1>0, <2>3, <3>1, InsertFacts DEF Call
      <3> QED
        BY <1>0, <3>2 DEF RequestOK
    <2>4. CASE /\ call[r].op # "none" /\ call' = call
               /\ \/ call[r].op = "update" /\ pc' = [pc EXCEPT ![r] = "syncing"]
                  \/ pc' = [pc EXCEPT ![r] = "written"]
      BY <1>0, <2>4 DEF RequestOK
    <2>5. CASE End(r)
      <3>1. pc'[r] = "idle" /\ call'[r] = NoCall
        BY <1>0, <2>5 DEF End
      <3> QED
        BY <3>1 DEF RequestOK, NoCall
    <2> QED
      BY <2>1, <2>2, <2>3, <2>4, <2>5, StepCases, UpdateFacts
  <1> QED
    BY <1>1, <1>2 DEF RequestsOK

LEMMA SoundStep ==
    ASSUME IInv, NEW r \in Requests, Step(r)
    PROVE  VerificationSound'
  <1>1. now' = now
    BY OthersUnchanged DEF IInv
  <1> QED
    BY <1>1, TableStep DEF IInv, TypeOK, VerificationSound

LEMMA TickStep ==
    ASSUME IInv, Tick
    PROVE  IInv'
  <1>1. /\ now \in Nat /\ now' = now + 1 /\ now <= now' /\ now' \in Nat
        /\ UNCHANGED <<safeguard, pc, call, copy, since>>
    BY DEF Tick, IInv, TypeOK
  <1>2. TypeOK'
    BY <1>1 DEF IInv, TypeOK
  <1>3. \A s \in Safeguards : Sound(safeguard[s], now)'
    <2> SUFFICES ASSUME NEW s \in Safeguards PROVE Sound(safeguard[s], now')
      BY <1>1
    <2>1. Sound(safeguard[s], now) /\ safeguard[s] \in Layer
      BY DEF IInv, TypeOK, VerificationSound
    <2>2. CASE safeguard[s] \in LiveLayer
      BY <1>1, <2>1, <2>2, TimeHelps
    <2>3. CASE safeguard[s] = NoLayer
      BY <2>3, LayerFacts DEF Sound
    <2> QED
      BY <2>1, <2>2, <2>3, LayerFacts
  <1>4. ASSUME NEW q \in Requests PROVE RequestOK(q)'
    <2>1. RequestOK(q)
      BY DEF IInv, RequestsOK
    <2>2. /\ copy[q] \in LiveLayer /\ Sound(copy[q], now) => Sound(copy[q], now')
          /\ call[q].date \in Nat /\ ~InFuture(call[q].date, now) =>
                ~InFuture(call[q].date, now')
      BY <1>1, TimeHelps
    <2>3. (call[q].op = "update" => EditOK(q))'
      <3> SUFFICES ASSUME call[q].op = "update" PROVE EditOK(q)'
        BY <1>1
      <3> DEFINE row == safeguard[call[q].id]
      <3>1. /\ EditOK(q) /\ row \in LiveLayer
            /\ pc[q] = "expiring" => copy[q].interval \in Intervals
        BY <2>1, LayerFacts DEF RequestOK, IInv, TypeOK, Live
      <3>2. /\ row.verifiedAt # None => row.verifiedAt \in Nat
            /\ row.interval \in Nat /\ Intervals \subseteq Nat
        BY <3>1, LayerFacts, SafeguardAssumption
      <3>3. \A d, i \in Nat : Lapsed(d, i, now) => Lapsed(d, i, now')
        BY <1>1 DEF Lapsed
      <3>4. ASSUME pc[q] \in {"expiring", "syncing"}, since[q] = {}
            PROVE  /\ copy[q].verifiedAt = row.verifiedAt /\ row.verifiedAt # None
                   /\ Lapsed(row.verifiedAt, copy[q].interval, now')
        <4>1. copy[q].verifiedAt = row.verifiedAt /\ row.verifiedAt # None
              /\ Lapsed(row.verifiedAt, copy[q].interval, now)
          BY <3>1, <3>4 DEF EditOK
        <4>2. copy[q].interval \in Nat
          BY <3>1, <3>2, <3>4 DEF EditOK
        <4> QED
          BY <3>2, <3>3, <4>1, <4>2
      <3> QED
        BY <1>1, <3>1, <3>4 DEF EditOK
    <2> QED
      BY <1>1, <2>1, <2>2, <2>3 DEF RequestOK, Live
  <1> QED
    BY <1>2, <1>3, <1>4 DEF IInv, RequestsOK, VerificationSound

LEMMA InvInit == Init => IInv
  <1> SUFFICES ASSUME Init PROVE IInv
    OBVIOUS
  <1>1. TypeOK
    BY LayerFacts DEF Init, TypeOK
  <1>2. RequestsOK
    BY DEF Init, RequestsOK, RequestOK, NoCall
  <1>3. VerificationSound
    BY LayerFacts DEF Init, VerificationSound, Sound
  <1> QED
    BY <1>1, <1>2, <1>3 DEF IInv

LEMMA InvStutter == IInv /\ UNCHANGED vars => IInv'
  BY DEF vars, IInv, TypeOK, RequestsOK, RequestOK, EditOK, VerificationSound, Live

\* The invariant holds of every behaviour.
THEOREM Invariance == Spec => []IInv
  <1>1. IInv /\ [Next]_vars => IInv'
    <2> SUFFICES ASSUME IInv, Next PROVE IInv'
      BY InvStutter
    <2>1. CASE Tick
      BY <2>1, TickStep
    <2>2. CASE \E r \in Requests : Step(r)
      BY <2>2, TypeStep, RequestsStep, SoundStep DEF IInv
    <2> QED
      BY <2>1, <2>2 DEF Next
  <1> QED
    BY InvInit, <1>1, PTL DEF Spec

-----------------------------------------------------------------------------
(* What the invariant gives *)

\* Type correctness of the clock, the table and the requests.
THEOREM TypeCorrect == Spec => []TypeOK
  BY Invariance, PTL DEF IInv

\* A layer that counts has a verification that is signed and not of the future.
THEOREM VerificationSoundness == Spec => []VerificationSound
  BY Invariance, PTL DEF IInv

\* Who changes a layer that exists, and how.
LEMMA WriterOf ==
    ASSUME IInv, NEW r \in Requests, Step(r), NEW s \in Safeguards, Live(s),
           safeguard'[s] # safeguard[s]
    PROVE  /\ s = call[r].id /\ safeguard[s] \in LiveLayer
           /\ \/ /\ Update(r)
                 /\ safeguard'[s].state = safeguard[s].state
                 /\ safeguard'[s].verifiedAt = safeguard[s].verifiedAt
                 /\ safeguard'[s].verifiedBy = safeguard[s].verifiedBy
                 /\ safeguard'[s].interval \in Intervals
                 /\ safeguard'[s].interval # safeguard[s].interval => EditsInterval(r, s)
              \/ /\ Commits(r, s, {"verify"})
                 /\ safeguard'[s].verifiedAt = call[r].date
                 /\ safeguard'[s].verifiedBy = call[r].actor
                 /\ safeguard'[s].interval = safeguard[s].interval
                 /\ safeguard'[s].state = "active"
              \/ /\ safeguard'[s].interval = safeguard[s].interval
                 /\ safeguard'[s].verifiedAt = safeguard[s].verifiedAt
                 /\ safeguard'[s].verifiedBy = safeguard[s].verifiedBy
                 /\ \/ pc[r] = "syncing" /\ safeguard'[s].state = "expired"
                    \/ Commits(r, s, {"invalidate"}) /\ safeguard'[s].state = "invalid"
                    \/ Commits(r, s, {"restore"}) /\ safeguard[s].state = "invalid"
  <1>0. safeguard \in [Safeguards -> Layer] /\ pc \in [Requests -> Running \cup {"idle"}]
    BY DEF IInv, TypeOK
  <1>1. CASE SubmitCreate(r) \/ SubmitUpdate(r) \/ SubmitVerify(r) \/ SubmitAction(r)
    <2>1. PICK c \in Call : Submit(r, c)
      BY <1>1, SubmitFacts
    <2> QED
      BY <2>1 DEF Submit
  <1>2. CASE \/ Prepare(r) \/ LoadForUpdate(r) \/ LoadForVerify(r) \/ LoadForAction(r)
             \/ RecordAudit(r) \/ Abort(r)
    BY <1>2, LoadStep
  <1>3. CASE Insert(r)
    BY <1>0, <1>3, InsertFacts
  <1>4. CASE Update(r)
    <2> DEFINE t == call[r].id
               row == UpdateColumns(safeguard[t], copy[r])
    <2>1. /\ t \in Safeguards /\ safeguard[t] \in LiveLayer
          /\ row \in LiveLayer /\ row.state = safeguard[t].state
          /\ row.verifiedAt = safeguard[t].verifiedAt
          /\ row.verifiedBy = safeguard[t].verifiedBy
          /\ row.interval = copy[r].interval
          /\ safeguard' = [safeguard EXCEPT ![t] = row]
          /\ pc[r] \in {"checked", "expiring"} /\ call[r].op = "update"
          /\ pc'[r] \in {"syncing", "written"}
      BY <1>0, <1>4, UpdateFacts
    <2>2. EditOK(r)
      BY <2>1 DEF IInv, RequestsOK, RequestOK
    <2>3. row.interval # safeguard[t].interval =>
             \/ row.interval = call[r].interval
             \/ call[r].interval = None /\ "update" \in since[r]
      <3>1. \/ copy[r].interval = call[r].interval
            \/ call[r].interval = None /\ "update" \in since[r]
            \/ copy[r].interval = safeguard[t].interval
        BY <2>1, <2>2 DEF EditOK
      <3> HIDE DEF row
      <3> QED
        BY <2>1, <3>1
    <2> HIDE DEF row, t
    <2>4. s = t /\ safeguard'[s] = row
      BY <1>0, <2>1
    <2>5. row.interval # safeguard[t].interval => EditsInterval(r, s)
      BY <2>1, <2>3, <2>4 DEF EditsInterval, t
    <2> QED
      BY <1>4, <2>1, <2>4, <2>5, LayerFacts DEF t
  <1>5. ASSUME NEW state, Moves(r, state), call[r].id \in Safeguards
        PROVE  /\ s = call[r].id /\ safeguard[s] \in LiveLayer
               /\ safeguard'[s].state = state
               /\ safeguard'[s].interval = safeguard[s].interval
               /\ safeguard'[s].verifiedAt = safeguard[s].verifiedAt
               /\ safeguard'[s].verifiedBy = safeguard[s].verifiedBy
    <2> DEFINE t == call[r].id
               row == [safeguard[t] EXCEPT !.state = state]
    <2>1. /\ t \in Safeguards /\ safeguard[t] \in LiveLayer /\ row.state = state
          /\ row.interval = safeguard[t].interval
          /\ row.verifiedAt = safeguard[t].verifiedAt
          /\ row.verifiedBy = safeguard[t].verifiedBy
          /\ safeguard' = [safeguard EXCEPT ![t] = row]
      BY <1>5 DEF Moves
    <2> HIDE DEF row, t
    <2>2. s = t /\ safeguard'[s] = row
      BY <1>0, <2>1
    <2> QED
      BY <2>1, <2>2 DEF t
  <1>6. CASE SyncLifecycle(r)
    <2>1. call[r].id \in Safeguards /\ Moves(r, "expired") /\ pc[r] = "syncing"
      BY <1>6, SyncFacts
    <2> QED
      BY <1>5, <1>6, <2>1
  <1>7. CASE Verify(r)
    <2> DEFINE t == call[r].id
               row == Verified(safeguard[t], call[r])
    <2>1. /\ t \in Safeguards /\ safeguard[t] \in LiveLayer
          /\ row.verifiedAt = call[r].date /\ row.verifiedBy = call[r].actor
          /\ row.interval = safeguard[t].interval /\ row.state = "active"
          /\ safeguard' = [safeguard EXCEPT ![t] = row]
          /\ pc[r] = "checked" /\ pc'[r] = "written" /\ call[r].op = "verify"
      BY <1>0, <1>7, VerifyFacts DEF Verified
    <2> HIDE DEF row, t
    <2>2. s = t /\ safeguard'[s] = row
      BY <1>0, <2>1
    <2> QED
      BY <2>1, <2>2 DEF t, Commits
  <1>8. CASE ChangeLifecycle(r)
    <2>1. /\ call[r].id \in Safeguards /\ pc[r] = "checked" /\ pc'[r] = "written"
          /\ safeguard[call[r].id].state \in From(call[r].op)
          /\ \/ call[r].op = "invalidate" /\ Moves(r, "invalid")
             \/ call[r].op = "restore" /\ Moves(r, "pending")
             \/ call[r].op = "restore" /\ Moves(r, "active")
      BY <1>0, <1>8, ChangeFacts
    <2>2. s = call[r].id
      BY <1>5, <2>1
    <2>3. call[r].op = "restore" => safeguard[s].state = "invalid"
      BY <2>1, <2>2 DEF From
    <2> QED
      BY <1>5, <2>1, <2>2, <2>3 DEF Commits
  <1> QED
    BY <1>1, <1>2, <1>3, <1>4, <1>6, <1>7, <1>8 DEF Step

\* Date and verifier of a layer change together, by Verify alone.
THEOREM VerificationKept == Spec => VerificationSurvivesEdits
  <1> DEFINE Kept ==
        \A s \in Safeguards :
          Live(s) /\ (\/ safeguard'[s].verifiedAt # safeguard[s].verifiedAt
                      \/ safeguard'[s].verifiedBy # safeguard[s].verifiedBy) =>
             \E r \in Requests :
                /\ Commits(r, s, {"verify"})
                /\ safeguard'[s].verifiedAt = call[r].date
                /\ safeguard'[s].verifiedBy = call[r].actor
  <1>1. IInv /\ [Next]_vars => [Kept]_vars
    <2> SUFFICES ASSUME IInv, Next, NEW s \in Safeguards, Live(s),
                        \/ safeguard'[s].verifiedAt # safeguard[s].verifiedAt
                        \/ safeguard'[s].verifiedBy # safeguard[s].verifiedBy
                 PROVE  \E r \in Requests :
                           /\ Commits(r, s, {"verify"})
                           /\ safeguard'[s].verifiedAt = call[r].date
                           /\ safeguard'[s].verifiedBy = call[r].actor
      BY DEF Kept
    <2>1. PICK r \in Requests : Step(r)
      BY DEF Next, Tick
    <2> QED
      BY <2>1, WriterOf
  <1>2. Spec => [][Kept]_vars
    BY Invariance, <1>1, PTL DEF Spec
  <1> QED
    BY <1>2 DEF VerificationSurvivesEdits

\* Time alone brings no layer back.
LEMMA TimeRevivesNothing ==
    ASSUME NEW x \in LiveLayer, NEW t \in Nat, ~IsEffectiveAt(x, t)
    PROVE  ~IsEffectiveAt(x, t + 1)
  <1>1. x.interval \in Nat /\ x.verifiedAt \in Nat \cup {None}
    BY LayerFacts
  <1> QED
    BY <1>1 DEF IsEffectiveAt, Lapsed

\* With state and verification as they are, only a longer interval makes a
\* layer protect and only a shorter one ends it.
LEMMA IntervalDecides ==
    ASSUME NEW x \in LiveLayer, NEW y, y.state = x.state,
           y.verifiedAt = x.verifiedAt, y.interval \in Intervals, NEW t \in Nat
    PROVE  /\ ~IsEffectiveAt(x, t) /\ IsEffectiveAt(y, t) => y.interval > x.interval
           /\ IsEffectiveAt(x, t) /\ ~IsEffectiveAt(y, t) => y.interval < x.interval
  <1>1. /\ x.interval \in Nat /\ y.interval \in Nat
        /\ x.verifiedAt \in Nat \cup {None}
    BY LayerFacts, SafeguardAssumption
  <1> QED
    BY <1>1 DEF IsEffectiveAt, Lapsed

\* A layer starts to protect only when it is verified or restored, or when an
\* edit writes a longer interval that its form asks for or, the form leaving it
\* out, that another edit has shortened since the load.
THEOREM NoSilentProtection == Spec => NothingElseMakesItCount
  <1> DEFINE Asked ==
        \A s \in Safeguards :
          Live(s) /\ ~IsEffectiveAt(safeguard[s], now)
            /\ IsEffectiveAt(safeguard'[s], now') =>
             \E r \in Requests :
                \/ Commits(r, s, {"verify", "restore"})
                \/ EditsInterval(r, s) /\ safeguard'[s].interval > safeguard[s].interval
  <1>1. IInv /\ [Next]_vars => [Asked]_vars
    <2> SUFFICES ASSUME IInv, Next, NEW s \in Safeguards, Live(s),
                        ~IsEffectiveAt(safeguard[s], now),
                        IsEffectiveAt(safeguard'[s], now')
                 PROVE  \E r \in Requests :
                           \/ Commits(r, s, {"verify", "restore"})
                           \/ /\ EditsInterval(r, s)
                              /\ safeguard'[s].interval > safeguard[s].interval
      BY DEF Asked
    <2>0. safeguard[s] \in LiveLayer /\ now \in Nat
      BY LayerFacts DEF IInv, TypeOK, Live
    <2>1. CASE Tick
      BY <2>0, <2>1, TimeRevivesNothing DEF Tick
    <2>2. ASSUME NEW r \in Requests, Step(r)
          PROVE  \/ Commits(r, s, {"verify", "restore"})
                 \/ /\ EditsInterval(r, s)
                    /\ safeguard'[s].interval > safeguard[s].interval
      <3>1. now' = now
        BY <2>2, OthersUnchanged DEF IInv
      <3>2. safeguard'[s] # safeguard[s]
        BY <3>1
      <3>3. CASE Commits(r, s, {"verify"}) \/ Commits(r, s, {"restore"})
        BY <3>3 DEF Commits
      <3>4. CASE safeguard'[s].state \in {"expired", "invalid"}
        BY <3>4 DEF IsEffectiveAt
      <3>5. CASE /\ safeguard'[s].state = safeguard[s].state
                 /\ safeguard'[s].verifiedAt = safeguard[s].verifiedAt
                 /\ safeguard'[s].interval \in Intervals
                 /\ safeguard'[s].interval # safeguard[s].interval => EditsInterval(r, s)
        <4>1. safeguard'[s].interval > safeguard[s].interval
          BY <2>0, <3>1, <3>5, IntervalDecides
        <4>2. safeguard[s].interval \in Nat
          BY <2>0, LayerFacts
        <4>3. EditsInterval(r, s)
          BY <3>5, <4>1, <4>2
        <4> QED
          BY <4>1, <4>3
      <3> QED
        BY <2>2, <3>2, <3>3, <3>4, <3>5, WriterOf
    <2> QED
      BY <2>1, <2>2 DEF Next
  <1>2. Spec => [][Asked]_vars
    BY Invariance, <1>1, PTL DEF Spec
  <1> QED
    BY <1>2 DEF NothingElseMakesItCount

\* A layer that protects stops only by time, an invalidation, an older date, a
\* shorter interval, or an edit that others overtook after it had found the
\* layer lapsed.
THEOREM NoSilentLoss == Spec => NothingElseStopsItCounting
  <1> DEFINE Caused ==
               \A s \in Safeguards :
                 Live(s) /\ IsEffectiveAt(safeguard[s], now)
                   /\ ~IsEffectiveAt(safeguard'[s], now') =>
                    \/ now' # now
                    \/ \E r \in Requests :
                          \/ Commits(r, s, {"invalidate"})
                          \/ Commits(r, s, {"verify"}) /\ call[r].date < safeguard[s].verifiedAt
                          \/ EditsInterval(r, s) /\ safeguard'[s].interval < safeguard[s].interval
                          \/ pc[r] = "syncing" /\ call[r].id = s /\ since[r] # {}
  <1>1. IInv /\ [Next]_vars => [Caused]_vars
    <2> DEFINE Cause(r, s) ==
               \/ Commits(r, s, {"invalidate"})
               \/ Commits(r, s, {"verify"}) /\ call[r].date < safeguard[s].verifiedAt
               \/ EditsInterval(r, s) /\ safeguard'[s].interval < safeguard[s].interval
               \/ pc[r] = "syncing" /\ call[r].id = s /\ since[r] # {}
    <2> SUFFICES ASSUME IInv, Next, NEW s \in Safeguards, Live(s),
                        IsEffectiveAt(safeguard[s], now),
                        ~IsEffectiveAt(safeguard'[s], now'), now' = now
                 PROVE  \E r \in Requests : Cause(r, s)
      BY DEF Caused
    <2>0. /\ safeguard[s] \in LiveLayer /\ now \in Nat
          /\ safeguard'[s] # safeguard[s]
          /\ safeguard[s].state = "active" /\ safeguard[s].interval \in Nat
          /\ safeguard[s].verifiedAt \in Nat
          /\ ~Lapsed(safeguard[s].verifiedAt, safeguard[s].interval, now)
      BY LayerFacts DEF IInv, TypeOK, Live, IsEffectiveAt
    <2>1. PICK r \in Requests : Step(r)
      BY <2>0 DEF Next, Tick, IInv, TypeOK
    <2>2. call[r].id = s
      BY <2>0, <2>1, WriterOf
    <2>3. CASE Commits(r, s, {"invalidate"})
      BY <2>3
    <2>4. CASE /\ Commits(r, s, {"verify"}) /\ safeguard'[s].verifiedAt = call[r].date
               /\ safeguard'[s].interval = safeguard[s].interval
               /\ safeguard'[s].state = "active"
      <3>1. call[r].date \in Nat
        BY <2>4 DEF Commits, IInv, RequestsOK, RequestOK
      <3>2. Lapsed(call[r].date, safeguard[s].interval, now)
        BY <2>4, <3>1, SafeguardAssumption DEF IsEffectiveAt
      <3>3. call[r].date < safeguard[s].verifiedAt
        BY <2>0, <3>1, <3>2 DEF Lapsed
      <3> QED
        BY <2>4, <3>3
    <2>5. CASE /\ safeguard'[s].state = safeguard[s].state
               /\ safeguard'[s].verifiedAt = safeguard[s].verifiedAt
               /\ safeguard'[s].interval \in Intervals
               /\ safeguard'[s].interval # safeguard[s].interval => EditsInterval(r, s)
      <3>1. safeguard'[s].interval < safeguard[s].interval
        BY <2>0, <2>5, IntervalDecides
      <3>2. EditsInterval(r, s)
        BY <2>0, <2>5, <3>1
      <3> QED
        BY <3>1, <3>2
    <2>6. CASE pc[r] = "syncing"
      <3>1. EditOK(r)
        BY <2>6 DEF IInv, RequestsOK, RequestOK
      <3>2. since[r] # {}
        BY <2>0, <2>2, <2>6, <3>1 DEF EditOK
      <3> QED
        BY <2>2, <2>6, <3>2
    <2> HIDE DEF Cause
    <2> QED
      BY <2>0, <2>1, <2>3, <2>4, <2>5, <2>6, WriterOf
  <1>2. Spec => [][Caused]_vars
    BY Invariance, <1>1, PTL DEF Spec
  <1> QED
    BY <1>2 DEF NothingElseStopsItCounting

-----------------------------------------------------------------------------
(* The refinement *)

\* The protocol's own copy of the row vocabulary is the service's.
LEMMA SameVocabulary ==
    \A a : Protocol!MayWrite(a) <=> MayWrite(a)
  <1>1. \A a, p : Protocol!HasPermission(a, p) <=> HasPermission(a, p)
    BY DEF Protocol!HasPermission, HasPermission, Protocol!RolePermissions,
       RolePermissions
  <1> QED
    BY <1>1 DEF Protocol!MayWrite, MayWrite

\* What the protocol sees of a row.
Outside(row) == [state |-> row.state, verifiedAt |-> row.verifiedAt,
                 verifiedBy |-> row.verifiedBy]

LEMMA OutsideFacts ==
    /\ \A s \in Safeguards : Visible[s] = Outside(safeguard[s])
    /\ Outside(NoLayer) = Protocol!Absent
    /\ \A x \in LiveLayer : Outside(x) # Protocol!Absent
  <1>1. \A x \in LiveLayer : x.state # "absent"
    BY LayerFacts DEF LayerStates
  <1> QED
    BY <1>1 DEF Visible, Outside, NoLayer, Protocol!Absent

\* One row written is one layer changed.
LEMMA OneLayer ==
    ASSUME safeguard \in [Safeguards -> Layer], NEW s \in Safeguards, NEW row,
           safeguard' = [safeguard EXCEPT ![s] = row]
    PROVE  Visible' = [Visible EXCEPT ![s] = Outside(row)]
  <1>1. Visible' = [t \in Safeguards |-> Outside(safeguard'[t])]
    BY DEF Visible, Outside
  <1>2. Visible = [t \in Safeguards |-> Outside(safeguard[t])]
    BY DEF Visible, Outside
  <1>3. \A t \in Safeguards :
           safeguard'[t] = IF t = s THEN row ELSE safeguard[t]
    OBVIOUS
  <1> QED
    BY <1>1, <1>2, <1>3

\* A move of the service is a move of the protocol.
LEMMA MoveIsMove ==
    ASSUME IInv, NEW r \in Requests, call[r].id \in Safeguards,
           NEW state, Moves(r, state), now' = now
    PROVE  Protocol!MoveTo(call[r].id, state)
  <1> DEFINE s == call[r].id
             row == [safeguard[s] EXCEPT !.state = state]
  <1>1. /\ s \in Safeguards /\ row.state = state
        /\ row.verifiedAt = safeguard[s].verifiedAt
        /\ row.verifiedBy = safeguard[s].verifiedBy
        /\ safeguard' = [safeguard EXCEPT ![s] = row]
    BY DEF Moves
  <1> HIDE DEF row
  <1>2. Visible' = [Visible EXCEPT ![s] = Outside(row)]
    BY <1>1, OneLayer DEF IInv, TypeOK
  <1>3. Visible[s] = Outside(safeguard[s])
    BY OutsideFacts
  <1>4. Outside(row) = [Visible[s] EXCEPT !.state = state]
    BY <1>1, <1>3 DEF Outside
  <1>5. Visible' = [Visible EXCEPT ![s] = [Visible[s] EXCEPT !.state = state]]
    BY <1>2, <1>4
  <1> QED
    BY <1>5 DEF Protocol!MoveTo

LEMMA InsertIsRegister ==
    ASSUME IInv, NEW r \in Requests, Insert(r)
    PROVE  \E s \in Safeguards : Protocol!Register(s)
  <1> DEFINE row == copy[r]
  <1>1. PICK s \in Safeguards :
           /\ safeguard[s] = NoLayer /\ safeguard' = [safeguard EXCEPT ![s] = row]
    BY InsertFacts DEF Live
  <1>2. /\ row \in LiveLayer /\ Sound(row, now) /\ Registered(row) /\ now' = now
        /\ now \in Nat
    BY InsertFacts DEF IInv, TypeOK
  <1>3. Visible[s] = Protocol!Absent
    BY <1>1, OutsideFacts
  <1> HIDE DEF row
  <1>4. Visible' = [Visible EXCEPT ![s] = Outside(row)]
    BY <1>1, OneLayer DEF IInv, TypeOK
  <1>5. CASE row.verifiedAt = None
    <2>1. Outside(row) = [Visible[s] EXCEPT !.state = "pending"]
      BY <1>2, <1>3, <1>5 DEF Outside, Registered, Protocol!Absent
    <2>2. Visible' = [Visible EXCEPT ![s] = [Visible[s] EXCEPT !.state = "pending"]]
      BY <1>4, <2>1
    <2> QED
      BY <1>2, <1>3, <2>2 DEF Protocol!Register
  <1>6. CASE row.verifiedAt # None
    <2>1. /\ row.state \in {"active", "expired"} /\ row.verifiedBy \in Actors
          /\ Protocol!MayWrite(row.verifiedBy)
          /\ row.verifiedAt \in Nat /\ ~(row.verifiedAt > now + Tolerance)
      BY <1>2, <1>6, LayerFacts, SameVocabulary DEF Sound, Registered, InFuture
    <2>2. row.verifiedAt \in 0 .. now + Tolerance
      BY <1>2, <2>1, SafeguardAssumption
    <2>3. Visible' = [Visible EXCEPT ![s] =
             [state |-> row.state, verifiedAt |-> row.verifiedAt,
              verifiedBy |-> row.verifiedBy]]
      BY <1>4 DEF Outside
    <2> QED
      BY <1>2, <1>3, <2>1, <2>2, <2>3 DEF Protocol!Register
  <1> QED
    BY <1>5, <1>6

LEMMA VerifyIsVerify ==
    ASSUME IInv, NEW r \in Requests, Verify(r)
    PROVE  \E s \in Safeguards : Protocol!Verify(s)
  <1> DEFINE s == call[r].id
             c == call[r]
             row == Verified(safeguard[s], c)
  <1>1. /\ s \in Safeguards /\ safeguard[s] \in LiveLayer
        /\ c.actor \in Actors /\ MayWrite(c.actor) /\ c.date \in Nat
        /\ ~InFuture(c.date, now) /\ now' = now /\ now \in Nat
        /\ safeguard' = [safeguard EXCEPT ![s] = row]
    BY VerifyFacts DEF IInv, TypeOK
  <1>2. Visible[s] # Protocol!Absent
    BY <1>1, OutsideFacts
  <1>3. c.date \in 0 .. now + Tolerance
    BY <1>1, SafeguardAssumption DEF InFuture
  <1>4. Visible' = [Visible EXCEPT ![s] = Outside(row)]
    BY <1>1, OneLayer DEF IInv, TypeOK
  <1>5. Outside(row) = [state |-> "active", verifiedAt |-> c.date,
                        verifiedBy |-> c.actor]
    BY DEF Outside, Verified
  <1>6. Visible' = [Visible EXCEPT ![s] =
           [state |-> "active", verifiedAt |-> c.date, verifiedBy |-> c.actor]]
    BY <1>4, <1>5
  <1>7. Protocol!MayWrite(c.actor)
    BY <1>1, SameVocabulary
  <1> HIDE DEF s, c
  <1>8. Protocol!Verify(s)
    BY <1>1, <1>2, <1>3, <1>6, <1>7 DEF Protocol!Verify
  <1> QED
    BY <1>1, <1>8

\* The interleaved requests implement the layer protocol.
THEOREM Refinement == Spec => ImplementsProtocol
  <1>1. Init => Protocol!Init
    <2> SUFFICES ASSUME Init PROVE Protocol!Init
      OBVIOUS
    <2>1. \A s \in Safeguards : Outside(safeguard[s]) = Protocol!Absent
      BY OutsideFacts DEF Init
    <2>2. Visible = [s \in Safeguards |-> Protocol!Absent]
      BY <2>1 DEF Visible, Outside
    <2> QED
      BY <2>2 DEF Init, Protocol!Init
  <1>2. IInv /\ [Next]_vars => [Protocol!Next]_<<now, Visible>>
    <2> SUFFICES ASSUME IInv, [Next]_vars
                 PROVE  Protocol!Next \/ (now' = now /\ Visible' = Visible)
      OBVIOUS
    <2>1. CASE UNCHANGED vars
      BY <2>1 DEF vars, Visible
    <2>2. CASE Tick
      <3>1. now' \in Nat /\ now' > now /\ Visible' = Visible
        BY <2>2 DEF Tick, Visible, IInv, TypeOK
      <3> QED
        BY <3>1 DEF Protocol!Next, Protocol!Tick
    <2>3. ASSUME NEW r \in Requests, Step(r)
          PROVE  Protocol!Next \/ (now' = now /\ Visible' = Visible)
      <3>0. now' = now
        BY <2>3, OthersUnchanged DEF IInv
      <3>1. CASE safeguard' = safeguard
        BY <3>0, <3>1 DEF Visible
      <3>2. CASE Insert(r)
        BY <3>2, InsertIsRegister DEF Protocol!Next
      <3>3. CASE Update(r)
        <4> DEFINE s == call[r].id
                   row == UpdateColumns(safeguard[s], copy[r])
        <4>1. /\ s \in Safeguards /\ row.state = safeguard[s].state
              /\ row.verifiedAt = safeguard[s].verifiedAt
              /\ row.verifiedBy = safeguard[s].verifiedBy
              /\ safeguard' = [safeguard EXCEPT ![s] = row]
          BY <3>3, UpdateFacts
        <4> HIDE DEF row
        <4>2. Outside(row) = Visible[s]
          BY <4>1, OutsideFacts DEF Outside
        <4>3. safeguard \in [Safeguards -> Layer]
          BY DEF IInv, TypeOK
        <4>4. Visible' = [Visible EXCEPT ![s] = Outside(row)]
          BY <4>1, <4>3, OneLayer
        <4>5. Visible' = Visible
          BY <4>1, <4>2, <4>4 DEF Visible
        <4> QED
          BY <3>0, <4>5
      <3>4. CASE SyncLifecycle(r) /\ safeguard' # safeguard
        <4>1. /\ call[r].id \in Safeguards /\ Moves(r, "expired")
              /\ safeguard[call[r].id].state = "active"
          BY <3>4, SyncFacts
        <4>2. Protocol!MoveTo(call[r].id, "expired")
          BY <3>0, <4>1, MoveIsMove
        <4>3. Visible[call[r].id] = Outside(safeguard[call[r].id])
          BY <4>1, OutsideFacts
        <4>4. Visible[call[r].id].state = "active"
          BY <4>1, <4>3 DEF Outside
        <4>5. Protocol!Expire(call[r].id)
          BY <4>2, <4>4 DEF Protocol!Expire
        <4> QED
          BY <4>1, <4>5 DEF Protocol!Next
      <3>5. CASE Verify(r)
        BY <3>5, VerifyIsVerify DEF Protocol!Next
      <3>6. CASE ChangeLifecycle(r) /\ safeguard' # safeguard
        <4> DEFINE s == call[r].id
        <4>1. /\ s \in Safeguards /\ safeguard[s].state \in From(call[r].op)
              /\ \/ call[r].op = "invalidate" /\ Moves(r, "invalid")
                 \/ call[r].op = "restore" /\ Moves(r, "pending")
                 \/ /\ call[r].op = "restore" /\ Moves(r, "active")
                    /\ safeguard[s].verifiedAt # None
          BY <3>6, ChangeFacts
        <4>2. /\ Visible[s].state = safeguard[s].state
              /\ Visible[s].verifiedAt = safeguard[s].verifiedAt
          <5>1. Visible[s] = Outside(safeguard[s])
            BY <4>1, OutsideFacts
          <5> QED
            BY <5>1 DEF Outside
        <4>3. CASE call[r].op = "invalidate" /\ Moves(r, "invalid")
          <5>1. Protocol!MoveTo(s, "invalid")
            BY <3>0, <4>1, <4>3, MoveIsMove
          <5>2. Protocol!Invalidate(s)
            BY <4>1, <4>2, <4>3, <5>1 DEF Protocol!Invalidate, From
          <5> QED
            BY <4>1, <5>2 DEF Protocol!Next
        <4>4. CASE call[r].op = "restore" /\ Moves(r, "pending")
          <5>1. Protocol!MoveTo(s, "pending")
            BY <3>0, <4>1, <4>4, MoveIsMove
          <5>2. Protocol!Restore(s)
            BY <4>1, <4>2, <4>4, <5>1 DEF Protocol!Restore, From
          <5> QED
            BY <4>1, <5>2 DEF Protocol!Next
        <4>5. CASE /\ call[r].op = "restore" /\ Moves(r, "active")
                   /\ safeguard[s].verifiedAt # None
          <5>1. Protocol!MoveTo(s, "active")
            BY <3>0, <4>1, <4>5, MoveIsMove
          <5>2. Protocol!Restore(s)
            BY <4>1, <4>2, <4>5, <5>1 DEF Protocol!Restore, From
          <5> QED
            BY <4>1, <5>2 DEF Protocol!Next
        <4> QED
          BY <4>1, <4>3, <4>4, <4>5
      <3>7. CASE \/ SubmitCreate(r) \/ SubmitUpdate(r) \/ SubmitVerify(r)
                 \/ SubmitAction(r)
        <4>1. PICK c \in Call : Submit(r, c)
          BY <3>7, SubmitFacts
        <4> QED
          BY <3>1, <4>1 DEF Submit
      <3>8. CASE \/ Prepare(r) \/ LoadForUpdate(r) \/ LoadForVerify(r)
                 \/ LoadForAction(r) \/ RecordAudit(r) \/ Abort(r)
        BY <3>1, <3>8, LoadStep
      <3> QED
        BY <2>3, <3>1, <3>2, <3>3, <3>4, <3>5, <3>6, <3>7, <3>8 DEF Step
    <2> QED
      BY <2>1, <2>2, <2>3 DEF Next
  <1> QED
    BY <1>1, <1>2, Invariance, PTL DEF Spec, ImplementsProtocol, Protocol!Spec
=============================================================================
