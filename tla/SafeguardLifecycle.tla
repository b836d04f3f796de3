------------------------- MODULE SafeguardLifecycle -------------------------
(***************************************************************************)
(* The safeguard service: Create, Update, Verify, Invalidate and Restore, *)
(* each a sequence of autocommit statements that other requests come      *)
(* between and that can end after any of them.  Update writes every       *)
(* editable column from the copy it loaded, under no condition; the       *)
(* lifecycle moves by conditional updates.  Time passes between any two   *)
(* statements, so that what a request found current may have lapsed.      *)
(*                                                                         *)
(* Name, type, independence key, effectiveness and evidence note are left *)
(* out: they are written with the interval and decide nothing here.       *)
(***************************************************************************)
EXTENDS SafeguardRows

CONSTANTS
    Requests,     \* slots for requests in flight
    MaxTime       \* bound: the clock stops here

ASSUME LifecycleAssumption == MaxTime \in Nat

VARIABLES
    now,          \* the clock
    safeguard,    \* table safeguards
    pc,           \* how far each request has come
    call,         \* what each request asks for
    copy,         \* the service's local struct
    since         \* history, read by no guard: which writes of others came
                  \* between an edit's load and now

vars == <<now, safeguard, pc, call, copy, since>>

-----------------------------------------------------------------------------
Call == [op       : {"none", "create", "update", "verify", "invalidate", "restore"},
         actor    : Actors \cup {None},
         id       : Safeguards \cup {None},
         interval : Intervals \cup {None},
         date     : Nat \cup {None}]

NoCall == [op |-> "none", actor |-> None, id |-> None, interval |-> None,
           date |-> None]

Running == {"received", "checked", "expiring", "syncing", "written"}

Dates == 0 .. MaxTime + Tolerance

Live(s) == safeguard[s] # NoLayer

Init ==
    /\ now = 0
    /\ safeguard = [s \in Safeguards |-> NoLayer]
    /\ pc = [r \in Requests |-> "idle"]
    /\ call = [r \in Requests |-> NoCall]
    /\ copy = [r \in Requests |-> NoLayer]
    /\ since = [r \in Requests |-> {}]

Tick ==
    /\ now < MaxTime
    /\ now' = now + 1
    /\ UNCHANGED <<safeguard, pc, call, copy, since>>

End(r) ==
    /\ pc' = [pc EXCEPT ![r] = "idle"]
    /\ call' = [call EXCEPT ![r] = NoCall]
    /\ copy' = [copy EXCEPT ![r] = NoLayer]
    /\ since' = [since EXCEPT ![r] = {}]

Goto(r, label) == pc' = [pc EXCEPT ![r] = label]

\* The request keeps a struct and goes on.
Keep(r, struct, label) ==
    /\ copy' = [copy EXCEPT ![r] = struct]
    /\ Goto(r, label)
    /\ UNCHANGED <<call, since>>

\* Between the load of an edit of layer s and its last write to it.
Editing(r, s) ==
    pc[r] \in {"checked", "expiring", "syncing"} /\ call[r].op = "update" /\ call[r].id = s

\* Request r's write overtakes the edits of the same layer under way.
Overtake(r) ==
    since' = [q \in Requests |->
                IF q # r /\ Editing(q, call[r].id) THEN since[q] \cup {call[r].op}
                                                  ELSE since[q]]

-----------------------------------------------------------------------------
(* Submitting requests *)

Submit(r, c) ==
    /\ pc[r] = "idle"
    /\ MayWrite(c.actor)
    /\ call' = [call EXCEPT ![r] = c]
    /\ Goto(r, "received")
    /\ UNCHANGED <<now, safeguard, copy, since>>

SubmitCreate(r) ==
    /\ \E s \in Safeguards : ~Live(s)
    /\ \E a \in Actors, i \in Intervals, date \in Dates \cup {None} :
          Submit(r, [op |-> "create", actor |-> a, id |-> None, interval |-> i,
                     date |-> date])

SubmitUpdate(r) ==
    \E a \in Actors, s \in Safeguards, i \in Intervals \cup {None} :
       /\ Live(s)
       /\ Submit(r, [op |-> "update", actor |-> a, id |-> s, interval |-> i,
                     date |-> None])

SubmitVerify(r) ==
    \E a \in Actors, s \in Safeguards, date \in Dates :
       /\ Live(s)
       /\ Submit(r, [op |-> "verify", actor |-> a, id |-> s, interval |-> None,
                     date |-> date])

SubmitAction(r) ==
    \E a \in Actors, s \in Safeguards, op \in {"invalidate", "restore"} :
       /\ Live(s)
       /\ Submit(r, [op |-> op, actor |-> a, id |-> s, interval |-> None,
                     date |-> None])

-----------------------------------------------------------------------------
(* Create *)

\* The target scenario is found or not; the state is decided now, the row
\* inserted later.
Prepare(r) ==
    LET c == call[r]
    IN /\ pc[r] = "received" /\ c.op = "create"
       /\ \/ /\ c.date # None => ~InFuture(c.date, now)
             /\ Keep(r, NewLayer(c.interval, c.date, c.actor, now), "checked")
          \/ End(r)
       /\ UNCHANGED <<now, safeguard>>

Insert(r) ==
    /\ pc[r] = "checked" /\ call[r].op = "create"
    /\ \E s \in Safeguards :
          /\ ~Live(s)
          /\ safeguard' = [safeguard EXCEPT ![s] = copy[r]]
          /\ call' = [call EXCEPT ![r].id = s]
    /\ Goto(r, "written")
    /\ UNCHANGED <<now, copy, since>>

-----------------------------------------------------------------------------
(* Update *)

\* Mutant: a column the form leaves out is taken for zero.
OverlayZero(layer, interval) ==
    [layer EXCEPT !.interval = IF interval = None THEN 0 ELSE interval]

Overlay(layer, interval) ==
    [layer EXCEPT !.interval = IF interval = None THEN @ ELSE interval]

\* With the interval the form asks for, has the copy's verification lapsed?
FoundLapsed(layer) ==
    /\ layer.verifiedAt # None /\ layer.state = "active"
    /\ Lapsed(layer.verifiedAt, layer.interval, now)

\* Mutant: the lapse is judged before the form's interval is laid over.
LoadForUpdateJudgingFirst(r) ==
    LET struct == Overlay(safeguard[call[r].id], call[r].interval)
    IN /\ pc[r] = "received" /\ call[r].op = "update"
       /\ IF FoundLapsed(safeguard[call[r].id])
          THEN Keep(r, [struct EXCEPT !.state = "expired"], "expiring")
          ELSE Keep(r, struct, "checked")
       /\ UNCHANGED <<now, safeguard>>

LoadForUpdate(r) ==
    LET struct == Overlay(safeguard[call[r].id], call[r].interval)
    IN /\ pc[r] = "received" /\ call[r].op = "update"
       /\ IF FoundLapsed(struct)
          THEN Keep(r, [struct EXCEPT !.state = "expired"], "expiring")
          ELSE Keep(r, struct, "checked")
       /\ UNCHANGED <<now, safeguard>>

\* Mutants: the update writes the verification columns too, or the lifecycle.
UpdateColumnsAndVerification(layer, struct) ==
    [layer EXCEPT !.interval = struct.interval, !.verifiedAt = struct.verifiedAt,
                  !.verifiedBy = struct.verifiedBy]
UpdateColumnsAndState(layer, struct) ==
    [layer EXCEPT !.interval = struct.interval, !.state = struct.state]

\* The SET clause of the update.
UpdateColumns(layer, struct) == [layer EXCEPT !.interval = struct.interval]

Update(r) ==
    /\ pc[r] \in {"checked", "expiring"} /\ call[r].op = "update"
    /\ safeguard' = [safeguard EXCEPT ![call[r].id] = UpdateColumns(@, copy[r])]
    /\ Goto(r, IF pc[r] = "expiring" THEN "syncing" ELSE "written")
    /\ Overtake(r)
    /\ UNCHANGED <<now, call, copy>>

\* Mutant: the conditional update is by id alone.
MatchesAnyState(layer, from) == layer.state # "absent"

\* The WHERE clause of SetLifecycle.
Matches(layer, from) == layer.state \in from

\* Whether the row was still active is not looked at.
SyncLifecycle(r) ==
    /\ pc[r] = "syncing"
    /\ safeguard' = [safeguard EXCEPT ![call[r].id] =
                       IF Matches(@, {"active"}) THEN [@ EXCEPT !.state = "expired"] ELSE @]
    /\ Goto(r, "written")
    /\ UNCHANGED <<now, call, copy, since>>

-----------------------------------------------------------------------------
(* Verify, Invalidate, Restore *)

LoadForVerify(r) ==
    LET c == call[r]
    IN /\ pc[r] = "received" /\ c.op = "verify"
       /\ IF ~InFuture(c.date, now)
             /\ ~Lapsed(c.date, safeguard[c.id].interval, now)
          THEN Keep(r, safeguard[c.id], "checked")
          ELSE End(r)
       /\ UNCHANGED <<now, safeguard>>

\* The SET clause of the verification.
Verified(layer, c) ==
    [state |-> "active", interval |-> layer.interval, verifiedAt |-> c.date,
     verifiedBy |-> c.actor]

Verify(r) ==
    LET c == call[r]
    IN /\ pc[r] = "checked" /\ c.op = "verify"
       /\ IF Matches(safeguard[c.id], LayerStates)
          THEN /\ safeguard' = [safeguard EXCEPT ![c.id] = Verified(@, c)]
               /\ Goto(r, "written")
               /\ Overtake(r)
               /\ UNCHANGED <<call, copy>>
          ELSE End(r) /\ UNCHANGED safeguard
       /\ UNCHANGED now

\* Restoration decides on the row it loads: active is effective, and a layer
\* that is still invalid never is.
RestoredState(layer) == IF IsEffectiveAt(layer, now) THEN "active" ELSE "pending"

\* The states an action starts from; the state it leads to is in the copy.
From(op) == IF op = "restore" THEN {"invalid"} ELSE {"pending", "active", "expired"}

\* changeLifecycle loads the row once more, for the note and the record only.
LoadForAction(r) ==
    LET c == call[r]
        layer == safeguard[c.id]
    IN /\ pc[r] = "received" /\ c.op \in {"invalidate", "restore"}
       /\ Keep(r, [layer EXCEPT !.state =
                     IF c.op = "restore" THEN RestoredState(layer) ELSE "invalid"],
               "checked")
       /\ UNCHANGED <<now, safeguard>>

ChangeLifecycle(r) ==
    LET c == call[r]
    IN /\ pc[r] = "checked" /\ c.op \in {"invalidate", "restore"}
       /\ IF Matches(safeguard[c.id], From(c.op))
          THEN /\ safeguard' = [safeguard EXCEPT ![c.id].state = copy[r].state]
               /\ Goto(r, "written")
               /\ UNCHANGED <<call, copy, since>>
          ELSE End(r) /\ UNCHANGED safeguard
       /\ UNCHANGED now

-----------------------------------------------------------------------------
\* Reload and audit record, which nothing here reads back; the answer.
RecordAudit(r) == pc[r] = "written" /\ End(r) /\ UNCHANGED <<now, safeguard>>

\* Context cancelled, database error or server crash between two statements.
Abort(r) == pc[r] \in Running /\ End(r) /\ UNCHANGED <<now, safeguard>>

Step(r) ==
    \/ SubmitCreate(r) \/ SubmitUpdate(r) \/ SubmitVerify(r) \/ SubmitAction(r)
    \/ Prepare(r) \/ Insert(r)
    \/ LoadForUpdate(r) \/ Update(r) \/ SyncLifecycle(r)
    \/ LoadForVerify(r) \/ Verify(r)
    \/ LoadForAction(r) \/ ChangeLifecycle(r)
    \/ RecordAudit(r) \/ Abort(r)

Next == Tick \/ \E r \in Requests : Step(r)

Spec == Init /\ [][Next]_vars

-----------------------------------------------------------------------------
(* Properties *)

\* Every row and request is well formed.
TypeOK ==
    /\ now \in Nat
    /\ safeguard \in [Safeguards -> Layer]
    /\ pc \in [Requests -> Running \cup {"idle"}]
    /\ call \in [Requests -> Call]
    /\ copy \in [Requests -> Layer]
    /\ since \in [Requests -> SUBSET {"update", "verify"}]

\* A layer that counts or counted has a verification; its date and signature.
Sound(layer, t) ==
    /\ layer.state \in {"active", "expired"} => layer.verifiedAt # None
    /\ layer.verifiedAt # None =>
         /\ ~InFuture(layer.verifiedAt, t)
         /\ layer.verifiedBy \in Actors /\ MayWrite(layer.verifiedBy)

\* A layer that counts as active, or once did, has a verification on its row,
\* signed by somebody who may verify and never dated beyond the tolerance,
\* even if a restoration that had loaded it active overtook an invalidation.
VerificationSound == \A s \in Safeguards : Sound(safeguard[s], now)

Commits(r, s, ops) ==
    pc[r] = "checked" /\ pc'[r] = "written" /\ call[r].id = s /\ call[r].op \in ops

\* Update writes every column of its stale copy and yet never takes a layer's
\* verification back: date and verifier change together, by Verify alone.
VerificationSurvivesEdits ==
    [][\A s \in Safeguards :
          Live(s) /\ (\/ safeguard'[s].verifiedAt # safeguard[s].verifiedAt
                      \/ safeguard'[s].verifiedBy # safeguard[s].verifiedBy) =>
             \E r \in Requests :
                /\ Commits(r, s, {"verify"})
                /\ safeguard'[s].verifiedAt = call[r].date
                /\ safeguard'[s].verifiedBy = call[r].actor]_vars

\* Request r's edit writes layer s's interval, either the one its form asks for
\* or, the form leaving it out, the one the edit had loaded before another edit
\* overtook it.
EditsInterval(r, s) ==
    /\ pc[r] \in {"checked", "expiring"} /\ pc'[r] \in {"syncing", "written"}
    /\ call[r].op = "update" /\ call[r].id = s
    /\ \/ safeguard'[s].interval = call[r].interval
       \/ call[r].interval = None /\ "update" \in since[r]

\* Coverage rises only in these ways: a layer that does not protect starts to
\* protect when it is verified or restored, or when an edit writes a longer
\* interval.  The edit's form asks for that interval, or it leaves the interval
\* out and another edit has shortened it since: the code lets such a stale edit
\* write the old interval back and so bring a lapsed layer back.  An edit that
\* nobody overtook and that does not ask for it never does, nor does the
\* passing of time.
NothingElseMakesItCount ==
    [][\A s \in Safeguards :
          Live(s) /\ ~IsEffectiveAt(safeguard[s], now)
            /\ IsEffectiveAt(safeguard'[s], now') =>
             \E r \in Requests :
                \/ Commits(r, s, {"verify", "restore"})
                \/ EditsInterval(r, s) /\ safeguard'[s].interval > safeguard[s].interval]_vars

\* Coverage falls only in these ways: time passes, the layer is invalidated, it
\* is verified once more with an older date, an edit writes a shorter interval
\* (asked for or stale, as above), or an edit that found the layer lapsed marks
\* it expired although a verification or another edit has come between.  An edit
\* that nobody overtook never marks a layer that still protects.
NothingElseStopsItCounting ==
    [][\A s \in Safeguards :
          Live(s) /\ IsEffectiveAt(safeguard[s], now)
            /\ ~IsEffectiveAt(safeguard'[s], now') =>
             \/ now' # now
             \/ \E r \in Requests :
                   \/ Commits(r, s, {"invalidate"})
                   \/ Commits(r, s, {"verify"}) /\ call[r].date < safeguard[s].verifiedAt
                   \/ EditsInterval(r, s) /\ safeguard'[s].interval < safeguard[s].interval
                   \/ pc[r] = "syncing" /\ call[r].id = s /\ since[r] # {}]_vars

\* Seen from outside, the interleaved requests are single decisions about the
\* layer as it is: the service implements the layer protocol.
Visible ==
    [s \in Safeguards |->
       [state |-> safeguard[s].state, verifiedAt |-> safeguard[s].verifiedAt,
        verifiedBy |-> safeguard[s].verifiedBy]]

Protocol == INSTANCE LayerProtocol WITH layer <- Visible

ImplementsProtocol == Protocol!Spec

-----------------------------------------------------------------------------
(* What the documents say and the code does not keep. *)

\* A restored layer waits for a verification: from invalid to active leads
\* only Verify.
ActiveOnlyByVerification ==
    [][\A s \in Safeguards :
          safeguard[s].state = "invalid" /\ safeguard'[s].state = "active" =>
             \E r \in Requests : Commits(r, s, {"verify"})]_vars
-----------------------------------------------------------------------------
(* The inductive invariant *)

\* A new row has a state that goes with its verification.
Registered(layer) ==
    /\ layer.verifiedAt = None => layer.state = "pending" /\ layer.verifiedBy = None
    /\ layer.verifiedAt # None => layer.state \in {"active", "expired"}

\* What an edit that nobody overtook knows: the interval it is about to write is
\* the row's unless its form asks for another, and the row it is about to mark
\* expired has lapsed.
EditOK(r) ==
    LET c == call[r]
        row == safeguard[c.id]
    IN /\ pc[r] \in {"checked", "expiring"} =>
             IF c.interval # None THEN copy[r].interval = c.interval
             ELSE "update" \notin since[r] => copy[r].interval = row.interval
       /\ pc[r] \in {"expiring", "syncing"} /\ since[r] = {} =>
             /\ copy[r].verifiedAt = row.verifiedAt /\ row.verifiedAt # None
             /\ Lapsed(row.verifiedAt, copy[r].interval, now)
       /\ pc[r] = "syncing" /\ since[r] = {} => copy[r].interval = row.interval

\* What a request knows while it runs: its layer exists, the row it is about to
\* insert is sound, the verification it is about to record is not of the
\* future, and the layer it is about to make active has a verification, if no
\* longer the one it looked at.
RequestOK(r) ==
    LET c == call[r]
    IN /\ pc[r] = "idle" <=> c.op = "none"
       /\ c.op # "none" => c.actor \in Actors /\ MayWrite(c.actor)
       /\ c.op = "create" => c.interval \in Intervals
       /\ c.op = "verify" => c.date \in Nat
       /\ c.op \in {"update", "verify", "invalidate", "restore"} =>
             c.id \in Safeguards /\ Live(c.id)
       /\ pc[r] = "checked" /\ c.op = "create" =>
             copy[r] \in LiveLayer /\ Sound(copy[r], now) /\ Registered(copy[r])
       /\ pc[r] \in {"checked", "expiring"} /\ c.op = "update" =>
             copy[r].interval \in Intervals
       /\ pc[r] = "syncing" => c.op = "update"
       /\ c.op = "update" => EditOK(r)
       /\ pc[r] = "checked" /\ c.op = "verify" => ~InFuture(c.date, now)
       /\ pc[r] = "checked" /\ c.op = "invalidate" => copy[r].state = "invalid"
       /\ pc[r] = "checked" /\ c.op = "restore" =>
             /\ copy[r].state \in {"active", "pending"}
             /\ copy[r].state = "active" => safeguard[c.id].verifiedAt # None

RequestsOK == \A r \in Requests : RequestOK(r)

IInv == TypeOK /\ RequestsOK /\ VerificationSound
=============================================================================
