---------------------------- MODULE ScenarioRows ----------------------------
(***************************************************************************)
(* The deviation_scenarios row and the predicates on it that the service, *)
(* the model and the routes share.                                        *)
(***************************************************************************)
EXTENDS Naturals, HazopConstants

CONSTANTS
    Scenarios,    \* ids the deviation_scenarios table can hold
    Actors,       \* authenticated users
    RoleOf,       \* the role in each user's token
    Fields,       \* the editable columns (guideword, cause, likelihood, ...)
    Values,       \* what a column can hold
    Patches,      \* the sets of columns an edit form may submit
    NoActor       \* a NULL reviewed_by

Contents == [Fields -> Values]

ASSUME RowsAssumption ==
    /\ Scenarios # {}
    /\ RoleOf \in [Actors -> Roles]
    /\ Patches \subseteq UNION {[D -> Values] : D \in SUBSET Fields}
    /\ NoActor \notin Actors

LiveRow == [state      : ScenarioStates,
            version    : Nat \ {0},
            createdBy  : Actors,
            reviewedBy : Actors \cup {NoActor},
            content    : Contents]

\* No row under this id; also the zero struct of a request that read nothing.
NoRow == [state |-> "absent", version |-> 0, createdBy |-> NoActor,
          reviewedBy |-> NoActor, content |-> <<>>]

Row == LiveRow \cup {NoRow}

\* Mutant: a creation that leaves the state column at its zero value.
NewRowWithoutState(actor, content) ==
    [state |-> "", version |-> 1, createdBy |-> actor,
     reviewedBy |-> NoActor, content |-> content]

NewRow(actor, content) ==
    [state |-> "draft", version |-> 1, createdBy |-> actor,
     reviewedBy |-> NoActor, content |-> content]

\* The states a transition request may name.
Targets == {"analyzed", "verified", "accepted", "rework"}

Overlay(content, patch) ==
    [f \in Fields |-> IF f \in DOMAIN patch THEN patch[f] ELSE content[f]]

Editable(row) == row.state \in {"draft", "rework"}

IsReview(op) == op \in {"verified", "accepted"}

ReviewerSeparated(row, actor) == row.createdBy # actor

\* The routes' own filter, before the service is called.
MayWrite(actor) == HasPermission(RoleOf[actor], "scenario:write")

MayTransition(actor) ==
    RoleOf[actor] \in {"admin", "process_engineer", "safety_reviewer"}

\* Mutant: the separation of reviewer and author is not enforced on acceptance.
MayDecideAcceptOwn(row, to, actor) ==
    /\ to = "analyzed" => RoleOf[actor] \in {"admin", "process_engineer"}
    /\ to # "analyzed" => RoleOf[actor] \in {"admin", "safety_reviewer"}
    /\ CanTransitionScenario(row.state, to)
    /\ to = "verified" => ReviewerSeparated(row, actor)

\* The service's filter on the role and on the row it loaded.
MayDecide(row, to, actor) ==
    /\ to = "analyzed" => RoleOf[actor] \in {"admin", "process_engineer"}
    /\ to # "analyzed" => RoleOf[actor] \in {"admin", "safety_reviewer"}
    /\ CanTransitionScenario(row.state, to)
    /\ IsReview(to) => ReviewerSeparated(row, actor)
=============================================================================
