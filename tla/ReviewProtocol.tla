--------------------------- MODULE ReviewProtocol ---------------------------
(***************************************************************************)
(* What the deviation-scenario service promises: every request that takes *)
(* effect does so in one step, against the row as it is at that moment.   *)
(* An edit changes the columns it names and nothing else; a decision is   *)
(* made by somebody entitled to it and, when it is a review, by somebody  *)
(* other than the author.                                                 *)
(***************************************************************************)
EXTENDS ScenarioRows

VARIABLE scenario

Init == scenario = [s \in Scenarios |-> NoRow]

Create(s, actor) ==
    /\ scenario[s] = NoRow
    /\ MayWrite(actor)
    /\ \E content \in Contents :
          scenario' = [scenario EXCEPT ![s] = NewRow(actor, content)]

Edit(s, actor) ==
    /\ Editable(scenario[s])
    /\ MayWrite(actor)
    /\ \E patch \in Patches :
          scenario' = [scenario EXCEPT
                         ![s].content = Overlay(@, patch),
                         ![s].version = @ + 1]

Decide(s, actor, to) ==
    /\ MayTransition(actor)
    /\ MayDecide(scenario[s], to, actor)
    /\ scenario' = [scenario EXCEPT
                      ![s].state = to,
                      ![s].version = @ + 1,
                      ![s].reviewedBy = IF IsReview(to) THEN actor ELSE @]

Next == \E s \in Scenarios, actor \in Actors :
            \/ Create(s, actor)
            \/ Edit(s, actor)
            \/ \E to \in Targets : Decide(s, actor, to)

Spec == Init /\ [][Next]_scenario
=============================================================================
