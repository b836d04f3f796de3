-------------------------- MODULE EvaluationLedger --------------------------
(***************************************************************************)
(* What the coverage-evaluation service promises: one entry per           *)
(* idempotency key.  Its input is frozen when it is made, its verdict     *)
(* follows from that input alone and is given once, and afterwards        *)
(* somebody other than the scenario's author may approve it, or it may be *)
(* withdrawn.  Nothing else ever happens to an entry.                     *)
(***************************************************************************)
EXTENDS EvaluationRows

VARIABLE ledger

Blank == [standing |-> "blank"]

\* The score is not there before the verdict.
Entry(s, actor, snapshot, standing, score, approver) ==
    [standing |-> standing, scenario |-> s, evaluatedBy |-> actor,
     snapshot |-> snapshot, score |-> score, approver |-> approver]

Init == ledger = [k \in Keys |-> Blank]

Open(k) ==
    /\ ledger[k] = Blank
    /\ \E s \in Scenarios, actor \in Actors, snapshot \in Snapshots :
          ledger' = [ledger EXCEPT ![k] =
                       Entry(s, actor, snapshot, "pending", 0, NoActor)]

Judge(k) ==
    /\ ledger[k].standing = "pending"
    /\ LET snapshot == ledger[k].snapshot
       IN ledger' =
            [ledger EXCEPT
               ![k].standing = IF snapshot \in Evaluable THEN "completed" ELSE "failed",
               ![k].score = IF snapshot \in Evaluable THEN Score[snapshot] ELSE @]

Approve(k) ==
    /\ ledger[k].standing = "completed"
    /\ \E actor \in Actors :
          /\ HasPermission(RoleOf[actor], "evaluation:confirm")
          /\ Author[ledger[k].scenario] # actor
          /\ ledger' = [ledger EXCEPT ![k].standing = "confirmed",
                                      ![k].approver = actor]

Withdraw(k) ==
    /\ ledger[k].standing \in {"completed", "failed", "confirmed"}
    /\ ledger' = [ledger EXCEPT ![k].standing = "voided"]

Next == \E k \in Keys : Open(k) \/ Judge(k) \/ Approve(k) \/ Withdraw(k)

Spec == Init /\ [][Next]_ledger
=============================================================================
