---------------------------- MODULE LayerProtocol ----------------------------
(***************************************************************************)
(* What the safeguard service promises of a protection layer, whatever its *)
(* requests do to each other: the layer moves through its lifecycle one   *)
(* decision at a time, its verification is replaced as a whole and only   *)
(* together with activation, and editing it is not a decision.            *)
(***************************************************************************)
EXTENDS SafeguardRows

VARIABLES
    now,      \* the clock
    layer     \* [state, verifiedAt, verifiedBy] of every layer

Absent == [state |-> "absent", verifiedAt |-> None, verifiedBy |-> None]

Verification(s) == <<layer[s].verifiedAt, layer[s].verifiedBy>>

MoveTo(s, state) == layer' = [layer EXCEPT ![s].state = state] /\ now' = now

Register(s) ==
    /\ layer[s] = Absent
    /\ \/ layer' = [layer EXCEPT ![s].state = "pending"]
       \/ \E a \in Actors, date \in 0 .. now + Tolerance,
             state \in {"active", "expired"} :
            /\ MayWrite(a)
            /\ layer' = [layer EXCEPT ![s] =
                  [state |-> state, verifiedAt |-> date, verifiedBy |-> a]]
    /\ now' = now

Verify(s) ==
    /\ layer[s] # Absent
    /\ \E a \in Actors, date \in 0 .. now + Tolerance :
          /\ MayWrite(a)
          /\ layer' = [layer EXCEPT ![s] =
                [state |-> "active", verifiedAt |-> date, verifiedBy |-> a]]
    /\ now' = now

Expire(s) == layer[s].state = "active" /\ MoveTo(s, "expired")

Invalidate(s) ==
    layer[s].state \in {"pending", "active", "expired"} /\ MoveTo(s, "invalid")

\* Back to waiting for a verification, or to the one it has.
Restore(s) ==
    /\ layer[s].state = "invalid"
    /\ \/ MoveTo(s, "pending")
       \/ layer[s].verifiedAt # None /\ MoveTo(s, "active")

Tick == now' \in Nat /\ now' > now /\ layer' = layer

Init == now = 0 /\ layer = [s \in Safeguards |-> Absent]

Next ==
    \/ Tick
    \/ \E s \in Safeguards :
          \/ Register(s) \/ Verify(s) \/ Expire(s) \/ Invalidate(s) \/ Restore(s)

Spec == Init /\ [][Next]_<<now, layer>>
=============================================================================
