---------------------------- MODULE SafeguardRows ----------------------------
(***************************************************************************)
(* The safeguards row - a protection layer with its test interval, its    *)
(* verification and its lifecycle - and what follows from it at a given   *)
(* time.  Time is counted in ticks.                                        *)
(***************************************************************************)
EXTENDS Naturals, HazopConstants, LayerExpiry

CONSTANTS
    Safeguards,   \* ids the safeguards table can hold
    Actors,       \* authenticated users
    RoleOf,       \* the role in each user's token
    Intervals,    \* test_interval_days, in ticks; a form requires at least 1
    Tolerance     \* how far ahead of the clock a verification may be dated

ASSUME SafeguardAssumption ==
    /\ Safeguards # {}
    /\ RoleOf \in [Actors -> Roles]
    /\ Intervals \subseteq Nat \ {0}
    /\ Intervals # {}
    /\ Tolerance \in Nat
    /\ None \notin Nat \cup Actors

LayerStates == {"pending", "active", "expired", "invalid"}

LiveLayer == [state      : LayerStates,
              interval   : Intervals,
              verifiedAt : Nat \cup {None},
              verifiedBy : Actors \cup {None}]

NoLayer == [state |-> "absent", interval |-> 0, verifiedAt |-> None,
            verifiedBy |-> None]

Layer == LiveLayer \cup {NoLayer}

InFuture(date, t) == date > t + Tolerance

\* Mutant: the verifier of a layer registered with a verification is not kept.
NewLayerUnsigned(interval, date, actor, t) ==
    [state      |-> IF date = None THEN "pending"
                    ELSE IF Lapsed(date, interval, t) THEN "expired" ELSE "active",
     interval   |-> interval,
     verifiedAt |-> date,
     verifiedBy |-> None]

\* The row a registration at time t inserts.
NewLayer(interval, date, actor, t) ==
    [state      |-> IF date = None THEN "pending"
                    ELSE IF Lapsed(date, interval, t) THEN "expired" ELSE "active",
     interval   |-> interval,
     verifiedAt |-> date,
     verifiedBy |-> IF date = None THEN None ELSE actor]

\* The routes' filter on every write.
MayWrite(actor) == HasPermission(RoleOf[actor], "safeguard:write")
=============================================================================
