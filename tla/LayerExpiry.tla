----------------------------- MODULE LayerExpiry -----------------------------
(***************************************************************************)
(* When a protection layer's verification covers it.  The lifecycle and    *)
(* the scoring each have their own code for it.                            *)
(***************************************************************************)
EXTENDS Naturals

CONSTANT None    \* NULL

\* A verification dated d covers the layer up to and including d + interval.
Lapsed(date, interval, t) == t > date + interval

\* The predicate of the model and of the restoration.
IsEffectiveAt(layer, t) ==
    /\ layer.state = "active"
    /\ layer.verifiedAt # None
    /\ ~Lapsed(layer.verifiedAt, layer.interval, t)
=============================================================================
