----------------------------- MODULE RateLimiter -----------------------------
(***************************************************************************)
(* The fixed-window rate limiter in front of the login and of the          *)
(* evaluation runs.  A request reads the clock, then waits for the mutex,  *)
(* then decides: its time may be stale when it decides, and two requests   *)
(* may decide in the opposite order of their times.  Windows that ended    *)
(* long ago are dropped when there are too many.                           *)
(***************************************************************************)
EXTENDS Integers, FiniteSets, Sequences

CONSTANTS
    Keys,          \* scope and client address, or scope and user
    Requests,      \* slots for requests in flight
    Limit,         \* requests a window admits
    Minute,        \* the length of a window, in ticks
    MaxWindows,    \* windows kept before old ones are looked for
    MaxDelay,      \* bound: ticks between reading the clock and the mutex
    MaxCount,      \* bound: a window counted this far takes no new requests
    MaxTime,       \* bound: the clock stops here
    None

ASSUME LimiterAssumption ==
    /\ {Limit, Minute, MaxWindows, MaxCount} \subseteq Nat \ {0}
    /\ MaxDelay \in 0 .. Minute - 1
    /\ MaxTime \in Nat
    /\ None \notin Keys

VARIABLES
    now,           \* the clock
    windows,       \* the map, with NoWindow for a key it does not hold
    pc,            \* "idle" or "waiting" for the mutex
    key,           \* the key of each waiting request
    stamp,         \* the time it has read
    unswept,       \* history: the windows, had none ever been dropped
    admitted       \* history: when requests of a key got through, in this order

vars == <<now, windows, pc, key, stamp, unswept, admitted>>

-----------------------------------------------------------------------------
NoWindow == [start |-> 0, count |-> 0]

Held(w) == w # NoWindow

Clock == 0 .. MaxTime

\* Mutant: every request, denied ones too, begins the minute anew.
CountedSliding(w, t) ==
    IF ~Held(w) \/ t - w.start >= Minute THEN [start |-> t, count |-> 1]
    ELSE [start |-> t, count |-> w.count + 1]

\* Mutant: a new window does not count the request that opens it.
CountedFromZero(w, t) ==
    IF ~Held(w) \/ t - w.start >= Minute THEN [start |-> t, count |-> 0]
    ELSE [w EXCEPT !.count = @ + 1]

\* A request that read t is counted: in the window, or in a new one.
Counted(w, t) ==
    IF ~Held(w) \/ t - w.start >= Minute THEN [start |-> t, count |-> 1]
    ELSE [w EXCEPT !.count = @ + 1]

\* Mutant: one request too many is let through.
AllowsOneMore(w) == w.count <= Limit + 1

Allows(w) == w.count <= Limit

\* Mutant: a window is dropped as soon as it is over.
OldWhenOver(w, t) == t - w.start >= Minute

Old(w, t) == t - w.start > 2 * Minute

\* The map after the clean-up by a request that read t.
Swept(map, t) ==
    IF Cardinality({k \in Keys : Held(map[k])}) > MaxWindows
    THEN [k \in Keys |-> IF Held(map[k]) /\ Old(map[k], t) THEN NoWindow ELSE map[k]]
    ELSE map

-----------------------------------------------------------------------------
Init ==
    /\ now = 0
    /\ windows = [k \in Keys |-> NoWindow]
    /\ pc = [r \in Requests |-> "idle"]
    /\ key = [r \in Requests |-> None]
    /\ stamp = [r \in Requests |-> 0]
    /\ unswept = [k \in Keys |-> NoWindow]
    /\ admitted = [k \in Keys |-> <<>>]

\* Time passes, but nobody is kept from the mutex longer than MaxDelay.
Tick ==
    /\ now < MaxTime
    /\ \A r \in Requests : pc[r] = "waiting" => now < stamp[r] + MaxDelay
    /\ now' = now + 1
    /\ UNCHANGED <<windows, pc, key, stamp, unswept, admitted>>

\* A request arrives and reads the clock.
ReadClock(r, k) ==
    /\ pc[r] = "idle"
    /\ windows[k].count < MaxCount \/ now - windows[k].start >= Minute
    /\ pc' = [pc EXCEPT ![r] = "waiting"]
    /\ key' = [key EXCEPT ![r] = k]
    /\ stamp' = [stamp EXCEPT ![r] = now]
    /\ UNCHANGED <<now, windows, unswept, admitted>>

Answered(r) ==
    /\ pc' = [pc EXCEPT ![r] = "idle"]
    /\ key' = [key EXCEPT ![r] = None]
    /\ stamp' = [stamp EXCEPT ![r] = 0]

\* The critical section.
Decide(r) ==
    LET k == key[r]
        counted == Counted(windows[k], stamp[r])
    IN /\ pc[r] = "waiting"
       /\ windows' = Swept([windows EXCEPT ![k] = counted], stamp[r])
       /\ unswept' = [unswept EXCEPT ![k] = Counted(@, stamp[r])]
       /\ \/ Allows(counted) /\ admitted' = [admitted EXCEPT ![k] = Append(@, now)]
          \/ ~Allows(counted) /\ UNCHANGED admitted
       /\ Answered(r)
       /\ UNCHANGED now

Next ==
    \/ Tick
    \/ \E r \in Requests : Decide(r) \/ \E k \in Keys : ReadClock(r, k)

Spec == Init /\ [][Next]_vars

-----------------------------------------------------------------------------
(* Properties *)

\* The map holds windows that have begun and counted somebody.
TypeOK ==
    /\ now \in Clock
    /\ windows \in [Keys -> [start : 0 .. now, count : Nat \ {0}] \cup {NoWindow}]
    /\ pc \in [Requests -> {"idle", "waiting"}]
    /\ key \in [Requests -> Keys \cup {None}] /\ stamp \in [Requests -> Clock]
    /\ \A r \in Requests : pc[r] = "waiting" =>
          key[r] \in Keys /\ stamp[r] \in 0 .. now /\ now - stamp[r] <= MaxDelay
    /\ admitted \in [Keys -> Seq(0 .. now)]

\* What the limit is worth: around the edge of a window twice the limit gets
\* through, but one request more takes longer than a minute less what a request
\* may wait for the mutex, in whatever order stale requests decide.
BurstBounded ==
    \A k \in Keys : \A i, j \in DOMAIN admitted[k] :
        j = i + 2 * Limit => admitted[k][j] - admitted[k][i] > Minute - MaxDelay

DecidesFor(r, k) == pc[r] = "waiting" /\ pc'[r] = "idle" /\ key[r] = k

\* Nobody is locked out: a request is refused only when the limit was used up
\* within the last minute and a wait; refused requests do not prolong it.
DenialIsEarned ==
    [][\A r \in Requests, k \in Keys :
          DecidesFor(r, k) /\ admitted' = admitted =>
             LET recent == {i \in DOMAIN admitted[k] :
                                admitted[k][i] > now - Minute - MaxDelay}
             IN Cardinality(recent) >= Limit]_vars

\* Dropping windows is safe: no request, however stale the time it read, is
\* decided differently for it.
SweepingDecidesNothing ==
    [][\A r \in Requests, k \in Keys :
          DecidesFor(r, k) =>
             (admitted' # admitted <=> Allows(Counted(unswept[k], stamp[r])))]_vars
-----------------------------------------------------------------------------
(* The inductive invariant *)

Window == [start : 0 .. now, count : Nat \ {0}]

\* The map holds the window it would hold without clean-up, or it has dropped
\* one that is over for everybody who may still be waiting.
WindowsAgree ==
    \A k \in Keys :
        \/ windows[k] = unswept[k]
        \/ windows[k] = NoWindow /\ now - MaxDelay - unswept[k].start >= Minute

\* How many of the last requests admitted the present window of k admitted.
Recent(k) == IF unswept[k].count < Limit THEN unswept[k].count ELSE Limit

\* Where the window stands among the admissions.  The last Recent(k) came after
\* its start, within a minute and a wait.  Those before it are of earlier windows,
\* which began at least a minute earlier; and those before the last Limit of them
\* are of windows that began at least two minutes earlier.
WindowCounts(k) ==
    LET log == admitted[k]
        start == unswept[k].start
        older == Len(log) - Recent(k)
    IN /\ Recent(k) <= Len(log)
       /\ unswept[k] = NoWindow => log = <<>>
       /\ \A i \in 1 .. Len(log) :
             /\ log[i] < start + Minute + MaxDelay
             /\ i > older => log[i] >= start
             /\ i <= older => log[i] < start + MaxDelay
             /\ i <= older - Limit => log[i] < start + MaxDelay - Minute

IInv ==
    /\ TypeOK /\ unswept \in [Keys -> Window \cup {NoWindow}] /\ WindowsAgree
    /\ BurstBounded
    /\ \A k \in Keys : WindowCounts(k)
=============================================================================
