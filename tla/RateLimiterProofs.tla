-------------------------- MODULE RateLimiterProofs --------------------------
(***************************************************************************)
(* Proofs about RateLimiter for any limit, length of a window, number of   *)
(* windows kept, set of keys and number of concurrent requests.            *)
(***************************************************************************)
EXTENDS RateLimiter, FiniteSetTheorems, SequenceTheorems, TLAPS

LEMMA Constants ==
    /\ Limit \in Nat \ {0} /\ Minute \in Nat \ {0} /\ MaxWindows \in Nat \ {0}
    /\ MaxDelay \in Nat /\ MaxDelay < Minute /\ MaxTime \in Nat
  BY LimiterAssumption

LEMMA WindowFacts ==
    /\ \A w \in Window : w.start \in 0 .. now /\ w.count \in Nat \ {0}
    /\ \A w \in Window : Held(w)
    /\ ~Held(NoWindow)
  <1>1. \A w \in Window : w.start \in 0 .. now /\ w.count \in Nat \ {0}
    BY DEF Window
  <1>2. NoWindow.count = 0
    BY DEF NoWindow
  <1> QED
    BY <1>1, <1>2 DEF Held

\* Counting a request gives a window that includes it.
LEMMA CountedType ==
    ASSUME now \in Nat, NEW w \in Window \cup {NoWindow}, NEW t \in 0 .. now
    PROVE  LET v == Counted(w, t) IN
              v \in Window /\ (v.start = t \/ (v.start = w.start /\ t - w.start < Minute))
  <1>1. CASE ~Held(w) \/ t - w.start >= Minute
    <2>1. Counted(w, t) = [start |-> t, count |-> 1]
      BY <1>1 DEF Counted
    <2> QED
      BY <2>1 DEF Window
  <1>2. CASE Held(w) /\ ~(t - w.start >= Minute)
    <2>1. w \in Window /\ w.start \in 0 .. now /\ w.count \in Nat \ {0}
      BY <1>2, WindowFacts
    <2> DEFINE v == [w EXCEPT !.count = @ + 1]
    <2>2. v.start = w.start /\ v.count = w.count + 1 /\ v \in Window
      BY <2>1 DEF Window
    <2>3. Counted(w, t) = v
      BY <1>2 DEF Counted
    <2>4. t - w.start < Minute
      BY <1>2, <2>1, Constants
    <2> HIDE DEF v
    <2> QED
      BY <2>2, <2>3, <2>4
  <1> QED
    BY <1>1, <1>2

\* A window that is over for a request is to it as good as none.
LEMMA OverIsNone ==
    ASSUME NEW w, NEW t, t - w.start >= Minute
    PROVE  Counted(w, t) = Counted(NoWindow, t)
  BY WindowFacts DEF Counted

-----------------------------------------------------------------------------
(* Steps *)

\* What the critical section does, seen from the request and the map.
LEMMA DecideFacts ==
    ASSUME IInv, NEW r \in Requests, Decide(r)
    PROVE  LET k == key[r]
               t == stamp[r]
               counted == Counted(unswept[k], t) IN
              /\ k \in Keys /\ t \in 0 .. now /\ now \in Nat
              /\ now - MaxDelay <= t
              /\ Counted(windows[k], t) = counted
              /\ counted \in Window
              /\ t - counted.start < Minute
              /\ unswept' = [unswept EXCEPT ![k] = counted]
              /\ windows' = Swept([windows EXCEPT ![k] = counted], t)
              /\ \/ Allows(counted) /\ admitted' = [admitted EXCEPT ![k] = Append(@, now)]
                 \/ ~Allows(counted) /\ admitted' = admitted
              /\ now' = now /\ Answered(r)
  <1> DEFINE k == key[r]
             t == stamp[r]
             counted == Counted(unswept[k], t)
  <1>1. /\ k \in Keys /\ t \in 0 .. now /\ now - t <= MaxDelay /\ now \in Clock
        /\ pc[r] = "waiting"
    BY DEF Decide, IInv, TypeOK
  <1>2. now \in Nat /\ t <= now /\ now - MaxDelay <= t /\ t \in Int
    BY <1>1, Constants DEF Clock
  <1>3. unswept[k] \in Window \cup {NoWindow}
    BY <1>1 DEF IInv
  <1>4. Counted(windows[k], t) = counted
    <2>1. CASE windows[k] = unswept[k]
      BY <2>1
    <2>2. CASE windows[k] = NoWindow /\ now - MaxDelay - unswept[k].start >= Minute
      <3>1. unswept[k].start \in Int
        BY <1>3, WindowFacts DEF NoWindow
      <3>2. t - unswept[k].start >= Minute
        BY <1>2, <2>2, <3>1, Constants
      <3> QED
        BY <2>2, <3>2, OverIsNone
    <2> QED
      BY <1>1, <2>1, <2>2 DEF IInv, WindowsAgree
  <1>5. /\ counted \in Window
        /\ counted.start = t \/ (counted.start = unswept[k].start
                                   /\ t - unswept[k].start < Minute)
    BY <1>1, <1>2, <1>3, CountedType
  <1>6. t - counted.start < Minute
    BY <1>2, <1>5, Constants
  <1>7. /\ unswept' = [unswept EXCEPT ![k] = counted]
        /\ windows' = Swept([windows EXCEPT ![k] = Counted(windows[k], t)], t)
        /\ \/ /\ Allows(Counted(windows[k], t))
              /\ admitted' = [admitted EXCEPT ![k] = Append(@, now)]
           \/ ~Allows(Counted(windows[k], t)) /\ admitted' = admitted
        /\ now' = now /\ Answered(r)
    BY DEF Decide
  <1> HIDE DEF counted
  <1> QED
    BY <1>1, <1>2, <1>4, <1>5, <1>6, <1>7 DEF counted

\* The clean-up keeps each window or drops one that ended a minute ago.
LEMMA SweptFacts ==
    ASSUME NEW map, NEW t, map \in [Keys -> Window \cup {NoWindow}]
    PROVE  /\ Swept(map, t) \in [Keys -> Window \cup {NoWindow}]
           /\ \A k \in Keys :
                 \/ Swept(map, t)[k] = map[k]
                 \/ Swept(map, t)[k] = NoWindow /\ Old(map[k], t)
  <1> DEFINE clean == [k \in Keys |-> IF Held(map[k]) /\ Old(map[k], t)
                                      THEN NoWindow ELSE map[k]]
  <1>1. Swept(map, t) = map \/ Swept(map, t) = clean
    BY DEF Swept
  <1>2. /\ clean \in [Keys -> Window \cup {NoWindow}]
        /\ \A k \in Keys :
              clean[k] = map[k] \/ (clean[k] = NoWindow /\ Old(map[k], t))
    OBVIOUS
  <1> HIDE DEF clean
  <1> QED
    BY <1>1, <1>2

LEMMA DecideStep ==
    ASSUME IInv, NEW r \in Requests, Decide(r)
    PROVE  TypeOK' /\ unswept' \in [Keys -> Window' \cup {NoWindow}] /\ WindowsAgree'
  <1> DEFINE k == key[r]
             t == stamp[r]
             counted == Counted(unswept[k], t)
             map == [windows EXCEPT ![k] = counted]
  <1>1. /\ k \in Keys /\ t \in 0 .. now /\ now \in Nat /\ now - MaxDelay <= t
        /\ counted \in Window /\ t - counted.start < Minute
        /\ unswept' = [unswept EXCEPT ![k] = counted]
        /\ windows' = Swept(map, t)
        /\ \/ admitted' = [admitted EXCEPT ![k] = Append(@, now)]
           \/ admitted' = admitted
        /\ now' = now /\ Answered(r)
    BY DecideFacts
  <1>2. /\ windows \in [Keys -> Window \cup {NoWindow}]
        /\ unswept \in [Keys -> Window \cup {NoWindow}]
        /\ now \in Clock /\ admitted \in [Keys -> Seq(0 .. now)]
        /\ pc \in [Requests -> {"idle", "waiting"}]
    BY DEF IInv, TypeOK, Window
  <1> HIDE DEF k, t, counted
  <1>3. map \in [Keys -> Window \cup {NoWindow}]
    BY <1>1, <1>2
  <1>4. map[k] = counted /\ \A j \in Keys \ {k} : map[j] = windows[j]
    BY <1>1, <1>2
  <1> HIDE DEF map
  <1>5. /\ windows' \in [Keys -> Window \cup {NoWindow}]
        /\ \A j \in Keys :
              \/ windows'[j] = map[j]
              \/ windows'[j] = NoWindow /\ Old(map[j], t)
    BY <1>1, <1>3, SweptFacts
  <1>6. TypeOK'
    <2>1. pc' \in [Requests -> {"idle", "waiting"}]
      BY <1>1, <1>2 DEF Answered
    <2>0. key' \in [Requests -> Keys \cup {None}] /\ stamp' \in [Requests -> Clock]
      BY <1>1, Constants DEF Answered, IInv, TypeOK, Clock
    <2>2. \A q \in Requests : pc'[q] = "waiting" =>
             key'[q] \in Keys /\ stamp'[q] \in 0 .. now' /\ now' - stamp'[q] <= MaxDelay
      <3> SUFFICES ASSUME NEW q \in Requests, pc'[q] = "waiting"
                   PROVE  /\ key'[q] \in Keys /\ stamp'[q] \in 0 .. now'
                          /\ now' - stamp'[q] <= MaxDelay
        OBVIOUS
      <3>1. q # r /\ pc[q] = "waiting" /\ key'[q] = key[q] /\ stamp'[q] = stamp[q]
        BY <1>1, <1>2 DEF Answered
      <3> QED
        BY <1>1, <3>1 DEF IInv, TypeOK
    <2>3. admitted' \in [Keys -> Seq(0 .. now)]
      <3>1. now \in 0 .. now
        BY <1>1
      <3>2. Append(admitted[k], now) \in Seq(0 .. now)
        BY <1>1, <1>2, <3>1
      <3> QED
        BY <1>1, <1>2, <3>2
    <2> QED
      BY <1>1, <1>2, <1>5, <2>0, <2>1, <2>2, <2>3 DEF TypeOK, Window
  <1>7. unswept' \in [Keys -> Window' \cup {NoWindow}]
    BY <1>1, <1>2 DEF Window
  <1>8. ASSUME NEW j \in Keys
        PROVE  \/ windows'[j] = unswept'[j]
               \/ windows'[j] = NoWindow /\ now - MaxDelay - unswept'[j].start >= Minute
    <2>1. CASE j = k
      <3>1. ~Old(map[k], t)
        BY <1>1, <1>4, Constants, WindowFacts DEF Old
      <3> QED
        BY <1>1, <1>2, <1>4, <1>5, <2>1, <3>1
    <2>2. CASE j # k /\ windows'[j] = map[j]
      BY <1>1, <1>2, <1>4, <2>2 DEF IInv, WindowsAgree
    <2>3. CASE j # k /\ windows'[j] = NoWindow /\ Old(map[j], t)
      <3>1. unswept'[j] = unswept[j] /\ map[j] = windows[j]
        BY <1>1, <1>2, <1>4, <2>3
      <3>2. CASE windows[j] = unswept[j]
        <4>1. unswept[j].start \in Int
          BY <1>2, WindowFacts DEF NoWindow
        <4>2. t - unswept[j].start > 2 * Minute
          BY <2>3, <3>1, <3>2 DEF Old
        <4>3. now - MaxDelay - unswept[j].start >= Minute
          BY <1>1, <4>1, <4>2, Constants
        <4> QED
          BY <2>3, <3>1, <4>3
      <3>3. CASE windows[j] # unswept[j]
        BY <2>3, <3>1, <3>3 DEF IInv, WindowsAgree
      <3> QED
        BY <3>2, <3>3
    <2> QED
      BY <1>5, <2>1, <2>2, <2>3
  <1> QED
    BY <1>1, <1>6, <1>7, <1>8 DEF WindowsAgree

\* A step that touches neither windows nor admissions keeps what is said of them.
LEMMA LogUnchanged ==
    ASSUME IInv, UNCHANGED <<unswept, admitted>>
    PROVE  BurstBounded' /\ \A k \in Keys : WindowCounts(k)'
  BY DEF IInv, BurstBounded, WindowCounts, Recent

\* An admission and what a key's window admitted before it.
LEMMA LogStep ==
    ASSUME IInv, NEW r \in Requests, Decide(r)
    PROVE  BurstBounded' /\ \A k \in Keys : WindowCounts(k)'
  <1>0. PICK k \in Keys : k = key[r]
    BY DecideFacts
  <1> DEFINE t == stamp[r]
             w == unswept[k]
             counted == Counted(w, t)
             log == admitted[k]
             n == Len(log)
  <1>1. /\ k \in Keys /\ t \in 0 .. now /\ now \in Nat /\ now - MaxDelay <= t
        /\ counted \in Window /\ t - counted.start < Minute
        /\ unswept' = [unswept EXCEPT ![k] = counted]
        /\ \/ Allows(counted) /\ admitted' = [admitted EXCEPT ![k] = Append(@, now)]
           \/ ~Allows(counted) /\ admitted' = admitted
    BY <1>0, DecideFacts
  <1>2. /\ unswept \in [Keys -> Window \cup {NoWindow}]
        /\ admitted \in [Keys -> Seq(0 .. now)]
        /\ \A j \in Keys : WindowCounts(j)
        /\ BurstBounded
    BY DEF IInv, TypeOK
  <1>3. /\ log \in Seq(0 .. now) /\ n \in Nat
        /\ \A i \in 1 .. n : log[i] \in 0 .. now
        /\ WindowCounts(k)
    BY <1>1, <1>2
  <1>4. /\ unswept'[k] = counted
        /\ counted.start \in 0 .. now /\ counted.count \in Nat \ {0}
        /\ counted # NoWindow
    BY <1>1, <1>2, WindowFacts DEF Held
  <1>5. /\ w.start \in 0 .. now /\ w.count \in Nat
        /\ w = NoWindow => log = <<>>
        /\ w # NoWindow => w.count > 0
    BY <1>1, <1>2, <1>3, WindowFacts DEF NoWindow, WindowCounts
  <1>6. \A j \in Keys \ {k} : unswept'[j] = unswept[j] /\ admitted'[j] = admitted[j]
    BY <1>1, <1>2
  <1>7. \/ Allows(counted) /\ admitted'[k] = Append(log, now)
        \/ ~Allows(counted) /\ admitted'[k] = log
    BY <1>1, <1>2
  <1> DEFINE m == Recent(k)
             new == admitted'[k]
  <1>8. /\ m \in 0 .. Limit /\ m <= n
        /\ \A i \in 1 .. n :
              /\ log[i] < w.start + Minute + MaxDelay
              /\ i > n - m => log[i] >= w.start
              /\ i <= n - m => log[i] < w.start + MaxDelay
              /\ i <= n - m - Limit => log[i] < w.start + MaxDelay - Minute
    BY <1>3, <1>5, Constants DEF WindowCounts, Recent
  <1>9. Recent(k)' = IF counted.count < Limit THEN counted.count ELSE Limit
    BY <1>4 DEF Recent
  <1> HIDE DEF t, w, counted, log, n, m
  <1>10. ASSUME new = Append(log, now)
         PROVE  /\ Len(new) = n + 1 /\ new[n + 1] = now
                /\ \A i \in 1 .. n : new[i] = log[i]
    BY <1>3, <1>10 DEF n
  <1>11. WindowCounts(k)'
    <2> SUFFICES
          /\ Recent(k)' <= Len(new)
          /\ \A i \in 1 .. Len(new) :
                /\ new[i] < counted.start + Minute + MaxDelay
                /\ i > Len(new) - Recent(k)' => new[i] >= counted.start
                /\ i <= Len(new) - Recent(k)' => new[i] < counted.start + MaxDelay
                /\ i <= Len(new) - Recent(k)' - Limit =>
                      new[i] < counted.start + MaxDelay - Minute
      BY <1>4 DEF WindowCounts
    <2>1. CASE ~Held(w) \/ t - w.start >= Minute
      <3>1. counted.start = t /\ counted.count = 1
        BY <2>1 DEF Counted, counted
      <3>2. Allows(counted) /\ Recent(k)' = 1
        BY <1>9, <3>1, Constants DEF Allows
      <3>3. Len(new) = n + 1 /\ new[n + 1] = now /\ \A i \in 1 .. n : new[i] = log[i]
        BY <1>7, <1>10, <3>2
      <3>4. CASE log = <<>>
        BY <1>1, <1>3, <3>1, <3>2, <3>3, <3>4, Constants DEF n
      <3>5. CASE t - w.start >= Minute
        <4>1. \A i \in 1 .. n : log[i] < t + MaxDelay
          BY <1>1, <1>3, <1>5, <1>8, <3>5, Constants
        <4>2. ASSUME NEW i \in 1 .. n, i <= n - Limit
              PROVE  log[i] < t + MaxDelay - Minute
          <5>1. i <= n - m
            BY <1>3, <1>8, <4>2, Constants
          <5>2. log[i] < w.start + MaxDelay /\ log[i] \in Int
            BY <1>1, <1>3, <1>8, <5>1
          <5> QED
            BY <1>1, <1>5, <3>5, <5>2, Constants
        <4> QED
          BY <1>1, <1>3, <3>1, <3>2, <3>3, <4>1, <4>2, Constants
      <3> QED
        BY <1>5, <2>1, <3>4, <3>5 DEF Held
    <2>2. CASE Held(w) /\ ~(t - w.start >= Minute)
      <3>1. counted.start = w.start /\ counted.count = w.count + 1
        BY <1>1, <1>2, <2>2, WindowFacts DEF Counted, counted, w, Window
      <3>2. m = IF w.count < Limit THEN w.count ELSE Limit
        BY DEF m, Recent, w
      <3>3. CASE w.count < Limit
        <4>1. Allows(counted) /\ Recent(k)' = m + 1
          BY <1>5, <1>9, <3>1, <3>2, <3>3, Constants DEF Allows
        <4>2. Len(new) = n + 1 /\ new[n + 1] = now /\ \A i \in 1 .. n : new[i] = log[i]
          BY <1>7, <1>10, <4>1
        <4>3. now < w.start + Minute + MaxDelay /\ now >= w.start
          BY <1>1, <1>5, <2>2, Constants
        <4>4. Len(new) - Recent(k)' = n - m /\ Recent(k)' <= Len(new)
          BY <1>3, <1>8, <4>1, <4>2
        <4>5. ASSUME NEW i \in 1 .. n + 1
              PROVE  /\ new[i] < w.start + Minute + MaxDelay
                     /\ i > n - m => new[i] >= w.start
                     /\ i <= n - m => new[i] < w.start + MaxDelay
                     /\ i <= n - m - Limit => new[i] < w.start + MaxDelay - Minute
          <5>1. CASE i \in 1 .. n
            BY <1>8, <4>2, <5>1
          <5>2. CASE i = n + 1
            BY <1>3, <1>8, <4>2, <4>3, <5>2, Constants
          <5> QED
            BY <1>3, <5>1, <5>2
        <4> QED
          BY <3>1, <4>2, <4>4, <4>5
      <3>4. CASE w.count >= Limit
        <4>1. ~Allows(counted) /\ Recent(k)' = m
          BY <1>5, <1>9, <3>1, <3>2, <3>4, Constants DEF Allows
        <4>2. new = log
          BY <1>7, <4>1
        <4> QED
          BY <1>3, <1>8, <3>1, <4>1, <4>2 DEF n
      <3> QED
        BY <1>5, <3>3, <3>4, Constants
    <2> QED
      BY <2>1, <2>2
  <1>12. ASSUME NEW i \in DOMAIN new, NEW j \in DOMAIN new, j = i + 2 * Limit
         PROVE  new[j] - new[i] > Minute - MaxDelay
    <2>1. CASE new = log
      BY <1>1, <1>2, <1>3, <1>12, <2>1 DEF BurstBounded, log
    <2>2. CASE new = Append(log, now)
      <3>1. Len(new) = n + 1 /\ new[n + 1] = now /\ \A x \in 1 .. n : new[x] = log[x]
        BY <1>10, <2>2
      <3>2. DOMAIN new = 1 .. n + 1 /\ DOMAIN log = 1 .. n
        BY <1>3, <2>2 DEF n
      <3>3. CASE j <= n
        <4>1. i \in DOMAIN log /\ j \in DOMAIN log
          BY <1>3, <1>12, <3>2, <3>3, Constants
        <4>2. log[j] - log[i] > Minute - MaxDelay
          BY <1>1, <1>2, <1>12, <4>1 DEF BurstBounded, log
        <4> QED
          BY <3>1, <3>2, <4>1, <4>2
      <3>4. CASE j = n + 1
        <4>1. /\ Recent(k)' \in 1 .. Limit
              /\ i \in 1 .. Len(new) /\ i <= Len(new) - Recent(k)' - Limit
          BY <1>3, <1>4, <1>9, <1>12, <3>1, <3>2, <3>4, Constants
        <4>2. new[i] < counted.start + MaxDelay - Minute
          BY <1>4, <1>11, <4>1 DEF WindowCounts
        <4>3. new[i] \in Int
          BY <1>1, <1>3, <3>1, <3>2
        <4> QED
          BY <1>1, <1>4, <3>1, <3>4, <4>2, <4>3, Constants
      <3> QED
        BY <1>3, <3>2, <3>3, <3>4
    <2> QED
      BY <1>7, <2>1, <2>2
  <1>13. ASSUME NEW j \in Keys \ {k}
         PROVE  WindowCounts(j)'
    BY <1>2, <1>6 DEF WindowCounts, Recent
  <1>14. BurstBounded'
    BY <1>2, <1>6, <1>12 DEF BurstBounded
  <1> QED
    BY <1>11, <1>13, <1>14

LEMMA TickStep ==
    ASSUME IInv, Tick
    PROVE  IInv'
  <1>1. /\ now \in Clock /\ now < MaxTime /\ now' = now + 1
        /\ UNCHANGED <<windows, pc, key, stamp, unswept, admitted>>
        /\ \A r \in Requests : pc[r] = "waiting" => now < stamp[r] + MaxDelay
    BY DEF IInv, TypeOK, Tick
  <1>2. now \in Nat /\ now' \in Clock /\ 0 .. now \subseteq 0 .. now'
    BY <1>1, Constants DEF Clock
  <1>3. Window \subseteq Window'
    BY <1>2 DEF Window
  <1>4. \A r \in Requests : pc[r] = "waiting" =>
           key[r] \in Keys /\ stamp[r] \in 0 .. now' /\ now' - stamp[r] <= MaxDelay
    <2> SUFFICES ASSUME NEW r \in Requests, pc[r] = "waiting"
                 PROVE  /\ key[r] \in Keys /\ stamp[r] \in 0 .. now'
                        /\ now' - stamp[r] <= MaxDelay
      OBVIOUS
    <2>1. key[r] \in Keys /\ stamp[r] \in 0 .. now /\ now < stamp[r] + MaxDelay
      BY <1>1 DEF IInv, TypeOK
    <2> QED
      BY <1>1, <1>2, <2>1, Constants
  <1>5. windows \in [Keys -> Window' \cup {NoWindow}]
        /\ unswept \in [Keys -> Window' \cup {NoWindow}]
    BY <1>3 DEF IInv, TypeOK, Window
  <1>0. admitted \in [Keys -> Seq(0 .. now')]
    <2>1. Seq(0 .. now) \subseteq Seq(0 .. now')
      BY <1>2, SeqMonotonic
    <2> QED
      BY <2>1 DEF IInv, TypeOK
  <1>6. TypeOK'
    BY <1>0, <1>1, <1>2, <1>4, <1>5 DEF IInv, TypeOK, Window
  <1>7. ASSUME NEW j \in Keys, windows[j] = NoWindow,
               now - MaxDelay - unswept[j].start >= Minute
        PROVE  now' - MaxDelay - unswept[j].start >= Minute
    <2>1. unswept[j].start \in Int
      BY WindowFacts DEF IInv, NoWindow
    <2> QED
      BY <1>1, <1>2, <1>7, <2>1, Constants
  <1>8. WindowsAgree'
    BY <1>1, <1>7 DEF IInv, WindowsAgree
  <1>9. BurstBounded' /\ \A k \in Keys : WindowCounts(k)'
    BY <1>1, LogUnchanged
  <1> QED
    BY <1>1, <1>5, <1>6, <1>8, <1>9 DEF IInv

LEMMA ReadStep ==
    ASSUME IInv, NEW r \in Requests, NEW k \in Keys, ReadClock(r, k)
    PROVE  IInv'
  <1>1. /\ pc' = [pc EXCEPT ![r] = "waiting"] /\ key' = [key EXCEPT ![r] = k]
        /\ stamp' = [stamp EXCEPT ![r] = now]
        /\ UNCHANGED <<now, windows, unswept, admitted>>
    BY DEF ReadClock
  <1>2. now \in Nat /\ now \in 0 .. now /\ now - now <= MaxDelay
    BY Constants DEF IInv, TypeOK, Clock
  <1>3. \A q \in Requests : pc'[q] = "waiting" =>
           key'[q] \in Keys /\ stamp'[q] \in 0 .. now /\ now - stamp'[q] <= MaxDelay
    <2> SUFFICES ASSUME NEW q \in Requests, pc'[q] = "waiting"
                 PROVE  /\ key'[q] \in Keys /\ stamp'[q] \in 0 .. now
                        /\ now - stamp'[q] <= MaxDelay
      OBVIOUS
    <2>1. CASE q = r
      BY <1>1, <1>2, <2>1 DEF IInv, TypeOK
    <2>2. CASE q # r
      BY <1>1, <2>2 DEF IInv, TypeOK
    <2> QED
      BY <2>1, <2>2
  <1>4. TypeOK'
    BY <1>1, <1>3 DEF IInv, TypeOK
  <1>5. BurstBounded' /\ \A j \in Keys : WindowCounts(j)'
    BY <1>1, LogUnchanged
  <1> QED
    BY <1>1, <1>4, <1>5 DEF IInv, WindowsAgree, Window

LEMMA InvInit == Init => IInv
  <1> SUFFICES ASSUME Init PROVE IInv
    OBVIOUS
  <1>1. 0 \in Clock
    BY Constants DEF Clock
  <1>2. TypeOK
    BY <1>1 DEF Init, TypeOK
  <1>3. BurstBounded /\ \A k \in Keys : WindowCounts(k)
    BY Constants DEF Init, BurstBounded, WindowCounts, Recent, NoWindow
  <1> QED
    BY <1>2, <1>3 DEF Init, IInv, WindowsAgree

LEMMA InvStutter == IInv /\ UNCHANGED vars => IInv'
  <1> SUFFICES ASSUME IInv, UNCHANGED vars PROVE IInv'
    OBVIOUS
  <1>1. BurstBounded' /\ \A k \in Keys : WindowCounts(k)'
    BY LogUnchanged DEF vars
  <1> QED
    BY <1>1 DEF vars, IInv, TypeOK, WindowsAgree, Window

\* The invariant holds of every behaviour.
THEOREM Invariance == Spec => []IInv
  <1>1. IInv /\ [Next]_vars => IInv'
    BY InvStutter, TickStep, DecideStep, LogStep, ReadStep DEF Next, IInv
  <1> QED
    BY InvInit, <1>1, PTL DEF Spec

-----------------------------------------------------------------------------
(* What the invariant gives *)

\* The only step that makes a waiting request idle is its own decision.
LEMMA DeciderIsDecided ==
    ASSUME IInv, Next, NEW r \in Requests, NEW k \in Keys, DecidesFor(r, k)
    PROVE  Decide(r) /\ key[r] = k
  <1>1. pc[r] = "waiting" /\ pc'[r] = "idle" /\ key[r] = k
    BY DEF DecidesFor
  <1>2. pc \in [Requests -> {"idle", "waiting"}]
    BY DEF IInv, TypeOK
  <1>3. ~Tick
    BY <1>1 DEF Tick
  <1>4. \A q \in Requests, j \in Keys : ~ReadClock(q, j)
    BY <1>1, <1>2 DEF ReadClock
  <1>5. \A q \in Requests : Decide(q) => q = r
    BY <1>1, <1>2 DEF Decide, Answered
  <1> QED
    BY <1>1, <1>3, <1>4, <1>5 DEF Next

\* An admission shows in the log.
LEMMA AppendChanges ==
    ASSUME NEW k \in Keys, admitted \in [Keys -> Seq(0 .. now)]
    PROVE  [admitted EXCEPT ![k] = Append(@, now)] # admitted
  <1>1. admitted[k] \in Seq(0 .. now)
    OBVIOUS
  <1>2. Len(Append(admitted[k], now)) = Len(admitted[k]) + 1 /\ Len(admitted[k]) \in Nat
    BY <1>1
  <1>3. Append(admitted[k], now) # admitted[k]
    BY <1>2
  <1> QED
    BY <1>3

\* Type correctness of the clock, the map and the requests.
THEOREM TypeCorrect == Spec => []TypeOK
  BY Invariance, PTL DEF IInv

\* More than twice the limit needs more than a minute less a wait.
THEOREM BurstsAreBounded == Spec => []BurstBounded
  BY Invariance, PTL DEF IInv

\* Whoever is refused finds the limit used up within the last minute and a wait.
THEOREM DenialsAreEarned == Spec => DenialIsEarned
  <1> DEFINE Earned ==
        \A r \in Requests, k \in Keys :
          DecidesFor(r, k) /\ admitted' = admitted =>
             LET recent == {i \in DOMAIN admitted[k] :
                                admitted[k][i] > now - Minute - MaxDelay}
             IN Cardinality(recent) >= Limit
  <1>1. IInv /\ [Next]_vars => [Earned]_vars
    <2> SUFFICES ASSUME IInv, Next, NEW r \in Requests, NEW k \in Keys,
                        DecidesFor(r, k), admitted' = admitted
                 PROVE  Cardinality({i \in DOMAIN admitted[k] :
                           admitted[k][i] > now - Minute - MaxDelay}) >= Limit
      BY DEF Earned
    <2> DEFINE w == unswept[k]
               log == admitted[k]
               n == Len(log)
               recent == {i \in DOMAIN log : log[i] > now - Minute - MaxDelay}
    <2>1. Decide(r) /\ key[r] = k
      BY DeciderIsDecided
    <2>2. /\ stamp[r] \in 0 .. now /\ now \in Nat /\ now - MaxDelay <= stamp[r]
          /\ ~Allows(Counted(w, stamp[r]))
          /\ stamp[r] - Counted(w, stamp[r]).start < Minute
      <3>1. admitted' # [admitted EXCEPT ![k] = Append(@, now)]
        BY AppendChanges DEF IInv, TypeOK
      <3> QED
        BY <2>1, <3>1, DecideFacts
    <2>3. /\ w \in Window \cup {NoWindow} /\ log \in Seq(0 .. now)
          /\ WindowCounts(k)
      <3>1. /\ unswept \in [Keys -> Window \cup {NoWindow}]
            /\ admitted \in [Keys -> Seq(0 .. now)]
            /\ \A j \in Keys : WindowCounts(j)
        BY DEF IInv, TypeOK
      <3> QED
        BY <3>1
    <2> HIDE DEF log
    <2>13. n \in Nat /\ DOMAIN log = 1 .. n /\ \A i \in 1 .. n : log[i] \in 0 .. now
      BY <2>3, LenProperties, ElementOfSeq
    <2>4. Held(w) /\ ~(stamp[r] - w.start >= Minute)
      BY <2>2, Constants DEF Counted, Allows
    <2>5. w.count >= Limit /\ w.start \in 0 .. now
      BY <2>2, <2>3, <2>4, WindowFacts, Constants DEF Counted, Allows, Window, Held
    <2>6. Recent(k) = Limit
      BY <2>3, <2>4, <2>5, WindowFacts, Constants DEF Recent
    <2>7. n \in Nat /\ Limit <= n /\ \A i \in 1 .. n : i > n - Limit => log[i] >= w.start
      BY <2>3, <2>6, <2>13 DEF WindowCounts, log
    <2> HIDE DEF w, n
    <2>8. ((n - Limit + 1) .. n) \subseteq recent
      <3> SUFFICES ASSUME NEW i \in (n - Limit + 1) .. n PROVE i \in recent
        OBVIOUS
      <3>1. i \in 1 .. n /\ i > n - Limit
        BY <2>7, Constants
      <3>2. log[i] >= w.start /\ log[i] \in 0 .. now
        BY <2>7, <2>13, <3>1
      <3>3. log[i] > now - Minute - MaxDelay
        BY <2>2, <2>4, <2>5, <3>2, Constants
      <3> QED
        BY <2>13, <3>1, <3>3
    <2>9. Cardinality((n - Limit + 1) .. n) = Limit
      BY <2>7, Constants, FS_Interval
    <2>10. IsFiniteSet(recent)
      <3>1. recent \in SUBSET (1 .. n) /\ IsFiniteSet(1 .. n)
        BY <2>13, FS_Interval
      <3> QED
        BY <3>1, FS_Subset
    <2>11. Cardinality((n - Limit + 1) .. n) <= Cardinality(recent)
      BY <2>8, <2>10, FS_Subset
    <2>12. Cardinality(recent) \in Nat
      BY <2>10, FS_CardinalityType
    <2>14. Cardinality(recent) >= Limit
      BY <2>9, <2>11, <2>12, Constants
    <2> QED
      BY <2>14 DEF log
  <1>2. Spec => [][Earned]_vars
    BY Invariance, <1>1, PTL DEF Spec
  <1> QED
    BY <1>2 DEF DenialIsEarned

\* No request is decided differently because windows are dropped.
THEOREM SweepingHarmless == Spec => SweepingDecidesNothing
  <1> DEFINE Same ==
        \A r \in Requests, k \in Keys :
          DecidesFor(r, k) =>
             (admitted' # admitted <=> Allows(Counted(unswept[k], stamp[r])))
  <1>1. IInv /\ [Next]_vars => [Same]_vars
    <2> SUFFICES ASSUME IInv, Next, NEW r \in Requests, NEW k \in Keys,
                        DecidesFor(r, k)
                 PROVE  admitted' # admitted <=> Allows(Counted(unswept[k], stamp[r]))
      BY DEF Same
    <2>1. /\ pc \in [Requests -> {"idle", "waiting"}]
          /\ admitted \in [Keys -> Seq(0 .. now)]
      BY DEF IInv, TypeOK
    <2>2. Decide(r)
      BY DeciderIsDecided
    <2>3. /\ key[r] = k
          /\ \/ /\ Allows(Counted(unswept[k], stamp[r]))
                /\ admitted' = [admitted EXCEPT ![k] = Append(@, now)]
             \/ ~Allows(Counted(unswept[k], stamp[r])) /\ admitted' = admitted
      BY <2>2, DecideFacts DEF DecidesFor
    <2>4. [admitted EXCEPT ![k] = Append(@, now)] # admitted
      BY <2>1, AppendChanges
    <2> QED
      BY <2>3, <2>4
  <1>2. Spec => [][Same]_vars
    BY Invariance, <1>1, PTL DEF Spec
  <1> QED
    BY <1>2 DEF SweepingDecidesNothing
=============================================================================
