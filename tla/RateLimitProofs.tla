--------------------------- MODULE RateLimitProofs ---------------------------
(***************************************************************************)
(* Proofs about RateLimit.tla, for every set of identifiers, limit, window *)
(* length, clock resolution and every bound of the model.                  *)
(*                                                                         *)
(* GrantedExact is inductive together with the types.  TwoBurstBound needs *)
(* to know where the log stands relative to the current window: its last   *)
(* granted[k] entries belong to the window, the entries before them are    *)
(* not younger than its start, and those more than a full allowance before *)
(* them are at least a whole window older than it.                         *)
(***************************************************************************)
EXTENDS RateLimit, TLAPS

-----------------------------------------------------------------------------
(* Types *)

\* The ranges of the constants, as the proofs cite them.
LEMMA WindowType == Window \in Nat
BY RateLimitAssumption DEF Window

LEMMA RetryAfterType ==
    ASSUME NEW w \in [start : Nat, count : Nat], NEW t \in Nat
    PROVE  RetryAfter(w, t) \in Nat
<1> DEFINE left == (Window - (t - w.start)) \div TicksPerSecond
<1>1. left \in Int
  BY WindowType, RateLimitAssumption
<1>2. RetryAfter(w, t) = IF left < 1 THEN 1 ELSE left
  BY DEF RetryAfter
<1> HIDE DEF left
<1>3. QED
  BY <1>1, <1>2

\* Every variable keeps its type through hits and resets.
THEOREM TypeCorrect == Spec => []TypeOK
<1>1. Init => TypeOK
  BY DEF Init, TypeOK, NoWindow
<1>2. TypeOK /\ [Next]_vars => TypeOK'
  <2> SUFFICES ASSUME TypeOK, [Next]_vars
               PROVE  TypeOK'
    OBVIOUS
  <2> USE DEF TypeOK
  <2>1. CASE UNCHANGED vars
    BY <2>1 DEF vars
  <2>2. ASSUME NEW k \in Keys, Reset(k)
        PROVE  TypeOK'
    BY <2>2 DEF Reset, NoWindow
  <2>3. ASSUME NEW k \in Keys, NEW t \in Instants, Hit(k, t)
        PROVE  TypeOK'
    <3>1. t \in Nat
      BY RateLimitAssumption
    <3>2. latest' \in [Keys -> Nat]
      BY <2>3, <3>1 DEF Hit
    <3>3. CASE StartWindow(k, t)
      BY <3>1, <3>2, <3>3 DEF StartWindow, Grant, FirstCount
    <3>4. CASE CountHit(k, t)
      <4>1. window' \in [Keys -> [start : Nat, count : Nat]]
        <5>0. window[k] \in [start : Nat, count : Nat]
          OBVIOUS
        <5>1. [window[k] EXCEPT !.count = window[k].count + 1] \in [start : Nat, count : Nat]
          BY ONLY <5>0
        <5>2. window' = [window EXCEPT ![k] = [window[k] EXCEPT !.count = window[k].count + 1]]
          BY <3>4 DEF CountHit, NextCount
        <5>3. QED
          BY <5>1, <5>2
      <4>2. CASE Grant(k, t, granted[k] + 1)
        BY <3>1, <3>2, <4>1, <4>2 DEF Grant
      <4>3. CASE /\ told' = [told EXCEPT ![k] = t + RetryAfter(window[k], t) * TicksPerSecond]
                 /\ UNCHANGED <<granted, log>>
        <5>1. RetryAfter(window[k], t) \in Nat
          BY <3>1, RetryAfterType
        <5>2. \A r, n \in Nat : t + r * n \in Nat
          BY ONLY <3>1
        <5>3. TicksPerSecond \in Nat
          BY RateLimitAssumption
        <5>4. t + RetryAfter(window[k], t) * TicksPerSecond \in Nat
          BY ONLY <5>1, <5>2, <5>3
        <5>5. QED
          BY <3>2, <4>1, <4>3, <5>4
      <4>4. QED
        BY <3>4, <4>2, <4>3 DEF CountHit
    <3>5. QED
      BY <2>3, <3>3, <3>4 DEF Hit
  <2>4. QED
    BY <2>1, <2>2, <2>3 DEF Next
<1>3. QED
  BY <1>1, <1>2, PTL DEF Spec

-----------------------------------------------------------------------------
(* The counter and what it lets through *)


\* A window grants exactly what it counts, up to the limit.
THEOREM GrantsAreExact == Spec => []GrantedExact
<1>1. Init => GrantedExact
  <2> SUFFICES ASSUME Init, NEW k \in Keys
               PROVE  granted[k] = IF window[k].count <= MaxCount THEN window[k].count ELSE MaxCount
    BY DEF GrantedExact
  <2>1. granted[k] = 0 /\ window[k].count = 0
    BY DEF Init, NoWindow
  <2>2. QED
    BY <2>1, RateLimitAssumption
<1>2. TypeOK /\ GrantedExact /\ [Next]_vars => GrantedExact'
  <2> SUFFICES ASSUME TypeOK, GrantedExact, [Next]_vars
               PROVE  GrantedExact'
    OBVIOUS
  <2> USE RateLimitAssumption DEF TypeOK, GrantedExact
  <2>1. CASE UNCHANGED vars
    BY <2>1 DEF vars
  <2>2. ASSUME NEW k \in Keys, Reset(k)
        PROVE  GrantedExact'
    BY <2>2 DEF Reset, NoWindow
  <2>3. ASSUME NEW k \in Keys, NEW t \in Instants, Hit(k, t)
        PROVE  GrantedExact'
    <3>1. CASE StartWindow(k, t)
      BY <3>1 DEF StartWindow, Grant, FirstCount
    <3>2. CASE CountHit(k, t)
      BY <3>2 DEF CountHit, Grant, NextCount, OverLimit
    <3>3. QED
      BY <2>3, <3>1, <3>2 DEF Hit
  <2>4. QED
    BY <2>1, <2>2, <2>3 DEF Next
<1>3. QED
  BY <1>1, <1>2, TypeCorrect, PTL DEF Spec

-----------------------------------------------------------------------------
(* What an identifier gets out of two windows *)

\* Where the n grants s of one identifier stand relative to the window that
\* began at start and granted g of them; l is the instant of the last hit.
LogShape(n, s, start, g, l) ==
    /\ g <= n
    /\ g <= MaxCount
    /\ g = 0 => n = 0
    /\ start <= l
    /\ \A i \in 1..n : s[i] <= l
    /\ \A i \in 1..n : i <= n - g => s[i] <= start
    /\ \A i \in 1..n : i <= n - g - MaxCount => s[i] + Window < start
    /\ \A i \in 1..n : i + 2 * MaxCount <= n => s[i + 2 * MaxCount] > s[i] + Window

LogInv == \A k \in Keys :
    LogShape(Len(log[k]), log[k], window[k].start, granted[k], latest[k])

\* A hit that starts a window, the last one having expired if there was one.
LEMMA ShapeOfNewWindow ==
    ASSUME NEW n \in Nat, NEW start \in Nat, NEW g \in Nat, NEW l \in Nat, NEW t \in Nat,
           NEW s, NEW r,
           \A i \in 1..n : s[i] \in Nat /\ r[i] = s[i],
           r[n + 1] = t,
           LogShape(n, s, start, g, l),
           t >= l,
           n = 0 \/ start + Window < t
    PROVE  LogShape(n + 1, r, t, 1, t)
<1> USE RateLimitAssumption, WindowType
<1> HIDE DEF Window
<1>1. \A i \in 1..n : i + MaxCount <= n => s[i] + Window < t
  <2> SUFFICES ASSUME NEW i \in 1..n, i + MaxCount <= n
               PROVE  s[i] + Window < t
    OBVIOUS
  <2>1. s[i] <= start
    BY DEF LogShape
  <2>2. QED
    BY <2>1
<1>2. \A i \in 1..(n + 1) : r[i] <= t
  BY DEF LogShape
<1>3. \A i \in 1..(n + 1) : i <= (n + 1) - 1 => r[i] <= t
  BY <1>2
<1>4. \A i \in 1..(n + 1) : i <= (n + 1) - 1 - MaxCount => r[i] + Window < t
  BY <1>1
<1>5. \A i \in 1..(n + 1) : i + 2 * MaxCount <= n + 1 => r[i + 2 * MaxCount] > r[i] + Window
  <2> SUFFICES ASSUME NEW i \in 1..(n + 1), i + 2 * MaxCount <= n + 1
               PROVE  r[i + 2 * MaxCount] > r[i] + Window
    OBVIOUS
  <2>1. i \in 1..n /\ i + MaxCount <= n
    OBVIOUS
  <2>2. CASE i + 2 * MaxCount = n + 1
    BY <1>1, <2>1, <2>2
  <2>3. CASE i + 2 * MaxCount \in 1..n
    BY <2>1, <2>3 DEF LogShape
  <2>4. QED
    BY <2>1, <2>2, <2>3
<1>6. QED
  BY <1>2, <1>3, <1>4, <1>5 DEF LogShape

\* A hit granted in the current window.
LEMMA ShapeOfGrant ==
    ASSUME NEW n \in Nat, NEW start \in Nat, NEW g \in Nat, NEW l \in Nat, NEW t \in Nat,
           NEW s, NEW r,
           \A i \in 1..n : s[i] \in Nat /\ r[i] = s[i],
           r[n + 1] = t,
           LogShape(n, s, start, g, l),
           t >= l,
           g + 1 <= MaxCount
    PROVE  LogShape(n + 1, r, start, g + 1, t)
<1> USE RateLimitAssumption, WindowType
<1> HIDE DEF Window
<1>1. start <= t /\ \A i \in 1..(n + 1) : r[i] <= t
  BY DEF LogShape
<1>2. \A i \in 1..(n + 1) : i <= (n + 1) - (g + 1) => r[i] <= start
  BY DEF LogShape
<1>3. \A i \in 1..(n + 1) : i <= (n + 1) - (g + 1) - MaxCount => r[i] + Window < start
  BY DEF LogShape
<1>4. \A i \in 1..(n + 1) : i + 2 * MaxCount <= n + 1 => r[i + 2 * MaxCount] > r[i] + Window
  <2> SUFFICES ASSUME NEW i \in 1..(n + 1), i + 2 * MaxCount <= n + 1
               PROVE  r[i + 2 * MaxCount] > r[i] + Window
    OBVIOUS
  <2>1. i \in 1..n /\ s[i] \in Nat /\ r[i] = s[i]
    OBVIOUS
  <2>2. CASE i + 2 * MaxCount = n + 1
    <3>1. i <= n - g - MaxCount
      BY <2>2
    <3>2. s[i] + Window < start
      BY <2>1, <3>1 DEF LogShape
    <3>3. QED
      BY <1>1, <2>1, <2>2, <3>2
  <2>3. CASE i + 2 * MaxCount \in 1..n
    BY <2>1, <2>3 DEF LogShape
  <2>4. QED
    BY <2>1, <2>2, <2>3
<1>5. g + 1 <= n + 1 /\ (g + 1 = 0 => n + 1 = 0)
  BY DEF LogShape
<1>6. QED
  BY <1>1, <1>2, <1>3, <1>4, <1>5 DEF LogShape

\* A hit refused: only the instant of the last hit moves.
LEMMA ShapeOfRefusal ==
    ASSUME NEW n \in Nat, NEW start \in Nat, NEW g \in Nat, NEW l \in Nat, NEW t \in Nat,
           NEW s,
           \A i \in 1..n : s[i] \in Nat,
           LogShape(n, s, start, g, l),
           t >= l
    PROVE  LogShape(n, s, start, g, t)
<1>1. start <= t
  BY DEF LogShape
<1>2. \A i \in 1..n : s[i] <= t
  BY DEF LogShape
<1>3. QED
  BY <1>1, <1>2 DEF LogShape

\* The grants of one identifier, as the windows that granted them bound them.
THEOREM LogIsShaped == Spec => []LogInv
<1>1. Init => LogInv
  <2> SUFFICES ASSUME Init, NEW k \in Keys
               PROVE  LogShape(Len(log[k]), log[k], window[k].start, granted[k], latest[k])
    BY DEF LogInv
  <2>1. log[k] = <<>> /\ window[k].start = 0 /\ granted[k] = 0 /\ latest[k] = 0
    BY DEF Init, NoWindow
  <2>2. QED
    BY <2>1, RateLimitAssumption DEF LogShape
<1>2. TypeOK /\ TypeOK' /\ GrantedExact /\ LogInv /\ [Next]_vars => LogInv'
  <2> SUFFICES ASSUME TypeOK, TypeOK', GrantedExact, LogInv, [Next]_vars
               PROVE  LogInv'
    OBVIOUS
  <2>1. CASE UNCHANGED vars
    BY <2>1 DEF vars, LogInv, LogShape
  <2>2. ASSUME NEW k \in Keys, Reset(k)
        PROVE  LogInv'
    <3> SUFFICES ASSUME NEW j \in Keys
                 PROVE  LogShape(Len(log'[j]), log'[j], window'[j].start, granted'[j], latest'[j])
      BY DEF LogInv
    <3>1. CASE j = k
      <4>1. /\ log'[j] = <<>>
            /\ granted'[j] = 0
            /\ window'[j].start = 0
            /\ latest'[j] \in Nat
        BY <2>2, <3>1 DEF Reset, TypeOK, NoWindow
      <4>2. QED
        BY <4>1, RateLimitAssumption DEF LogShape
    <3>2. CASE j # k
      BY <2>2, <3>2 DEF Reset, TypeOK, LogInv
    <3>3. QED
      BY <3>1, <3>2
  <2>3. ASSUME NEW k \in Keys, NEW t \in Instants, Hit(k, t)
        PROVE  LogInv'
    <3> SUFFICES ASSUME NEW j \in Keys
                 PROVE  LogShape(Len(log'[j]), log'[j], window'[j].start, granted'[j], latest'[j])
      BY DEF LogInv
    <3> DEFINE n == Len(log[k])  s == log[k]  g == granted[k]  l == latest[k]
               start == window[k].start
    <3>1. CASE j # k
      BY <2>3, <3>1 DEF Hit, StartWindow, CountHit, Grant, TypeOK, LogInv
    <3>2. /\ t \in Nat /\ t >= l /\ latest'[k] = t
      BY <2>3, RateLimitAssumption DEF Hit, TypeOK
    <3>3. /\ n \in Nat /\ g \in Nat /\ l \in Nat /\ start \in Nat
          /\ \A i \in 1..n : s[i] \in Nat
      <4>1. window[k] \in [start : Nat, count : Nat] /\ s \in Seq(Nat) /\ g \in Nat /\ l \in Nat
        BY DEF TypeOK
      <4>2. start \in Nat
        BY <4>1
      <4>3. n \in Nat /\ \A i \in 1..n : s[i] \in Nat
        BY <4>1
      <4>4. QED
        BY <4>1, <4>2, <4>3
    <3>4. LogShape(n, s, start, g, l)
      BY DEF LogInv
    <3>5. CASE j = k /\ StartWindow(k, t)
      <4>1. /\ Len(log'[k]) = n + 1
            /\ \A i \in 1..n : log'[k][i] = s[i]
            /\ log'[k][n + 1] = t
        BY <3>2, <3>5 DEF StartWindow, Grant, TypeOK
      <4>2. granted'[k] = 1 /\ window'[k].start = t
        BY <3>5 DEF StartWindow, Grant, TypeOK
      <4>3. n = 0 \/ start + Window < t
        <5>1. CASE window[k] = NoWindow
          <6>1. g = 0
            BY <5>1, RateLimitAssumption DEF GrantedExact, NoWindow
          <6>2. QED
            BY <3>4, <6>1 DEF LogShape
        <5>2. CASE start < t - Window
          BY <3>2, <3>3, <5>2, WindowType
        <5>3. QED
          BY <3>5, <5>1, <5>2 DEF StartWindow, Expired
      <4> HIDE DEF n, s, g, l, start
      <4>4. LogShape(n + 1, log'[k], t, 1, t)
        BY <3>2, <3>3, <3>4, <4>1, <4>3, ShapeOfNewWindow
      <4>5. QED
        BY <3>2, <3>5, <4>1, <4>2, <4>4
    <3>6. CASE j = k /\ CountHit(k, t)
      <4>1. window'[k].start = start
        BY <3>6 DEF CountHit, TypeOK
      <4>2. CASE g + 1 <= MaxCount /\ Grant(k, t, g + 1)
        <5>1. /\ Len(log'[k]) = n + 1
              /\ \A i \in 1..n : log'[k][i] = s[i]
              /\ log'[k][n + 1] = t
              /\ granted'[k] = g + 1
          BY <3>2, <4>2 DEF Grant, TypeOK
        <5> HIDE DEF n, s, g, l, start
        <5>2. LogShape(n + 1, log'[k], start, g + 1, t)
          BY <3>2, <3>3, <3>4, <4>2, <5>1, ShapeOfGrant
        <5>3. QED
          BY <3>2, <3>6, <4>1, <5>1, <5>2
      <4>3. CASE UNCHANGED <<granted, log>>
        <5>1. log'[k] = s /\ granted'[k] = g /\ Len(s) = n
          BY <4>3
        <5> HIDE DEF n, s, g, l, start
        <5>2. LogShape(n, s, start, g, t)
          BY <3>2, <3>3, <3>4, ShapeOfRefusal
        <5>3. QED
          BY <3>2, <3>6, <4>1, <5>1, <5>2
      <4>4. CASE ~OverLimit(window[k].count + 1) /\ Grant(k, t, g + 1)
        <5>0. window[k] \in [start : Nat, count : Nat]
          BY DEF TypeOK
        <5>1. g + 1 <= MaxCount
          BY <4>4, <5>0, RateLimitAssumption DEF OverLimit, GrantedExact
        <5>2. QED
          BY <4>2, <4>4, <5>1
      <4>5. QED
        BY <3>6, <4>3, <4>4 DEF CountHit, NextCount
    <3>7. QED
      BY <2>3, <3>1, <3>5, <3>6 DEF Hit
  <2>4. QED
    BY <2>1, <2>2, <2>3 DEF Next
<1>3. QED
  BY <1>1, <1>2, TypeCorrect, GrantsAreExact, PTL DEF Spec

\* 2 * MaxCount + 1 consecutive grants never fit into one window's length.
THEOREM TwoBurstsAtMost == Spec => []TwoBurstBound
<1>1. TypeOK /\ LogInv => TwoBurstBound
  <2> SUFFICES ASSUME TypeOK, LogInv,
                      NEW k \in Keys, NEW i \in DOMAIN log[k],
                      i + 2 * MaxCount \in DOMAIN log[k]
               PROVE  log[k][i + 2 * MaxCount] > log[k][i] + Window
    BY DEF TwoBurstBound
  <2>1. DOMAIN log[k] = 1..Len(log[k])
    BY DEF TypeOK
  <2>2. QED
    BY <2>1 DEF LogInv, LogShape
<1>2. QED
  BY <1>1, TypeCorrect, LogIsShaped, PTL

-----------------------------------------------------------------------------
(* What a refusal tells the caller *)

\* Whole seconds: what integer division leaves over is less than a second.
LEMMA RetryAfterBounds ==
    ASSUME NEW w \in [start : Nat, count : Nat], NEW t \in Nat,
           w.start <= t, ~(w.start < t - Window)
    PROVE  /\ t + RetryAfter(w, t) * TicksPerSecond > w.start + Window - TicksPerSecond
           /\ t + RetryAfter(w, t) * TicksPerSecond <= w.start + Window + TicksPerSecond
<1> DEFINE n == TicksPerSecond
           rest == Window - (t - w.start)
           q == rest \div n
<1>1. n \in Nat /\ n > 0
  BY RateLimitAssumption
<1>2. rest \in Nat
  BY WindowType
<1>3. RetryAfter(w, t) = IF q < 1 THEN 1 ELSE q
  BY DEF RetryAfter
<1>4. w.start + Window = t + rest /\ w.start \in Nat /\ Window \in Nat
  BY WindowType
<1> HIDE DEF n, rest
<1>5. q \in Nat /\ q * n <= rest /\ rest < q * n + n
  BY ONLY <1>1, <1>2
<1> HIDE DEF q
<1>6. CASE q < 1
  <2>1. q = 0 /\ q * n = 0
    BY ONLY <1>1, <1>5, <1>6
  <2>2. RetryAfter(w, t) * n = n
    BY <1>1, <1>3, <1>6
  <2>3. QED
    BY <1>1, <1>2, <1>4, <1>5, <2>1, <2>2 DEF n
<1>7. CASE ~(q < 1)
  <2>1. RetryAfter(w, t) * n = q * n
    BY <1>3, <1>7
  <2>2. q * n \in Nat
    BY ONLY <1>1, <1>5
  <2>3. QED
    BY <1>1, <1>2, <1>4, <1>5, <2>1, <2>2 DEF n
<1>8. QED
  BY <1>6, <1>7

\* A refusal points to the end of the window, to within a second.
THEOREM RefusalsAreTruthful == Spec => []RetryWithinASecond
<1>1. Init => RetryWithinASecond
  BY DEF Init, RetryWithinASecond
<1>2. TypeOK /\ LogInv /\ RetryWithinASecond /\ [Next]_vars => RetryWithinASecond'
  <2> SUFFICES ASSUME TypeOK, LogInv, RetryWithinASecond, [Next]_vars
               PROVE  RetryWithinASecond'
    OBVIOUS
  <2> USE DEF RetryWithinASecond
  <2>1. CASE UNCHANGED vars
    BY <2>1 DEF vars
  <2>2. ASSUME NEW k \in Keys, Reset(k)
        PROVE  RetryWithinASecond'
    BY <2>2 DEF Reset, TypeOK
  <2>3. ASSUME NEW k \in Keys, NEW t \in Instants, Hit(k, t)
        PROVE  RetryWithinASecond'
    <3> SUFFICES ASSUME NEW j \in Keys, told'[j] # 0
                 PROVE  /\ told'[j] > window'[j].start + Window - TicksPerSecond
                        /\ told'[j] <= window'[j].start + Window + TicksPerSecond
      OBVIOUS
    <3>1. CASE j # k
      BY <2>3, <3>1 DEF Hit, StartWindow, CountHit, Grant, TypeOK
    <3>2. CASE \E n : Grant(k, t, n) /\ j = k
      BY <3>2 DEF Grant, TypeOK
    <3>3. CASE /\ j = k
               /\ CountHit(k, t)
               /\ told' = [told EXCEPT ![k] = t + RetryAfter(window[k], t) * TicksPerSecond]
      <4>1. window'[k].start = window[k].start
        BY <3>3 DEF CountHit, TypeOK
      <4>2. told'[k] = t + RetryAfter(window[k], t) * TicksPerSecond
        BY <3>3 DEF TypeOK
      <4>3. window[k] \in [start : Nat, count : Nat] /\ t \in Nat /\ latest[k] \in Nat
        BY RateLimitAssumption DEF TypeOK
      <4>4. window[k].start <= t
        <5>1. window[k].start <= latest[k]
          BY DEF LogInv, LogShape
        <5>2. latest[k] <= t /\ window[k].start \in Nat
          BY <2>3, <4>3 DEF Hit
        <5>3. QED
          BY <4>3, <5>1, <5>2
      <4>5. ~(window[k].start < t - Window)
        BY <3>3 DEF CountHit, Expired
      <4>6. QED
        BY <3>3, <4>1, <4>2, <4>3, <4>4, <4>5, RetryAfterBounds
    <3>4. QED
      BY <2>3, <3>1, <3>2, <3>3 DEF Hit, StartWindow, CountHit
  <2>4. QED
    BY <2>1, <2>2, <2>3 DEF Next
<1>3. QED
  BY <1>1, <1>2, TypeCorrect, LogIsShaped, PTL DEF Spec
=============================================================================
