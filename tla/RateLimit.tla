----------------------------- MODULE RateLimit -----------------------------
(***************************************************************************)
(* What services/rate_limit.py computes when the calls for one identifier  *)
(* follow one another: hit and reset as single steps.  RateLimitDb.tla     *)
(* models their database statements and implements this specification as   *)
(* long as no two requests serve one identifier at the same time.          *)
(*                                                                         *)
(* Time is counted in ticks, TicksPerSecond to the second, so that the     *)
(* truncation of the Retry-After value to whole seconds is visible.        *)
(***************************************************************************)
EXTENDS Integers, Sequences

CONSTANTS
    Keys,               \* identifiers, e.g. "login:<ip>"
    MaxCount,           \* max_count: LOGIN_MAX_ATTEMPTS, OTP_SEND_MAX
    WindowSeconds,      \* window_seconds
    TicksPerSecond,
    Instants,           \* the instants at which hit may be called
    MaxHits             \* bound on the counter of one window

ASSUME RateLimitAssumption ==
    /\ MaxCount \in Nat \ {0}
    /\ WindowSeconds \in Nat
    /\ TicksPerSecond \in Nat \ {0}
    /\ Instants \subseteq Nat
    /\ MaxHits \in Nat

VARIABLES
    window,     \* [Keys -> row of rate_limits or NoWindow]
    latest,     \* [Keys -> instant of the last hit]
    granted,    \* [Keys -> hits granted in the current window]
    log,        \* [Keys -> instants of the hits granted since the last reset]
    told        \* [Keys -> when the last refusal told the caller to come back]

vars == <<window, latest, granted, log, told>>

NoWindow == [start |-> 0, count |-> 0]
Window == WindowSeconds * TicksPerSecond

Init == /\ window = [k \in Keys |-> NoWindow]
        /\ latest = [k \in Keys |-> 0]
        /\ granted = [k \in Keys |-> 0]
        /\ log = [k \in Keys |-> <<>>]
        /\ told = [k \in Keys |-> 0]

\* row is None or row.window_start < now - window_seconds
Expired(w, t) == w = NoWindow \/ w.start < t - Window

\* Mutant: the time already elapsed is not subtracted.
RetryAfterWholeWindow(w, t) == WindowSeconds

\* max(1, int(window_seconds - elapsed)), in seconds
RetryAfter(w, t) == LET left == (Window - (t - w.start)) \div TicksPerSecond
                    IN IF left < 1 THEN 1 ELSE left

\* Mutant: one hit too many is let through.
OverLimitByTwo(n) == n > MaxCount + 1

\* row.count > max_count, after the increment
OverLimit(n) == n > MaxCount

\* Mutants: an expired row keeps its count; the counter counts down.
KeepsCount(w) == w.count + 1
CountsDown(w) == w.count - 1

FirstCount(w) == 1
NextCount(w) == w.count + 1

Grant(k, t, n) == /\ granted' = [granted EXCEPT ![k] = n]
                  /\ log' = [log EXCEPT ![k] = Append(@, t)]
                  /\ told' = [told EXCEPT ![k] = 0]

StartWindow(k, t) ==
    /\ Expired(window[k], t)
    /\ window' = [window EXCEPT ![k] = [start |-> t, count |-> FirstCount(window[k])]]
    /\ Grant(k, t, 1)

CountHit(k, t) ==
    /\ ~Expired(window[k], t)
    /\ window[k].count < MaxHits
    /\ window' = [window EXCEPT ![k].count = NextCount(window[k])]
    /\ \/ /\ ~OverLimit(NextCount(window[k]))
          /\ Grant(k, t, granted[k] + 1)
       \/ /\ OverLimit(NextCount(window[k]))
          /\ told' = [told EXCEPT ![k] = t + RetryAfter(window[k], t) * TicksPerSecond]
          /\ UNCHANGED <<granted, log>>

Hit(k, t) == /\ t >= latest[k]
             /\ latest' = [latest EXCEPT ![k] = t]
             /\ StartWindow(k, t) \/ CountHit(k, t)

Reset(k) == /\ window' = [window EXCEPT ![k] = NoWindow]
            /\ granted' = [granted EXCEPT ![k] = 0]
            /\ log' = [log EXCEPT ![k] = <<>>]
            /\ told' = [told EXCEPT ![k] = 0]
            /\ UNCHANGED latest

Next == \E k \in Keys : Reset(k) \/ \E t \in Instants : Hit(k, t)

Spec == Init /\ [][Next]_vars

-----------------------------------------------------------------------------
(* Properties *)

\* Every variable has its type.
TypeOK == /\ window \in [Keys -> [start : Nat, count : Nat]]
          /\ latest \in [Keys -> Nat]
          /\ granted \in [Keys -> Nat]
          /\ log \in [Keys -> Seq(Nat)]
          /\ told \in [Keys -> Nat]

\* A window grants exactly the hits it counts, up to the limit: refusals do
\* not eat into the allowance and nothing is granted beyond it.
GrantedExact == \A k \in Keys :
    granted[k] = IF window[k].count <= MaxCount THEN window[k].count ELSE MaxCount

\* Any 2*MaxCount + 1 consecutive grants span more than one window: a burst
\* at the end of one window and another at the start of the next are the most
\* an identifier gets within window_seconds.
TwoBurstBound == \A k \in Keys : \A i \in DOMAIN log[k] :
    i + 2 * MaxCount \in DOMAIN log[k] => log[k][i + 2 * MaxCount] > log[k][i] + Window

\* The Retry-After a refusal sends is right to within a second: it points
\* neither a full second before nor more than a second after the instant at
\* which the window ends, also when the remaining time is rounded up to 1.
RetryWithinASecond == \A k \in Keys : told[k] # 0 =>
    /\ told[k] > window[k].start + Window - TicksPerSecond
    /\ told[k] <= window[k].start + Window + TicksPerSecond

\* services/rate_limit.py:2 calls the limiter "sliding-window", as does
\* core/config.py:44: no MaxCount + 1 grants within window_seconds.
SlidingWindow == \A k \in Keys : \A i \in DOMAIN log[k] :
    i + MaxCount \in DOMAIN log[k] => log[k][i + MaxCount] > log[k][i] + Window
=============================================================================
