---------------------------- MODULE RateLimiter ----------------------------
(***************************************************************************)
(* The rate limiter of ChatPolicy under concurrent callers: what the fixed *)
(* windows are worth to somebody who counts messages.  A caller is one     *)
(* call of Policy.checkRate: it reads the clock, waits for Policy.mu, and  *)
(* decides with the time it read.  A wait lasts at most MaxSkew ticks.     *)
(***************************************************************************)
EXTENDS ChatPolicy

CONSTANTS
  Callers,      \* calls of checkRate
  MaxSkew,      \* longest wait for the mutex
  EndOfTime     \* bound on the clock

ASSUME RateLimiterAssumption ==
  /\ RateLimit > 0
  /\ MaxSkew \in Nat /\ EndOfTime \in Nat
  /\ IsFiniteSet(Callers)

VARIABLES
  step,         \* step[c]: "new", "timed", "granted" or "refused"
  asker,        \* asker[c]: the source caller c asks for
  stamp,        \* stamp[c]: the time c read
  decided,      \* history: decided[c], when c had its answer
  evicted       \* history: sources whose window was evicted for room

limiterVars == <<now, windows, step, asker, stamp, decided, evicted>>

LimiterInit ==
  /\ PolicyInit
  /\ step = [c \in Callers |-> "new"]
  /\ asker \in [Callers -> Sources]
  /\ stamp = [c \in Callers |-> 0]
  /\ decided = [c \in Callers |-> 0]
  /\ evicted = {}

ReadClock(c) ==
  /\ step[c] = "new"
  /\ step' = [step EXCEPT ![c] = "timed"]
  /\ stamp' = [stamp EXCEPT ![c] = now]
  /\ UNCHANGED <<now, windows, asker, decided, evicted>>

Decide(c) ==
  /\ step[c] = "timed"
  /\ \E ok \in BOOLEAN :
       /\ CheckRate(asker[c], stamp[c], ok)
       /\ step' = [step EXCEPT ![c] = IF ok THEN "granted" ELSE "refused"]
  /\ decided' = [decided EXCEPT ![c] = now]
  /\ evicted' = evicted \cup (DOMAIN PruneWindows(stamp[c]) \ DOMAIN windows')
                        \cup (IF Cardinality(DOMAIN PruneWindows(stamp[c]))
                                   >= MaxRateWindows
                              THEN {asker[c]} ELSE {})
  /\ UNCHANGED <<now, asker, stamp>>

\* Nobody waits for the mutex longer than MaxSkew.
LimiterTick ==
  /\ \A c \in Callers : step[c] = "timed" => now - stamp[c] < MaxSkew
  /\ Tick(EndOfTime)
  /\ UNCHANGED <<windows, step, asker, stamp, decided, evicted>>

LimiterNext ==
  \/ \E c \in Callers : ReadClock(c) \/ Decide(c)
  \/ LimiterTick

LimiterSpec == LimiterInit /\ [][LimiterNext]_limiterVars

-----------------------------------------------------------------------------
\* The calls of src that were granted between two instants.
Granted(src, from, to) ==
  {c \in Callers : /\ step[c] = "granted" /\ asker[c] = src
                   /\ from <= decided[c] /\ decided[c] <= to}

\* No interval shorter than one window, less the time a caller may have
\* waited, sees more than twice the limit from a source that was never
\* evicted: a fixed window lets a burst through on both sides of its border,
\* never a third.  One tick more and it may: a caller that waited may still
\* fill the old window in the tick in which another one opens the next.
BurstBounded ==
  \A src \in Sources \ evicted, t \in 0..now :
    Cardinality(Granted(src, t, t + RateWindow - MaxSkew - 1)) <= 2 * RateLimit

\* Nobody is refused for what others sent or for what is long past: the
\* source itself had its RateLimit messages within the last window.
RefusedForCause ==
  \A c \in Callers : step[c] = "refused" =>
    Cardinality(Granted(asker[c], decided[c] - RateWindow - MaxSkew + 1,
                        decided[c])) >= RateLimit

\* What the fixed windows are worth: no source gets more than a double burst,
\* none is refused for others, and the map stays within its capacity.
LimiterFair == BurstBounded /\ RefusedForCause /\ WindowsBounded
=============================================================================
