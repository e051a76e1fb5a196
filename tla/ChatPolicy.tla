----------------------------- MODULE ChatPolicy -----------------------------
(***************************************************************************)
(* The rate limiter of internal/chatops/policy.go: one fixed window of     *)
(* RateWindow ticks per source, kept in a map that holds at most           *)
(* MaxRateWindows entries and evicts an arbitrary one when it is full.     *)
(*                                                                         *)
(* The clock is part of this module because every ChatOps component that   *)
(* reads time.Now shares it.  A request reads the clock before it takes    *)
(* the mutex, so the time it uses may be older than the clock.             *)
(***************************************************************************)
EXTENDS Integers, FiniteSets

CONSTANTS
  Sources,         \* the values of Event.SourceKey
  RateLimit,       \* per_source_per_minute; 0 switches the limiter off
  RateWindow,      \* ticks in one minute
  MaxRateWindows   \* capacity of Policy.windows

ASSUME PolicyAssumption ==
  /\ RateLimit \in Nat
  /\ RateWindow \in Nat \ {0}
  /\ MaxRateWindows \in Nat \ {0}
  /\ IsFiniteSet(Sources)

VARIABLES
  now,             \* the wall clock, in ticks
  windows          \* the map Policy.windows: a function on the tracked sources

Window == [start : Nat, count : Nat \ {0}]

Keep(ws, S) == [s \in DOMAIN ws \cap S |-> ws[s]]

Put(ws, src, w) ==
  [s \in DOMAIN ws \cup {src} |-> IF s = src THEN w ELSE ws[s]]

NoWindows == [s \in {} |-> [start |-> 0, count |-> 1]]

PolicyInit ==
  /\ now = 0
  /\ windows = NoWindows

\* Variants of the definitions below, each with one plausible slip.
OverTooEarly(w, t) == t - w.start >= RateWindow - 1
PruneNothing(t) == windows

\* A window is over once a full minute has passed since it was opened.
WindowOver(w, t) == t - w.start >= RateWindow

\* pruneRateWindowsLocked: drop every window that is over at time t.
PruneWindows(t) ==
  Keep(windows, {s \in DOMAIN windows : ~WindowOver(windows[s], t)})

\* The maps that eviction may leave: at capacity one entry goes, whichever
\* Go's map iteration yields first, even the entry of the asking source.
EvictWindow(ws) ==
  IF Cardinality(DOMAIN ws) >= MaxRateWindows
  THEN {Keep(ws, Sources \ {s}) : s \in DOMAIN ws}
  ELSE {ws}

HasRoom(w) == w.count < RateLimit

Counted(w) == [start |-> w.start, count |-> w.count + 1]

\* checkRate: the source asks at time t and is let through iff ok.
CheckRate(src, t, ok) ==
  \/ /\ RateLimit = 0
     /\ ok
     /\ UNCHANGED windows
  \/ /\ RateLimit > 0
     /\ \E ws \in EvictWindow(PruneWindows(t)) :
          \/ /\ src \notin DOMAIN ws
             /\ ok
             /\ windows' = Put(ws, src, [start |-> t, count |-> 1])
          \/ /\ src \in DOMAIN ws
             /\ HasRoom(ws[src])
             /\ ok
             /\ windows' = Put(ws, src, Counted(ws[src]))
          \/ /\ src \in DOMAIN ws
             /\ ~HasRoom(ws[src])
             /\ ~ok
             /\ windows' = ws

\* Time passes; the bound is the module's user's.
Tick(bound) ==
  /\ now < bound
  /\ now' = now + 1

PolicyTypeOK ==
  /\ now \in Nat
  /\ DOMAIN windows \subseteq Sources
  /\ windows \in [DOMAIN windows -> Window]

\* The limiter's memory is bounded however many sources write to the bot.
WindowsBounded == Cardinality(DOMAIN windows) <= MaxRateWindows
=============================================================================
