----------------------------- MODULE MCChatEdge -----------------------------
(***************************************************************************)
(* The two gates in front of the queue of jobs: the poller of Telegram and *)
(* the rate limiter.  They share no variable, so that one run takes them   *)
(* side by side: a behaviour is one of TelegramPoll or of RateLimiter, and *)
(* the other one stays in an initial state.  Callers are numbers, and those *)
(* of a source come one after the other: the rest is the same by symmetry. *)
(***************************************************************************)
EXTENDS RateLimiter, TelegramPoll

VARIABLE part

EdgeInit ==
  /\ PollInit /\ LimiterInit
  /\ \A c, d \in Callers : c < d => asker[c] <= asker[d]
  /\ \/ part = "poll" /\ \A c \in Callers : asker[c] = CHOOSE s \in Sources : TRUE
     \/ part = "limiter" /\ kind = [u \in Updates |-> "run"]

EdgeNext ==
  /\ UNCHANGED part
  /\ \/ part = "poll" /\ PollNext /\ UNCHANGED limiterVars
     \/ part = "limiter" /\ LimiterNext /\ UNCHANGED pollVars

EdgeSpec ==
  /\ EdgeInit /\ [][EdgeNext]_<<pollVars, limiterVars, part>>
  /\ part = "poll" => PollFairness
=============================================================================
