---------------------------- MODULE TelegramPoll ----------------------------
(***************************************************************************)
(* `cloudy chatops telegram-poll`: PollOnce (chatops/telegram.go), the     *)
(* loop around it (ui/cli/chatops.go) and what Service.Handle and the      *)
(* queue of jobs answer.  Telegram (external) keeps every update until a   *)
(* getUpdates with a higher offset confirms it, and serves them in order.  *)
(*                                                                         *)
(* An update is "run" (a prompt the policy admits), "refused" (a chat that *)
(* is not allowed, or /ask and /new without a prompt) or "other" (no event *)
(* at all).  The per-source rate limit, which refuses for a while like a   *)
(* full queue, is left out, and so are the keys of Service.seen: a process *)
(* marks an update when it moves the offset past it, and forgets both.     *)
(***************************************************************************)
EXTENDS Naturals, Sequences

CONSTANTS
  MaxUpdates,  \* bound: updates sent to the bot
  BatchLimit,  \* updates of one answer
  Depth,       \* capacity of Queue.jobs
  MaxRestarts  \* bound: crashes of the poller's process

ASSUME TelegramPollAssumption ==
  /\ MaxUpdates \in Nat /\ MaxRestarts \in Nat
  /\ BatchLimit \in Nat \ {0} /\ Depth \in Nat \ {0}

Updates == 1..MaxUpdates
UpdateKinds == {"run", "refused", "other"}

VARIABLES
  kind,       \* update -> what it is
  sent,       \* updates that have reached Telegram are 1..sent
  confirmed,  \* Telegram has forgotten the updates below it
  offset,     \* TelegramPoller.Offset
  phase,      \* "poll", "handle" or "pause"
  batch,      \* updates of the answer that PollOnce has not looked at yet
  jobs,       \* the channel of the queue
  runs,       \* update -> how often it was queued, in all processes
  restarts

pollVars == <<kind, sent, confirmed, offset, phase, batch, jobs, runs, restarts>>
telegramVars == <<kind, sent, confirmed>>

PollTypeOK ==
  /\ kind \in [Updates -> UpdateKinds]
  /\ sent \in 0..MaxUpdates
  /\ confirmed \in 0..MaxUpdates + 1
  /\ offset \in 0..MaxUpdates + 1
  /\ phase \in {"poll", "handle", "pause"}
  /\ batch \in Seq(Updates) /\ Len(batch) <= BatchLimit
  /\ jobs \in Seq(Updates) /\ Len(jobs) <= Depth
  /\ runs \in [Updates -> Nat]
  /\ restarts \in 0..MaxRestarts

PollInit ==
  /\ kind \in [Updates -> UpdateKinds]
  /\ sent = 0
  /\ confirmed = 0
  /\ offset = 0
  /\ phase = "poll"
  /\ batch = <<>>
  /\ jobs = <<>>
  /\ runs = [u \in Updates |-> 0]
  /\ restarts = 0

---------------------------------------------------------------------------
(* Telegram (external).                                                    *)

Post ==
  /\ sent < MaxUpdates
  /\ sent' = sent + 1
  /\ UNCHANGED <<kind, confirmed, offset, phase, batch, jobs, runs, restarts>>

Kept(from) == {u \in 1..sent : u >= from}

\* The first of the updates from the confirmed one on.
Answer(from) ==
  LET first == IF from = 0 THEN 1 ELSE from
      n == IF sent - first + 1 < BatchLimit THEN sent - first + 1 ELSE BatchLimit
  IN  IF Kept(from) = {} THEN <<>> ELSE [i \in 1..n |-> first + i - 1]

---------------------------------------------------------------------------
(* PollOnce.                                                               *)

\* A request without an offset confirms nothing.  The answer may still hold
\* updates that the request itself confirms.
Confirmed == IF offset > confirmed THEN offset ELSE confirmed

GetUpdates ==
  /\ phase = "poll"
  /\ confirmed' = Confirmed
  /\ \E from \in {confirmed, Confirmed} : batch' = Answer(from)
  /\ phase' = "handle"
  /\ UNCHANGED <<kind, sent, offset, jobs, runs, restarts>>

\* No answer, a bad one, or one that is lost after Telegram has confirmed.
GetUpdatesFails ==
  /\ phase = "poll"
  /\ confirmed' \in {confirmed, Confirmed}
  /\ phase' = "pause"
  /\ UNCHANGED <<kind, sent, offset, batch, jobs, runs, restarts>>

AdvanceOffset(u) == offset' = IF u >= offset THEN u + 1 ELSE offset

\* Variant: an update without an event does not move the offset.
SkipInPlace ==
  /\ phase = "handle" /\ batch # <<>>
  /\ Head(batch) < offset \/ kind[Head(batch)] = "other"
  /\ batch' = Tail(batch)
  /\ UNCHANGED <<telegramVars, offset, phase, jobs, runs, restarts>>

\* The update is done with: it is an old one, or no event.
Skip ==
  /\ phase = "handle" /\ batch # <<>>
  /\ \/ Head(batch) < offset /\ UNCHANGED offset
     \/ /\ Head(batch) >= offset
        /\ kind[Head(batch)] = "other"
        /\ AdvanceOffset(Head(batch))
  /\ batch' = Tail(batch)
  /\ UNCHANGED <<telegramVars, phase, jobs, runs, restarts>>

QueueHasRoom == Len(jobs) < Depth

\* Handle admits it, marks its key and puts it into the queue.
Accept ==
  /\ phase = "handle" /\ batch # <<>>
  /\ LET u == Head(batch)
     IN  /\ u >= offset /\ kind[u] = "run"
         /\ QueueHasRoom
         /\ jobs' = Append(jobs, u)
         /\ runs' = [runs EXCEPT ![u] = @ + 1]
         /\ AdvanceOffset(u)
  /\ batch' = Tail(batch)
  /\ UNCHANGED <<telegramVars, phase, restarts>>

\* Variant: the error is passed over, and the offset with it.
GiveUpUpdate ==
  /\ phase = "handle" /\ batch # <<>>
  /\ Head(batch) >= offset
  /\ \/ kind[Head(batch)] = "refused"
     \/ kind[Head(batch)] = "run" /\ ~QueueHasRoom
  /\ batch' = Tail(batch)
  /\ AdvanceOffset(Head(batch))
  /\ UNCHANGED <<telegramVars, phase, jobs, runs, restarts>>

\* Handle returns another error: PollOnce gives up the rest of the answer and
\* leaves the offset in front of the update.
GiveUpBatch ==
  /\ phase = "handle" /\ batch # <<>>
  /\ Head(batch) >= offset
  /\ \/ kind[Head(batch)] = "refused"
     \/ kind[Head(batch)] = "run" /\ ~QueueHasRoom
  /\ batch' = <<>>
  /\ phase' = "pause"
  /\ UNCHANGED <<telegramVars, offset, jobs, runs, restarts>>

EndBatch ==
  /\ phase = "handle" /\ batch = <<>>
  /\ phase' = "pause"
  /\ UNCHANGED <<telegramVars, offset, batch, jobs, runs, restarts>>

\* time.After(time.Second) in the loop
PauseEnds ==
  /\ phase = "pause"
  /\ phase' = "poll"
  /\ UNCHANGED <<telegramVars, offset, batch, jobs, runs, restarts>>

\* A worker takes a job.
TakeJob ==
  /\ jobs # <<>>
  /\ jobs' = Tail(jobs)
  /\ UNCHANGED <<telegramVars, offset, phase, batch, runs, restarts>>

\* Offset, keys and jobs are in memory only.
Restart ==
  /\ restarts < MaxRestarts
  /\ restarts' = restarts + 1
  /\ offset' = 0
  /\ phase' = "poll"
  /\ batch' = <<>>
  /\ jobs' = <<>>
  /\ UNCHANGED <<telegramVars, runs>>

Handling == Skip \/ Accept \/ GiveUpBatch \/ EndBatch

PollNext ==
  Post \/ GetUpdates \/ GetUpdatesFails \/ Handling \/ PauseEnds \/ TakeJob \/ Restart

\* The loop goes on, workers take jobs, and Telegram answers now and then.
PollFairness ==
  /\ WF_pollVars(Handling) /\ WF_pollVars(PauseEnds) /\ WF_pollVars(TakeJob)
  /\ SF_pollVars(GetUpdates)

PollSpec == PollInit /\ [][PollNext]_pollVars /\ PollFairness

---------------------------------------------------------------------------
\* Telegram is never told to forget an update that was not dealt with: what
\* is confirmed was queued, or is no event.
ConfirmedIsHandled ==
  \A u \in Updates : u < confirmed => kind[u] = "other" \/ runs[u] > 0

\* A prompt runs once, unless the process restarted before Telegram knew that
\* it was queued.
OncePerProcess == \A u \in Updates : runs[u] <= 1 + restarts

\* Prompts are queued in the order they were sent in: none overtakes another
\* that waits for room or is refused.
NoneOvertakes ==
  \A u, v \in Updates :
    u < v /\ runs[v] > 0 => kind[u] = "other" \/ runs[u] > 0

\* A prompt gets into the queue, whatever fails on the way, unless one before
\* it is refused: that one stays at the head of every answer.
PromptQueued ==
  \A u \in Updates :
    (u <= sent /\ kind[u] = "run")
    ~> (runs[u] > 0 \/ \E v \in 1..u : kind[v] = "refused")

\* The poller loses, repeats and reorders nothing.
PollerLosesNothing == PollTypeOK /\ ConfirmedIsHandled /\ OncePerProcess /\ NoneOvertakes
=============================================================================
