------------------------ MODULE TelegramPoll_proofs ------------------------
(***************************************************************************)
(* Theorems about the edge of the chat: TelegramPoll, for any number of    *)
(* updates, any size of an answer and of the queue, any number of restarts *)
(* and whichever answers of Telegram are lost; and RateLimiter, for any    *)
(* number of callers and sources and any limit, window and capacity.       *)
(***************************************************************************)
EXTENDS TelegramPoll, RateLimiter, SequenceTheorems, FiniteSetTheorems, TLAPS

-----------------------------------------------------------------------------
(***************************************************************************)
(* The inductive invariant.                                                *)
(***************************************************************************)

Handled(u) == kind[u] = "other" \/ runs[u] > 0

AllBelow(n) == \A u \in Updates : u < n => Handled(u)

\* The rest of an answer has no gaps and starts where the handling is.
BatchFollows ==
  /\ \A i \in 1..Len(batch) : batch[i] = batch[1] + i - 1
  /\ batch # <<>> => AllBelow(batch[1])

\* An update at or above the offset was not queued by this process.
OncePerOffset == \A u \in Updates : runs[u] <= IF u < offset THEN 1 + restarts ELSE restarts

PollInv ==
  /\ PollTypeOK
  /\ AllBelow(offset) /\ AllBelow(confirmed)
  /\ BatchFollows
  /\ OncePerOffset
  /\ \A v \in Updates : runs[v] > 0 => AllBelow(v)

LEMMA PollInitially == PollInit => PollInv
  <1> SUFFICES ASSUME PollInit PROVE PollInv
    OBVIOUS
  <1> USE TelegramPollAssumption DEF PollInit
  <1>1. PollTypeOK
    <2>1. <<>> \in Seq(Updates) /\ Len(<<>>) = 0
      OBVIOUS
    <2> QED
      BY <2>1 DEF PollTypeOK
  <1>2. AllBelow(offset) /\ AllBelow(confirmed)
    BY DEF AllBelow, Updates
  <1>3. BatchFollows /\ OncePerOffset
    BY DEF BatchFollows, OncePerOffset, Updates
  <1> QED
    BY <1>1, <1>2, <1>3 DEF PollInv

\* What a queued prompt leaves handled stays so.
LEMMA HandledStays ==
  ASSUME kind' = kind, runs \in [Updates -> Nat], NEW u \in Updates,
         runs' = runs \/ runs' = [runs EXCEPT ![u] = @ + 1]
  PROVE  \A v \in Updates : Handled(v) => Handled(v)'
  BY DEF Handled

-----------------------------------------------------------------------------
(***************************************************************************)
(* Telegram's answers.                                                     *)
(***************************************************************************)

LEMMA AnswerFacts ==
  ASSUME PollTypeOK, NEW from \in 0..MaxUpdates + 1, AllBelow(from)
  PROVE  /\ Answer(from) \in Seq(Updates) /\ Len(Answer(from)) <= BatchLimit
         /\ \A i \in 1..Len(Answer(from)) : Answer(from)[i] = Answer(from)[1] + i - 1
         /\ Answer(from) # <<>> => AllBelow(Answer(from)[1])
  <1> DEFINE first == IF from = 0 THEN 1 ELSE from
             n == IF sent - first + 1 < BatchLimit THEN sent - first + 1 ELSE BatchLimit
             s == [i \in 1..n |-> first + i - 1]
  <1>1. sent \in Nat /\ sent <= MaxUpdates /\ first \in Nat /\ first >= 1
    BY TelegramPollAssumption DEF PollTypeOK
  <1>2. CASE Kept(from) = {}
    <2>1. Answer(from) = <<>>
      BY <1>2 DEF Answer
    <2> QED
      BY <2>1, TelegramPollAssumption
  <1>3. CASE Kept(from) # {}
    <2>1. sent >= first
      BY <1>1, <1>3 DEF Kept
    <2>2. n \in Nat /\ n >= 1 /\ n <= BatchLimit /\ first + n - 1 <= MaxUpdates
      BY <1>1, <2>1, TelegramPollAssumption
    <2>3. Answer(from) = s
      BY <1>3 DEF Answer
    <2>4. s = [i \in 1..n |-> first + i - 1]
      OBVIOUS
    <2> HIDE DEF n, s, first
    <2>5. ASSUME NEW i \in 1..n
          PROVE  first + i - 1 \in Updates
      <3>1. i \in Nat /\ first \in Nat /\ n \in Nat /\ 1 <= i /\ i <= n /\ 1 <= first
        BY <1>1, <2>2
      <3> QED
        BY <2>2, <3>1, TelegramPollAssumption DEF Updates
    <2>6. s \in Seq(Updates) /\ Len(s) = n /\ \A i \in 1..n : s[i] = first + i - 1
      BY <2>2, <2>4, <2>5
    <2>7. s[1] = first
      BY <1>1, <2>2, <2>6
    <2>8. AllBelow(first)
      BY <1>1 DEF AllBelow, Updates, first
    <2> QED
      BY <1>1, <2>2, <2>3, <2>6, <2>7, <2>8
  <1> QED
    BY <1>2, <1>3

LEMMA TelegramSteps ==
  ASSUME PollInv, Post \/ GetUpdates \/ GetUpdatesFails
  PROVE  PollInv'
  <1> USE TelegramPollAssumption DEF PollInv
  <1>1. CASE Post
    <2>1. PollTypeOK'
      BY <1>1 DEF Post, PollTypeOK
    <2> QED
      BY <1>1, <2>1 DEF Post, AllBelow, Handled, BatchFollows, OncePerOffset
  <1>2. Confirmed \in 0..MaxUpdates + 1 /\ AllBelow(Confirmed)
    BY DEF Confirmed, PollTypeOK
  <1>3. CASE GetUpdates
    <2>1. PICK from \in 0..MaxUpdates + 1 : batch' = Answer(from) /\ AllBelow(from)
      BY <1>2, <1>3 DEF GetUpdates, PollTypeOK
    <2>2. /\ batch' \in Seq(Updates) /\ Len(batch') <= BatchLimit
          /\ \A i \in 1..Len(batch') : batch'[i] = batch'[1] + i - 1
          /\ batch' # <<>> => AllBelow(batch'[1])
      BY <2>1, AnswerFacts
    <2>3. confirmed' = Confirmed /\ UNCHANGED <<kind, sent, offset, jobs, runs, restarts>>
      BY <1>3 DEF GetUpdates
    <2>4. PollTypeOK'
      BY <1>2, <1>3, <2>2, <2>3 DEF GetUpdates, PollTypeOK
    <2> QED
      BY <1>2, <2>2, <2>3, <2>4 DEF AllBelow, Handled, BatchFollows, OncePerOffset
  <1>4. CASE GetUpdatesFails
    <2>1. /\ confirmed' \in {confirmed, Confirmed}
          /\ UNCHANGED <<kind, sent, offset, batch, jobs, runs, restarts>>
      BY <1>4 DEF GetUpdatesFails
    <2>2. PollTypeOK'
      BY <1>2, <1>4, <2>1 DEF GetUpdatesFails, PollTypeOK
    <2> QED
      BY <1>2, <2>1, <2>2 DEF AllBelow, Handled, BatchFollows, OncePerOffset
  <1> QED
    BY <1>1, <1>3, <1>4

-----------------------------------------------------------------------------
(***************************************************************************)
(* PollOnce takes the next update.                                         *)
(***************************************************************************)

LEMMA NextUpdate ==
  ASSUME PollInv, batch # <<>>
  PROVE  /\ Head(batch) \in Updates /\ Head(batch) = batch[1]
         /\ Tail(batch) \in Seq(Updates) /\ Len(Tail(batch)) <= BatchLimit
         /\ \A i \in 1..Len(Tail(batch)) : Tail(batch)[i] = Head(batch) + i
  <1>1. batch \in Seq(Updates) /\ Len(batch) \in Nat /\ Len(batch) <= BatchLimit
    BY DEF PollInv, PollTypeOK
  <1>2. \A i \in 1..Len(batch) : batch[i] = batch[1] + i - 1
    BY DEF PollInv, BatchFollows
  <1>3. /\ Head(batch) = batch[1] /\ Head(batch) \in Updates /\ Tail(batch) \in Seq(Updates)
        /\ Len(Tail(batch)) = Len(batch) - 1
        /\ \A i \in 1..Len(Tail(batch)) : Tail(batch)[i] = batch[i + 1]
    BY <1>1
  <1>4. Head(batch) \in Nat
    BY <1>3 DEF Updates
  <1>5. ASSUME NEW i \in 1..Len(Tail(batch))
        PROVE  Tail(batch)[i] = Head(batch) + i
    <2>1. i + 1 \in 1..Len(batch)
      BY <1>1, <1>3
    <2>2. batch[i + 1] = batch[1] + (i + 1) - 1
      BY <1>2, <2>1
    <2> QED
      BY <1>3, <1>4, <2>2
  <1> QED
    BY <1>1, <1>3, <1>5, TelegramPollAssumption

LEMMA Following ==
  ASSUME NEW t \in Seq(Updates), NEW u \in Nat, \A i \in 1..Len(t) : t[i] = u + i
  PROVE  /\ \A i \in 1..Len(t) : t[i] = t[1] + i - 1
         /\ t # <<>> => t[1] = u + 1
  <1>1. CASE t = <<>>
    <2>1. Len(t) = 0
      BY <1>1, EmptySeq
    <2> QED
      BY <1>1, <2>1
  <1>2. CASE t # <<>>
    <2>1. Len(t) \in Nat /\ Len(t) # 0
      BY <1>2, EmptySeq, LenProperties
    <2>2. t[1] = u + 1
      BY <2>1
    <2> QED
      BY <2>1, <2>2
  <1> QED
    BY <1>1, <1>2

\* When the head has been dealt with, the rest follows on it.
LEMMA BatchAdvances ==
  ASSUME PollInv, batch # <<>>, batch' = Tail(batch), NEW u \in Updates, u = Head(batch),
         \A v \in Updates : Handled(v) => Handled(v)',
         Handled(u)'
  PROVE  BatchFollows'
  <1>1. /\ u = batch[1] /\ batch' \in Seq(Updates)
        /\ \A i \in 1..Len(batch') : batch'[i] = u + i
    BY NextUpdate
  <1>2. u \in Nat /\ AllBelow(u)
    BY <1>1 DEF PollInv, BatchFollows, Updates
  <1>3. /\ \A i \in 1..Len(batch') : batch'[i] = batch'[1] + i - 1
        /\ batch' # <<>> => batch'[1] = u + 1
    BY <1>1, <1>2, Following
  <1>4. ASSUME NEW v \in Updates, NEW n \in Nat, n = u + 1, v < n
        PROVE  Handled(v)'
    BY <1>2, <1>4 DEF AllBelow, Updates
  <1>5. batch' # <<>> => \A v \in Updates : v < batch'[1] => Handled(v)'
    BY <1>2, <1>3, <1>4
  <1> QED
    BY <1>3, <1>5 DEF BatchFollows, AllBelow

LEMMA SkipStep ==
  ASSUME PollInv, Skip
  PROVE  PollInv'
  <1> USE TelegramPollAssumption DEF PollInv
  <1>1. /\ batch # <<>> /\ batch' = Tail(batch)
        /\ UNCHANGED <<kind, sent, confirmed, phase, jobs, runs, restarts>>
    BY DEF Skip, telegramVars
  <1> PICK u \in Updates : u = Head(batch)
    BY <1>1, NextUpdate
  <1>2. u \in Nat /\ offset \in Nat /\ AllBelow(u)
    BY <1>1, NextUpdate DEF PollTypeOK, BatchFollows, Updates
  <1>3. \/ u < offset /\ offset' = offset
        \/ u >= offset /\ kind[u] = "other" /\ offset' = u + 1
    BY <1>2 DEF Skip, AdvanceOffset
  <1>4. Handled(u)
    BY <1>2, <1>3 DEF AllBelow, Handled
  <1>5. \A v \in Updates : Handled(v)' <=> Handled(v)
    BY <1>1 DEF Handled
  <1>6. BatchFollows'
    BY <1>1, <1>4, <1>5, BatchAdvances
  <1>7. offset' \in 0..MaxUpdates + 1 /\ offset' \in Nat /\ offset <= offset'
    <2>1. u \in 1..MaxUpdates /\ offset \in 0..MaxUpdates + 1
      BY DEF PollTypeOK, Updates
    <2> QED
      BY <1>2, <1>3, <2>1
  <1>8. AllBelow(offset)'
    BY <1>2, <1>3, <1>4, <1>5 DEF AllBelow, Updates
  <1>9. PollTypeOK'
    BY <1>1, <1>7, NextUpdate DEF PollTypeOK
  <1>10. OncePerOffset'
    <2>1. restarts \in Nat /\ runs \in [Updates -> Nat]
      BY DEF PollTypeOK
    <2> QED
      BY <1>1, <1>2, <1>7, <2>1 DEF OncePerOffset, Updates
  <1> QED
    BY <1>1, <1>5, <1>6, <1>8, <1>9, <1>10 DEF AllBelow

LEMMA AcceptStep ==
  ASSUME PollInv, Accept
  PROVE  PollInv'
  <1> USE TelegramPollAssumption DEF PollInv
  <1>0. batch # <<>>
    BY DEF Accept
  <1> PICK u \in Updates : u = Head(batch)
    BY <1>0, NextUpdate
  <1>1. /\ batch # <<>> /\ batch' = Tail(batch)
        /\ u >= offset /\ Len(jobs) < Depth /\ jobs' = Append(jobs, u)
        /\ runs' = [runs EXCEPT ![u] = @ + 1]
        /\ UNCHANGED <<kind, sent, confirmed, phase, restarts>>
    BY DEF Accept, telegramVars, QueueHasRoom
  <1>2. u \in Nat /\ offset \in Nat /\ AllBelow(u)
    BY <1>1, NextUpdate DEF PollTypeOK, BatchFollows, Updates
  <1>3. offset' = u + 1
    BY <1>1 DEF Accept, AdvanceOffset
  <1>4. runs \in [Updates -> Nat] /\ runs' \in [Updates -> Nat] /\ runs'[u] = runs[u] + 1
        /\ \A v \in Updates : v # u => runs'[v] = runs[v]
    BY <1>1, <1>2 DEF PollTypeOK
  <1>5. \A v \in Updates : Handled(v) => Handled(v)'
    BY <1>1, <1>2, <1>4, HandledStays
  <1>6. Handled(u)'
    BY <1>2, <1>4 DEF Handled
  <1>7. BatchFollows'
    BY <1>1, <1>5, <1>6, BatchAdvances
  <1>8. AllBelow(offset)'
    BY <1>2, <1>3, <1>5, <1>6 DEF AllBelow, Updates
  <1>9. PollTypeOK'
    <2>1. jobs' \in Seq(Updates) /\ Len(jobs') <= Depth
      BY <1>1, <1>2 DEF PollTypeOK
    <2>2. offset' \in 0..MaxUpdates + 1
      BY <1>2, <1>3 DEF Updates
    <2> QED
      BY <1>1, <1>4, <2>1, <2>2, NextUpdate DEF PollTypeOK
  <1>10. OncePerOffset'
    <2>1. ASSUME NEW v \in Updates
          PROVE  runs'[v] <= IF v < offset' THEN 1 + restarts' ELSE restarts'
      <3>1. v \in Nat /\ restarts \in Nat /\ runs[v] \in Nat
        <4>1. runs \in [Updates -> Nat] /\ restarts \in 0..MaxRestarts
          BY <1>4 DEF PollTypeOK
        <4> QED
          BY <4>1, TelegramPollAssumption DEF Updates
      <3>2. runs[v] <= IF v < offset THEN 1 + restarts ELSE restarts
        BY DEF OncePerOffset
      <3>3. CASE v = u
        BY <1>1, <1>2, <1>3, <1>4, <3>1, <3>2, <3>3
      <3>4. CASE v # u
        BY <1>1, <1>2, <1>3, <1>4, <3>1, <3>2, <3>4
      <3> QED
        BY <3>3, <3>4
    <2> QED
      BY <2>1 DEF OncePerOffset
  <1>11. ASSUME NEW v \in Updates, runs'[v] > 0
         PROVE  AllBelow(v)'
    <2>1. AllBelow(v)
      <3>1. CASE v = u
        BY <1>2, <3>1
      <3>2. CASE v # u
        BY <1>4, <1>11, <3>2
      <3> QED
        BY <3>1, <3>2
    <2> QED
      BY <1>5, <2>1 DEF AllBelow
  <1> QED
    BY <1>1, <1>5, <1>7, <1>8, <1>9, <1>10, <1>11 DEF AllBelow

-----------------------------------------------------------------------------
(***************************************************************************)
(* The rest.                                                               *)
(***************************************************************************)

LEMMA QuietSteps ==
  ASSUME PollInv, GiveUpBatch \/ EndBatch \/ PauseEnds \/ TakeJob
  PROVE  PollInv'
  <1> USE TelegramPollAssumption DEF PollInv
  <1>1. UNCHANGED <<kind, sent, confirmed, offset, runs, restarts>>
    BY DEF GiveUpBatch, EndBatch, PauseEnds, TakeJob, telegramVars
  <1>2. batch' = batch \/ batch' = <<>>
    BY DEF GiveUpBatch, EndBatch, PauseEnds, TakeJob
  <1>3. jobs' \in Seq(Updates) /\ Len(jobs') <= Depth
    <2>1. jobs \in Seq(Updates) /\ Len(jobs) <= Depth
      BY DEF PollTypeOK
    <2>2. CASE TakeJob
      BY <2>1, <2>2 DEF TakeJob
    <2>3. CASE ~TakeJob
      BY <2>1, <2>3 DEF GiveUpBatch, EndBatch, PauseEnds
    <2> QED
      BY <2>2, <2>3
  <1>4. phase' \in {"poll", "handle", "pause"}
    BY DEF GiveUpBatch, EndBatch, PauseEnds, TakeJob, PollTypeOK
  <1>5. batch' \in Seq(Updates) /\ Len(batch') <= BatchLimit
    <2>1. batch \in Seq(Updates) /\ Len(batch) <= BatchLimit
      BY DEF PollTypeOK
    <2>2. CASE batch' = <<>>
      BY <2>2, EmptySeq
    <2> QED
      BY <1>2, <2>1, <2>2
  <1>6. PollTypeOK'
    BY <1>1, <1>3, <1>4, <1>5 DEF PollTypeOK
  <1>7. BatchFollows'
    <2>1. CASE batch' = batch
      BY <1>1, <2>1 DEF BatchFollows, AllBelow, Handled
    <2>2. CASE batch' = <<>>
      BY <2>2 DEF BatchFollows
    <2> QED
      BY <1>2, <2>1, <2>2
  <1> QED
    BY <1>1, <1>6, <1>7 DEF AllBelow, Handled, OncePerOffset

LEMMA RestartStep ==
  ASSUME PollInv, Restart
  PROVE  PollInv'
  <1> USE TelegramPollAssumption DEF PollInv
  <1>1. /\ restarts < MaxRestarts /\ restarts' = restarts + 1 /\ offset' = 0
        /\ phase' = "poll" /\ batch' = <<>> /\ jobs' = <<>>
        /\ UNCHANGED <<kind, sent, confirmed, runs>>
    BY DEF Restart, telegramVars
  <1>2. PollTypeOK'
    <2>1. <<>> \in Seq(Updates) /\ Len(<<>>) = 0
      OBVIOUS
    <2> QED
      BY <1>1, <2>1 DEF PollTypeOK
  <1>3. OncePerOffset'
    BY <1>1 DEF OncePerOffset, PollTypeOK, Updates
  <1>4. BatchFollows' /\ AllBelow(offset)'
    BY <1>1 DEF BatchFollows, AllBelow, Updates
  <1> QED
    BY <1>1, <1>2, <1>3, <1>4 DEF AllBelow, Handled

LEMMA PollStep ==
  ASSUME PollInv, [PollNext]_pollVars
  PROVE  PollInv'
  <1>1. CASE UNCHANGED pollVars
    BY <1>1 DEF pollVars, PollInv, PollTypeOK, AllBelow, Handled, BatchFollows, OncePerOffset
  <1>2. CASE PollNext
    BY <1>2, TelegramSteps, SkipStep, AcceptStep, QuietSteps, RestartStep DEF PollNext, Handling
  <1> QED
    BY <1>1, <1>2

-----------------------------------------------------------------------------
(***************************************************************************)
(* The theorem.                                                            *)
(***************************************************************************)

\* What the poller keeps true of its offset, its batch and Telegram's queue at
\* every step.
THEOREM PollInvariant == PollSpec => []PollInv
  <1>1. PollInit => PollInv
    BY PollInitially
  <1>2. PollInv /\ [PollNext]_pollVars => PollInv'
    BY PollStep
  <1> QED
    BY <1>1, <1>2, PTL DEF PollSpec

\* Telegram never forgets a prompt that was not queued, a process queues none
\* twice, and none overtakes an earlier one.
THEOREM NothingIsLost == PollSpec => []PollerLosesNothing
  <1>1. ASSUME PollInv
        PROVE  PollerLosesNothing
    <2>1. ConfirmedIsHandled /\ NoneOvertakes
      BY <1>1 DEF PollInv, AllBelow, Handled, ConfirmedIsHandled, NoneOvertakes
    <2>2. OncePerProcess
      <3>1. restarts \in Nat
        BY <1>1, TelegramPollAssumption DEF PollInv, PollTypeOK
      <3> QED
        BY <1>1, <3>1 DEF PollInv, PollTypeOK, OncePerOffset, OncePerProcess
    <2> QED
      BY <1>1, <2>1, <2>2 DEF PollInv, PollerLosesNothing
  <1> QED
    BY <1>1, PollInvariant, PTL

-----------------------------------------------------------------------------
(***************************************************************************)
(* The rate limiter.  The calls a source was granted fall into those of    *)
(* its present window and earlier ones; a window that was opened at some   *)
(* instant has at most the limit, and so have the earlier calls of the     *)
(* last Safe ticks before that instant.                                    *)
(***************************************************************************)

Safe == RateWindow - MaxSkew

Since(src, t) == {c \in Callers : /\ step[c] = "granted" /\ asker[c] = src
                                  /\ t <= decided[c]}

LimiterTypeOK ==
  /\ now \in Nat
  /\ DOMAIN windows \subseteq Sources
  /\ \A s \in DOMAIN windows :
       /\ windows[s].start \in Nat /\ windows[s].count \in Nat
       /\ windows[s] = [start |-> windows[s].start, count |-> windows[s].count]
  /\ windows = [s \in DOMAIN windows |-> windows[s]]
  /\ step \in [Callers -> {"new", "timed", "granted", "refused"}]
  /\ asker \in [Callers -> Sources]
  /\ stamp \in [Callers -> Nat] /\ decided \in [Callers -> Nat]
  /\ evicted \subseteq Sources

TimesInOrder ==
  /\ \A c \in Callers :
       /\ step[c] = "timed" => stamp[c] <= now /\ now - stamp[c] <= MaxSkew
       /\ decided[c] <= now
  /\ \A s \in DOMAIN windows :
       windows[s].start <= now /\ windows[s].count <= RateLimit

\* What a window counts was granted after it was opened.
CountsGrants ==
  \A s \in DOMAIN windows :
    windows[s].count <= Cardinality(Since(s, windows[s].start))

\* The present window of s was opened at t, and cur are its calls.
OpenedAt(s, t, cur) ==
  /\ windows[s].start <= t /\ t <= now /\ t - windows[s].start <= MaxSkew
  /\ Cardinality(cur) <= windows[s].count
  /\ \A c \in Callers \ cur : step[c] = "granted" /\ asker[c] = s => decided[c] <= t
  /\ Cardinality(Since(s, t - Safe + 1) \ cur) <= RateLimit

WindowsApart ==
  \A s \in Sources \ evicted :
    /\ s \in DOMAIN windows =>
         \E t \in Nat, cur \in SUBSET Callers : OpenedAt(s, t, cur)
    /\ s \notin DOMAIN windows => Cardinality(Since(s, now - Safe + 1)) <= RateLimit

LimiterInv ==
  /\ LimiterTypeOK /\ TimesInOrder /\ CountsGrants /\ WindowsApart
  /\ WindowsBounded /\ BurstBounded /\ RefusedForCause

\* Sets of callers are finite, and a part has no more members than the whole.
LEMMA CallersCount ==
  ASSUME NEW S \in SUBSET Callers, NEW T \in SUBSET S
  PROVE  /\ IsFiniteSet(S) /\ Cardinality(S) \in Nat
         /\ Cardinality(T) \in Nat /\ Cardinality(T) <= Cardinality(S)
  <1>1. IsFiniteSet(S) /\ IsFiniteSet(T)
    BY RateLimiterAssumption, FS_Subset
  <1> QED
    BY <1>1, FS_Subset, FS_CardinalityType

LEMMA LimiterInitially == LimiterInit => LimiterInv
  <1> SUFFICES ASSUME LimiterInit PROVE LimiterInv
    OBVIOUS
  <1>1. DOMAIN windows = {} /\ windows = NoWindows
    BY DEF LimiterInit, PolicyInit, NoWindows
  <1>2. LimiterTypeOK
    BY <1>1 DEF LimiterTypeOK, LimiterInit, PolicyInit, NoWindows
  <1>3. TimesInOrder /\ CountsGrants
    BY <1>1 DEF TimesInOrder, CountsGrants, LimiterInit, PolicyInit
  <1>4. ASSUME NEW s, NEW t PROVE Since(s, t) = {}
    BY DEF Since, LimiterInit
  <1>5. WindowsApart
    BY <1>1, <1>4, FS_EmptySet, RateLimiterAssumption, PolicyAssumption
    DEF WindowsApart
  <1>6. WindowsBounded
    BY <1>1, FS_EmptySet, PolicyAssumption DEF WindowsBounded
  <1>7. ASSUME NEW s, NEW t, NEW u PROVE Granted(s, t, u) = {}
    BY DEF Granted, LimiterInit
  <1>8. BurstBounded
    BY <1>7, FS_EmptySet, PolicyAssumption DEF BurstBounded
  <1>9. RefusedForCause
    BY DEF RefusedForCause, LimiterInit
  <1> QED
    BY <1>2, <1>3, <1>5, <1>6, <1>8, <1>9 DEF LimiterInv

\* Reading the clock and the passing of time grant nothing.
LEMMA ClockStep ==
  ASSUME LimiterInv, \/ \E c \in Callers : ReadClock(c)
                     \/ LimiterTick
                     \/ UNCHANGED limiterVars
  PROVE  LimiterInv'
  <1> USE RateLimiterAssumption, PolicyAssumption
  <1>0. /\ LimiterTypeOK /\ TimesInOrder /\ CountsGrants /\ WindowsApart
        /\ WindowsBounded /\ BurstBounded /\ RefusedForCause
    BY DEF LimiterInv
  <1>1. /\ UNCHANGED <<windows, asker, decided, evicted>>
        /\ now' \in Nat /\ now <= now'
        /\ \A c \in Callers : /\ step[c] = "granted" <=> step'[c] = "granted"
                              /\ step[c] = "refused" <=> step'[c] = "refused"
    BY <1>0 DEF ReadClock, LimiterTick, Tick, limiterVars, LimiterTypeOK
  <1>2. LimiterTypeOK'
    BY <1>0, <1>1 DEF ReadClock, LimiterTick, limiterVars, LimiterTypeOK
  <1>3. \A c \in Callers :
          step'[c] = "timed" => stamp'[c] <= now' /\ now' - stamp'[c] <= MaxSkew
    BY <1>0, <1>1 DEF ReadClock, LimiterTick, Tick, limiterVars, LimiterTypeOK, TimesInOrder
  <1>4. TimesInOrder'
    BY <1>0, <1>1, <1>3 DEF TimesInOrder, LimiterTypeOK
  <1>5. /\ \A s, t : Since(s, t)' = Since(s, t)
        /\ \A s, t, u : Granted(s, t, u)' = Granted(s, t, u)
    BY <1>1 DEF Since, Granted
  <1>6. CountsGrants'
    BY <1>0, <1>1, <1>5 DEF CountsGrants
  <1>7. WindowsApart'
    <2> SUFFICES ASSUME NEW s \in Sources \ evicted
                 PROVE  /\ s \in DOMAIN windows =>
                             \E t \in Nat, cur \in SUBSET Callers : OpenedAt(s, t, cur)'
                        /\ s \notin DOMAIN windows =>
                             Cardinality(Since(s, now' - Safe + 1)) <= RateLimit
      BY <1>1, <1>5 DEF WindowsApart
    <2>1. ASSUME NEW t \in Nat, NEW cur \in SUBSET Callers, OpenedAt(s, t, cur)
          PROVE  OpenedAt(s, t, cur)'
      <3>1. Since(s, t - Safe + 1)' = Since(s, t - Safe + 1)
        BY <1>5
      <3>2. t <= now'
        BY <1>0, <1>1, <2>1 DEF OpenedAt, LimiterTypeOK
      <3> QED
        BY <1>1, <2>1, <3>1, <3>2 DEF OpenedAt
    <2>2. Since(s, now' - Safe + 1) \in SUBSET Since(s, now - Safe + 1)
      BY <1>0, <1>1 DEF Since, LimiterTypeOK, Safe
    <2>3. Since(s, now - Safe + 1) \in SUBSET Callers
      BY DEF Since
    <2>4. Cardinality(Since(s, now' - Safe + 1)) <= Cardinality(Since(s, now - Safe + 1))
          /\ Cardinality(Since(s, now' - Safe + 1)) \in Nat
          /\ Cardinality(Since(s, now - Safe + 1)) \in Nat
      BY <2>2, <2>3, CallersCount
    <2> QED
      BY <1>0, <2>1, <2>4 DEF WindowsApart
  <1>8. BurstBounded'
    <2> SUFFICES ASSUME NEW s \in Sources \ evicted, NEW t \in 0..now'
                 PROVE  Cardinality(Granted(s, t, t + RateWindow - MaxSkew - 1)) <= 2 * RateLimit
      BY <1>1, <1>5 DEF BurstBounded
    <2>1. CASE t \in 0..now
      BY <1>0, <2>1 DEF BurstBounded
    <2>2. CASE t > now
      <3>1. Granted(s, t, t + RateWindow - MaxSkew - 1) = {}
        BY <1>0, <2>2 DEF Granted, TimesInOrder, LimiterTypeOK
      <3> QED
        <4>1. Cardinality(Granted(s, t, t + RateWindow - MaxSkew - 1)) = 0
          BY <3>1, FS_EmptySet
        <4>2. 0 <= 2 * RateLimit
          BY PolicyAssumption
        <4> QED
          BY <4>1, <4>2
    <2> QED
      BY <1>0, <2>1, <2>2 DEF LimiterTypeOK
  <1>9. RefusedForCause' /\ WindowsBounded'
    BY <1>0, <1>1, <1>5 DEF RefusedForCause, WindowsBounded
  <1> QED
    BY <1>2, <1>4, <1>6, <1>7, <1>8, <1>9 DEF LimiterInv

\* What one decision does to the map of windows.
NewWindow(c) ==
  /\ step' = [step EXCEPT ![c] = "granted"]
  /\ asker[c] \in DOMAIN windows'
  /\ windows'[asker[c]] = [start |-> stamp[c], count |-> 1]
  /\ \/ asker[c] \notin DOMAIN windows
     \/ WindowOver(windows[asker[c]], stamp[c])
     \/ asker[c] \in evicted'

OneMore(c) ==
  /\ step' = [step EXCEPT ![c] = "granted"]
  /\ asker[c] \in DOMAIN windows \cap DOMAIN windows'
  /\ windows[asker[c]].count < RateLimit
  /\ windows'[asker[c]] = Counted(windows[asker[c]])

WindowFull(c) ==
  /\ step' = [step EXCEPT ![c] = "refused"]
  /\ asker[c] \in DOMAIN windows \cap DOMAIN windows'
  /\ windows[asker[c]].count >= RateLimit
  /\ ~WindowOver(windows[asker[c]], stamp[c])
  /\ windows'[asker[c]] = windows[asker[c]]

OthersKept(c) ==
  /\ windows' = [s \in DOMAIN windows' |-> windows'[s]]
  /\ DOMAIN windows' \subseteq DOMAIN windows \cup {asker[c]}
  /\ \A s \in DOMAIN windows' \ {asker[c]} : windows'[s] = windows[s]
  /\ \A s \in DOMAIN windows \ DOMAIN windows' :
       s \in evicted' \/ WindowOver(windows[s], stamp[c])
  /\ evicted \subseteq evicted' /\ evicted' \subseteq Sources

\* A decision prunes, makes room for one and then opens, counts or refuses.
LEMMA DecideCases ==
  ASSUME LimiterInv, NEW c \in Callers, Decide(c)
  PROVE  /\ OthersKept(c) /\ WindowsBounded'
         /\ NewWindow(c) \/ OneMore(c) \/ WindowFull(c)
  <1>0. LimiterTypeOK /\ WindowsBounded /\ asker[c] \in Sources
    BY DEF LimiterInv, LimiterTypeOK
  <1> DEFINE src == asker[c]
             t == stamp[c]
             kept == {s \in DOMAIN windows : ~WindowOver(windows[s], t)}
             pruned == PruneWindows(t)
  <1>1. DOMAIN pruned = kept /\ \A s \in kept : pruned[s] = windows[s]
    BY DEF PruneWindows, Keep
  <1>2. PICK ok \in BOOLEAN : /\ CheckRate(src, t, ok)
                              /\ step' = [step EXCEPT ![c] = IF ok THEN "granted" ELSE "refused"]
    BY DEF Decide
  <1>3. PICK ws \in EvictWindow(pruned) :
          \/ /\ src \notin DOMAIN ws /\ ok
             /\ windows' = Put(ws, src, [start |-> t, count |-> 1])
          \/ /\ src \in DOMAIN ws /\ HasRoom(ws[src]) /\ ok
             /\ windows' = Put(ws, src, Counted(ws[src]))
          \/ /\ src \in DOMAIN ws /\ ~HasRoom(ws[src]) /\ ~ok
             /\ windows' = ws
    BY <1>2, RateLimiterAssumption DEF CheckRate
  <1>4. /\ evicted' = evicted \cup (DOMAIN pruned \ DOMAIN windows')
                        \cup (IF Cardinality(DOMAIN pruned) >= MaxRateWindows
                              THEN {src} ELSE {})
    BY DEF Decide
  \* Eviction leaves room for one.
  <1>5. /\ DOMAIN ws \subseteq kept
        /\ \A s \in DOMAIN ws : ws[s] = windows[s]
        /\ ws = [s \in DOMAIN ws |-> ws[s]]
        /\ src \in kept \ DOMAIN ws => src \in evicted'
        /\ IsFiniteSet(DOMAIN ws) /\ Cardinality(DOMAIN ws) \in Nat
        /\ Cardinality(DOMAIN ws) < MaxRateWindows
    <2>1. /\ IsFiniteSet(DOMAIN windows) /\ IsFiniteSet(kept)
          /\ Cardinality(kept) \in Nat /\ Cardinality(kept) <= MaxRateWindows
      <3>1. IsFiniteSet(DOMAIN windows)
        BY <1>0, PolicyAssumption, FS_Subset DEF LimiterTypeOK
      <3>2. IsFiniteSet(kept) /\ Cardinality(kept) <= Cardinality(DOMAIN windows)
        BY <3>1, FS_Subset
      <3>3. Cardinality(kept) \in Nat /\ Cardinality(DOMAIN windows) \in Nat
        BY <3>1, <3>2, FS_CardinalityType
      <3> QED
        BY <1>0, <3>1, <3>2, <3>3, PolicyAssumption DEF WindowsBounded
    <2>2. CASE Cardinality(kept) >= MaxRateWindows
      <3>1. PICK s \in kept : ws = Keep(pruned, Sources \ {s})
        BY <1>1, <1>3, <2>2 DEF EvictWindow
      <3>2. DOMAIN ws = kept \ {s} /\ \A r \in kept \ {s} : ws[r] = windows[r]
        BY <1>0, <1>1, <3>1 DEF Keep, LimiterTypeOK
      <3>3. /\ IsFiniteSet(kept \ {s}) /\ Cardinality(kept \ {s}) = Cardinality(kept) - 1
        BY <2>1, FS_RemoveElement
      <3>4. ws = [r \in DOMAIN ws |-> ws[r]]
        BY <3>1 DEF Keep
      <3>5. src \in evicted'
        BY <1>1, <1>4, <2>2
      <3>6. Cardinality(kept) - 1 \in Nat /\ Cardinality(kept) - 1 < MaxRateWindows
        BY <2>1, <2>2, PolicyAssumption
      <3> QED
        BY <3>2, <3>3, <3>4, <3>5, <3>6
    <2>3. CASE ~(Cardinality(kept) >= MaxRateWindows)
      <3>1. ws = pruned
        BY <1>1, <1>3, <2>3 DEF EvictWindow
      <3>2. ws = [r \in DOMAIN ws |-> ws[r]]
        BY <3>1 DEF PruneWindows, Keep
      <3> QED
        BY <1>1, <2>1, <2>3, <3>1, <3>2, PolicyAssumption
    <2> QED
      BY <2>2, <2>3
  <1>6. /\ DOMAIN windows' \in {DOMAIN ws, DOMAIN ws \cup {src}}
        /\ windows' = [s \in DOMAIN windows' |-> windows'[s]]
        /\ \A s \in DOMAIN windows' \ {src} : windows'[s] = windows[s]
        /\ src \in DOMAIN windows'
    BY <1>3, <1>5 DEF Put
  <1>7. WindowsBounded'
    <2>1. /\ IsFiniteSet(DOMAIN ws \cup {src})
          /\ Cardinality(DOMAIN ws \cup {src}) \in
               {Cardinality(DOMAIN ws), Cardinality(DOMAIN ws) + 1}
      BY <1>5, FS_AddElement
    <2> QED
      BY <1>5, <1>6, <2>1, PolicyAssumption DEF WindowsBounded
  <1>8. OthersKept(c)
    <2>1. \A s \in DOMAIN windows \ DOMAIN windows' :
            s \in evicted' \/ WindowOver(windows[s], t)
      BY <1>1, <1>4
    <2>2. evicted \subseteq evicted' /\ evicted' \subseteq Sources
      BY <1>0, <1>1, <1>4 DEF LimiterTypeOK
    <2> QED
      BY <1>5, <1>6, <2>1, <2>2 DEF OthersKept
  <1>9. NewWindow(c) \/ OneMore(c) \/ WindowFull(c)
    <2>1. CASE src \notin DOMAIN ws
      <3>1. /\ ok /\ windows'[src] = [start |-> t, count |-> 1]
        BY <1>3, <2>1 DEF Put
      <3>2. src \notin DOMAIN windows \/ WindowOver(windows[src], t) \/ src \in evicted'
        BY <1>5, <2>1
      <3> QED
        BY <1>2, <1>6, <3>1, <3>2 DEF NewWindow
    <2>2. CASE src \in DOMAIN ws /\ HasRoom(ws[src])
      <3>1. ok /\ windows'[src] = Counted(ws[src]) /\ ws[src] = windows[src]
        BY <1>3, <1>5, <2>2 DEF Put
      <3> QED
        BY <1>2, <1>5, <1>6, <2>2, <3>1 DEF OneMore, HasRoom
    <2>3. CASE src \in DOMAIN ws /\ ~HasRoom(ws[src])
      <3>1. ~ok /\ windows' = ws /\ ws[src] = windows[src] /\ src \in kept
        BY <1>3, <1>5, <2>3
      <3>2. windows[src].count >= RateLimit
        BY <1>0, <2>3, <3>1, PolicyAssumption DEF HasRoom, LimiterTypeOK
      <3> QED
        BY <1>2, <1>6, <2>3, <3>1, <3>2 DEF WindowFull
    <2> QED
      BY <2>1, <2>2, <2>3
  <1> QED
    BY <1>7, <1>8, <1>9

\* The same sets after the step, at instants of either side of it.
SinceNext(s, t) ==
  {c \in Callers : step'[c] = "granted" /\ asker'[c] = s /\ t <= decided'[c]}

GrantedNext(s, t, u) ==
  {c \in Callers : /\ step'[c] = "granted" /\ asker'[c] = s
                   /\ t <= decided'[c] /\ decided'[c] <= u}

\* What it does to the calls that were granted.
LEMMA DecideGrants ==
  ASSUME LimiterInv, NEW c \in Callers, Decide(c)
  PROVE  /\ UNCHANGED <<now, asker, stamp>>
         /\ step[c] = "timed" /\ decided'[c] = now
         /\ \A d \in Callers \ {c} : step'[d] = step[d] /\ decided'[d] = decided[d]
         /\ \A s, t : Since(s, t) \subseteq SinceNext(s, t) /\ c \notin Since(s, t)
         /\ \A s, t : SinceNext(s, t) \subseteq Since(s, t) \cup {c}
         /\ \A s, t : s # asker[c] \/ step'[c] # "granted" => SinceNext(s, t) = Since(s, t)
         /\ \A s, t, u : Granted(s, t, u) \subseteq GrantedNext(s, t, u)
         /\ \A s, t, u : s # asker[c] \/ step'[c] # "granted"
                          => GrantedNext(s, t, u) = Granted(s, t, u)
         /\ \A s, t : \A u \in Int : u < now => GrantedNext(s, t, u) = Granted(s, t, u)
  <1>1. /\ UNCHANGED <<now, asker, stamp>>
        /\ step[c] = "timed" /\ decided'[c] = now /\ c \in Callers
        /\ \A d \in Callers \ {c} : step'[d] = step[d] /\ decided'[d] = decided[d]
    BY DEF Decide, LimiterInv, LimiterTypeOK
  <1>2. \A s, t : /\ Since(s, t) \subseteq SinceNext(s, t) /\ c \notin Since(s, t)
                  /\ SinceNext(s, t) \subseteq Since(s, t) \cup {c}
                  /\ s # asker[c] \/ step'[c] # "granted" => SinceNext(s, t) = Since(s, t)
    BY <1>1 DEF Since, SinceNext
  <1>3. \A s, t, u : /\ Granted(s, t, u) \subseteq GrantedNext(s, t, u)
                     /\ s # asker[c] \/ step'[c] # "granted"
                          => GrantedNext(s, t, u) = Granted(s, t, u)
    BY <1>1 DEF Granted, GrantedNext
  <1>4. ASSUME NEW s, NEW t, NEW u \in Int, u < now
        PROVE  GrantedNext(s, t, u) = Granted(s, t, u)
    <2>1. now \in Nat
      BY DEF LimiterInv, LimiterTypeOK
    <2>2. c \notin Granted(s, t, u) /\ c \notin GrantedNext(s, t, u)
      BY <1>1, <1>4, <2>1 DEF Granted, GrantedNext
    <2> QED
      BY <1>1, <2>2 DEF Granted, GrantedNext
  <1> QED
    BY <1>1, <1>2, <1>3, <1>4

LEMMA DecideKeepsTypes ==
  ASSUME LimiterInv, NEW c \in Callers, Decide(c)
  PROVE  LimiterTypeOK' /\ TimesInOrder'
  <1>0. LimiterTypeOK /\ TimesInOrder /\ asker[c] \in Sources /\ stamp[c] \in Nat
    BY DEF LimiterInv, LimiterTypeOK
  <1>1. OthersKept(c) /\ (NewWindow(c) \/ OneMore(c) \/ WindowFull(c))
    BY DecideCases
  <1>2. /\ UNCHANGED <<now, asker, stamp>> /\ step[c] = "timed"
        /\ decided' = [decided EXCEPT ![c] = now]
        /\ step' \in [Callers -> {"new", "timed", "granted", "refused"}]
        /\ step'[c] # "timed"
        /\ \A d \in Callers \ {c} : step'[d] = step[d] /\ decided'[d] = decided[d]
    BY <1>0, <1>1, DecideGrants
    DEF Decide, LimiterTypeOK, NewWindow, OneMore, WindowFull
  <1>3. /\ windows'[asker[c]] =
             [start |-> windows'[asker[c]].start, count |-> windows'[asker[c]].count]
        /\ windows'[asker[c]].start \in Nat /\ windows'[asker[c]].count \in Nat
        /\ windows'[asker[c]].start <= now /\ windows'[asker[c]].count <= RateLimit
    <2>1. CASE NewWindow(c)
      BY <1>0, <1>2, <2>1, PolicyAssumption, RateLimiterAssumption
      DEF NewWindow, TimesInOrder
    <2>2. CASE OneMore(c)
      BY <1>0, <2>2, PolicyAssumption
      DEF OneMore, Counted, TimesInOrder, LimiterTypeOK
    <2>3. CASE WindowFull(c)
      BY <1>0, <2>3, PolicyAssumption DEF WindowFull, TimesInOrder, LimiterTypeOK
    <2> QED
      BY <1>1, <2>1, <2>2, <2>3
  <1>4. \A s \in DOMAIN windows' \ {asker[c]} :
          s \in DOMAIN windows /\ windows'[s] = windows[s]
    BY <1>1 DEF OthersKept
  <1>5. DOMAIN windows' \subseteq Sources
        /\ windows' = [s \in DOMAIN windows' |-> windows'[s]]
        /\ evicted' \subseteq Sources
    BY <1>0, <1>1 DEF OthersKept, LimiterTypeOK
  <1>6. LimiterTypeOK'
    BY <1>0, <1>2, <1>3, <1>4, <1>5 DEF LimiterTypeOK
  <1>7. TimesInOrder'
    BY <1>0, <1>2, <1>3, <1>4 DEF TimesInOrder, LimiterTypeOK
  <1> QED
    BY <1>6, <1>7

\* A window that is over, or was never opened, leaves at most the limit in
\* the last Safe ticks.
LEMMA OverLeavesFew ==
  ASSUME LimiterInv, NEW c \in Callers, step[c] = "timed",
         NEW s \in Sources \ evicted,
         s \notin DOMAIN windows \/ WindowOver(windows[s], stamp[c])
  PROVE  Cardinality(Since(s, now - Safe + 1)) <= RateLimit
  <1>0. LimiterTypeOK /\ TimesInOrder /\ WindowsApart
    BY DEF LimiterInv
  <1>1. CASE s \notin DOMAIN windows
    BY <1>0, <1>1 DEF WindowsApart
  <1>2. CASE s \in DOMAIN windows /\ WindowOver(windows[s], stamp[c])
    <2>1. PICK t \in Nat, cur \in SUBSET Callers : OpenedAt(s, t, cur)
      BY <1>0, <1>2 DEF WindowsApart
    <2>2. /\ now \in Nat /\ stamp[c] \in Nat /\ stamp[c] <= now
          /\ windows[s].start \in Nat /\ windows[s].count \in Nat
          /\ windows[s].count <= RateLimit
          /\ \A d \in Callers : decided[d] \in Nat
      BY <1>0, <1>2 DEF LimiterTypeOK, TimesInOrder
    <2>3. t <= now - Safe
      BY <1>2, <2>1, <2>2, PolicyAssumption, RateLimiterAssumption
      DEF OpenedAt, WindowOver, Safe
    <2>4. Since(s, now - Safe + 1) \in SUBSET cur
      <3> SUFFICES ASSUME NEW d \in Since(s, now - Safe + 1), d \notin cur
                   PROVE  FALSE
        OBVIOUS
      <3>1. /\ d \in Callers \ cur /\ step[d] = "granted" /\ asker[d] = s
            /\ now - Safe + 1 <= decided[d]
        BY DEF Since, SinceNext
      <3>2. decided[d] <= t
        BY <2>1, <3>1 DEF OpenedAt
      <3> QED
        BY <2>2, <2>3, <3>1, <3>2, PolicyAssumption, RateLimiterAssumption DEF Safe
    <2>5. /\ Cardinality(Since(s, now - Safe + 1)) \in Nat /\ Cardinality(cur) \in Nat
          /\ Cardinality(Since(s, now - Safe + 1)) <= Cardinality(cur)
      BY <2>4, CallersCount
    <2> QED
      BY <2>1, <2>2, <2>5, PolicyAssumption DEF OpenedAt
  <1> QED
    BY <1>1, <1>2

LEMMA DecideCounts ==
  ASSUME LimiterInv, NEW c \in Callers, Decide(c)
  PROVE  CountsGrants'
  <1>0. LimiterTypeOK /\ TimesInOrder /\ CountsGrants /\ asker[c] \in Sources
    BY DEF LimiterInv, LimiterTypeOK
  <1>1. OthersKept(c) /\ (NewWindow(c) \/ OneMore(c) \/ WindowFull(c))
    BY DecideCases
  <1>2. LimiterTypeOK' /\ TimesInOrder'
    BY DecideKeepsTypes
  <1> SUFFICES ASSUME NEW s \in DOMAIN windows'
               PROVE  windows'[s].count <= Cardinality(SinceNext(s, windows'[s].start))
    BY DEF CountsGrants, Since, SinceNext
  <1> DEFINE before == Since(s, windows'[s].start)
             after  == SinceNext(s, windows'[s].start)
  <1>3. /\ before \in SUBSET after /\ after \in SUBSET Callers
        /\ Cardinality(after) \in Nat /\ Cardinality(before) \in Nat
        /\ Cardinality(before) <= Cardinality(after)
        /\ IsFiniteSet(before)
    <2>1. before \in SUBSET after /\ after \in SUBSET Callers
      BY DecideGrants DEF Since, SinceNext
    <2> QED
      BY <2>1, CallersCount
  <1>4. CASE s \in DOMAIN windows /\ windows'[s] = windows[s]
    BY <1>0, <1>3, <1>4 DEF CountsGrants, LimiterTypeOK
  <1>5. CASE s = asker[c] /\ step'[c] = "granted" /\ (NewWindow(c) \/ OneMore(c))
    <2>1. c \in after /\ c \notin before /\ after = before \cup {c}
      BY <1>2, <1>5, DecideGrants DEF Since, SinceNext, TimesInOrder
    <2>2. Cardinality(after) = Cardinality(before) + 1
      BY <1>3, <2>1, FS_AddElement
    <2>3. CASE NewWindow(c)
      BY <1>3, <1>5, <2>2, <2>3 DEF NewWindow
    <2>4. CASE OneMore(c)
      BY <1>0, <1>3, <1>5, <2>2, <2>4 DEF OneMore, Counted, CountsGrants, LimiterTypeOK
    <2> QED
      BY <1>5, <2>3, <2>4
  <1>6. CASE WindowFull(c) /\ s = asker[c]
    BY <1>4, <1>6 DEF WindowFull
  <1>7. NewWindow(c) \/ OneMore(c) => step'[c] = "granted"
    BY <1>0 DEF NewWindow, OneMore, LimiterTypeOK
  <1> QED
    BY <1>1, <1>4, <1>5, <1>6, <1>7 DEF OthersKept

LEMMA DecideApart ==
  ASSUME LimiterInv, NEW c \in Callers, Decide(c)
  PROVE  WindowsApart'
  <1>0. LimiterTypeOK /\ TimesInOrder /\ WindowsApart /\ asker[c] \in Sources
    BY DEF LimiterInv, LimiterTypeOK
  <1>1. OthersKept(c) /\ (NewWindow(c) \/ OneMore(c) \/ WindowFull(c))
    BY DecideCases
  <1>2. /\ UNCHANGED <<now, asker, stamp>> /\ step[c] = "timed" /\ decided'[c] = now
        /\ \A d \in Callers \ {c} : step'[d] = step[d] /\ decided'[d] = decided[d]
        /\ now \in Nat /\ stamp[c] \in Nat /\ stamp[c] <= now /\ now - stamp[c] <= MaxSkew
        /\ \A d \in Callers : decided[d] <= now
    BY <1>0, DecideGrants DEF LimiterTypeOK, TimesInOrder
  <1>3. /\ \A s, t : SinceNext(s, t) \subseteq Since(s, t) \cup {c}
        /\ \A s, t : Since(s, t) \in SUBSET Callers
        /\ \A s, t : s # asker[c] \/ step'[c] # "granted" => SinceNext(s, t) = Since(s, t)
    BY DecideGrants DEF Since, SinceNext
  <1> SUFFICES ASSUME NEW s \in Sources \ evicted'
               PROVE  /\ s \in DOMAIN windows' =>
                           \E t \in Nat, cur \in SUBSET Callers : OpenedAt(s, t, cur)'
                      /\ s \notin DOMAIN windows' =>
                           Cardinality(SinceNext(s, now - Safe + 1)) <= RateLimit
    BY <1>2 DEF WindowsApart, Since, SinceNext
  <1>4. s \in Sources \ evicted
    BY <1>1 DEF OthersKept
  <1>5. CASE s \notin DOMAIN windows'
    <2>1. s # asker[c]
      BY <1>1, <1>5 DEF NewWindow, OneMore, WindowFull
    <2>2. s \notin DOMAIN windows \/ WindowOver(windows[s], stamp[c])
      BY <1>1, <1>5 DEF OthersKept
    <2>3. SinceNext(s, now - Safe + 1) = Since(s, now - Safe + 1)
      BY <1>2, <1>3, <2>1
    <2> QED
      BY <1>2, <1>4, <1>5, <2>2, <2>3, OverLeavesFew
  <1>6. CASE /\ s \in DOMAIN windows \cap DOMAIN windows' /\ windows'[s] = windows[s]
             /\ s # asker[c] \/ step'[c] # "granted"
    <2>1. PICK t \in Nat, cur \in SUBSET Callers : OpenedAt(s, t, cur)
      BY <1>0, <1>4, <1>6 DEF WindowsApart
    <2>2. SinceNext(s, t - Safe + 1) = Since(s, t - Safe + 1)
      BY <1>3, <1>6
    <2>3. \A d \in Callers \ cur :
            step'[d] = "granted" /\ asker'[d] = s => decided'[d] <= t
      BY <1>2, <1>6, <2>1 DEF OpenedAt
    <2>4. OpenedAt(s, t, cur)'
      BY <1>2, <1>6, <2>1, <2>2, <2>3 DEF OpenedAt, Since, SinceNext
    <2> QED
      BY <1>6, <2>4
  <1>7. CASE s = asker[c] /\ NewWindow(c)
    <2>1. Cardinality(Since(s, now - Safe + 1)) <= RateLimit
      BY <1>2, <1>4, <1>7, OverLeavesFew DEF NewWindow
    <2>2. /\ SinceNext(s, now - Safe + 1) \ {c} \in SUBSET Since(s, now - Safe + 1)
          /\ Cardinality(Since(s, now - Safe + 1)) \in Nat
          /\ Cardinality(SinceNext(s, now - Safe + 1) \ {c}) \in Nat
          /\ Cardinality(SinceNext(s, now - Safe + 1) \ {c})
                <= Cardinality(Since(s, now - Safe + 1))
      <3>1. SinceNext(s, now - Safe + 1) \ {c} \in SUBSET Since(s, now - Safe + 1)
        BY <1>3
      <3> QED
        BY <1>3, <3>1, CallersCount
    <2>3. Cardinality(SinceNext(s, now - Safe + 1) \ {c}) <= RateLimit
      BY <2>1, <2>2, PolicyAssumption
    <2>4. Cardinality({c}) = 1
      BY FS_Singleton
    <2>5. windows'[s] = [start |-> stamp[c], count |-> 1]
      BY <1>7 DEF NewWindow
    <2>6. OpenedAt(s, now, {c})'
      BY <1>2, <2>3, <2>4, <2>5 DEF OpenedAt, Since, SinceNext
    <2> QED
      BY <1>2, <1>7, <2>6 DEF NewWindow
  <1>8. CASE s = asker[c] /\ OneMore(c)
    <2>1. PICK t \in Nat, cur \in SUBSET Callers : OpenedAt(s, t, cur)
      BY <1>0, <1>4, <1>8 DEF WindowsApart, OneMore
    <2> DEFINE more == cur \cup {c}
    <2>2. IsFiniteSet(cur) /\ Cardinality(cur) \in Nat
      BY CallersCount
    <2>3. Cardinality(more) \in {Cardinality(cur), Cardinality(cur) + 1}
      BY <2>2, FS_AddElement
    <2>4. /\ windows[s].start \in Nat /\ windows[s].count \in Nat
          /\ windows'[s].start = windows[s].start
          /\ windows'[s].count = windows[s].count + 1
      BY <1>0, <1>8 DEF OneMore, Counted, LimiterTypeOK
    <2>5. Cardinality(more) <= windows'[s].count
      BY <2>1, <2>2, <2>3, <2>4 DEF OpenedAt
    <2> DEFINE earlier == Since(s, t - Safe + 1) \ cur
               later   == SinceNext(s, t - Safe + 1) \ more
    <2>6. later \in SUBSET earlier /\ earlier \in SUBSET Callers
      BY <1>3
    <2>7. /\ Cardinality(later) \in Nat /\ Cardinality(earlier) \in Nat
          /\ Cardinality(later) <= Cardinality(earlier)
      BY <2>6, CallersCount
    <2>8. Cardinality(earlier) <= RateLimit
      BY <2>1 DEF OpenedAt
    <2>9. Cardinality(later) <= RateLimit
      BY <2>7, <2>8, PolicyAssumption
    <2>10. \A d \in Callers \ more :
             step'[d] = "granted" /\ asker'[d] = s => decided'[d] <= t
      BY <1>2, <2>1 DEF OpenedAt
    <2>11. /\ windows'[s].start <= t /\ t <= now' /\ t - windows'[s].start <= MaxSkew
      BY <1>2, <2>1, <2>4 DEF OpenedAt
    <2>12. OpenedAt(s, t, more)'
      BY <2>5, <2>9, <2>10, <2>11 DEF OpenedAt, Since, SinceNext
    <2> QED
      BY <1>8, <2>12 DEF OneMore
  <1>9. CASE s = asker[c] /\ WindowFull(c)
    <2>1. step'[c] # "granted"
      BY <1>0, <1>9 DEF WindowFull, LimiterTypeOK
    <2> QED
      BY <1>6, <1>9, <2>1 DEF WindowFull
  <1>10. CASE s # asker[c] /\ s \in DOMAIN windows'
    BY <1>1, <1>6, <1>10 DEF OthersKept
  <1> QED
    BY <1>1, <1>5, <1>7, <1>8, <1>9, <1>10

\* Calls that are granted in an interval that ends now or later belong to the
\* present window, or are among the few before it.
LEMMA DecideBounds ==
  ASSUME LimiterInv, NEW c \in Callers, Decide(c)
  PROVE  BurstBounded'
  <1>0. LimiterTypeOK /\ BurstBounded /\ asker[c] \in Sources
    BY DEF LimiterInv, LimiterTypeOK
  <1>1. LimiterTypeOK' /\ TimesInOrder' /\ WindowsApart'
    BY DecideKeepsTypes, DecideApart
  <1>2. OthersKept(c) /\ (NewWindow(c) \/ OneMore(c) \/ WindowFull(c)) /\ now' = now
    BY DecideCases, DecideGrants
  <1> SUFFICES ASSUME NEW s \in Sources \ evicted', NEW t \in 0..now
               PROVE  Cardinality(GrantedNext(s, t, t + RateWindow - MaxSkew - 1)) <= 2 * RateLimit
    BY <1>2 DEF BurstBounded, Granted, GrantedNext
  <1> DEFINE end == t + RateWindow - MaxSkew - 1
  <1>3. s \in Sources \ evicted
    BY <1>2 DEF OthersKept
  <1>4. CASE s # asker[c] \/ step'[c] # "granted" \/ end < now
    <2>1. end \in Int
      BY PolicyAssumption, RateLimiterAssumption
    <2>2. GrantedNext(s, t, end) = Granted(s, t, end)
      BY <1>4, <2>1, DecideGrants
    <2> QED
      BY <1>0, <1>3, <2>2 DEF BurstBounded
  <1>5. CASE s = asker[c] /\ step'[c] = "granted" /\ ~(end < now)
    <2>1. s \in DOMAIN windows'
      BY <1>2, <1>5 DEF NewWindow, OneMore, WindowFull
    <2>2. PICK t0 \in Nat, cur \in SUBSET Callers : OpenedAt(s, t0, cur)'
      BY <1>1, <2>1 DEF WindowsApart
    <2>3. now \in Nat /\ t0 <= now /\ t0 - Safe + 1 <= t
      BY <1>0, <1>2, <1>5, <2>2, PolicyAssumption, RateLimiterAssumption
      DEF OpenedAt, Safe, LimiterTypeOK
    <2> DEFINE earlier == SinceNext(s, t0 - Safe + 1) \ cur
    <2>4. GrantedNext(s, t, end) \in SUBSET (earlier \cup cur)
      <3> SUFFICES ASSUME NEW d \in GrantedNext(s, t, end)
                   PROVE  d \in SinceNext(s, t0 - Safe + 1)
        OBVIOUS
      <3>1. /\ d \in Callers /\ step'[d] = "granted" /\ asker'[d] = s /\ t <= decided'[d]
        BY DEF Granted, GrantedNext
      <3>2. t0 - Safe + 1 <= decided'[d]
        BY <1>1, <2>3, <3>1, PolicyAssumption, RateLimiterAssumption DEF LimiterTypeOK, Safe
      <3> QED
        BY <3>1, <3>2 DEF Since, SinceNext
    <2>5. earlier \in SUBSET Callers /\ earlier \cup cur \in SUBSET Callers
      BY DEF Since, SinceNext
    <2>6. /\ IsFiniteSet(earlier) /\ Cardinality(earlier) \in Nat
          /\ IsFiniteSet(cur) /\ Cardinality(cur) \in Nat
          /\ Cardinality(earlier \cup cur) \in Nat
          /\ Cardinality(GrantedNext(s, t, end)) \in Nat
          /\ Cardinality(GrantedNext(s, t, end)) <= Cardinality(earlier \cup cur)
      BY <2>4, <2>5, CallersCount
    <2>7. Cardinality(earlier \cup cur) <= Cardinality(earlier) + Cardinality(cur)
      <3>1. earlier \cap cur = {}
        OBVIOUS
      <3>2. /\ Cardinality(earlier \cup cur) =
                 Cardinality(earlier) + Cardinality(cur) - Cardinality(earlier \cap cur)
        BY <2>6, FS_Union
      <3>3. Cardinality(earlier \cap cur) = 0
        BY <3>1, FS_EmptySet
      <3> QED
        BY <2>6, <3>2, <3>3
    <2>8. /\ windows'[s].count \in Nat /\ windows'[s].count <= RateLimit
      BY <1>1, <2>1 DEF LimiterTypeOK, TimesInOrder
    <2>9. Cardinality(cur) <= windows'[s].count /\ Cardinality(earlier) <= RateLimit
      BY <2>2 DEF OpenedAt, Since, SinceNext
    <2>10. Cardinality(earlier) + Cardinality(cur) <= 2 * RateLimit
      BY <2>6, <2>8, <2>9, PolicyAssumption
    <2> QED
      BY <2>6, <2>7, <2>10, PolicyAssumption
  <1> QED
    BY <1>4, <1>5

LEMMA DecideRefuses ==
  ASSUME LimiterInv, NEW c \in Callers, Decide(c)
  PROVE  RefusedForCause'
  <1>0. /\ LimiterTypeOK /\ TimesInOrder /\ CountsGrants /\ RefusedForCause
        /\ asker[c] \in Sources
    BY DEF LimiterInv, LimiterTypeOK
  <1>1. NewWindow(c) \/ OneMore(c) \/ WindowFull(c)
    BY DecideCases
  <1>2. /\ UNCHANGED <<now, asker, stamp>> /\ step[c] = "timed" /\ decided'[c] = now
        /\ \A d \in Callers \ {c} : step'[d] = step[d] /\ decided'[d] = decided[d]
        /\ \A s, t, u : Granted(s, t, u) \subseteq GrantedNext(s, t, u)
        /\ now \in Nat /\ stamp[c] \in Nat /\ now - stamp[c] <= MaxSkew
    BY <1>0, DecideGrants DEF LimiterTypeOK, TimesInOrder
  <1>3. ASSUME NEW s, NEW t, NEW u
        PROVE  /\ Cardinality(Granted(s, t, u)) <= Cardinality(GrantedNext(s, t, u))
               /\ Cardinality(Granted(s, t, u)) \in Nat
               /\ Cardinality(GrantedNext(s, t, u)) \in Nat
    <2>1. Granted(s, t, u) \in SUBSET GrantedNext(s, t, u) /\ GrantedNext(s, t, u) \in SUBSET Callers
      BY <1>2 DEF Granted, GrantedNext
    <2> QED
      BY <2>1, CallersCount
  <1> SUFFICES ASSUME NEW d \in Callers, step'[d] = "refused"
               PROVE  Cardinality(GrantedNext(asker[d], decided'[d] - RateWindow - MaxSkew + 1,
                                          decided'[d])) >= RateLimit
    BY <1>2 DEF RefusedForCause, Granted, GrantedNext
  <1>4. CASE d # c
    <2> DEFINE from == decided[d] - RateWindow - MaxSkew + 1
    <2>1. Cardinality(Granted(asker[d], from, decided[d])) >= RateLimit
      BY <1>0, <1>2, <1>4 DEF RefusedForCause
    <2>2. decided'[d] = decided[d]
      BY <1>2, <1>4
    <2>3. Cardinality(GrantedNext(asker[d], from, decided[d])) >= RateLimit
      BY <1>3, <2>1, PolicyAssumption
    <2> QED
      BY <2>2, <2>3
  <1>5. CASE d = c
    <2>1. WindowFull(c)
      BY <1>0, <1>1, <1>5 DEF NewWindow, OneMore, LimiterTypeOK
    <2> DEFINE src == asker[c]
               w == windows[src]
               from == now - RateWindow - MaxSkew + 1
    <2>2. /\ src \in DOMAIN windows /\ w.start \in Nat /\ w.count \in Nat
          /\ w.count >= RateLimit /\ ~WindowOver(w, stamp[c])
          /\ w.count <= Cardinality(Since(src, w.start))
      BY <1>0, <2>1 DEF WindowFull, CountsGrants, LimiterTypeOK
    <2>3. from <= w.start
      BY <1>2, <2>2, PolicyAssumption, RateLimiterAssumption DEF WindowOver
    <2>4. Since(src, w.start) \in SUBSET Granted(src, from, now)
      <3> SUFFICES ASSUME NEW e \in Since(src, w.start) PROVE e \in Granted(src, from, now)
        OBVIOUS
      <3>1. e \in Callers /\ step[e] = "granted" /\ asker[e] = src /\ w.start <= decided[e]
        BY DEF Since, SinceNext
      <3>2. decided[e] \in Nat /\ decided[e] <= now
        BY <1>0, <3>1 DEF LimiterTypeOK, TimesInOrder
      <3>3. from <= decided[e]
        BY <1>2, <2>2, <2>3, <3>1, <3>2, PolicyAssumption, RateLimiterAssumption
      <3> QED
        BY <3>1, <3>2, <3>3 DEF Granted, GrantedNext
    <2>5. Granted(src, from, now) \in SUBSET Callers
      BY DEF Granted, GrantedNext
    <2>6. /\ Cardinality(Since(src, w.start)) <= Cardinality(Granted(src, from, now))
          /\ Cardinality(Since(src, w.start)) \in Nat
      BY <2>4, <2>5, CallersCount
    <2>7. Cardinality(GrantedNext(src, from, now)) >= RateLimit
      BY <1>3, <2>2, <2>6, PolicyAssumption
    <2> QED
      BY <1>2, <1>5, <2>7
  <1> QED
    BY <1>4, <1>5

\* What the fixed windows are worth, for any number of callers and sources,
\* any limit, window, capacity and wait for the mutex: no source that was
\* never evicted gets more than a double burst out of an interval shorter
\* than a window less the wait, nobody is refused unless its own source had
\* the limit within the last window, and the map keeps within its capacity
\* (policy.go:189-236).
THEOREM LimiterIsFair == LimiterSpec => []LimiterFair
  <1>1. LimiterInit => LimiterInv
    BY LimiterInitially
  <1>2. LimiterInv /\ [LimiterNext]_limiterVars => LimiterInv'
    <2> SUFFICES ASSUME LimiterInv, [LimiterNext]_limiterVars PROVE LimiterInv'
      OBVIOUS
    <2>1. ASSUME NEW c \in Callers, Decide(c) PROVE LimiterInv'
      BY <2>1, DecideCases, DecideKeepsTypes, DecideCounts, DecideApart, DecideBounds,
         DecideRefuses DEF LimiterInv
    <2>2. CASE (\E c \in Callers : ReadClock(c)) \/ LimiterTick \/ UNCHANGED limiterVars
      BY <2>2, ClockStep
    <2> QED
      BY <2>1, <2>2 DEF LimiterNext
  <1>3. LimiterInv => LimiterFair
    BY DEF LimiterInv, LimiterFair
  <1> QED
    BY <1>1, <1>2, <1>3, PTL DEF LimiterSpec
=============================================================================
