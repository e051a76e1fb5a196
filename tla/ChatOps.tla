------------------------------ MODULE ChatOps ------------------------------
(***************************************************************************)
(* internal/chatops: Service.Handle (admission and idempotency), Queue     *)
(* (bounded channel, workers, shutdown), SessionMap, and the part of       *)
(* internal/core/runner and internal/session that a chat turn touches      *)
(* (load the resume snapshot, run, save the snapshot).                     *)
(*                                                                         *)
(* A handler is the goroutine that serves one delivery of a chat event by  *)
(* the platform; the same event may be delivered to several handlers.  The *)
(* Job a handler enqueues is named by the handler, and so is the session   *)
(* that a job creates when it resumes none (session.newID).                *)
(***************************************************************************)
EXTENDS ChatPolicy, Sequences

CONSTANTS
  Handlers,        \* deliveries, one goroutine each
  Events,          \* distinct chat events, by idempotency key
  Keyless,         \* the events that carry no idempotency key
  Rejected,        \* the events that fail authentication, text or allowlist
  Convs,           \* conversations, by conversationKey
  SourceOf,        \* SourceOf[e]: the source of event e
  ConvOf,          \* ConvOf[e]: the conversation of event e
  Workers,         \* worker goroutines: max_concurrent_runs of them
  QueueDepth,      \* capacity of Queue.jobs
  SeenTTL,         \* idempotencyTTL, in ticks
  MaxSeen,         \* maxIdempotencyEntries
  StoreFaults,     \* TRUE: reads and writes of local files may fail
  MaxTime,         \* bound on the clock
  MaxRestarts,     \* bound on process restarts
  None             \* no session, no job, no event

ASSUME ChatOpsAssumption ==
  /\ Keyless \subseteq Events /\ Rejected \subseteq Events
  /\ SourceOf \in [Events -> Sources]
  /\ ConvOf \in [Events -> Convs]
  /\ QueueDepth \in Nat \ {0} /\ SeenTTL \in Nat /\ MaxSeen \in Nat \ {0}
  /\ StoreFaults \in BOOLEAN
  /\ MaxTime \in Nat /\ MaxRestarts \in Nat
  /\ None \notin Handlers \cup Events
  /\ Workers # {}      \* NewQueue takes one when none are configured

VARIABLES
  pc,        \* pc[h]: how far handler h is in Service.Handle
  event,     \* event[h]: the event h serves
  at,        \* at[h]: its ReceivedAt
  seen,      \* seen[e]: when the key of e was marked, or Unseen
  queue,     \* Queue.jobs, a buffered channel
  closed,    \* Queue.closed
  shut,      \* the caller of Shutdown
  phase,     \* phase[w]: how far worker w is in Queue.run
  job,       \* job[w]: the job it runs
  resume,    \* resume[w]: the session the job resumes
  loaded,    \* loaded[w]: the turns of the history it was given
  reply,     \* reply[w]: the message it is going to deliver
  sessionOf, \* sessions.json: the session remembered for a conversation
  snapshot,  \* history.json of a session: its turns, {} when there is none
  outcome,   \* outcome[h]: what became of the job of h
  restarts,  \* process restarts so far
  \* History variables: they only record what happened.
  forgotten, \* events whose key was dropped after it had been marked
  prior      \* prior[h]: turns that were answered when h's event arrived

admissionVars == <<pc, event, at, seen, prior>>
workerVars    == <<phase, job, resume, loaded, reply>>
storeVars     == <<sessionOf, snapshot>>
vars == <<now, windows, pc, event, at, seen, queue, closed, shut, phase, job,
          resume, loaded, reply, sessionOf, snapshot, outcome, restarts,
          forgotten, prior>>

Unseen == -1
Conv(h) == ConvOf[event[h]]

\* Variant: a key that leaves the thread out.
CoarseKey(h) == CHOOSE c \in Convs : TRUE

\* conversationKey: the key of sessions.json.
SessionKey(h) == Conv(h)

\* Turns whose answer reached the user.
Answered == {h \in Handlers : outcome[h] = "delivered"}

-----------------------------------------------------------------------------
\* Initial state: NewService and NewQueue on an empty home directory.

IdleWorkers ==
  /\ phase' = [w \in Workers |-> "idle"]
  /\ job' = [w \in Workers |-> None]
  /\ resume' = [w \in Workers |-> None]
  /\ loaded' = [w \in Workers |-> {}]
  /\ reply' = [w \in Workers |-> "none"]

Init ==
  /\ PolicyInit
  /\ pc = [h \in Handlers |-> "idle"]
  /\ event = [h \in Handlers |-> None]
  /\ at = [h \in Handlers |-> 0]
  /\ seen = [e \in Events |-> Unseen]
  /\ queue = <<>>
  /\ closed = FALSE
  /\ shut = "up"
  /\ phase = [w \in Workers |-> "idle"]
  /\ job = [w \in Workers |-> None]
  /\ resume = [w \in Workers |-> None]
  /\ loaded = [w \in Workers |-> {}]
  /\ reply = [w \in Workers |-> "none"]
  /\ sessionOf = [c \in Convs |-> None]
  /\ snapshot = [h \in Handlers |-> {}]
  /\ outcome = [h \in Handlers |-> "none"]
  /\ restarts = 0
  /\ forgotten = {}
  /\ prior = [h \in Handlers |-> {}]

-----------------------------------------------------------------------------
\* Admission: Service.Handle, one action per step between two locks.

\* The platform delivers event e to handler h, which stamps ReceivedAt.
Arrive(h, e) ==
  /\ pc[h] = "idle"
  /\ pc' = [pc EXCEPT ![h] = "arrived"]
  /\ event' = [event EXCEPT ![h] = e]
  /\ at' = [at EXCEPT ![h] = now]
  /\ prior' = [prior EXCEPT ![h] = {t \in Answered : Conv(t) = ConvOf[e]}]
  /\ UNCHANGED <<now, windows, seen, queue, closed, shut, workerVars,
                 storeVars, outcome, restarts, forgotten>>

\* Policy.Authorize: the stateless checks come first, then the rate limit.
Authorize(h) ==
  /\ pc[h] = "arrived"
  /\ \/ /\ event[h] \in Rejected
        /\ pc' = [pc EXCEPT ![h] = "refused"]
        /\ UNCHANGED windows
     \/ /\ event[h] \notin Rejected
        /\ \E t \in at[h]..now, ok \in BOOLEAN :
             /\ CheckRate(SourceOf[event[h]], t, ok)
             /\ pc' = [pc EXCEPT ![h] = IF ok THEN "authorized" ELSE "refused"]
  /\ UNCHANGED <<now, event, at, seen, prior, queue, closed, shut, workerVars,
                 storeVars, outcome, restarts, forgotten>>

NotMarked(h, m) == m
StillMarked(h) == seen
RoomForOneMore == Len(queue) <= QueueDepth

\* pruneSeenLocked: a key expires once it is older than idempotencyTTL.
Expired(e, t) == seen[e] # Unseen /\ seen[e] < t - SeenTTL

Known(m) == {e \in Events : m[e] # Unseen}

PrunedSeen(t) == [e \in Events |-> IF Expired(e, t) THEN Unseen ELSE seen[e]]

\* markSeen at capacity drops one arbitrary key to make room.
MakeRoom(m) ==
  IF Cardinality(Known(m)) >= MaxSeen
  THEN {[m EXCEPT ![e] = Unseen] : e \in Known(m)}
  ELSE {m}

Marked(h, m) == [m EXCEPT ![event[h]] = at[h]]

\* Keys that were known and are not known any more.
Dropped(m) == {e \in Events : seen[e] # Unseen /\ m[e] = Unseen}

\* markSeen: answer ErrDuplicate, or remember the key and go on to Enqueue.
\* An event without a key goes straight on.
MarkSeen(h) ==
  /\ pc[h] = "authorized"
  /\ \/ /\ event[h] \in Keyless
        /\ pc' = [pc EXCEPT ![h] = "enqueuing"]
        /\ UNCHANGED <<seen, forgotten>>
     \/ /\ event[h] \notin Keyless
        /\ LET pruned == PrunedSeen(at[h]) IN
             \/ /\ pruned[event[h]] # Unseen
                /\ pc' = [pc EXCEPT ![h] = "duplicate"]
                /\ seen' = pruned
                /\ forgotten' = forgotten \cup Dropped(pruned)
             \/ /\ pruned[event[h]] = Unseen
                /\ pc' = [pc EXCEPT ![h] = "enqueuing"]
                /\ \E m \in MakeRoom(pruned) :
                     /\ seen' = Marked(h, m)
                     /\ forgotten' = forgotten \cup Dropped(m)
  /\ UNCHANGED <<now, windows, event, at, prior, queue, closed, shut,
                 workerVars, storeVars, outcome, restarts>>

\* The buffered channel takes another job without blocking.
ChannelHasRoom == Len(queue) < QueueDepth

\* Queue.Enqueue under closeMu.  A handler whose request context is done may
\* be refused although there is room: select picks either ready case.
Enqueue(h) ==
  /\ pc[h] = "enqueuing"
  /\ \/ /\ ~closed /\ ChannelHasRoom
        /\ queue' = Append(queue, h)
        /\ pc' = [pc EXCEPT ![h] = "accepted"]
     \/ /\ pc' = [pc EXCEPT ![h] = IF event[h] \in Keyless THEN "refused"
                                                          ELSE "unmarking"]
        /\ UNCHANGED queue
  /\ UNCHANGED <<now, windows, event, at, seen, prior, closed, shut,
                 workerVars, storeVars, outcome, restarts, forgotten>>

Unmarked(h) == [seen EXCEPT ![event[h]] = Unseen]

\* unmarkSeen after a failed Enqueue, so that a redelivery may try again.
Unmark(h) ==
  /\ pc[h] = "unmarking"
  /\ pc' = [pc EXCEPT ![h] = "refused"]
  /\ seen' = Unmarked(h)
  /\ UNCHANGED <<now, windows, event, at, prior, queue, closed, shut,
                 workerVars, storeVars, outcome, restarts, forgotten>>

HandlerStep(h) ==
  Authorize(h) \/ MarkSeen(h) \/ Enqueue(h) \/ Unmark(h)

-----------------------------------------------------------------------------
\* The workers: Queue.worker and Queue.run.

\* The channel after a receive.
Dequeued == Tail(queue)

\* A worker receives the next job from the channel.
Take(w) ==
  /\ phase[w] = "idle" /\ queue # <<>>
  /\ job' = [job EXCEPT ![w] = Head(queue)]
  /\ queue' = Dequeued
  /\ phase' = [phase EXCEPT ![w] = "taken"]
  /\ UNCHANGED <<now, windows, admissionVars, closed, shut, resume, loaded,
                 reply, storeVars, outcome, restarts, forgotten>>

\* Variants of definitions below.
ChannelClosed == closed
SnapshotOfTurnOnly(w) == {job[w]}

ChannelDrained == closed /\ queue = <<>>

\* The range over a closed and empty channel ends.
WorkerExit(w) ==
  /\ phase[w] = "idle" /\ ChannelDrained
  /\ phase' = [phase EXCEPT ![w] = "exited"]
  /\ UNCHANGED <<now, windows, admissionVars, queue, closed, shut, job, resume,
                 loaded, reply, storeVars, outcome, restarts, forgotten>>

\* SessionMap.Lookup: a read error reads as "no session".
Lookup(w) ==
  /\ phase[w] = "taken"
  /\ \E found \in {sessionOf[SessionKey(job[w])]}
                  \cup (IF StoreFaults THEN {None} ELSE {}) :
       resume' = [resume EXCEPT ![w] = found]
  /\ phase' = [phase EXCEPT ![w] = "starting"]
  /\ UNCHANGED <<now, windows, admissionVars, queue, closed, shut, job, loaded,
                 reply, storeVars, outcome, restarts, forgotten>>

\* runner.Run up to agent.New: load the snapshot of the resumed session.
LoadHistory(w) ==
  /\ phase[w] = "starting"
  /\ resume[w] # None => snapshot[resume[w]] # {}
  /\ loaded' = [loaded EXCEPT ![w] = IF resume[w] = None THEN {}
                                     ELSE snapshot[resume[w]]]
  /\ phase' = [phase EXCEPT ![w] = "running"]
  /\ UNCHANGED <<now, windows, admissionVars, queue, closed, shut, job, resume,
                 reply, storeVars, outcome, restarts, forgotten>>

\* RunCloudy returns an error: configuration, ErrNoResumeState, the provider,
\* a refused tool, or the run timeout.  Nothing is saved or remembered.
RunFails(w) ==
  /\ phase[w] \in {"starting", "running"}
  /\ reply' = [reply EXCEPT ![w] = "error"]
  /\ phase' = [phase EXCEPT ![w] = "replying"]
  /\ UNCHANGED <<now, windows, admissionVars, queue, closed, shut, job, resume,
                 loaded, storeVars, outcome, restarts, forgotten>>

\* The session the run writes to: the resumed one, else a new one.
Session(w) == IF resume[w] = None THEN job[w] ELSE resume[w]

\* A write that may fail and whose failure is only logged or ignored.
MaybeWritten(old, new) == IF StoreFaults THEN {old, new} ELSE {new}

\* The agent returns the loaded history with this turn appended.
NewHistory(w) == loaded[w] \cup {job[w]}

\* The agent answered: SaveHistory overwrites the snapshot of the session.
RunSucceeds(w) ==
  /\ phase[w] = "running"
  /\ \E s \in MaybeWritten(snapshot[Session(w)], NewHistory(w)) :
       snapshot' = [snapshot EXCEPT ![Session(w)] = s]
  /\ reply' = [reply EXCEPT ![w] = "text"]
  /\ phase' = [phase EXCEPT ![w] = "remembering"]
  /\ UNCHANGED <<now, windows, admissionVars, queue, closed, shut, job, resume,
                 loaded, sessionOf, outcome, restarts, forgotten>>

\* SessionMap.Remember; its error is dropped.
Remember(w) ==
  /\ phase[w] = "remembering"
  /\ LET c == SessionKey(job[w]) IN
       \E s \in MaybeWritten(sessionOf[c], Session(w)) :
         sessionOf' = [sessionOf EXCEPT ![c] = s]
  /\ phase' = [phase EXCEPT ![w] = "replying"]
  /\ UNCHANGED <<now, windows, admissionVars, queue, closed, shut, job, resume,
                 loaded, reply, snapshot, outcome, restarts, forgotten>>

\* What may become of the job: its answer arrives, the failure notice does,
\* or delivery fails.  A failed delivery is noted in the session log, but
\* only when the run had a session to note it in and the log can be written.
Outcomes(w) ==
  IF reply[w] = "text"
  THEN {"delivered", "recorded"} \cup (IF StoreFaults THEN {"unrecorded"} ELSE {})
  ELSE {"apologised", "unrecorded"}

\* Variant: the worker is free, its job not forgotten.
ReleaseKeepingJob(w) ==
  /\ phase' = [phase EXCEPT ![w] = "idle"]
  /\ UNCHANGED <<job, resume, loaded, reply>>

\* The end of Queue.run: its locals are gone.
Release(w) ==
  /\ phase' = [phase EXCEPT ![w] = "idle"]
  /\ job' = [job EXCEPT ![w] = None]
  /\ resume' = [resume EXCEPT ![w] = None]
  /\ loaded' = [loaded EXCEPT ![w] = {}]
  /\ reply' = [reply EXCEPT ![w] = "none"]

\* Delivery.Deliver within deliveryTimeout; the worker is free afterwards.
Deliver(w) ==
  /\ phase[w] = "replying"
  /\ \E o \in Outcomes(w) : outcome' = [outcome EXCEPT ![job[w]] = o]
  /\ Release(w)
  /\ UNCHANGED <<now, windows, admissionVars, queue, closed, shut, storeVars,
                 restarts, forgotten>>

WorkerStep(w) ==
  \/ Take(w) \/ WorkerExit(w) \/ Lookup(w) \/ LoadHistory(w) \/ RunFails(w)
  \/ RunSucceeds(w) \/ Remember(w) \/ Deliver(w)

-----------------------------------------------------------------------------
\* Shutdown and the process.

\* Queue.Shutdown closes the channel; a second call finds it closed.
BeginShutdown ==
  /\ shut = "up"
  /\ shut' = "waiting"
  /\ closed' = TRUE
  /\ UNCHANGED <<now, windows, admissionVars, queue, workerVars, storeVars,
                 outcome, restarts, forgotten>>

\* wg.Wait returned: every worker goroutine has ended.
AllExited == \A w \in Workers : phase[w] = "exited"

\* Shutdown returns, because all workers exited or because its ctx is done.
ReturnShutdown ==
  /\ shut = "waiting"
  /\ \/ AllExited /\ shut' = "drained"
     \/ shut' = "expired"
  /\ UNCHANGED <<now, windows, admissionVars, queue, closed, workerVars,
                 storeVars, outcome, restarts, forgotten>>

\* The process dies (a crash, or the end of main) and is started again: only
\* sessions.json and the snapshots survive.
Restart ==
  /\ restarts < MaxRestarts
  /\ restarts' = restarts + 1
  /\ pc' = [h \in Handlers |->
              IF pc[h] \in {"idle", "accepted", "duplicate", "refused"}
              THEN pc[h] ELSE "refused"]
  /\ outcome' = [h \in Handlers |->
                   IF pc[h] = "accepted" /\ outcome[h] = "none"
                   THEN "lost" ELSE outcome[h]]
  /\ forgotten' = forgotten \cup Known(seen)
  /\ seen' = [e \in Events |-> Unseen]
  /\ windows' = NoWindows
  /\ queue' = <<>>
  /\ closed' = FALSE
  /\ shut' = "up"
  /\ IdleWorkers
  /\ UNCHANGED <<now, event, at, prior, storeVars>>

ClockTick ==
  /\ Tick(MaxTime)
  /\ UNCHANGED <<windows, admissionVars, queue, closed, shut, workerVars,
                 storeVars, outcome, restarts, forgotten>>

\* Everything there was to do has been done, or the process has ended.
Quiet ==
  /\ \A h \in Handlers : pc[h] \in {"accepted", "duplicate", "refused"}
  /\ shut \in {"drained", "expired"}
  /\ AllExited
  /\ UNCHANGED vars

Next ==
  \/ \E h \in Handlers, e \in Events : Arrive(h, e)
  \/ \E h \in Handlers : HandlerStep(h)
  \/ \E w \in Workers : WorkerStep(w)
  \/ BeginShutdown \/ ReturnShutdown \/ Restart \/ ClockTick
  \/ Quiet

\* A handler and a worker that can go on do so: goroutines are scheduled, a
\* run and a delivery end at their timeout at the latest.  Nothing makes a
\* platform send, an operator stop the service, or the clock advance.
Fairness ==
  /\ \A h \in Handlers : WF_vars(HandlerStep(h))
  /\ \A w \in Workers : WF_vars(WorkerStep(w))

Spec == Init /\ [][Next]_vars
FairSpec == Spec /\ Fairness

-----------------------------------------------------------------------------
\* Properties.

HandlerStates == {"idle", "arrived", "authorized", "enqueuing", "unmarking",
                  "accepted", "duplicate", "refused"}
WorkerStates == {"idle", "taken", "starting", "running", "remembering",
                 "replying", "exited"}
JobOutcomes == {"none", "delivered", "apologised", "recorded", "unrecorded",
                "lost"}

AdmissionTypeOK ==
  /\ pc \in [Handlers -> HandlerStates]
  /\ event \in [Handlers -> Events \cup {None}]
  /\ \A h \in Handlers : pc[h] # "idle" => event[h] \in Events
  /\ at \in [Handlers -> Nat]
  /\ seen \in [Events -> Nat \cup {Unseen}]
  /\ forgotten \subseteq Events
  /\ prior \in [Handlers -> SUBSET Handlers]

QueueTypeOK ==
  /\ queue \in Seq(Handlers)
  /\ closed \in BOOLEAN
  /\ shut \in {"up", "waiting", "drained", "expired"}
  /\ outcome \in [Handlers -> JobOutcomes]
  /\ restarts \in Nat

WorkerTypeOK ==
  /\ phase \in [Workers -> WorkerStates]
  /\ job \in [Workers -> Handlers \cup {None}]
  /\ \A w \in Workers : job[w] = None <=> phase[w] \in {"idle", "exited"}
  /\ resume \in [Workers -> Handlers \cup {None}]
  /\ loaded \in [Workers -> SUBSET Handlers]
  /\ reply \in [Workers -> {"none", "text", "error"}]

StoreTypeOK ==
  /\ sessionOf \in [Convs -> Handlers \cup {None}]
  /\ snapshot \in [Handlers -> SUBSET Handlers]

\* The types of all variables; only a handler that has an event leaves
\* "idle", and a worker has a job exactly while it is neither idle nor gone.
TypeOK ==
  /\ PolicyTypeOK
  /\ AdmissionTypeOK
  /\ QueueTypeOK
  /\ WorkerTypeOK
  /\ StoreTypeOK

\* Every queued job and every job at a worker is one that Handle accepted.
JobsAccepted ==
  /\ \A i \in DOMAIN queue : pc[queue[i]] = "accepted"
  /\ \A w \in Workers : job[w] # None => pc[job[w]] = "accepted"

\* Two handlers of one event are never both accepted, as long as the key of
\* the event has not been dropped by age, by the capacity of the map, or by
\* the end of the process.  Service.Handle promises this across the three
\* separate locks it takes (rate, seen, queue) and the undo after a failed
\* Enqueue.
AtMostOnce ==
  \A g, h \in Handlers :
    /\ pc[g] = "accepted" /\ pc[h] = "accepted"
    /\ event[g] = event[h]
    /\ event[g] \notin Keyless \cup forgotten
    => g = h

\* The handlers that own the key of their event.
Holding == {"enqueuing", "unmarking", "accepted"}

Owned(h) == pc[h] \in Holding /\ event[h] \notin Keyless \cup forgotten

\* The strengthening of AtMostOnce that the steps preserve: the owner of a
\* key is unique already while it is between markSeen and the end of Enqueue
\* or unmarkSeen, and its key is in the map all that time.
KeyOwned ==
  /\ \A h \in Handlers : Owned(h) => seen[event[h]] # Unseen
  /\ \A g, h \in Handlers : Owned(g) /\ Owned(h) /\ event[g] = event[h] => g = h

\* The idempotency map never outgrows maxIdempotencyEntries.
SeenBounded == Cardinality(Known(seen)) <= MaxSeen

\* A key is in the map only on behalf of a handler that is still trying to
\* enqueue its event or that did: an event that was turned away can always
\* be delivered again, and is then not mistaken for a duplicate.
NoOrphanKey ==
  \A e \in Events : seen[e] # Unseen =>
    \E h \in Handlers : event[h] = e /\ pc[h] \in Holding

\* Where a job can be: in the channel, at a worker, or concluded.
Waiting == {queue[i] : i \in DOMAIN queue}
Running == {job[w] : w \in {v \in Workers : job[v] # None}}
Concluded == {h \in Handlers : outcome[h] # "none"}

\* Every accepted job is in exactly one place, once: none is dropped between
\* the channel, the worker and its conclusion, and none is run twice.
JobsConserved ==
  /\ {h \in Handlers : pc[h] = "accepted"} = Waiting \cup Running \cup Concluded
  /\ Waiting \cap Running = {}
  /\ Waiting \cap Concluded = {}
  /\ Running \cap Concluded = {}
  /\ \A i, j \in DOMAIN queue : queue[i] = queue[j] => i = j
  /\ \A v, w \in Workers : job[v] = job[w] /\ job[v] # None => v = w

\* When Shutdown reports that it drained the queue, every job accepted so
\* far has been concluded, and no handler can slip another one in.
ShutdownDrains ==
  shut = "drained" =>
    /\ closed
    /\ \A h \in Handlers : pc[h] = "accepted" => outcome[h] # "none"

\* A conversation only ever sees its own turns: the history a worker gives
\* to the agent, the snapshot of a session, and the session remembered for a
\* conversation all belong to one conversation, whatever the workers do at
\* the same time and whatever a crash leaves behind.
ConversationsIsolated ==
  /\ \A c \in Convs : sessionOf[c] # None => Conv(sessionOf[c]) = c
  /\ \A s \in Handlers : \A t \in snapshot[s] :
       pc[t] = "accepted" /\ pc[s] = "accepted" /\ Conv(t) = Conv(s)
  /\ \A w \in Workers : \A t \in loaded[w] :
       pc[t] = "accepted" /\ Conv(t) = Conv(job[w])

\* A turn that is answered before a follow-up arrives is in the history the
\* follow-up is run with: the follow-up resumes the session that holds it.
\* docs/SAFETY.md:16 to 18 says the session map exists for this.
FollowUpContinues ==
  \A w \in Workers : phase[w] = "running" => prior[job[w]] \subseteq loaded[w]

\* The session remembered for a conversation can be resumed, so a follow-up
\* does not fail with ErrNoResumeState.
RememberedResumable ==
  \A c \in Convs : sessionOf[c] # None => snapshot[sessionOf[c]] # {}

\* The queue keeps the promise of JobLedger: jobs wait in the channel, are
\* served by the workers, and are lost only with the process.
Ledger == INSTANCE JobLedger WITH
  Jobs <- Handlers,
  Clerks <- Workers,
  Places <- QueueDepth,
  open <- ~closed,
  waiting <- Waiting,
  serving <- [w \in Workers |-> IF job[w] = None THEN {} ELSE {job[w]}],
  closedJobs <- {h \in Handlers : outcome[h] \notin {"none", "lost"}},
  lostJobs <- {h \in Handlers : outcome[h] = "lost"}

\* ChatOps implements JobLedger.
QueueKeepsLedger == Ledger!LedgerSpec

\* Every accepted job is concluded: answered, apologised for, its failed
\* delivery noted, or lost with the process.
EveryJobConcluded ==
  \A h \in Handlers : pc[h] = "accepted" ~> outcome[h] # "none"

\* After Shutdown closes the queue the workers end, so that a Shutdown whose
\* context never expires (cloudy chatops telegram-poll) returns.
WorkersEnd == closed ~> (AllExited \/ ~closed)

\* The idempotency map as a whole: one handler owns a key, the map stays
\* within its capacity, and no key stands for an event that was turned away.
KeysAccounted == KeyOwned /\ SeenBounded /\ NoOrphanKey

\* No job gets lost or doubled, up to and including Shutdown.
JobsKept == JobsConserved /\ ShutdownDrains

\* A follow-up finds its session, and in it every turn answered before.
FollowUpsResume == FollowUpContinues /\ RememberedResumable

\* Under fairness the queue comes to rest: its jobs are concluded, and once
\* it is closed its workers end.
QueueDrains == EveryJobConcluded /\ WorkersEnd
=============================================================================
