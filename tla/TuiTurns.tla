------------------------------ MODULE TuiTurns ------------------------------
(***************************************************************************)
(* The turns of the interactive TUI (internal/ui/tui): the Update loop,    *)
(* which alone touches the Model; the goroutine of each agent run; the     *)
(* commands that pump a run's events into the loop; /compact, /new and     *)
(* /resume on the shared convoState.                                       *)
(*                                                                         *)
(* A run is named by the input it answers, inputs are numbered as they are *)
(* submitted, and a conversation is the set of the turns it holds: a       *)
(* summary still holds the turns it was made from.  What an agent run does *)
(* inside is the subject of AgentLoop.  A pump command reads an event and  *)
(* the loop handles it in one step.                                        *)
(***************************************************************************)
EXTENDS Integers, Sequences, FiniteSets

CONSTANTS
  MaxInputs,     \* bound on submitted inputs
  MaxEvents,     \* bound on the events of a run before Done
  ChanCap,       \* capacity of a run's event channel
  MaxSessions,   \* bound on sessions
  MaxCommands,   \* bound on /new, /resume and /compact
  Compactions,   \* compactions, manual or automatic
  Fullscreen,    \* CLOUDY_FULLSCREEN
  Overlap        \* the operator goes on while a cancelled run still ends

Inputs == 1..MaxInputs
Sessions == 1..MaxSessions
None == 0        \* no run

ASSUME TuiAssumption ==
  /\ MaxInputs \in Nat /\ MaxEvents \in Nat /\ ChanCap \in Nat \ {0}
  /\ MaxSessions \in Nat \ {0} /\ MaxCommands \in Nat
  /\ IsFiniteSet(Compactions)
  /\ Fullscreen \in BOOLEAN /\ Overlap \in BOOLEAN

VARIABLES
  \* The Model.
  running,    \* Model.running
  agentCh,    \* the run whose channel is Model.agentCh, or None
  cancel,     \* the run that Model.cancel cancels, or None
  queued,     \* Model.queuedInputs
  playback,   \* Model.playbackActive
  \* convoState, and the snapshots on disk.
  history, version, sess,
  disk,       \* disk[s]: the turns of the snapshot of session s
  \* The runs.
  pc,         \* "none", "starting", "running", "storing", "announcing",
              \* "closing" or "ended"
  done,       \* done[r]: the done channel is closed
  base,       \* base[r]: the history r was given, {} when it is through
  sessOf,     \* sessOf[r]: the session r writes to
  emitted,    \* emitted[r]: events emitted so far, 0 when it is through
  chan,       \* chan[r]: its buffered channel; closed when pc[r] = "ended"
  pumps,      \* pumps[r]: pump commands waiting on it
  \* The compactions.
  phase,      \* "none", "called", "summarising", "saving", "reporting", "over"
  taken,      \* taken[c]: the history it summarises
  startVer,   \* startVer[c]: the version it started from
  target,     \* target[c]: the session whose snapshot it replaces
  \* Counters.
  asked,      \* inputs submitted
  sessions,   \* sessions created
  commands    \* commands given

modelVars == <<running, agentCh, cancel, queued, playback>>
convoVars == <<history, version, sess>>
runVars == <<pc, done, base, sessOf, emitted, chan, pumps>>
compactVars == <<phase, taken, startVer, target>>
counters == <<asked, sessions, commands>>
vars == <<modelVars, convoVars, disk, runVars, compactVars, counters>>

Init ==
  /\ running = FALSE /\ agentCh = None /\ cancel = None
  /\ queued = <<>> /\ playback = FALSE
  /\ history = {} /\ version = 0 /\ sess = 1
  /\ disk = [s \in Sessions |-> {}]
  /\ pc = [r \in Inputs |-> "none"]
  /\ done = [r \in Inputs |-> FALSE]
  /\ base = [r \in Inputs |-> {}]
  /\ sessOf = [r \in Inputs |-> 0]
  /\ emitted = [r \in Inputs |-> 0]
  /\ chan = [r \in Inputs |-> <<>>]
  /\ pumps = [r \in Inputs |-> 0]
  /\ phase = [c \in Compactions |-> "none"]
  /\ taken = [c \in Compactions |-> {}]
  /\ startVer = [c \in Compactions |-> 0]
  /\ target = [c \in Compactions |-> 0]
  /\ asked = 0 /\ sessions = 1 /\ commands = 0

\* Variants of definitions below, each with one plausible slip.
RoomForOneMore(r) == Len(chan[r]) <= ChanCap
BusyRunning == running
AlwaysIdle == TRUE
NoVersionCheck(c) == TRUE
NoBump == version
NotFinalized == playback
NotRearmed(r) == [pumps EXCEPT ![r] = @ - 1]

-----------------------------------------------------------------------------
\* The Update loop.

\* runAgent: cancel the run before, start a goroutine and a pump for this
\* one; p is what the handler has left of the pumps.
RunAgent(i, p) ==
  /\ running' = TRUE
  /\ agentCh' = i
  /\ cancel' = i
  /\ done' = IF cancel = None THEN done ELSE [done EXCEPT ![cancel] = TRUE]
  /\ pc' = [pc EXCEPT ![i] = "starting"]
  /\ pumps' = [p EXCEPT ![i] = @ + 1]

\* dispatchQueuedInput at the end of a turn; run and ch are what the handler
\* has made of running and agentCh.
DispatchQueued(run, ch, p) ==
  \/ /\ queued = <<>>
     /\ running' = run
     /\ agentCh' = ch
     /\ pumps' = p
     /\ UNCHANGED <<queued, cancel, done, pc>>
  \/ /\ queued # <<>>
     /\ queued' = Tail(queued)
     /\ RunAgent(Head(queued), p)

\* commitTurn and writeStream finalise a reply that is still typing out, but
\* not in fullscreen mode.
Finalized == playback /\ Fullscreen

\* In the patient use of the TUI the operator lets a cancelled run end, and
\* its Done be handled, before going on.
Settled ==
  \/ Overlap
  \/ \A r \in Inputs : done[r] => pc[r] = "ended" /\ pumps[r] = 0

\* A turn is in flight, or follow-ups wait behind one.
Busy == running \/ queued # <<>>

\* submitMsg: queue the input behind the turn in flight, or finalise the
\* reply on screen and run it.
Submit ==
  /\ Settled
  /\ asked < MaxInputs
  /\ asked' = asked + 1
  /\ \/ /\ Busy
        /\ queued' = Append(queued, asked')
        /\ UNCHANGED <<running, agentCh, cancel, playback, done, pc, pumps>>
     \/ /\ ~Busy
        /\ playback' = Finalized
        /\ RunAgent(asked', pumps)
        /\ UNCHANGED queued
  /\ UNCHANGED <<convoVars, disk, base, sessOf, emitted, chan, compactVars,
                 sessions, commands>>

\* pumpAgentCmd is issued again, on the channel that is agentCh by now.
Rearmed(r) ==
  IF agentCh = None THEN [pumps EXCEPT ![r] = @ - 1]
  ELSE [[pumps EXCEPT ![r] = @ - 1] EXCEPT ![agentCh] = @ + 1]

\* agentEventMsg: show the event and go on reading.
HandleEvent(r) ==
  /\ pumps[r] > 0
  /\ chan[r] # <<>> /\ Head(chan[r]) = "event"
  /\ chan' = [chan EXCEPT ![r] = Tail(@)]
  /\ pumps' = Rearmed(r)
  /\ UNCHANGED <<modelVars, convoVars, disk, pc, done, base, sessOf, emitted,
                 compactVars, counters>>

\* maybeAutoCompactCmd, when the context is full enough.
MayAutoCompact ==
  \/ UNCHANGED phase
  \/ \E c \in Compactions :
       /\ phase[c] = "none"
       /\ phase' = [phase EXCEPT ![c] = "called"]

\* agentDoneMsg, for a Done event or a closed channel: with prose to show the
\* reply starts typing out, without it or after an error the turn is over.
HandleDone(r) ==
  /\ pumps[r] > 0
  /\ \/ /\ chan[r] # <<>> /\ Head(chan[r]) = "done"
        /\ chan' = [chan EXCEPT ![r] = Tail(@)]
     \/ /\ chan[r] = <<>> /\ pc[r] = "ended"
        /\ UNCHANGED chan
  /\ LET p == [pumps EXCEPT ![r] = @ - 1] IN
       \/ /\ playback' = TRUE
          /\ running' = FALSE
          /\ agentCh' = None
          /\ pumps' = p
          /\ UNCHANGED <<queued, cancel, done, pc>>
       \/ /\ playback' = FALSE
          /\ DispatchQueued(FALSE, None, p)
  /\ MayAutoCompact
  /\ UNCHANGED <<convoVars, disk, base, sessOf, emitted, taken, startVer,
                 target, counters>>

\* The last playbackTickMsg of a reply: the turn is over.
PlaybackEnds ==
  /\ playback
  /\ playback' = FALSE
  /\ DispatchQueued(running, agentCh, pumps)
  /\ UNCHANGED <<convoVars, disk, base, sessOf, emitted, chan, compactVars,
                 counters>>

\* Ctrl+C, and Esc while a turn is in flight: stop, and forget what is queued.
Interrupt ==
  /\ running \/ playback \/ queued # <<>> \/ cancel # None
  /\ done' = IF cancel = None THEN done ELSE [done EXCEPT ![cancel] = TRUE]
  /\ cancel' = None
  /\ running' = FALSE
  /\ playback' = FALSE
  /\ queued' = <<>>
  /\ UNCHANGED <<agentCh, convoVars, disk, pc, base, sessOf, emitted, chan,
                 pumps, compactVars, counters>>

\* /clear and Ctrl+L.
Clear ==
  /\ playback \/ queued # <<>>
  /\ playback' = FALSE
  /\ queued' = <<>>
  /\ UNCHANGED <<running, agentCh, cancel, convoVars, disk, runVars,
                 compactVars, counters>>

\* Any other command that writes to the stream, such as /help.
WriteStream ==
  /\ playback # Finalized
  /\ playback' = Finalized
  /\ UNCHANGED <<running, agentCh, cancel, queued, convoVars, disk, runVars,
                 compactVars, counters>>

\* /new, /resume and /compact are refused while a turn is in flight.
Idle == ~running

\* Every change of the history bumps the version.
Bumped == version + 1

\* /new: a fresh session and an empty history.
New ==
  /\ Settled /\ Idle
  /\ commands < MaxCommands /\ commands' = commands + 1
  /\ sessions < MaxSessions
  /\ sessions' = sessions + 1
  /\ sess' = sessions + 1
  /\ history' = {}
  /\ version' = Bumped
  /\ playback' = FALSE
  /\ UNCHANGED <<running, agentCh, cancel, queued, disk, runVars, compactVars,
                 asked>>

\* /resume: the snapshot of a session becomes the conversation.
Resume ==
  /\ Settled /\ Idle
  /\ commands < MaxCommands /\ commands' = commands + 1
  /\ \E s \in 1..sessions :
       /\ disk[s] # {}
       /\ sess' = s
       /\ history' = disk[s]
  /\ version' = Bumped
  /\ playback' = Finalized
  /\ UNCHANGED <<running, agentCh, cancel, queued, disk, runVars, compactVars,
                 asked, sessions>>

\* /compact starts the summariser beside the loop.
Compact ==
  /\ Settled /\ Idle
  /\ commands < MaxCommands /\ commands' = commands + 1
  /\ \E c \in Compactions :
       /\ phase[c] = "none"
       /\ phase' = [phase EXCEPT ![c] = "called"]
  /\ playback' = Finalized
  /\ UNCHANGED <<running, agentCh, cancel, queued, convoVars, disk, runVars,
                 taken, startVer, target, asked, sessions>>

-----------------------------------------------------------------------------
\* The goroutine of a run: the closure of makeAgentRunner, and what runAgent
\* wraps around it.

\* It takes history and session under state.mu.
Snapshot(r) ==
  /\ pc[r] = "starting"
  /\ pc' = [pc EXCEPT ![r] = "running"]
  /\ base' = [base EXCEPT ![r] = history]
  /\ sessOf' = [sessOf EXCEPT ![r] = sess]
  /\ UNCHANGED <<modelVars, convoVars, disk, done, emitted, chan, pumps,
                 compactVars, counters>>

Room(r) == Len(chan[r]) < ChanCap

\* emit: into the channel, or nowhere once done is closed; else it blocks.
Emit(r, e) ==
  \/ Room(r) /\ chan' = [chan EXCEPT ![r] = Append(@, e)]
  \/ done[r] /\ UNCHANGED chan

EmitEvent(r) ==
  /\ pc[r] = "running" /\ emitted[r] < MaxEvents
  /\ Emit(r, "event")
  /\ emitted' = [emitted EXCEPT ![r] = @ + 1]
  /\ UNCHANGED <<modelVars, convoVars, disk, pc, done, base, sessOf, pumps,
                 compactVars, counters>>

\* Run returns messages, also when it was cancelled or failed, and they
\* become the history; or it returns none, because it could not start.
Store(r) ==
  /\ pc[r] = "running"
  /\ \/ /\ history' = base[r] \cup {r}
        /\ version' = version + 1
        /\ pc' = [pc EXCEPT ![r] = "storing"]
        /\ UNCHANGED base
     \/ /\ pc' = [pc EXCEPT ![r] = "announcing"]
        /\ base' = [base EXCEPT ![r] = {}]
        /\ UNCHANGED <<history, version>>
  /\ emitted' = [emitted EXCEPT ![r] = 0]
  /\ UNCHANGED <<modelVars, sess, disk, done, sessOf, chan, pumps, compactVars,
                 counters>>

\* SaveHistory; its error is only logged.
Save(r) ==
  /\ pc[r] = "storing"
  /\ pc' = [pc EXCEPT ![r] = "announcing"]
  /\ \/ disk' = [disk EXCEPT ![sessOf[r]] = base[r] \cup {r}]
     \/ UNCHANGED disk
  /\ base' = [base EXCEPT ![r] = {}]
  /\ UNCHANGED <<modelVars, convoVars, done, sessOf, emitted, chan, pumps,
                 compactVars, counters>>

\* The closure emits Done through emit ...
Announce(r) ==
  /\ pc[r] = "announcing"
  /\ Emit(r, "done")
  /\ pc' = [pc EXCEPT ![r] = "closing"]
  /\ UNCHANGED <<modelVars, convoVars, disk, done, base, sessOf, emitted,
                 pumps, compactVars, counters>>

\* ... and the goroutine sends another, which it cannot give up, and closes
\* the channel.
Close(r) ==
  /\ pc[r] = "closing"
  /\ Room(r)
  /\ chan' = [chan EXCEPT ![r] = Append(@, "done")]
  /\ pc' = [pc EXCEPT ![r] = "ended"]
  /\ UNCHANGED <<modelVars, convoVars, disk, done, base, sessOf, emitted,
                 pumps, compactVars, counters>>

RunStep(r) ==
  Snapshot(r) \/ EmitEvent(r) \/ Store(r) \/ Save(r) \/ Announce(r) \/ Close(r)

-----------------------------------------------------------------------------
\* The command of a compaction: makeCompactHistory.

Take(c) ==
  /\ phase[c] = "called"
  /\ taken' = [taken EXCEPT ![c] = history]
  /\ startVer' = [startVer EXCEPT ![c] = version]
  /\ phase' = [phase EXCEPT ![c] = "summarising"]
  /\ UNCHANGED <<modelVars, convoVars, disk, runVars, target, counters>>

\* Nothing to compact, or the summariser fails.
SummaryFails(c) ==
  /\ phase[c] = "summarising"
  /\ phase' = [phase EXCEPT ![c] = "reporting"]
  /\ UNCHANGED <<modelVars, convoVars, disk, runVars, taken, startVer, target,
                 counters>>

SameVersion(c) == version = startVer[c]

\* The summary replaces the history, unless that changed meanwhile.
Install(c) ==
  /\ phase[c] = "summarising"
  /\ taken[c] # {}
  /\ \/ /\ SameVersion(c)
        /\ history' = taken[c]
        /\ version' = version + 1
        /\ target' = [target EXCEPT ![c] = sess]
        /\ phase' = [phase EXCEPT ![c] = "saving"]
     \/ /\ ~SameVersion(c)
        /\ phase' = [phase EXCEPT ![c] = "reporting"]
        /\ UNCHANGED <<history, version, target>>
  /\ UNCHANGED <<modelVars, sess, disk, runVars, taken, startVer, counters>>

SaveSummary(c) ==
  /\ phase[c] = "saving"
  /\ phase' = [phase EXCEPT ![c] = "reporting"]
  /\ \/ disk' = [disk EXCEPT ![target[c]] = taken[c]]
     \/ UNCHANGED disk
  /\ UNCHANGED <<modelVars, convoVars, runVars, taken, startVer, target,
                 counters>>

\* compactDoneMsg in the Update loop.
Report(c) ==
  /\ phase[c] = "reporting"
  /\ phase' = [phase EXCEPT ![c] = "over"]
  /\ taken' = [taken EXCEPT ![c] = {}]
  /\ startVer' = [startVer EXCEPT ![c] = 0]
  /\ target' = [target EXCEPT ![c] = 0]
  /\ playback' = Finalized
  /\ UNCHANGED <<running, agentCh, cancel, queued, convoVars, disk, runVars,
                 counters>>

CompactStep(c) ==
  Take(c) \/ SummaryFails(c) \/ Install(c) \/ SaveSummary(c) \/ Report(c)

-----------------------------------------------------------------------------
Operator ==
  Submit \/ Interrupt \/ Clear \/ WriteStream \/ New \/ Resume \/ Compact

Next ==
  \/ Operator
  \/ \E r \in Inputs : HandleEvent(r) \/ HandleDone(r) \/ RunStep(r)
  \/ PlaybackEnds
  \/ \E c \in Compactions : CompactStep(c)

\* The loop handles what it is sent, and a run goes on by itself.  Nothing
\* makes the operator act.
Fairness ==
  /\ \A r \in Inputs : WF_vars(HandleEvent(r) \/ HandleDone(r))
  /\ \A r \in Inputs : WF_vars(RunStep(r))
  /\ WF_vars(PlaybackEnds)

Spec == Init /\ [][Next]_vars
FairSpec == Spec /\ Fairness

-----------------------------------------------------------------------------
\* Properties.

RunPhases == {"none", "starting", "running", "storing", "announcing",
              "closing", "ended"}
CompactPhases == {"none", "called", "summarising", "saving", "reporting", "over"}

ModelTypeOK ==
  /\ running \in BOOLEAN /\ playback \in BOOLEAN
  /\ agentCh \in Inputs \cup {None} /\ cancel \in Inputs \cup {None}
  /\ queued \in Seq(Inputs)
  /\ asked \in 0..MaxInputs /\ commands \in 0..MaxCommands

ConvoTypeOK ==
  /\ history \subseteq Inputs /\ version \in Nat
  /\ sess \in Sessions /\ sessions \in Sessions
  /\ disk \in [Sessions -> SUBSET Inputs]

RunTypeOK ==
  /\ pc \in [Inputs -> RunPhases] /\ done \in [Inputs -> BOOLEAN]
  /\ base \in [Inputs -> SUBSET Inputs]
  /\ sessOf \in [Inputs -> Sessions \cup {0}]
  /\ emitted \in [Inputs -> 0..MaxEvents]
  /\ chan \in [Inputs -> Seq({"event", "done"})]
  /\ \A r \in Inputs : Len(chan[r]) <= ChanCap
  /\ pumps \in [Inputs -> Nat]

CompactTypeOK ==
  /\ phase \in [Compactions -> CompactPhases]
  /\ taken \in [Compactions -> SUBSET Inputs]
  /\ startVer \in [Compactions -> Nat]
  /\ target \in [Compactions -> Sessions \cup {0}]

\* The types of all variables; a channel never holds more than it has room for.
TypeOK == ModelTypeOK /\ ConvoTypeOK /\ RunTypeOK /\ CompactTypeOK

\* A session holds only turns that were begun in it: /new starts truly blank
\* and /resume continues that same conversation, in memory and on disk,
\* whatever runs and compactions were under way.  run.go:224 to 227 says why
\* it should be so: sess and history are stable for the duration of a turn.
SessionKeepsItsTurns ==
  /\ \A t \in history : sessOf[t] = sess
  /\ \A s \in Sessions : \A t \in disk[s] : sessOf[t] = s

\* No turn vanishes from the conversation but by /new and /resume: no run
\* and no compaction stores over a turn it does not know.
NoTurnVanishes ==
  [][\/ history \subseteq history'
     \/ sess' # sess
     \/ history' = disk[sess]]_history

\* A compaction replaces exactly the history it summarised (run.go:57 to 60:
\* a turn, /new or /resume is never clobbered by a stale compaction).
CompactionIsFresh ==
  [][\A c \in Compactions :
       phase[c] = "summarising" /\ phase'[c] = "saving" =>
         history = taken[c]]_phase

\* Inputs are run in the order they were submitted, direct or from the queue.
SubmittedOrder ==
  [][\A i \in Inputs : pc[i] = "none" /\ pc'[i] # "none" =>
       \A j \in Inputs : j > i => pc[j] = "none"]_pc

\* Every run ends, cancelled or not, and the loop learns of it: somebody reads
\* its channel until it has room for the last event, and no longer.  Inputs
\* are bounded, so the TUI comes to rest behind the last one.
AtRest == \A r \in Inputs : pc[r] \in {"none", "ended"} /\ pumps[r] = 0
TurnEnds == running ~> AtRest

\* A follow-up is dispatched only when no run is in flight (app.go:1342 to
\* 1344: the in-flight turn is never cancelled).
DispatchSparesTurn ==
  [][\A i \in Inputs : pc[i] = "none" /\ pc'[i] # "none" =>
       \A j \in Inputs : pc[j] \in {"none", "closing", "ended"} \/ done[j]]_pc
=============================================================================
